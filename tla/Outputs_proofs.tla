--------------------------- MODULE Outputs_proofs ---------------------------
(***************************************************************************)
(* Proofs about what is written to a place again and again: the writers of *)
(* an output directory, for any number of processes and attempts and any   *)
(* number of failures and kills; a run imported in chunks, for any source  *)
(* records; and the plans made from a workspace, for any files, Bundles,   *)
(* requests, candidates and diffs.                                         *)
(*                                                                         *)
(* The output survives because at every moment some complete version is    *)
(* either in place or in a backup that its owner is not about to delete    *)
(* (Survives); and an output that is away comes back because one process   *)
(* has yet to put something there and no failure left to stop it (Away).   *)
(* Which backups are about to be deleted differs from writer to writer     *)
(* (Doomed).                                                               *)
(*                                                                         *)
(* Chunks come out as one import because merging and linking both keep the *)
(* first record of a kind (Firsts), and doing that to the first of some    *)
(* and to some more is doing it to all of them (ChunkExtends).             *)
(*                                                                         *)
(* A READY plan read all there was because a context counts what it leaves *)
(* out: while the count is zero, every seed was read as it was at some     *)
(* moment, or may not be (Visited, WasRead), and no record was cut         *)
(* (NothingOmitted).  What is derived from a plan agrees with it because a *)
(* command that was not told otherwise still has the plan of the package   *)
(* (GoodConsumer).                                                         *)
(***************************************************************************)
EXTENDS PublishDirectory, RunNormalization, Planning, FiniteSetTheorems, WellFoundedInduction,
        TLAPS

Stops == {"idle", "staged", "screened", "screen", "move", "publish", "recover", "restore",
          "sweep", "clean"}

Complete(b) == b # None /\ b # Torn

\* A process of this protocol, at this point, may go on to delete its backup.
\* An Atlas writer that no error but a taken output path sent to its handler may
\* as well: somebody else's version is in place.
Doomed(protocol, at, took, failed) ==
    \/ took /\ at \in {"clean", "sweep"}
    \/ protocol = "audit" /\ at = "clean"
    \/ took /\ protocol = "atlas" /\ at \in {"recover", "restore"} /\ failed = 0

Safe(k) == \A t \in Publishers : Backup(t) = k => ~Doomed(Protocol, pc[t], moved[t], faults)
Kept(k) == Complete(shelf[k]) /\ Safe(k)
Survives == Complete(out) \/ \E k \in Backups : Kept(k)

\* A process that will still put its backup back, or a new version there.
Responsible(t) ==
    /\ moved[t] /\ shelf[Backup(t)] # None
    /\ pc[t] = "publish" \/ (pc[t] \in {"recover", "restore"} /\ faults = 1)

(***************************************************************************)
(* The invariant.                                                          *)
(***************************************************************************)

Typed ==
    /\ scene \in Scenes
    /\ out \in Bundles \cup {None}
    /\ shelf \in [Backups -> Bundles \cup {None}]
    /\ pc \in [Publishers -> Stops]
    /\ attempt \in [Publishers -> 0..MaxAttempts]
    /\ moved \in [Publishers -> BOOLEAN]
    /\ published \in Seq(Bundles)
    /\ acked \subseteq Bundles
    /\ overlapped \in BOOLEAN
    /\ faults \in 0..scene.faults /\ crashes \in 0..scene.crashes

\* Where a process can be, and what it can have moved when it is there.
Placed ==
    \A t \in Publishers :
        /\ pc[t] # "idle" => attempt[t] > 0
        /\ pc[t] \in {"staged", "screened", "screen", "move"} => ~moved[t]
        /\ pc[t] = "sweep" => Protocol = "atlas"

\* Writers that name a backup after the attempt have not used later names.
Unused ==
    Protocol \in {"run", "atlas"} =>
        \A t \in Publishers, n \in 0..MaxAttempts :
            (n > attempt[t] \/ (n = attempt[t] /\ ~moved[t])) => shelf[<<t, n>>] = None

\* An Atlas never puts back a directory whose deletion stopped half-way.
NotTorn ==
    Protocol = "atlas" =>
        /\ out # Torn
        /\ \A t \in Publishers : pc[t] # "idle" => shelf[<<t, attempt[t]>>] # Torn

OneAtATime ==
    ~overlapped => \A t, u \in Publishers : t # u => pc[t] = "idle" \/ pc[u] = "idle"

Survival ==
    (/\ published # <<>>
     /\ Protocol = "atlas" => faults <= 1
     /\ Protocol = "audit" => ~overlapped)
    => Survives

Away ==
    (/\ published # <<>> /\ crashes = 0 /\ faults <= 1
     /\ Protocol = "audit" => ~overlapped)
    => out # None \/ \E t \in Publishers : Responsible(t)

IInv ==
    /\ Typed /\ Placed /\ Unused /\ NotTorn /\ OneAtATime
    /\ Survival /\ Away

(***************************************************************************)
(* What a step of one process leaves alone.                                *)
(***************************************************************************)

Protocols == {"run", "atlas", "audit", "plan"}

\* Only t moves on, within one attempt, and touches no backup but its own.
Only(t) ==
    /\ scene' = scene /\ attempt' = attempt /\ overlapped' = overlapped /\ crashes' = crashes
    /\ faults' \in {faults, faults + 1}
    /\ \A u \in Publishers \ {t} : pc'[u] = pc[u] /\ moved'[u] = moved[u]
    /\ \A k \in Backups \ {Backup(t)} : shelf'[k] = shelf[k]

\* When Survival and Away say something.
Counted == (Protocol = "atlas" => faults <= 1) /\ (Protocol = "audit" => ~overlapped)
Calm == crashes = 0 /\ faults <= 1 /\ (Protocol = "audit" => ~overlapped)

LEMMA Basics ==
    ASSUME PublishAssumption, Typed
    PROVE  /\ Protocol \in Protocols /\ faults \in Nat /\ crashes \in Nat /\ MaxAttempts \in Nat
           /\ \A t \in Publishers : Backup(t) \in Backups /\ attempt[t] \in Nat
           /\ None \notin Bundles /\ Torn \in Bundles /\ Torn # None
<1>1. scene.faults \in Nat /\ scene.crashes \in Nat /\ Protocol \in Protocols
  BY DEF PublishAssumption, Typed, Protocol, Protocols
<1>2. MaxAttempts \in Nat /\ 0 \in 0..MaxAttempts
  BY DEF PublishAssumption
<1>3. \A t \in Publishers : attempt[t] \in 0..MaxAttempts
  BY DEF Typed
<1>4. \A t \in Publishers : Backup(t) \in Backups
  BY <1>2, <1>3 DEF Backup, Backups
<1>5. None \notin Bundles /\ Torn \in Bundles
  BY DEF PublishAssumption, Bundles
<1> QED
  BY <1>1, <1>2, <1>3, <1>4, <1>5 DEF Typed

\* Only audits share a backup.
LEMMA Owners ==
    ASSUME PublishAssumption, Typed, Protocol # "audit",
           NEW t \in Publishers, NEW u \in Publishers, Backup(t) = Backup(u)
    PROVE  t = u
BY Basics DEF Backup, Protocols

LEMMA BackupStays ==
    ASSUME NEW t \in Publishers, NEW u \in Publishers, scene' = scene, attempt' = attempt
    PROVE  Protocol' = Protocol /\ Backup(u)' = Backup(u)
BY DEF Backup, Protocol

\* A kept backup stays kept, if the process that moves spares it.
LEMMA StillKept ==
    ASSUME PublishAssumption, Typed, NEW t \in Publishers, Only(t), NEW k \in Backups, Kept(k),
           shelf'[k] = shelf[k],
           ~(Backup(t) = k /\ Doomed(Protocol, pc'[t], moved'[t], faults'))
    PROVE  Kept(k)'
<1>1. scene' = scene /\ attempt' = attempt
  BY DEF Only
<1>2. ASSUME NEW u \in Publishers, Backup(u) = k
      PROVE  ~Doomed(Protocol, pc'[u], moved'[u], faults')
  <2>1. CASE u = t
    BY <1>2, <2>1
  <2>2. CASE u # t
    <3>1. pc'[u] = pc[u] /\ moved'[u] = moved[u] /\ ~Doomed(Protocol, pc[u], moved[u], faults)
      BY <1>2, <2>2 DEF Only, Kept, Safe
    <3>2. faults' = 0 => faults = 0
      BY Basics DEF Only
    <3> QED
      BY <3>1, <3>2 DEF Doomed
  <2> QED
    BY <2>1, <2>2
<1>3. \A u \in Publishers : Backup(u)' = Backup(u) /\ Protocol' = Protocol
  BY <1>1, BackupStays
<1>4. Safe(k)'
  BY <1>2, <1>3 DEF Safe, Doomed
<1>5. Complete(shelf[k])'
  BY DEF Kept, Complete
<1> QED
  BY <1>4, <1>5 DEF Kept

\* A process that is responsible for the output stays so while others move.
LEMMA OthersResponsible ==
    ASSUME PublishAssumption, Typed, OneAtATime, NEW t \in Publishers, Only(t), pc[t] # "idle",
           NEW u \in Publishers, u # t, Responsible(u), Calm'
    PROVE  Responsible(u)'
<1>1. scene' = scene /\ attempt' = attempt
  BY DEF Only
<1>2. Backup(u)' = Backup(u) /\ Protocol' = Protocol
  BY <1>1, BackupStays
<1>3. pc[u] # "idle"
  BY DEF Responsible
<1>4. Protocol # "audit"
  BY <1>2, <1>3 DEF OneAtATime, Calm, Only
<1>5. Backup(u) # Backup(t) /\ Backup(u) \in Backups
  BY <1>4, Owners, Basics
<1>6. shelf'[Backup(u)] = shelf[Backup(u)] /\ pc'[u] = pc[u] /\ moved'[u] = moved[u]
  BY <1>5 DEF Only
<1>7. faults = 1 => faults' = 1
  BY Basics DEF Only, Calm
<1> QED
  BY <1>2, <1>6, <1>7 DEF Responsible

\* What is left to show of a step: it spares the backups that count, and the
\* process stays responsible or has put something in place.
LEMMA CarriesOver ==
    ASSUME PublishAssumption, IInv, NEW t \in Publishers, Only(t), pc[t] # "idle",
           Typed', Placed', Unused', NotTorn',
           published' # published => Complete(out') /\ out' # None,
           Counted' => (Complete(out) => Survives'),
           Counted' => \A k \in Backups : Kept(k) =>
               \/ Complete(out')
               \/ /\ shelf'[k] = shelf[k]
                  /\ ~(Backup(t) = k /\ Doomed(Protocol, pc'[t], moved'[t], faults')),
           Calm' => (out # None => out' # None \/ Responsible(t)'),
           Calm' => (Responsible(t) => out' # None \/ Responsible(t)')
    PROVE  IInv'
<1>0. Typed /\ OneAtATime /\ Survival /\ Away
  BY DEF IInv
<1>a. /\ scene' = scene /\ overlapped' = overlapped /\ crashes' = crashes
      /\ Protocol' = Protocol
      /\ faults' <= 1 => faults <= 1
  BY <1>0, Basics DEF Only, Protocol
<1>1. OneAtATime'
  BY <1>0, <1>a DEF OneAtATime, Only
<1>2. Survival'
  <2>1. SUFFICES ASSUME published' # <<>>, Counted'
                 PROVE  Survives'
    BY DEF Survival, Counted
  <2>2. CASE published' # published
    BY <2>2 DEF Survives, Complete
  <2>3. CASE published' = published
    <3>1. Survives
      BY <2>1, <2>3, <1>0, <1>a DEF Survival, Counted
    <3>2. CASE Complete(out)
      BY <3>2, <2>1
    <3>3. CASE ~Complete(out)
      <4>1. PICK k \in Backups : Kept(k)
        BY <3>1, <3>3 DEF Survives
      <4>2. CASE Complete(out')
        BY <4>2 DEF Survives, Complete
      <4>3. CASE ~Complete(out')
        <5>1. Kept(k)'
          BY <4>1, <4>3, <2>1, <1>0, StillKept
        <5> QED
          BY <5>1 DEF Survives
      <4> QED
        BY <4>2, <4>3
    <3> QED
      BY <3>2, <3>3
  <2> QED
    BY <2>2, <2>3
<1>3. Away'
  <2>1. SUFFICES ASSUME published' # <<>>, Calm'
                 PROVE  out' # None \/ \E u \in Publishers : Responsible(u)'
    BY DEF Away, Calm
  <2>2. CASE published' # published
    BY <2>2
  <2>3. CASE published' = published
    <3>1. out # None \/ \E u \in Publishers : Responsible(u)
      BY <2>1, <2>3, <1>0, <1>a DEF Away, Calm
    <3>2. CASE out # None
      BY <3>2, <2>1
    <3>3. CASE out = None
      <4>1. PICK u \in Publishers : Responsible(u)
        BY <3>1, <3>3
      <4>2. CASE u = t
        BY <4>1, <4>2, <2>1
      <4>3. CASE u # t
        <5>1. Responsible(u)'
          BY <4>1, <4>3, <2>1, <1>0, OthersResponsible
        <5> QED
          BY <5>1
      <4> QED
        BY <4>2, <4>3
    <3> QED
      BY <3>2, <3>3
  <2> QED
    BY <2>2, <2>3
<1> QED
  BY <1>1, <1>2, <1>3 DEF IInv

(***************************************************************************)
(* Steps in which a process only looks, or fails to rename.                *)
(***************************************************************************)

\* The process goes on to x.  It may not doom its backup thereby, unless
\* there is none or the output is in place.
LEMMA Passing ==
    ASSUME PublishAssumption, IInv, NEW t \in Publishers, NEW x \in Stops,
           pc[t] # "idle", pc' = [pc EXCEPT ![t] = x],
           UNCHANGED <<scene, out, shelf, attempt, moved, history, crashes>>,
           faults' \in {faults, faults + 1}, faults' <= scene.faults,
           x \in {"staged", "screened", "screen", "move"} => ~moved[t],
           x = "sweep" => Protocol = "atlas",
           Counted' => (Doomed(Protocol, x, moved[t], faults') =>
               \/ Doomed(Protocol, pc[t], moved[t], faults)
               \/ Complete(out) \/ ~Complete(shelf[Backup(t)])),
           Calm' => (Responsible(t) => out # None \/ Responsible(t)')
    PROVE  IInv'
<1>0. Typed /\ Placed /\ Unused /\ NotTorn
  BY DEF IInv
<1>1. /\ pc'[t] = x /\ moved' = moved /\ out' = out /\ shelf' = shelf /\ published' = published
      /\ \A u \in Publishers \ {t} : pc'[u] = pc[u]
      /\ pc' \in [Publishers -> Stops] /\ Protocol' = Protocol
  BY <1>0 DEF Typed, history, Protocol
<1>2. Only(t)
  BY <1>1 DEF Only, history
<1>3. Typed'
  BY <1>0, <1>1, Basics DEF Typed, history
<1>4. Placed'
  BY <1>0, <1>1 DEF Placed
<1>5. Unused' /\ NotTorn'
  BY <1>0, <1>1 DEF Unused, NotTorn
<1>6. Counted' => (Complete(out) => Survives')
  BY <1>1 DEF Survives, Complete
<1>7. ASSUME Counted', NEW k \in Backups, Kept(k), ~Complete(out')
      PROVE  shelf'[k] = shelf[k] /\ ~(Backup(t) = k /\ Doomed(Protocol, pc'[t], moved'[t], faults'))
  BY <1>1, <1>7 DEF Kept, Safe
<1> QED
  BY <1>0, <1>1, <1>2, <1>3, <1>4, <1>5, <1>6, <1>7, CarriesOver

LEMMA ScreenBackupHolds ==
    ASSUME PublishAssumption, IInv, NEW t \in Publishers, ScreenBackup(t), UNCHANGED scene
    PROVE  IInv'
<1>0. Typed /\ Placed
  BY DEF IInv
<1> DEFINE x == IF shelf[Shared] = None THEN "screened" ELSE "idle"
<1>1. /\ pc[t] = "staged" /\ pc' = [pc EXCEPT ![t] = x] /\ x \in Stops
      /\ UNCHANGED <<scene, out, shelf, attempt, moved, history, crashes>> /\ faults' = faults
      /\ x \in {"screened", "idle"}
  BY DEF ScreenBackup, Goto, Stops
<1> HIDE DEF x
<1>2. faults \in Nat /\ faults <= scene.faults /\ ~moved[t]
  BY <1>0, <1>1, Basics DEF Typed, Placed
<1>3. ~Doomed(Protocol, x, moved[t], faults') /\ ~Responsible(t)
  BY <1>1, <1>2 DEF Doomed, Responsible
<1> QED
  BY <1>1, <1>2, <1>3, Passing

LEMMA LookHolds ==
    ASSUME PublishAssumption, IInv, NEW t \in Publishers, Look(t), UNCHANGED scene
    PROVE  IInv'
<1>0. Typed /\ Placed
  BY DEF IInv
<1> DEFINE x == IF out = None THEN "publish" ELSE IF Protocol = "plan" THEN "screen" ELSE "move"
<1>1. /\ pc[t] \in {"staged", "screened"} /\ pc' = [pc EXCEPT ![t] = x]
      /\ UNCHANGED <<scene, out, shelf, attempt, moved, history, crashes>> /\ faults' = faults
  BY DEF Look, Goto
<1>a. x \in {"publish", "screen", "move"}
  OBVIOUS
<1> HIDE DEF x
<1>2. faults \in Nat /\ faults <= scene.faults /\ ~moved[t] /\ x \in Stops
  BY <1>0, <1>1, <1>a, Basics DEF Typed, Placed, Stops
<1>3. ~Doomed(Protocol, x, moved[t], faults') /\ ~Responsible(t)
  BY <1>1, <1>2, <1>a DEF Doomed, Responsible
<1> QED
  BY <1>1, <1>2, <1>3, <1>a, Passing

LEMMA RefuseStaleHolds ==
    ASSUME PublishAssumption, IInv, NEW t \in Publishers, RefuseStale(t), UNCHANGED scene
    PROVE  IInv'
<1>0. Typed /\ Placed
  BY DEF IInv
<1> DEFINE x == IF shelf[Backup(t)] = None THEN "move" ELSE "idle"
<1>1. /\ pc[t] = "screen" /\ pc' = [pc EXCEPT ![t] = x]
      /\ UNCHANGED <<scene, out, shelf, attempt, moved, history, crashes>> /\ faults' = faults
      /\ x \in {"move", "idle"} /\ x \in Stops
  BY DEF RefuseStale, Goto, Stops
<1> HIDE DEF x
<1>2. faults \in Nat /\ faults <= scene.faults /\ ~moved[t]
  BY <1>0, <1>1, Basics DEF Typed, Placed
<1>3. ~Doomed(Protocol, x, moved[t], faults') /\ ~Responsible(t)
  BY <1>1, <1>2 DEF Doomed, Responsible
<1> QED
  BY <1>1, <1>2, <1>3, Passing

\* The old directory cannot be moved aside.
LEMMA MoveFails ==
    ASSUME PublishAssumption, IInv, NEW t \in Publishers, UNCHANGED scene,
           Goto(t, "move", MoveFailed), NoFault \/ Fault,
           UNCHANGED <<out, shelf, attempt, moved, history, crashes>>
    PROVE  IInv'
<1>0. Typed /\ Placed
  BY DEF IInv
<1>1. /\ pc[t] = "move" /\ pc' = [pc EXCEPT ![t] = MoveFailed]
  BY DEF Goto
<1>a. /\ MoveFailed \in {"recover", "sweep", "idle"} /\ MoveFailed \in Stops
      /\ MoveFailed = "sweep" => Protocol = "atlas"
  BY DEF MoveFailed, Stops
<1>2. /\ faults \in Nat /\ faults <= scene.faults /\ ~moved[t]
      /\ faults' \in {faults, faults + 1} /\ faults' <= scene.faults
  <2>1. faults \in 0..scene.faults /\ scene.faults \in Nat
    BY <1>0 DEF Typed, PublishAssumption
  <2> QED
    BY <1>0, <1>1, <2>1 DEF Placed, NoFault, Fault
<1>3. ~Doomed(Protocol, MoveFailed, moved[t], faults') /\ ~Responsible(t)
  BY <1>1, <1>2, <1>a DEF Doomed, Responsible
<1> QED
  BY <1>1, <1>2, <1>3, <1>a, Passing

\* The new directory cannot be renamed in: something is there, or an error.
LEMMA PublishFails ==
    ASSUME PublishAssumption, IInv, NEW t \in Publishers, UNCHANGED scene,
           Goto(t, "publish", PublishFailed(t)),
           (out # None /\ NoFault) \/ (out = None /\ Fault),
           UNCHANGED <<out, shelf, attempt, moved, history, crashes>>
    PROVE  IInv'
<1>0. Typed /\ Placed /\ NotTorn
  BY DEF IInv
<1>1. /\ pc[t] = "publish" /\ pc' = [pc EXCEPT ![t] = PublishFailed(t)]
      /\ PublishFailed(t) \in {"recover", "idle"} /\ PublishFailed(t) \in Stops
      /\ moved[t] => PublishFailed(t) = "recover"
  BY DEF Goto, PublishFailed, Stops
<1>2. /\ faults \in Nat /\ faults <= scene.faults
      /\ faults' \in {faults, faults + 1} /\ faults' <= scene.faults
      /\ out = None => faults' = faults + 1
  <2>1. faults \in 0..scene.faults /\ scene.faults \in Nat
    BY <1>0 DEF Typed, PublishAssumption
  <2> QED
    BY <2>1 DEF NoFault, Fault
<1>3. Doomed(Protocol, PublishFailed(t), moved[t], faults') => Complete(out)
  BY <1>0, <1>1, <1>2 DEF Doomed, NotTorn, Complete
<1>4. Calm' => (Responsible(t) => out # None \/ Responsible(t)')
  <2>1. SUFFICES ASSUME Calm', Responsible(t), out = None
                 PROVE  Responsible(t)'
    OBVIOUS
  <2>2. faults' = 1
    BY <2>1, <1>2 DEF Calm
  <2>3. pc'[t] = "recover" /\ moved'[t]
    BY <2>1, <1>0, <1>1 DEF Typed, Responsible
  <2>4. shelf'[Backup(t)] # None /\ Backup(t)' = Backup(t)
    BY <2>1, BackupStays DEF Responsible
  <2> QED
    BY <2>2, <2>3, <2>4 DEF Responsible
<1> QED
  BY <1>1, <1>2, <1>3, <1>4, Passing

LEMMA RecoverHolds ==
    ASSUME PublishAssumption, IInv, NEW t \in Publishers, Recover(t), UNCHANGED scene
    PROVE  IInv'
<1>0. Typed /\ Placed /\ NotTorn /\ Unused
  BY DEF IInv
<1> DEFINE x == IF MayRestore(t) THEN "restore" ELSE Finish
<1>1. /\ pc[t] = "recover" /\ pc' = [pc EXCEPT ![t] = x]
      /\ UNCHANGED <<scene, out, shelf, attempt, moved, history, crashes>> /\ faults' = faults
  BY DEF Recover, Goto
<1>a. /\ x \in {"restore", "sweep", "idle"} /\ x \in Stops
      /\ x = "sweep" => Protocol = "atlas"
      /\ x = "restore" \/ ~MayRestore(t)
  BY DEF Finish, Stops
<1> HIDE DEF x
<1>2. faults \in Nat /\ faults <= scene.faults
  BY <1>0, Basics DEF Typed
<1>3. Doomed(Protocol, x, moved[t], faults') =>
          \/ Doomed(Protocol, pc[t], moved[t], faults)
          \/ Complete(out) \/ ~Complete(shelf[Backup(t)])
  <2>1. CASE x = "restore"
    BY <2>1, <1>1 DEF Doomed
  <2>2. CASE x = "sweep"
    BY <2>2, <1>0, <1>1, <1>a DEF Doomed, MayRestore, Complete, NotTorn
  <2>3. CASE x = "idle"
    BY <2>3 DEF Doomed
  <2> QED
    BY <2>1, <2>2, <2>3, <1>a
<1>4. Calm' => (Responsible(t) => out # None \/ Responsible(t)')
  <2>1. SUFFICES ASSUME Calm', Responsible(t), out = None
                 PROVE  Responsible(t)'
    OBVIOUS
  <2>2. MayRestore(t)
    BY <2>1, <1>0, Basics DEF MayRestore, Responsible, Protocols
  <2>3. pc'[t] = "restore" /\ moved'[t] /\ faults' = 1
    BY <2>1, <2>2, <1>0, <1>1, <1>a DEF Typed, Responsible
  <2>4. shelf'[Backup(t)] # None /\ Backup(t)' = Backup(t)
    BY <2>1, <1>1, BackupStays DEF Responsible
  <2> QED
    BY <2>3, <2>4 DEF Responsible
<1> QED
  BY <1>1, <1>2, <1>3, <1>4, <1>a, Passing

\* The old directory cannot be put back.
LEMMA RestoreFails ==
    ASSUME PublishAssumption, IInv, NEW t \in Publishers, UNCHANGED scene,
           Goto(t, "restore", Finish),
           \/ shelf[Backup(t)] # None /\ out = None /\ Fault
           \/ ~(shelf[Backup(t)] # None /\ out = None) /\ NoFault,
           UNCHANGED <<out, shelf, attempt, moved, history, crashes>>
    PROVE  IInv'
<1>0. Typed /\ Placed /\ NotTorn /\ Unused
  BY DEF IInv
<1>1. /\ pc[t] = "restore" /\ pc' = [pc EXCEPT ![t] = Finish]
      /\ Finish \in {"sweep", "idle"} /\ Finish \in Stops
      /\ Finish = "sweep" => Protocol = "atlas"
  BY DEF Goto, Finish, Stops
<1>2. /\ faults \in Nat /\ faults <= scene.faults
      /\ faults' \in {faults, faults + 1} /\ faults' <= scene.faults
      /\ (shelf[Backup(t)] # None /\ out = None) => faults' = faults + 1
  <2>1. faults \in 0..scene.faults /\ scene.faults \in Nat
    BY <1>0 DEF Typed, PublishAssumption
  <2> QED
    BY <2>1 DEF NoFault, Fault
<1>3. ASSUME Counted', Doomed(Protocol, Finish, moved[t], faults')
      PROVE  \/ Doomed(Protocol, pc[t], moved[t], faults)
             \/ Complete(out) \/ ~Complete(shelf[Backup(t)])
  <2>1. moved[t] /\ Protocol = "atlas" /\ faults' <= 1
    BY <1>1, <1>3 DEF Doomed, Counted, Protocol
  <2>2. CASE shelf[Backup(t)] # None /\ out = None
    <3>1. faults = 0
      BY <2>1, <2>2, <1>2
    <3> QED
      BY <3>1, <2>1, <1>1 DEF Doomed
  <2>3. CASE ~(shelf[Backup(t)] # None /\ out = None)
    BY <2>1, <2>3, <1>0 DEF NotTorn, Complete
  <2> QED
    BY <2>2, <2>3
<1>4. Calm' => (Responsible(t) => out # None \/ Responsible(t)')
  BY <1>1, <1>2 DEF Calm, Responsible
<1> QED
  BY <1>1, <1>2, <1>3, <1>4, Passing

(***************************************************************************)
(* Steps that rename or delete.                                            *)
(***************************************************************************)

LEMMA MoveOldHolds ==
    ASSUME PublishAssumption, IInv, NEW t \in Publishers, MoveOld(t), UNCHANGED scene
    PROVE  IInv'
<1>0. Typed /\ Placed /\ Unused /\ NotTorn /\ OneAtATime
  BY DEF IInv
<1> DEFINE b == Backup(t)
<1>1. CASE /\ Goto(t, "move", "publish")
           /\ out # None /\ shelf[b] = None
           /\ shelf' = [shelf EXCEPT ![b] = out]
           /\ out' = None
           /\ moved' = [moved EXCEPT ![t] = TRUE]
           /\ NoFault
           /\ UNCHANGED <<attempt, history, crashes>>
  <2>1. b \in Backups /\ faults \in Nat /\ attempt[t] \in Nat
    BY <1>0, Basics
  <2>2. /\ pc[t] = "move" /\ pc' = [pc EXCEPT ![t] = "publish"] /\ pc'[t] = "publish" /\ moved'[t]
        /\ \A u \in Publishers \ {t} : pc'[u] = pc[u] /\ moved'[u] = moved[u]
        /\ shelf'[b] = out /\ \A k \in Backups \ {b} : shelf'[k] = shelf[k]
        /\ published' = published /\ overlapped' = overlapped /\ acked' = acked
        /\ faults' = faults /\ Protocol' = Protocol
    BY <1>0, <1>1, <2>1 DEF Goto, Typed, NoFault, history, Protocol
  <2>3. Only(t)
    BY <1>1, <2>1, <2>2 DEF Only
  <2>4. Typed'
    BY <1>0, <1>1, <2>1, <2>2 DEF Typed, Stops
  <2>5. Placed'
    BY <1>0, <1>1, <2>2 DEF Placed
  <2>6. Unused' /\ NotTorn'
    <3>1. Protocol \in {"run", "atlas"} => b = <<t, attempt[t]>>
      BY DEF Backup
    <3>2. Unused'
      <4>1. SUFFICES ASSUME Protocol \in {"run", "atlas"}, NEW u \in Publishers,
                            NEW n \in 0..MaxAttempts,
                            n > attempt[u] \/ (n = attempt[u] /\ ~moved'[u])
                     PROVE  shelf'[<<u, n>>] = None
        BY <1>1, <2>2 DEF Unused
      <4>2. <<u, n>> # b
        BY <4>1, <3>1, <2>1, <2>2
      <4>3. n > attempt[u] \/ (n = attempt[u] /\ ~moved[u])
        BY <4>1, <2>2
      <4> QED
        BY <4>1, <4>2, <4>3, <1>0, <2>2 DEF Unused, Backups
    <3>3. NotTorn'
      <4>1. SUFFICES ASSUME Protocol = "atlas", NEW u \in Publishers, pc'[u] # "idle"
                     PROVE  shelf'[<<u, attempt[u]>>] # Torn
        BY <1>1, <2>2, <1>0, Basics DEF NotTorn
      <4>2. CASE u = t
        BY <4>1, <4>2, <3>1, <2>2, <1>0 DEF NotTorn
      <4>3. CASE u # t
        <5>1. <<u, attempt[u]>> # b /\ <<u, attempt[u]>> \in Backups
          BY <4>3, <3>1, <4>1, <1>0 DEF Backups, Typed
        <5> QED
          BY <5>1, <4>1, <4>3, <2>2, <1>0 DEF NotTorn
      <4> QED
        BY <4>2, <4>3
    <3> QED
      BY <3>2, <3>3
  <2>7. Counted' => (Complete(out) => Survives')
    <3>1. SUFFICES ASSUME Counted', Complete(out) PROVE Kept(b)'
      BY <2>1, <1>1, BackupStays DEF Survives
    <3>2. ASSUME NEW u \in Publishers, Backup(u)' = b
          PROVE  ~Doomed(Protocol, pc'[u], moved'[u], faults')
      <4>1. CASE u = t
        BY <4>1, <2>2 DEF Doomed
      <4>2. CASE u # t
        <5>1. Protocol = "audit"
          BY <3>2, <4>2, <1>0, <1>1, Owners, BackupStays
        <5>2. pc'[u] = "idle"
          BY <5>1, <3>1, <4>2, <2>2, <1>0 DEF Counted, OneAtATime
        <5> QED
          BY <5>2 DEF Doomed
      <4> QED
        BY <4>1, <4>2
    <3>3. Backup(t)' = b
      BY <1>1, BackupStays
    <3>4. Safe(b)'
      BY <3>2, <3>3, <2>2 DEF Safe, Doomed
    <3>5. Complete(shelf[b])'
      BY <3>1, <3>3, <2>2 DEF Complete
    <3> QED
      BY <3>4, <3>5 DEF Kept
  <2>8. ASSUME NEW k \in Backups, Kept(k)
        PROVE  shelf'[k] = shelf[k] /\ b # k
    BY <2>8, <1>1, <2>2 DEF Kept, Complete
  <2>9. Responsible(t)'
    <3>1. Backup(t)' = b
      BY <1>1, BackupStays
    <3> QED
      BY <3>1, <1>1, <2>2 DEF Responsible
  <2> HIDE DEF b
  <2>10. b = Backup(t)
    BY DEF b
  <2> QED
    BY <2>2, <2>3, <2>4, <2>5, <2>6, <2>7, <2>8, <2>9, <2>10, CarriesOver
<1>2. CASE /\ Goto(t, "move", MoveFailed)
           /\ IF out = None \/ shelf[b] # None THEN NoFault ELSE Fault
           /\ UNCHANGED <<out, shelf, attempt, moved, history, crashes>>
  BY <1>2, MoveFails
<1> QED
  BY <1>1, <1>2 DEF MoveOld

LEMMA PublishHolds ==
    ASSUME PublishAssumption, IInv, NEW t \in Publishers, Publish(t), UNCHANGED scene
    PROVE  IInv'
<1>0. Typed /\ Placed /\ Unused /\ NotTorn
  BY DEF IInv
<1>1. CASE /\ Goto(t, "publish", "clean")
           /\ out = None
           /\ out' = Mine(t)
           /\ published' = Append(published, Mine(t))
           /\ NoFault
           /\ UNCHANGED <<shelf, attempt, moved, acked, overlapped, crashes>>
  <2>1. /\ pc[t] = "publish" /\ pc' = [pc EXCEPT ![t] = "clean"] /\ pc'[t] = "clean"
        /\ \A u \in Publishers \ {t} : pc'[u] = pc[u]
        /\ faults' = faults /\ faults \in Nat /\ Protocol' = Protocol
    BY <1>0, <1>1, Basics DEF Goto, Typed, NoFault, Protocol
  <2>2. Mine(t) \in Versions /\ Mine(t) \in Bundles /\ Complete(out')
    <3>1. attempt[t] \in 1..MaxAttempts
      BY <1>0, <2>1, Basics DEF Typed, Placed
    <3>2. Mine(t) \in Versions
      BY <3>1 DEF Mine, Versions
    <3> QED
      BY <3>2, <1>1 DEF Bundles, Complete, PublishAssumption
  <2>3. Only(t)
    BY <1>1, <2>1 DEF Only
  <2>4. Typed'
    BY <1>0, <1>1, <2>1, <2>2 DEF Typed, Stops
  <2>5. Placed' /\ Unused'
    BY <1>0, <1>1, <2>1 DEF Placed, Unused
  <2>6. NotTorn'
    BY <1>0, <1>1, <2>1, <2>2 DEF NotTorn, Complete
  <2>7. Survives'
    BY <2>2 DEF Survives, Complete
  <2>8. out' # None
    BY <2>2 DEF Complete
  <2> QED
    BY <2>1, <2>2, <2>3, <2>4, <2>5, <2>6, <2>7, <2>8, CarriesOver
<1>2. CASE /\ Goto(t, "publish", PublishFailed(t))
           /\ IF out # None THEN NoFault ELSE Fault
           /\ UNCHANGED <<out, shelf, attempt, moved, history, crashes>>
  BY <1>2, PublishFails
<1> QED
  BY <1>1, <1>2 DEF Publish

LEMMA RestoreHolds ==
    ASSUME PublishAssumption, IInv, NEW t \in Publishers, Restore(t), UNCHANGED scene
    PROVE  IInv'
<1>0. Typed /\ Placed /\ Unused /\ NotTorn
  BY DEF IInv
<1> DEFINE b == Backup(t)
<1>1. CASE /\ Goto(t, "restore", Finish)
           /\ shelf[b] # None /\ out = None
           /\ out' = shelf[b]
           /\ shelf' = [shelf EXCEPT ![b] = None]
           /\ NoFault
           /\ UNCHANGED <<attempt, moved, history, crashes>>
  <2>1. b \in Backups /\ faults \in Nat /\ attempt[t] \in Nat
    BY <1>0, Basics
  <2>2. /\ pc[t] = "restore" /\ pc' = [pc EXCEPT ![t] = Finish] /\ pc'[t] = Finish
        /\ Finish \in {"idle", "sweep"} /\ (Finish = "sweep" => Protocol = "atlas")
        /\ \A u \in Publishers \ {t} : pc'[u] = pc[u] /\ moved'[u] = moved[u]
        /\ shelf'[b] = None /\ \A k \in Backups \ {b} : shelf'[k] = shelf[k]
        /\ published' = published /\ overlapped' = overlapped /\ acked' = acked
        /\ faults' = faults /\ Protocol' = Protocol
    BY <1>0, <1>1, <2>1 DEF Goto, Typed, NoFault, history, Protocol, Finish
  <2>3. Only(t)
    BY <1>1, <2>1, <2>2 DEF Only
  <2>4. Typed'
    BY <1>0, <1>1, <2>1, <2>2 DEF Typed, Stops
  <2>5. Placed'
    BY <1>0, <1>1, <2>2 DEF Placed
  <2>6. \A k \in Backups : shelf'[k] = None \/ shelf'[k] = shelf[k]
    BY <2>2
  <2>7. Unused'
    BY <1>0, <1>1, <2>2, <2>6 DEF Unused, Backups
  <2>8. NotTorn'
    <3>1. SUFFICES ASSUME Protocol = "atlas"
                   PROVE  /\ out' # Torn
                          /\ \A u \in Publishers : pc'[u] # "idle" =>
                                 shelf'[<<u, attempt[u]>>] # Torn
      BY <1>1, <2>2 DEF NotTorn
    <3>2. b = <<t, attempt[t]>>
      BY <3>1 DEF Backup
    <3>3. ASSUME NEW u \in Publishers, pc'[u] # "idle"
          PROVE  shelf'[<<u, attempt[u]>>] # Torn
      <4>1. <<u, attempt[u]>> \in Backups /\ pc[u] # "idle"
        BY <3>3, <2>2, <1>0 DEF Backups, Typed
      <4> QED
        BY <4>1, <2>6, <3>1, <1>0, Basics DEF NotTorn
    <3> QED
      BY <3>1, <3>2, <3>3, <2>2, <1>0, <1>1 DEF NotTorn
  <2>9. ~Complete(out)
    BY <1>1 DEF Complete
  <2>10. ASSUME NEW k \in Backups, Kept(k), ~Complete(out')
         PROVE  shelf'[k] = shelf[k] /\ b # k
    BY <2>10, <1>1, <2>2 DEF Kept
  <2>11. out' # None
    BY <1>1
  <2> HIDE DEF b
  <2>12. b = Backup(t)
    BY DEF b
  <2> QED
    BY <2>2, <2>3, <2>4, <2>5, <2>7, <2>8, <2>9, <2>10, <2>11, <2>12, CarriesOver
<1>2. CASE /\ Goto(t, "restore", Finish)
           /\ IF shelf[b] # None /\ out = None THEN Fault ELSE NoFault
           /\ UNCHANGED <<out, shelf>>
           /\ UNCHANGED <<attempt, moved, history, crashes>>
  BY <1>2, RestoreFails
<1> QED
  BY <1>1, <1>2 DEF Restore

\* A process empties or spoils its own backup, when that is doomed or holds
\* nothing, and the output stays.
LEMMA Discarding ==
    ASSUME PublishAssumption, IInv, NEW t \in Publishers, NEW x \in {"idle", "recover"},
           pc[t] \in {"sweep", "clean"}, pc' = [pc EXCEPT ![t] = x],
           NEW left \in {None, Torn},
           shelf' = [shelf EXCEPT ![Backup(t)] = left] \/ shelf' = shelf,
           shelf' # shelf => ~Kept(Backup(t)),
           Protocol = "atlas" => x = "idle",
           left = Torn => x = "recover" \/ Protocol # "run",
           left = Torn => moved[t] \/ Protocol \notin {"run", "atlas"},
           faults' \in {faults, faults + 1}, faults' <= scene.faults,
           UNCHANGED <<scene, out, attempt, moved, published, overlapped, crashes>>,
           acked' \subseteq Bundles
    PROVE  IInv'
<1>0. Typed /\ Placed /\ Unused /\ NotTorn
  BY DEF IInv
<1> DEFINE b == Backup(t)
<1>1. b \in Backups /\ faults \in Nat /\ attempt[t] \in Nat /\ left \in Bundles \cup {None}
  BY <1>0, Basics
<1>2. /\ pc'[t] = x /\ x \in Stops /\ \A u \in Publishers \ {t} : pc'[u] = pc[u]
      /\ \A k \in Backups \ {b} : shelf'[k] = shelf[k]
      /\ shelf'[b] \in {left, shelf[b]}
      /\ shelf' \in [Backups -> Bundles \cup {None}]
      /\ Protocol' = Protocol
  BY <1>0, <1>1 DEF Typed, Stops, Protocol
<1>3. Only(t)
  BY <1>1, <1>2 DEF Only
<1>4. Typed'
  BY <1>0, <1>1, <1>2, Basics DEF Typed
<1>5. Placed'
  BY <1>0, <1>2 DEF Placed
<1>6. Unused'
  <2>1. SUFFICES ASSUME Protocol \in {"run", "atlas"}, NEW u \in Publishers,
                        NEW n \in 0..MaxAttempts,
                        n > attempt[u] \/ (n = attempt[u] /\ ~moved[u])
                 PROVE  shelf'[<<u, n>>] = None
    BY <1>2 DEF Unused
  <2>2. shelf[<<u, n>>] = None /\ <<u, n>> \in Backups
    BY <2>1, <1>0 DEF Unused, Backups
  <2>3. CASE <<u, n>> # b
    BY <2>2, <2>3, <1>2
  <2>4. CASE <<u, n>> = b
    <3>1. u = t /\ n = attempt[t]
      BY <2>1, <2>4 DEF Backup
    <3>2. left = None
      BY <2>1, <3>1, <1>1
    <3> QED
      BY <3>2, <2>2, <2>4, <1>2
  <2> QED
    BY <2>3, <2>4
<1>7. NotTorn'
  <2>1. SUFFICES ASSUME Protocol = "atlas", NEW u \in Publishers, pc'[u] # "idle"
                 PROVE  shelf'[<<u, attempt[u]>>] # Torn
    BY <1>0, <1>2 DEF NotTorn
  <2>2. u # t /\ b = <<t, attempt[t]>> /\ <<u, attempt[u]>> \in Backups
    BY <2>1, <1>2, <1>0 DEF Backup, Backups, Typed
  <2> QED
    BY <2>1, <2>2, <1>0, <1>2 DEF NotTorn
<1>8. Complete(out) => Survives'
  BY DEF Survives, Complete
<1>9. ASSUME NEW k \in Backups, Kept(k)
      PROVE  shelf'[k] = shelf[k] /\ ~(b = k /\ Doomed(Protocol, pc'[t], moved'[t], faults'))
  <2>1. shelf'[k] = shelf[k]
    BY <1>9, <1>2
  <2>2. CASE x = "idle"
    BY <2>1, <2>2, <1>2 DEF Doomed
  <2>3. CASE x = "recover"
    BY <2>1, <2>3, <1>2 DEF Doomed
  <2> QED
    BY <2>2, <2>3
<1>10. ~Responsible(t)
  BY DEF Responsible
<1> HIDE DEF b
<1>11. b = Backup(t)
  BY DEF b
<1> QED
  BY <1>2, <1>3, <1>4, <1>5, <1>6, <1>7, <1>8, <1>9, <1>10, <1>11, <1>0, CarriesOver

LEMMA SweepHolds ==
    ASSUME PublishAssumption, IInv, NEW t \in Publishers, Sweep(t), UNCHANGED scene
    PROVE  IInv'
<1>0. Typed /\ Placed /\ Unused
  BY DEF IInv
<1>1. /\ pc[t] = "sweep" /\ pc' = [pc EXCEPT ![t] = "idle"]
      /\ shelf' = [shelf EXCEPT ![Backup(t)] = None]
      /\ faults' = faults
      /\ UNCHANGED <<scene, out, attempt, moved, published, overlapped, crashes, acked>>
  BY DEF Sweep, Goto, history
<1>2. Protocol = "atlas" /\ Backup(t) = <<t, attempt[t]>> /\ faults <= scene.faults
  BY <1>0, <1>1, Basics DEF Placed, Backup, Typed
<1>3. ~Kept(Backup(t))
  <2>1. CASE moved[t]
    BY <2>1, <1>1 DEF Kept, Safe, Doomed
  <2>2. CASE ~moved[t]
    <3>1. shelf[<<t, attempt[t]>>] = None
      BY <2>2, <1>0, <1>2, Basics DEF Unused, Typed
    <3> QED
      BY <3>1, <1>2 DEF Kept, Complete
  <2> QED
    BY <2>1, <2>2
<1>4. acked' \subseteq Bundles
  BY <1>0, <1>1 DEF Typed
<1>5. None # Torn
  BY <1>0, Basics
<1> QED
  BY <1>1, <1>2, <1>3, <1>4, <1>5, Discarding

LEMMA CleanHolds ==
    ASSUME PublishAssumption, IInv, NEW t \in Publishers, Clean(t), UNCHANGED scene
    PROVE  IInv'
<1>0. Typed /\ Placed
  BY DEF IInv
<1>1. pc[t] = "clean" /\ faults \in 0..scene.faults /\ scene.faults \in Nat /\ None # Torn
  BY <1>0, Basics DEF Clean, Goto, Typed, PublishAssumption
<1>2. (moved[t] \/ Protocol = "audit") => ~Kept(Backup(t))
  BY <1>1 DEF Kept, Safe, Doomed
<1>a. None \in {None, Torn} /\ "idle" \in {"idle", "recover"} /\ pc[t] \in {"sweep", "clean"}
  BY <1>1
<1>3. CASE /\ Goto(t, "clean", "idle")
           /\ shelf' = [shelf EXCEPT ![Backup(t)] =
                           IF moved[t] \/ Protocol = "audit" THEN None ELSE @]
           /\ acked' = acked \cup {Mine(t)}
           /\ NoFault
           /\ UNCHANGED <<out, attempt, moved, published, overlapped, crashes>>
  <2>1. attempt[t] \in 1..MaxAttempts
    BY <1>0, <1>1, Basics DEF Typed, Placed
  <2>2. Mine(t) \in Bundles
    BY <2>1 DEF Mine, Bundles, Versions
  <2>3. acked' \subseteq Bundles
    BY <2>2, <1>3, <1>0 DEF Typed
  <2>0. /\ pc' = [pc EXCEPT ![t] = "idle"]
        /\ faults' \in {faults, faults + 1} /\ faults' <= scene.faults
        /\ UNCHANGED <<scene, out, attempt, moved, published, overlapped, crashes>>
    BY <1>1, <1>3 DEF Goto, NoFault
  <2>4. CASE moved[t] \/ Protocol = "audit"
    <3>1. shelf' = [shelf EXCEPT ![Backup(t)] = None]
      BY <2>4, <1>3
    <3> QED
      BY <3>1, <2>0, <2>3, <2>4, <1>a, <1>1, <1>2, Discarding
  <2>5. CASE ~(moved[t] \/ Protocol = "audit")
    <3>1. shelf' = shelf
      BY <2>5, <1>3, <1>0 DEF Typed
    <3> QED
      BY <3>1, <2>0, <2>3, <1>a, <1>1, Discarding
  <2> QED
    BY <2>4, <2>5
<1>4. CASE /\ Goto(t, "clean", IF Protocol = "run" THEN "recover" ELSE "idle")
           /\ shelf[Backup(t)] # None
           /\ moved[t] \/ Protocol = "audit"
           /\ shelf' = [shelf EXCEPT ![Backup(t)] = Torn]
           /\ Fault
           /\ UNCHANGED <<out, attempt, moved, history, crashes>>
  <2> DEFINE x == IF Protocol = "run" THEN "recover" ELSE "idle"
  <2>1. /\ pc' = [pc EXCEPT ![t] = x] /\ x \in {"idle", "recover"}
        /\ Protocol = "run" => x = "recover"
        /\ Protocol = "atlas" => x = "idle"
        /\ faults' = faults + 1 /\ faults' <= scene.faults
        /\ UNCHANGED <<scene, out, attempt, moved, published, overlapped, crashes, acked>>
    BY <1>4, <1>1 DEF Goto, Fault, history
  <2> HIDE DEF x
  <2>2. acked' \subseteq Bundles
    BY <1>0, <2>1 DEF Typed
  <2> QED
    BY <2>1, <2>2, <1>1, <1>2, <1>4, Discarding
<1> QED
  BY <1>3, <1>4 DEF Clean

(***************************************************************************)
(* A new attempt, and a killed process.                                    *)
(***************************************************************************)

LEMMA StageHolds ==
    ASSUME PublishAssumption, IInv, NEW t \in Publishers, Stage(t), UNCHANGED scene
    PROVE  IInv'
<1>0. Typed /\ Placed /\ Unused /\ NotTorn /\ OneAtATime /\ Survival /\ Away
  BY DEF IInv
<1>1. /\ pc[t] = "idle" /\ pc' = [pc EXCEPT ![t] = "staged"]
      /\ attempt[t] < MaxAttempts /\ attempt' = [attempt EXCEPT ![t] = @ + 1]
      /\ moved' = [moved EXCEPT ![t] = FALSE]
      /\ overlapped' = (overlapped \/ \E u \in Publishers \ {t} : pc[u] # "idle")
      /\ UNCHANGED <<scene, out, shelf, published, acked, faults, crashes>>
  BY DEF Stage, Goto
<1>2. /\ pc'[t] = "staged" /\ ~moved'[t] /\ attempt'[t] = attempt[t] + 1 /\ attempt[t] \in Nat
      /\ attempt'[t] \in 0..MaxAttempts
      /\ \A u \in Publishers \ {t} : /\ pc'[u] = pc[u] /\ moved'[u] = moved[u]
                                     /\ attempt'[u] = attempt[u]
                                     /\ Backup(u)' = Backup(u)
      /\ Protocol' = Protocol
  BY <1>0, <1>1, Basics DEF Typed, Backup, Protocol
<1>3. overlapped' \in BOOLEAN /\ (~overlapped' => ~overlapped)
  BY <1>0, <1>1 DEF Typed
<1>4. Typed'
  BY <1>0, <1>1, <1>2, <1>3 DEF Typed, Stops
<1>5. Placed'
  BY <1>0, <1>1, <1>2 DEF Placed
<1>6. Unused'
  <2>1. SUFFICES ASSUME Protocol \in {"run", "atlas"}, NEW u \in Publishers,
                        NEW n \in 0..MaxAttempts,
                        n > attempt'[u] \/ (n = attempt'[u] /\ ~moved'[u])
                 PROVE  shelf[<<u, n>>] = None
    BY <1>1, <1>2 DEF Unused
  <2>2. n > attempt[u] \/ (n = attempt[u] /\ ~moved[u])
    BY <2>1, <1>2
  <2> QED
    BY <2>1, <2>2, <1>0 DEF Unused
<1>7. NotTorn'
  <2>1. SUFFICES ASSUME Protocol = "atlas", NEW u \in Publishers, pc'[u] # "idle"
                 PROVE  shelf[<<u, attempt'[u]>>] # Torn
    BY <1>0, <1>1, <1>2 DEF NotTorn
  <2>2. CASE u = t
    <3>1. shelf[<<t, attempt'[t]>>] = None
      BY <2>1, <1>0, <1>2 DEF Unused
    <3> QED
      BY <3>1, <2>2, <1>0, Basics
  <2>3. CASE u # t
    BY <2>1, <2>3, <1>0, <1>2 DEF NotTorn
  <2> QED
    BY <2>2, <2>3
<1>8. OneAtATime'
  <2>1. SUFFICES ASSUME ~overlapped', NEW u \in Publishers, NEW v \in Publishers, u # v
                 PROVE  pc'[u] = "idle" \/ pc'[v] = "idle"
    BY DEF OneAtATime
  <2>2. \A w \in Publishers \ {t} : pc'[w] = "idle"
    BY <2>1, <1>1, <1>2
  <2> QED
    BY <2>1, <2>2
<1>9. Survival'
  <2>1. SUFFICES ASSUME published # <<>>, Counted'
                 PROVE  Survives'
    BY <1>1 DEF Survival, Counted
  <2>2. Survives
    BY <2>1, <1>0, <1>1, <1>2, <1>3 DEF Survival, Counted
  <2>3. ASSUME NEW k \in Backups, Kept(k)
        PROVE  Kept(k)'
    <3>1. ASSUME NEW u \in Publishers, Backup(u)' = k
          PROVE  ~Doomed(Protocol, pc'[u], moved'[u], faults')
      <4>1. CASE u = t
        BY <4>1, <1>2 DEF Doomed
      <4>2. CASE u # t
        BY <4>2, <3>1, <2>3, <1>1, <1>2 DEF Kept, Safe
      <4> QED
        BY <4>1, <4>2
    <3>2. Safe(k)'
      BY <3>1, <1>2 DEF Safe, Doomed
    <3>3. Complete(shelf[k])'
      BY <2>3, <1>1 DEF Kept, Complete
    <3> QED
      BY <3>2, <3>3 DEF Kept
  <2>4. Complete(out) => Survives'
    BY <1>1 DEF Survives, Complete
  <2> QED
    BY <2>2, <2>3, <2>4 DEF Survives
<1>10. Away'
  <2>1. ASSUME NEW u \in Publishers, Responsible(u)
        PROVE  Responsible(u)'
    <3>1. u # t
      BY <2>1, <1>1 DEF Responsible
    <3> QED
      BY <3>1, <2>1, <1>1, <1>2 DEF Responsible
  <2>2. SUFFICES ASSUME published # <<>>, Calm'
                 PROVE  out' # None \/ \E u \in Publishers : Responsible(u)'
    BY <1>1 DEF Away, Calm
  <2>3. out # None \/ \E u \in Publishers : Responsible(u)
    BY <2>2, <1>0, <1>1, <1>2, <1>3 DEF Away, Calm
  <2> QED
    BY <2>1, <2>3, <1>1
<1> QED
  BY <1>4, <1>5, <1>6, <1>7, <1>8, <1>9, <1>10 DEF IInv

LEMMA CrashHolds ==
    ASSUME PublishAssumption, IInv, NEW t \in Publishers, Crash(t), UNCHANGED scene
    PROVE  IInv'
<1>0. Typed /\ Placed /\ Unused /\ NotTorn /\ OneAtATime /\ Survival
  BY DEF IInv
<1>1. /\ pc' = [pc EXCEPT ![t] = "idle"] /\ crashes' = crashes + 1 /\ crashes < scene.crashes
      /\ UNCHANGED <<scene, out, shelf, attempt, moved, published, acked, overlapped, faults>>
  BY DEF Crash, history
<1>2. /\ pc'[t] = "idle" /\ \A u \in Publishers \ {t} : pc'[u] = pc[u]
      /\ crashes \in Nat /\ scene.crashes \in Nat /\ Protocol' = Protocol
      /\ \A u \in Publishers : Backup(u)' = Backup(u)
  BY <1>0, <1>1, Basics DEF Typed, PublishAssumption, Backup, Protocol
<1>3. Typed'
  BY <1>0, <1>1, <1>2 DEF Typed, Stops
<1>4. Placed' /\ OneAtATime'
  BY <1>0, <1>1, <1>2 DEF Placed, OneAtATime
<1>5. Unused' /\ NotTorn'
  BY <1>0, <1>1, <1>2 DEF Unused, NotTorn
<1>6. Survival'
  <2>1. ASSUME NEW k \in Backups, Kept(k)
        PROVE  Kept(k)'
    <3>1. ASSUME NEW u \in Publishers, Backup(u)' = k
          PROVE  ~Doomed(Protocol, pc'[u], moved'[u], faults')
      <4>1. CASE u = t
        BY <4>1, <1>2 DEF Doomed
      <4>2. CASE u # t
        BY <4>2, <3>1, <2>1, <1>1, <1>2 DEF Kept, Safe
      <4> QED
        BY <4>1, <4>2
    <3>2. Safe(k)'
      BY <3>1, <1>2 DEF Safe, Doomed
    <3>3. Complete(shelf[k])'
      BY <2>1, <1>1 DEF Kept, Complete
    <3> QED
      BY <3>2, <3>3 DEF Kept
  <2>2. Complete(out) => Survives'
    BY <1>1 DEF Survives, Complete
  <2>3. Survives => Survives'
    BY <2>1, <2>2 DEF Survives
  <2> QED
    BY <2>3, <1>0, <1>1, <1>2 DEF Survival
<1>7. Away'
  BY <1>1, <1>2 DEF Away
<1> QED
  BY <1>3, <1>4, <1>5, <1>6, <1>7 DEF IInv

(***************************************************************************)
(* The theorems.                                                           *)
(***************************************************************************)

LEMMA InitInvariant ==
    ASSUME PublishAssumption, Init
    PROVE  IInv
<1>1. MaxAttempts \in Nat /\ scene.faults \in Nat /\ scene.crashes \in Nat
  BY DEF PublishAssumption, Init
<1>2. Typed
  <2>1. /\ scene \in Scenes /\ out \in Bundles \cup {None} /\ acked \subseteq Bundles
        /\ shelf \in [Backups -> Bundles \cup {None}]
        /\ moved \in [Publishers -> BOOLEAN] /\ overlapped \in BOOLEAN
    BY DEF Init, Bundles, Versions
  <2>2. pc \in [Publishers -> Stops] /\ attempt \in [Publishers -> 0..MaxAttempts]
    BY <1>1 DEF Init, Stops
  <2>3. published \in Seq(Bundles)
    <3>1. <<>> \in Seq(Bundles) /\ <<Original>> \in Seq(Bundles)
      BY DEF Bundles, Versions
    <3> QED
      BY <3>1 DEF Init
  <2>4. faults \in 0..scene.faults /\ crashes \in 0..scene.crashes
    BY <1>1 DEF Init
  <2> QED
    BY <2>1, <2>2, <2>3, <2>4 DEF Typed
<1>3. Placed /\ OneAtATime /\ NotTorn
  <2>1. Original # Torn /\ None # Torn
    BY DEF PublishAssumption, Bundles, Versions
  <2> QED
    BY <2>1 DEF Init, Placed, OneAtATime, NotTorn
<1>4. Unused
  BY DEF Init, Unused, Backups
<1>5. published # <<>> => Complete(out) /\ out # None
  BY DEF Init, PublishAssumption, Bundles, Versions, Complete
<1>6. Survival /\ Away
  BY <1>5 DEF Survival, Survives, Away
<1> QED
  BY <1>2, <1>3, <1>4, <1>6 DEF IInv

\* The invariant holds whatever fails, dies or overlaps.
THEOREM Invariance ==
    ASSUME PublishAssumption
    PROVE  Spec => []IInv
<1>1. Init => IInv
  BY InitInvariant
<1>2. ASSUME IInv, [Step]_vars
      PROVE  IInv'
  <2>1. CASE UNCHANGED vars
    BY <1>2, <2>1 DEF vars, publisher, history, IInv, Typed, Placed, Unused, NotTorn,
                      OneAtATime, Survival, Survives, Kept, Safe, Away, Responsible, Backup,
                      Protocol, Complete, Doomed
  <2>2. CASE Step
    <3>1. UNCHANGED scene
      BY <2>2 DEF Step
    <3>2. PICK t \in Publishers :
              \/ Stage(t) \/ ScreenBackup(t) \/ Look(t) \/ RefuseStale(t)
              \/ MoveOld(t) \/ Publish(t) \/ Recover(t) \/ Restore(t)
              \/ Sweep(t) \/ Clean(t) \/ Crash(t)
      BY <2>2 DEF Step, Next
    <3> QED
      BY <1>2, <3>1, <3>2, StageHolds, ScreenBackupHolds, LookHolds, RefuseStaleHolds,
         MoveOldHolds, PublishHolds, RecoverHolds, RestoreHolds, SweepHolds, CleanHolds, CrashHolds
  <2> QED
    BY <1>2, <2>1, <2>2
<1> QED
  BY <1>1, <1>2, PTL DEF Spec

LEMMA InvariantKeepsOutput ==
    ASSUME PublishAssumption, IInv
    PROVE  OutputIsKept
<1>0. Typed /\ Survival /\ Away
  BY DEF IInv
<1>1. TypeOK
  BY <1>0 DEF TypeOK, Typed, Stops
<1>2. Recoverable
  <2>1. SUFFICES ASSUME published # <<>>, Protocol = "atlas" => faults <= 1,
                        Protocol = "audit" => ~overlapped
                 PROVE  \E b \in Bundles \ {Torn} :
                            b = out \/ \E k \in Backups : shelf[k] = b
    BY <1>1 DEF Recoverable
  <2>2. Survives
    BY <2>1, <1>0 DEF Survival
  <2>3. CASE Complete(out)
    BY <2>3, <1>0 DEF Complete, Typed
  <2>4. CASE \E k \in Backups : Kept(k)
    <3>1. PICK k \in Backups : Complete(shelf[k])
      BY <2>4 DEF Kept
    <3>2. shelf[k] \in Bundles \ {Torn}
      BY <3>1, <1>0 DEF Complete, Typed
    <3> QED
      BY <3>2
  <2> QED
    BY <2>2, <2>3, <2>4 DEF Survives
<1>3. FailureLeavesOutput
  <2>1. Quiet => \A t \in Publishers : ~Responsible(t)
    BY DEF Quiet, Responsible
  <2> QED
    BY <2>1, <1>0 DEF FailureLeavesOutput, Away
<1> QED
  BY <1>2, <1>3 DEF OutputIsKept

\* For any number of writers, attempts, failures and kills: a complete version
\* is on disk (of an Atlas, unless a second operation fails; of audits, unless
\* they overlap), and one failing operation leaves the output path in place.
THEOREM OutputIsAlwaysKept ==
    ASSUME PublishAssumption
    PROVE  Spec => []OutputIsKept
<1>1. IInv => OutputIsKept
  BY InvariantKeepsOutput
<1>2. Spec => []IInv
  BY Invariance
<1> QED
  BY <1>1, <1>2, PTL

(***************************************************************************)
(* What is published is not rolled back.  As long as writers are orderly,  *)
(* the output holds the newest version, and so does the backup of whoever  *)
(* has taken it away.                                                      *)
(***************************************************************************)

Orderly == overlapped => Protocol = "audit" /\ faults = 0
Newest == published[Len(published)]
IsNewest(b) == published # <<>> /\ b = Newest
Reached(b) == \E i \in DOMAIN published : published[i] = b
Before == {"staged", "screened", "screen", "move", "publish"}
Undoes(took, at) == took /\ at \in {"publish", "recover", "restore"}

\* Nothing is published twice, nor before its writer is through.
Once ==
    /\ \A i, j \in DOMAIN published : published[i] = published[j] => i = j
    /\ \A t \in Publishers, n \in 1..MaxAttempts :
         Reached(<<t, n>>) => n <= attempt[t] /\ (n = attempt[t] => pc[t] \notin Before)

\* Who reports a version, or is about to, has published it.
Told ==
    /\ \A b \in acked : Reached(b)
    /\ \A t \in Publishers :
         pc[t] = "clean" => Reached(Mine(t)) /\ (~overlapped => out # None)

OnlyMovers ==
    Protocol = "plan" => \A t \in Publishers : pc[t] \in {"recover", "restore"} => moved[t]

Latest ==
    Orderly =>
        /\ out # None => IsNewest(out)
        /\ out = None => \A t \in Publishers :
             /\ Protocol = "audit" \/ Undoes(moved[t], pc[t])
             /\ shelf[Backup(t)] # None
             => IsNewest(shelf[Backup(t)])

RInv == Once /\ Told /\ OnlyMovers /\ Latest

\* A step that changes neither directories nor what is told of them.
LEMMA StillNewest ==
    ASSUME PublishAssumption, IInv, RInv, NEW t \in Publishers, NEW x \in Stops,
           pc' = [pc EXCEPT ![t] = x],
           UNCHANGED <<scene, out, shelf, attempt, moved, history>>,
           faults' \in {faults, faults + 1},
           x # "clean",
           x \in Before => pc[t] \in Before,
           Undoes(moved[t], x) => Undoes(moved[t], pc[t]),
           Protocol = "plan" /\ x \in {"recover", "restore"} => moved[t]
    PROVE  RInv'
<1>0. Typed
  BY DEF IInv
<1>1. /\ pc'[t] = x /\ \A u \in Publishers \ {t} : pc'[u] = pc[u]
      /\ moved' = moved /\ out' = out /\ shelf' = shelf /\ published' = published
      /\ acked' = acked /\ attempt' = attempt /\ overlapped' = overlapped
      /\ Protocol' = Protocol /\ scene' = scene
  BY <1>0 DEF Typed, history, Protocol
<1>2. \A u \in Publishers : Backup(u)' = Backup(u) /\ Mine(u)' = Mine(u)
  BY <1>1, BackupStays DEF Mine
<1>3. \A b : Reached(b)' <=> Reached(b)
  BY <1>1 DEF Reached
<1>4. Once'
  <2>1. \A i, j \in DOMAIN published' : published'[i] = published'[j] => i = j
    BY <1>1 DEF RInv, Once
  <2>2. ASSUME NEW u \in Publishers, NEW n \in 1..MaxAttempts, Reached(<<u, n>>)
        PROVE  n <= attempt'[u] /\ (n = attempt'[u] => pc'[u] \notin Before)
    BY <1>1, <2>2 DEF RInv, Once
  <2> QED
    BY <1>3, <2>1, <2>2 DEF Once
<1>5. Told'
  <2>1. \A b \in acked' : Reached(b)'
    BY <1>1, <1>3 DEF RInv, Told
  <2>2. ASSUME NEW u \in Publishers, pc'[u] = "clean"
        PROVE  Reached(Mine(u))' /\ (~overlapped' => out' # None)
    <3>1. pc[u] = "clean"
      BY <1>1, <2>2
    <3> QED
      BY <1>1, <1>2, <3>1 DEF RInv, Told, Reached
  <2> QED
    BY <2>1, <2>2 DEF Told
<1>6. OnlyMovers'
  BY <1>1 DEF RInv, OnlyMovers
<1>7. Latest'
  <2>1. SUFFICES ASSUME Orderly'
                 PROVE  /\ out' # None => IsNewest(out)'
                        /\ out' = None => \A u \in Publishers :
                             /\ Protocol' = "audit" \/ Undoes(moved'[u], pc'[u])
                             /\ shelf'[Backup(u)'] # None
                             => IsNewest(shelf[Backup(u)])'
    BY DEF Latest, Undoes
  <2>2. Orderly
    BY <1>0, <1>1, <2>1, Basics DEF Orderly
  <2>3. \A u \in Publishers : Undoes(moved'[u], pc'[u]) => Undoes(moved[u], pc[u])
    BY <1>1
  <2> QED
    BY <1>1, <1>2, <2>2, <2>3 DEF RInv, Latest, IsNewest, Newest
<1> QED
  BY <1>4, <1>5, <1>6, <1>7 DEF RInv

LEMMA LookingIsNewest ==
    ASSUME PublishAssumption, IInv, RInv, NEW t \in Publishers, UNCHANGED scene,
           ScreenBackup(t) \/ Look(t) \/ RefuseStale(t)
    PROVE  RInv'
<1>0. Typed /\ Placed
  BY DEF IInv
<1>1. PICK x \in {"screened", "idle", "publish", "screen", "move"} :
          /\ pc' = [pc EXCEPT ![t] = x]
          /\ UNCHANGED <<scene, out, shelf, attempt, moved, history, faults>>
          /\ pc[t] \in {"staged", "screened", "screen"}
  BY DEF ScreenBackup, Look, RefuseStale, Goto
<1>2. ~moved[t] /\ faults \in Nat
  BY <1>0, <1>1, Basics DEF Placed
<1> QED
  BY <1>1, <1>2, StillNewest DEF Stops, Before, Undoes

LEMMA MoveOldIsNewest ==
    ASSUME PublishAssumption, IInv, RInv, NEW t \in Publishers, UNCHANGED scene, MoveOld(t)
    PROVE  RInv'
<1>0. Typed /\ Placed /\ OneAtATime
  BY DEF IInv
<1> DEFINE b == Backup(t)
<1>1. CASE /\ Goto(t, "move", "publish")
           /\ out # None /\ shelf[b] = None
           /\ shelf' = [shelf EXCEPT ![b] = out]
           /\ out' = None
           /\ moved' = [moved EXCEPT ![t] = TRUE]
           /\ NoFault
           /\ UNCHANGED <<attempt, history, crashes>>
  <2>1. /\ pc[t] = "move" /\ pc'[t] = "publish" /\ moved'[t]
        /\ \A u \in Publishers \ {t} : pc'[u] = pc[u] /\ moved'[u] = moved[u]
        /\ shelf'[b] = out
        /\ published' = published /\ overlapped' = overlapped /\ acked' = acked
        /\ attempt' = attempt /\ faults' = faults /\ Protocol' = Protocol /\ scene' = scene
    BY <1>0, <1>1, Basics DEF Goto, Typed, NoFault, history, Protocol
  <2>2. \A u \in Publishers : Backup(u)' = Backup(u) /\ Mine(u)' = Mine(u)
    BY <2>1, BackupStays DEF Mine
  <2>3. \A d : Reached(d)' <=> Reached(d)
    BY <2>1 DEF Reached
  <2>4. Once'
    <3>1. \A i, j \in DOMAIN published' : published'[i] = published'[j] => i = j
      BY <2>1 DEF RInv, Once
    <3>2. ASSUME NEW u \in Publishers, NEW n \in 1..MaxAttempts, Reached(<<u, n>>)
          PROVE  n <= attempt'[u] /\ (n = attempt'[u] => pc'[u] \notin Before)
      BY <2>1, <3>2 DEF RInv, Once, Before
    <3> QED
      BY <2>3, <3>1, <3>2 DEF Once
  <2>5. Told'
    <3>1. \A d \in acked' : Reached(d)'
      BY <2>1, <2>3 DEF RInv, Told
    <3>2. ASSUME NEW u \in Publishers, pc'[u] = "clean"
          PROVE  Reached(Mine(u))' /\ (~overlapped' => out' # None)
      <4>1. u # t /\ pc[u] = "clean"
        BY <2>1, <3>2
      <4>2. overlapped
        BY <1>0, <2>1, <4>1 DEF OneAtATime
      <4> QED
        BY <2>1, <2>2, <4>1, <4>2 DEF RInv, Told, Reached
    <3> QED
      BY <3>1, <3>2 DEF Told
  <2>6. OnlyMovers'
    BY <2>1 DEF RInv, OnlyMovers
  <2>7. Latest'
    <3>1. SUFFICES ASSUME Orderly', NEW u \in Publishers,
                          Protocol = "audit" \/ Undoes(moved'[u], pc'[u])
                   PROVE  IsNewest(shelf[Backup(u)])'
      BY <1>1, <2>1 DEF Latest, Undoes
    <3>2. IsNewest(out)
      BY <1>1, <2>1, <3>1 DEF RInv, Latest, Orderly
    <3>3. Backup(u) = b
      <4>1. CASE Protocol = "audit"
        BY <4>1 DEF Backup
      <4>2. CASE Protocol # "audit"
        <5>1. ~overlapped
          BY <2>1, <3>1, <4>2 DEF Orderly
        <5>2. u = t
          BY <1>0, <2>1, <3>1, <4>2, <5>1 DEF OneAtATime, Undoes
        <5> QED
          BY <5>2
      <4> QED
        BY <4>1, <4>2
    <3> QED
      BY <2>1, <2>2, <3>2, <3>3 DEF IsNewest, Newest
  <2> QED
    BY <2>4, <2>5, <2>6, <2>7 DEF RInv
<1>2. CASE /\ Goto(t, "move", MoveFailed)
           /\ NoFault \/ Fault
           /\ UNCHANGED <<out, shelf, attempt, moved, history, crashes>>
  <2>1. /\ pc[t] = "move" /\ pc' = [pc EXCEPT ![t] = MoveFailed] /\ ~moved[t]
        /\ faults' \in {faults, faults + 1}
    BY <1>0, <1>2 DEF Goto, Placed, NoFault, Fault
  <2>2. /\ MoveFailed \in {"recover", "sweep", "idle"}
        /\ Protocol = "plan" => MoveFailed = "idle"
    BY DEF MoveFailed
  <2> QED
    BY <1>2, <2>1, <2>2, StillNewest DEF Stops, Before, Undoes
<1> QED
  BY <1>1, <1>2 DEF MoveOld

LEMMA PublishIsNewest ==
    ASSUME PublishAssumption, IInv, RInv, NEW t \in Publishers, UNCHANGED scene, Publish(t)
    PROVE  RInv'
<1>0. Typed /\ Placed /\ OneAtATime
  BY DEF IInv
<1> DEFINE m == Mine(t)
<1>1. CASE /\ Goto(t, "publish", "clean")
           /\ out = None
           /\ out' = m
           /\ published' = Append(published, m)
           /\ NoFault
           /\ UNCHANGED <<shelf, attempt, moved, acked, overlapped, crashes>>
  <2>1. /\ pc[t] = "publish" /\ pc'[t] = "clean"
        /\ \A u \in Publishers \ {t} : pc'[u] = pc[u]
        /\ Protocol' = Protocol /\ faults' = faults
    BY <1>0, <1>1 DEF Goto, Typed, NoFault, Protocol
  <2>2. /\ m = <<t, attempt[t]>> /\ attempt[t] \in 1..MaxAttempts /\ m # None
    <3>1. attempt[t] \in 0..MaxAttempts /\ attempt[t] > 0
      BY <1>0, <2>1 DEF Typed, Placed
    <3>2. attempt[t] \in 1..MaxAttempts
      BY <3>1, Basics, <1>0
    <3> QED
      BY <3>2, Basics, <1>0 DEF Mine, Bundles, Versions
  <2>3. ~Reached(m)
    BY <2>1, <2>2 DEF RInv, Once, Before
  <2>4. published \in Seq(Bundles) /\ m \in Bundles
    BY <1>0, <2>2 DEF Typed, Bundles, Versions
  <2>5. /\ Len(published') = Len(published) + 1 /\ Len(published) \in Nat
        /\ DOMAIN published' = 1..(Len(published) + 1) /\ DOMAIN published = 1..Len(published)
        /\ \A i \in 1..Len(published) : published'[i] = published[i]
        /\ published'[Len(published) + 1] = m
        /\ published' # <<>>
    BY <1>1, <2>4
  <2>6. \A d : Reached(d)' <=> Reached(d) \/ d = m
    BY <2>5 DEF Reached
  <2>7. Once'
    <3>1. ASSUME NEW i \in DOMAIN published', NEW j \in DOMAIN published',
                 published'[i] = published'[j]
          PROVE  i = j
      <4>1. CASE i \in 1..Len(published) /\ j \in 1..Len(published)
        BY <2>5, <3>1, <4>1 DEF RInv, Once
      <4>2. CASE i \notin 1..Len(published) \/ j \notin 1..Len(published)
        BY <2>3, <2>5, <3>1, <4>2 DEF Reached
      <4> QED
        BY <4>1, <4>2
    <3>2. ASSUME NEW u \in Publishers, NEW n \in 1..MaxAttempts, Reached(<<u, n>>)'
          PROVE  n <= attempt'[u] /\ (n = attempt'[u] => pc'[u] \notin Before)
      <4>1. CASE <<u, n>> = m
        BY <1>1, <2>1, <2>2, <4>1 DEF Before
      <4>2. CASE Reached(<<u, n>>)
        BY <1>1, <2>1, <4>2 DEF RInv, Once, Before
      <4> QED
        BY <2>6, <3>2, <4>1, <4>2
    <3> QED
      BY <3>1, <3>2 DEF Once
  <2>8. Told'
    <3>1. \A d \in acked' : Reached(d)'
      BY <1>1, <2>6 DEF RInv, Told
    <3>2. ASSUME NEW u \in Publishers, pc'[u] = "clean"
          PROVE  Reached(Mine(u))' /\ (~overlapped' => out' # None)
      <4>1. Mine(u)' = Mine(u)
        BY <1>1 DEF Mine
      <4>2. Reached(Mine(u)) \/ Mine(u) = m
        BY <2>1, <3>2 DEF RInv, Told
      <4> QED
        BY <1>1, <2>2, <2>6, <4>1, <4>2 DEF Reached
    <3> QED
      BY <3>1, <3>2 DEF Told
  <2>9. OnlyMovers'
    BY <1>1, <2>1 DEF RInv, OnlyMovers
  <2>10. Latest'
    BY <1>1, <2>2, <2>5 DEF Latest, IsNewest, Newest
  <2> QED
    BY <2>7, <2>8, <2>9, <2>10 DEF RInv
<1>2. CASE /\ Goto(t, "publish", PublishFailed(t))
           /\ NoFault \/ Fault
           /\ UNCHANGED <<out, shelf, attempt, moved, history, crashes>>
  <2>1. /\ pc[t] = "publish" /\ pc' = [pc EXCEPT ![t] = PublishFailed(t)]
        /\ faults' \in {faults, faults + 1}
    BY <1>2 DEF Goto, NoFault, Fault
  <2>2. /\ PublishFailed(t) \in {"recover", "idle"}
        /\ Protocol = "plan" /\ PublishFailed(t) = "recover" => moved[t]
    BY <1>0 DEF PublishFailed, Typed
  <2> QED
    BY <1>2, <2>1, <2>2, StillNewest DEF Stops, Before, Undoes
<1> QED
  BY <1>1, <1>2 DEF Publish

LEMMA RecoverIsNewest ==
    ASSUME PublishAssumption, IInv, RInv, NEW t \in Publishers, UNCHANGED scene, Recover(t)
    PROVE  RInv'
<1>1. PICK x \in {"restore", "sweep", "idle"} :
          /\ pc[t] = "recover" /\ pc' = [pc EXCEPT ![t] = x]
          /\ UNCHANGED <<scene, out, shelf, attempt, moved, history, faults>>
  BY DEF Recover, Goto, Finish
<1>2. Protocol = "plan" => moved[t]
  BY <1>1 DEF RInv, OnlyMovers
<1> QED
  BY <1>1, <1>2, StillNewest DEF Stops, Before, Undoes

LEMMA RestoreIsNewest ==
    ASSUME PublishAssumption, IInv, RInv, NEW t \in Publishers, UNCHANGED scene, Restore(t)
    PROVE  RInv'
<1>0. Typed /\ Placed /\ OneAtATime /\ Unused
  BY DEF IInv
<1> DEFINE b == Backup(t)
<1>1. pc[t] = "restore" /\ pc' = [pc EXCEPT ![t] = Finish] /\ Finish \in {"sweep", "idle"}
  BY DEF Restore, Goto, Finish
<1>2. CASE /\ shelf[b] # None /\ out = None
           /\ out' = shelf[b]
           /\ shelf' = [shelf EXCEPT ![b] = None]
           /\ NoFault
           /\ UNCHANGED <<attempt, moved, history, crashes>>
  <2>1. /\ pc'[t] \in {"sweep", "idle"} /\ \A u \in Publishers \ {t} : pc'[u] = pc[u]
        /\ moved' = moved /\ published' = published /\ acked' = acked
        /\ attempt' = attempt /\ overlapped' = overlapped /\ faults' = faults
        /\ Protocol' = Protocol
    BY <1>0, <1>1, <1>2 DEF Typed, history, NoFault, Protocol
  <2>2. \A d : Reached(d)' <=> Reached(d)
    BY <2>1 DEF Reached
  <2>3. Once'
    <3>1. \A i, j \in DOMAIN published' : published'[i] = published'[j] => i = j
      BY <2>1 DEF RInv, Once
    <3>2. ASSUME NEW u \in Publishers, NEW n \in 1..MaxAttempts, Reached(<<u, n>>)
          PROVE  n <= attempt'[u] /\ (n = attempt'[u] => pc'[u] \notin Before)
      BY <2>1, <3>2 DEF RInv, Once, Before
    <3> QED
      BY <2>2, <3>1, <3>2 DEF Once
  <2>4. Told'
    <3>1. \A d \in acked' : Reached(d)'
      BY <2>1, <2>2 DEF RInv, Told
    <3>2. ASSUME NEW u \in Publishers, pc'[u] = "clean"
          PROVE  Reached(Mine(u))' /\ (~overlapped' => out' # None)
      BY <1>2, <2>1, <2>2, <3>2 DEF RInv, Told, Mine, Reached
    <3> QED
      BY <3>1, <3>2 DEF Told
  <2>5. OnlyMovers'
    BY <2>1 DEF RInv, OnlyMovers
  <2>6. Latest'
    <3>1. SUFFICES ASSUME Orderly
                   PROVE  IsNewest(out)'
      BY <1>2, <2>1 DEF Latest, Orderly
    <3>2. Protocol = "audit" \/ Undoes(moved[t], pc[t])
      <4>1. CASE Protocol \in {"run", "atlas"}
        <5>1. b = <<t, attempt[t]>> /\ attempt[t] \in 0..MaxAttempts
          BY <1>0, <4>1 DEF Backup, Typed
        <5> QED
          BY <1>0, <1>1, <1>2, <4>1, <5>1 DEF Unused, Undoes
      <4>2. CASE Protocol = "plan"
        BY <1>1, <4>2 DEF RInv, OnlyMovers, Undoes
      <4> QED
        BY <4>1, <4>2, <1>0, Basics DEF Protocols
    <3>3. IsNewest(shelf[b])
      BY <1>2, <3>1, <3>2 DEF RInv, Latest
    <3> QED
      BY <1>2, <2>1, <3>3 DEF IsNewest, Newest
  <2> QED
    BY <2>3, <2>4, <2>5, <2>6 DEF RInv
<1>3. CASE /\ NoFault \/ Fault
           /\ UNCHANGED <<out, shelf, attempt, moved, history, crashes>>
  <2>1. faults' \in {faults, faults + 1}
    BY <1>3 DEF NoFault, Fault
  <2> QED
    BY <1>1, <1>3, <2>1, StillNewest DEF Stops, Before, Undoes
<1> QED
  BY <1>2, <1>3 DEF Restore

\* A backup is deleted, whole or in part.
LEMMA DeletingIsNewest ==
    ASSUME PublishAssumption, IInv, RInv, NEW t \in Publishers, UNCHANGED scene,
           NEW x \in {"idle", "recover"}, NEW c \in Bundles \cup {None},
           pc[t] \in {"sweep", "clean"}, pc' = [pc EXCEPT ![t] = x],
           x = "recover" => Protocol = "run",
           shelf' = [shelf EXCEPT ![Backup(t)] = c],
           faults' \in {faults, faults + 1},
           c \in {None, shelf[Backup(t)]} \/ (pc[t] = "clean" /\ faults' = faults + 1),
           acked' = acked \/ (pc[t] = "clean" /\ acked' = acked \cup {Mine(t)}),
           x = "recover" => pc[t] = "clean",
           UNCHANGED <<out, attempt, moved, published, overlapped>>
    PROVE  RInv'
<1>0. Typed /\ OneAtATime
  BY DEF IInv
<1>1. /\ pc'[t] = x /\ \A u \in Publishers \ {t} : pc'[u] = pc[u]
      /\ Protocol' = Protocol /\ faults \in Nat
      /\ \A u \in Publishers : Backup(u)' = Backup(u) /\ Mine(u)' = Mine(u)
  BY <1>0, Basics DEF Typed, Protocol, Backup, Mine
<1>2. \A d : Reached(d)' <=> Reached(d)
  BY DEF Reached
<1>3. Once'
  <2>1. ASSUME NEW u \in Publishers, NEW n \in 1..MaxAttempts, Reached(<<u, n>>)
        PROVE  n <= attempt'[u] /\ (n = attempt'[u] => pc'[u] \notin Before)
    BY <1>1, <2>1 DEF RInv, Once, Before
  <2> QED
    BY <1>2, <2>1 DEF RInv, Once
<1>4. Told'
  <2>1. ASSUME NEW d \in acked'
        PROVE  Reached(d)'
    <3>1. d \in acked \/ (pc[t] = "clean" /\ d = Mine(t))
      BY <2>1
    <3> QED
      BY <1>2, <3>1 DEF RInv, Told
  <2>2. ASSUME NEW u \in Publishers, pc'[u] = "clean"
        PROVE  Reached(Mine(u))' /\ (~overlapped' => out' # None)
    BY <1>1, <1>2, <2>2 DEF RInv, Told, Reached
  <2> QED
    BY <2>1, <2>2 DEF Told
<1>5. OnlyMovers'
  BY <1>1 DEF RInv, OnlyMovers
<1>6. Latest'
  <2>1. CASE out # None
    BY <1>1, <2>1 DEF RInv, Latest, Orderly, IsNewest, Newest
  <2>2. CASE out = None /\ Orderly'
    <3>1. Orderly
      BY <1>1, <2>2 DEF Orderly
    <3>2. ~(pc[t] = "clean" /\ faults' = faults + 1)
      BY <1>1, <2>2 DEF RInv, Told, Orderly
    <3>3. c \in {None, shelf[Backup(t)]}
      BY <3>2
    <3>4. pc[t] = "clean" => x = "idle" \/ overlapped
      BY <2>2 DEF RInv, Told
    <3>5. x = "idle"
      BY <2>2, <1>1, <3>4 DEF Orderly
    <3>6. ASSUME NEW u \in Publishers, Protocol = "audit" \/ Undoes(moved[u], pc'[u]),
                 shelf'[Backup(u)] # None
          PROVE  IsNewest(shelf'[Backup(u)])
      <4>1. Protocol = "audit" \/ Undoes(moved[u], pc[u])
        BY <1>1, <3>5, <3>6 DEF Undoes
      <4>2. shelf'[Backup(u)] = shelf[Backup(u)]
        BY <1>0, <3>3, <3>6, Basics DEF Typed
      <4> QED
        BY <2>2, <3>1, <3>6, <4>1, <4>2 DEF RInv, Latest
    <3> QED
      BY <1>1, <2>2, <3>6 DEF Latest, IsNewest, Newest
  <2> QED
    BY <2>1, <2>2 DEF Latest
<1> QED
  BY <1>3, <1>4, <1>5, <1>6 DEF RInv

LEMMA CleaningIsNewest ==
    ASSUME PublishAssumption, IInv, RInv, NEW t \in Publishers, UNCHANGED scene,
           Sweep(t) \/ Clean(t)
    PROVE  RInv'
<1>0. Typed
  BY DEF IInv
<1>1. Backup(t) \in Backups /\ Torn \in Bundles
  BY <1>0, Basics
<1>2. PICK x \in {"idle", "recover"}, c \in Bundles \cup {None} :
          /\ pc[t] \in {"sweep", "clean"} /\ pc' = [pc EXCEPT ![t] = x]
          /\ x = "recover" => Protocol = "run" /\ pc[t] = "clean"
          /\ shelf' = [shelf EXCEPT ![Backup(t)] = c]
          /\ faults' \in {faults, faults + 1}
          /\ c \in {None, shelf[Backup(t)]} \/ (pc[t] = "clean" /\ faults' = faults + 1)
          /\ acked' = acked \/ (pc[t] = "clean" /\ acked' = acked \cup {Mine(t)})
          /\ UNCHANGED <<out, attempt, moved, published, overlapped>>
  <2>1. CASE Sweep(t)
    BY <2>1 DEF Sweep, Goto, history
  <2>2. CASE /\ Goto(t, "clean", "idle")
             /\ shelf' = [shelf EXCEPT ![Backup(t)] =
                             IF moved[t] \/ Protocol = "audit" THEN None ELSE @]
             /\ acked' = acked \cup {Mine(t)}
             /\ NoFault
             /\ UNCHANGED <<out, attempt, moved, published, overlapped, crashes>>
    <3> DEFINE c == IF moved[t] \/ Protocol = "audit" THEN None ELSE shelf[Backup(t)]
    <3>1. c \in Bundles \cup {None} /\ c \in {None, shelf[Backup(t)]}
      BY <1>0, <1>1 DEF Typed
    <3>2. shelf' = [shelf EXCEPT ![Backup(t)] = c]
      BY <2>2
    <3> HIDE DEF c
    <3> QED
      BY <2>2, <3>1, <3>2 DEF Goto, NoFault
  <2>3. CASE /\ Goto(t, "clean", IF Protocol = "run" THEN "recover" ELSE "idle")
             /\ shelf' = [shelf EXCEPT ![Backup(t)] = Torn]
             /\ Fault
             /\ UNCHANGED <<out, attempt, moved, history, crashes>>
    BY <1>1, <2>3 DEF Goto, Fault, history
  <2> QED
    BY <2>1, <2>2, <2>3 DEF Clean
<1> QED
  BY <1>2, DeletingIsNewest

LEMMA CrashIsNewest ==
    ASSUME PublishAssumption, IInv, RInv, NEW t \in Publishers, UNCHANGED scene, Crash(t)
    PROVE  RInv'
BY StillNewest DEF Crash, Stops, Before, Undoes

LEMMA StageIsNewest ==
    ASSUME PublishAssumption, IInv, RInv, NEW t \in Publishers, UNCHANGED scene, Stage(t)
    PROVE  RInv'
<1>0. Typed
  BY DEF IInv
<1>1. /\ pc[t] = "idle" /\ pc'[t] = "staged" /\ ~moved'[t]
      /\ \A u \in Publishers \ {t} : /\ pc'[u] = pc[u] /\ moved'[u] = moved[u]
                                     /\ attempt'[u] = attempt[u]
      /\ attempt[t] \in Nat /\ attempt'[t] = attempt[t] + 1
      /\ out' = out /\ shelf' = shelf /\ published' = published /\ acked' = acked
      /\ faults' = faults /\ Protocol' = Protocol
      /\ overlapped => overlapped'
  BY <1>0, Basics DEF Stage, Goto, Typed, Protocol
<1>2. \A d : Reached(d)' <=> Reached(d)
  BY <1>1 DEF Reached
<1>3. Once'
  <2>1. \A i, j \in DOMAIN published' : published'[i] = published'[j] => i = j
    BY <1>1 DEF RInv, Once
  <2>2. ASSUME NEW u \in Publishers, NEW n \in 1..MaxAttempts, Reached(<<u, n>>)
        PROVE  n <= attempt'[u] /\ (n = attempt'[u] => pc'[u] \notin Before)
    <3>1. n <= attempt[u] /\ (n = attempt[u] => pc[u] \notin Before)
      BY <2>2 DEF RInv, Once
    <3> QED
      BY <1>1, <3>1
  <2> QED
    BY <1>2, <2>1, <2>2 DEF Once
<1>4. Told'
  <2>1. \A d \in acked' : Reached(d)'
    BY <1>1, <1>2 DEF RInv, Told
  <2>2. ASSUME NEW u \in Publishers, pc'[u] = "clean"
        PROVE  Reached(Mine(u))' /\ (~overlapped' => out' # None)
    <3>1. u # t /\ pc[u] = "clean" /\ Mine(u)' = Mine(u)
      BY <1>1, <2>2 DEF Mine
    <3> QED
      BY <1>1, <1>2, <3>1 DEF RInv, Told, Reached
  <2> QED
    BY <2>1, <2>2 DEF Told
<1>5. OnlyMovers'
  BY <1>1 DEF RInv, OnlyMovers
<1>6. Latest'
  <2>1. SUFFICES ASSUME Orderly
                 PROVE  /\ out # None => IsNewest(out)
                        /\ out = None => \A u \in Publishers :
                             /\ Protocol = "audit" \/ Undoes(moved'[u], pc'[u])
                             /\ shelf[Backup(u)'] # None
                             => IsNewest(shelf[Backup(u)'])
    BY <1>1 DEF Latest, Orderly, IsNewest, Newest
  <2>2. ASSUME out = None, NEW u \in Publishers, Protocol = "audit" \/ Undoes(moved'[u], pc'[u]),
               shelf[Backup(u)'] # None
        PROVE  IsNewest(shelf[Backup(u)'])
    <3>1. Backup(u)' = Backup(u) /\ (Protocol = "audit" \/ Undoes(moved[u], pc[u]))
      BY <1>1, <2>2 DEF Backup, Undoes
    <3> QED
      BY <2>1, <2>2, <3>1 DEF RInv, Latest
  <2> QED
    BY <2>1, <2>2 DEF RInv, Latest
<1> QED
  BY <1>3, <1>4, <1>5, <1>6 DEF RInv

\* For each of the four protocols, any number of writers, attempts, failures and
\* kills: what was reported published is not undone, as long as writers do not
\* overlap (audits: or nothing fails).
THEOREM NothingIsRolledBack ==
    ASSUME PublishAssumption
    PROVE  Spec => []NoRollback
<1> DEFINE Both == IInv /\ RInv
<1>1. Init => Both
  <2>1. SUFFICES ASSUME Init
                 PROVE  RInv
    BY InitInvariant
  <2>2. \A i \in DOMAIN published : published[i] = Original /\ i = 1
    BY <2>1 DEF Init
  <2>3. Once /\ Told /\ OnlyMovers
    <3>1. \A t \in Publishers, n \in 1..MaxAttempts : ~Reached(<<t, n>>)
      BY <2>2 DEF Reached, PublishAssumption
    <3>2. Once
      BY <2>2, <3>1 DEF Once
    <3> QED
      BY <2>1, <3>2 DEF Init, Told, OnlyMovers
  <2>4. Latest
    <3>1. out # None => published = <<Original>> /\ out = Original
      BY <2>1 DEF Init
    <3>2. \A u \in Publishers : shelf[Backup(u)] = None
      BY <2>1, InitInvariant, Basics DEF Init, IInv
    <3> QED
      BY <3>1, <3>2 DEF Latest, IsNewest, Newest
  <2> QED
    BY <2>3, <2>4 DEF RInv
<1>2. Both /\ [Step]_vars => RInv'
  <2>1. SUFFICES ASSUME IInv, RInv, [Step]_vars
                 PROVE  RInv'
    OBVIOUS
  <2>2. CASE UNCHANGED vars
    BY <2>1, <2>2 DEF vars, publisher, history, RInv, Once, Told, OnlyMovers, Latest, Orderly,
                      Newest, IsNewest, Reached, Mine, Backup, Protocol
  <2>3. CASE Step
    <3>1. UNCHANGED scene
      BY <2>3 DEF Step
    <3>2. PICK t \in Publishers :
              \/ Stage(t) \/ ScreenBackup(t) \/ Look(t) \/ RefuseStale(t)
              \/ MoveOld(t) \/ Publish(t) \/ Recover(t) \/ Restore(t)
              \/ Sweep(t) \/ Clean(t) \/ Crash(t)
      BY <2>3 DEF Step, Next
    <3> QED
      BY <2>1, <3>1, <3>2, StageIsNewest, LookingIsNewest, MoveOldIsNewest, PublishIsNewest,
         RecoverIsNewest, RestoreIsNewest, CleaningIsNewest, CrashIsNewest
  <2> QED
    BY <2>1, <2>2, <2>3
<1>3. IInv /\ RInv => NoRollback
  <2>1. SUFFICES ASSUME IInv, RInv, out # None, Orderly, NEW b \in acked
                 PROVE  PositionOf(b) <= PositionOf(out)
    BY DEF NoRollback, Orderly
  <2>2. published \in Seq(Bundles)
    BY <2>1 DEF IInv, Typed
  <2>3. DOMAIN published = 1..Len(published) /\ Len(published) \in Nat
    BY <2>2
  <2>4. published # <<>> /\ out = published[Len(published)]
    BY <2>1 DEF RInv, Latest, IsNewest, Newest
  <2>5. Len(published) \in 1..Len(published)
    BY <2>2, <2>4
  <2>6. PositionOf(out) = Len(published)
    BY <2>1, <2>3, <2>4, <2>5 DEF RInv, Once, PositionOf
  <2>7. PositionOf(b) \in 1..Len(published)
    BY <2>1, <2>3 DEF RInv, Told, Reached, PositionOf
  <2> QED
    BY <2>3, <2>6, <2>7
<1>4. Spec => []IInv
  BY Invariance
<1>5. Init => RInv
  BY <1>1
<1>6. IInv /\ RInv /\ [Step]_vars => RInv'
  BY <1>2
<1> HIDE DEF Both
<1> QED
  BY <1>3, <1>4, <1>5, <1>6, PTL DEF Spec

(***************************************************************************)
(* Planning.                                                               *)
(***************************************************************************)

\* Every set of numbers that is not empty has a smallest one.
LEMMA Smallest ==
  ASSUME NEW T, T \subseteq Nat, T # {}
  PROVE  \E x \in T : \A y \in T : x <= y
<1> DEFINE less == OpToRel(<, Nat)
<1>1. \A m, n \in Nat : <<m, n>> \in less <=> m < n
  BY DEF OpToRel
<1>2. IsWellFoundedOn(less, Nat)
  BY NatLessThanWellFounded
<1> HIDE DEF less
<1>3. PICK x \in T : \A y \in T : ~ (<<y, x>> \in less)
  BY <1>2, WFMin
<1>4. ASSUME NEW y \in T PROVE x <= y
  <2>1. x \in Nat /\ y \in Nat /\ ~ (y < x)
    BY <1>1, <1>3
  <2> QED BY <2>1
<1> QED BY <1>3, <1>4

\* What is below an edit has everything it depends on, and nothing else of the graph.
LEMMA BelowIsClosed ==
  ASSUME NEW deps, \A x \in DOMAIN deps : deps[x] \subseteq DOMAIN deps, NEW i \in DOMAIN deps
  PROVE  /\ Below(i, deps) \subseteq DOMAIN deps
         /\ deps[i] \subseteq Below(i, deps)
         /\ \A j \in Below(i, deps) : deps[j] \subseteq Below(i, deps)
         /\ \A j \in Below(i, deps) : Below(j, deps) \subseteq Below(i, deps)
<1>1. Below(i, deps) \subseteq DOMAIN deps /\ deps[i] \subseteq Below(i, deps)
  BY DEF Below
<1>2. ASSUME NEW j \in Below(i, deps) PROVE deps[j] \subseteq Below(i, deps)
  <2> SUFFICES ASSUME NEW x \in deps[j], NEW C \in SUBSET DOMAIN deps,
                      deps[i] \subseteq C, \A y \in C : deps[y] \subseteq C
               PROVE  x \in C
    BY <1>1 DEF Below
  <2> QED BY <1>2 DEF Below
<1>3. ASSUME NEW j \in Below(i, deps) PROVE Below(j, deps) \subseteq Below(i, deps)
  BY <1>1, <1>2 DEF Below
<1> QED BY <1>1, <1>2, <1>3

\* Edits without a cycle can be put in an order: of any of them, one whose edits below it
\* are fewest depends on no other.
LEMMA AcyclicIsOrderable ==
  ASSUME NEW k, IsFiniteSet(DOMAIN k.items), ~Cyclic(k)
  PROVE  Orderable(k.items)
<1> DEFINE D == DOMAIN k.items
           deps == Dependencies(k)
           Size_(i) == Cardinality(Below(i, deps))
<1>1. DOMAIN deps = D /\ \A x \in D : deps[x] = k.items[x].deps \cap D
  BY DEF Dependencies
<1>2. ASSUME NEW S \in SUBSET D, S # {}, \A i \in S : k.items[i].deps \cap S # {}
      PROVE  FALSE
  <2>1. \A i \in D : IsFiniteSet(Below(i, deps)) /\ Size_(i) \in Nat
    BY <1>1, BelowIsClosed, FS_Subset, FS_CardinalityType
  <2>2. PICK i \in S : \A j \in S : Size_(i) <= Size_(j)
    <3> DEFINE N == {Size_(x) : x \in S}
    <3>1. N \subseteq Nat /\ N # {}
      BY <2>1, <1>2
    <3>2. PICK n \in N : \A m \in N : n <= m
      BY <3>1, Smallest
    <3> QED BY <3>2
  <2>3. PICK j \in k.items[i].deps \cap S : TRUE
    BY <1>2
  <2>4. j \in Below(i, deps) /\ Below(j, deps) \subseteq Below(i, deps)
    BY <1>1, <2>3, BelowIsClosed
  <2>5. j \notin Below(j, deps)
    BY <1>1, <2>3 DEF Cyclic, CyclicGraph
  <2>6. Size_(j) <= Size_(i) /\ Size_(i) # Size_(j)
    BY <2>1, <2>4, <2>5, FS_Subset
  <2> QED BY <2>1, <2>2, <2>3, <2>6
<1> QED BY <1>2 DEF Orderable

\* The images of finitely many values are finitely many.
LEMMA ImageIsFinite ==
  ASSUME NEW S, IsFiniteSet(S), NEW f
  PROVE  IsFiniteSet({f[x] : x \in S})
<1> DEFINE T == {f[x] : x \in S}
           g == [x \in S |-> f[x]]
<1>1. g \in Surjection(S, T)
  BY DEF Surjection
<1> QED BY <1>1, FS_Surjection

\* A Bundle has finitely many records, each with a number.
LEMMA RecordsAreFinite ==
  ASSUME PlanningAssumption, NEW b \in SuppliedBundles
  PROVE  /\ IsFiniteSet(Records(b))
         /\ \A x \in Records(b) : x.id \in Nat /\ x.kind \in {"claim", "conflict", "evidence", "source"}
<1>1. \A ids \in {DOMAIN b.claims, DOMAIN b.evidence, DOMAIN b.sources, b.conflicts} :
        ids \subseteq Nat /\ IsFiniteSet(ids)
  BY DEF PlanningAssumption
<1>2. ASSUME NEW kind, NEW ids, IsFiniteSet(ids)
      PROVE  IsFiniteSet({Record(kind, n) : n \in ids})
  <2> DEFINE f == [n \in ids |-> Record(kind, n)]
  <2>1. {Record(kind, n) : n \in ids} = {f[n] : n \in ids}
    OBVIOUS
  <2> HIDE DEF f
  <2> QED BY <1>2, <2>1, ImageIsFinite
<1>3. /\ IsFiniteSet({Record("claim", n) : n \in DOMAIN b.claims})
      /\ IsFiniteSet({Record("conflict", n) : n \in b.conflicts})
      /\ IsFiniteSet({Record("evidence", n) : n \in DOMAIN b.evidence})
      /\ IsFiniteSet({Record("source", n) : n \in DOMAIN b.sources})
  BY <1>1, <1>2
<1>4. IsFiniteSet(Records(b))
  BY <1>3, FS_Union DEF Records
<1> QED BY <1>1, <1>4 DEF Records, Record

\* No record is ranked before itself.
LEMMA RankIsStrict ==
  ASSUME NEW x, NEW r, NEW b, x.id \in Nat,
         x.kind \in {"claim", "conflict", "evidence", "source"}
  PROVE  ~RankedBefore(x, x, r, b)
<1>1. Tier(x, r, b) \in Nat
  BY DEF Tier
<1>2. KindRank(x.kind) \in Nat
  BY DEF KindRank
<1> DEFINE key == <<Tier(x, r, b), KindRank(x.kind), x.id>>
<1>3. \A n \in 1..3 : key[n] \in Nat
  BY <1>1, <1>2
<1>4. \A n \in 1..3 : ~(key[n] < key[n])
  BY <1>3
<1> QED BY <1>4 DEF RankedBefore

\* A record of a Bundle has the id of something of its kind.
LEMMA KnownRecords ==
  ASSUME NEW b
  PROVE  /\ \A x \in Records(b) :
              /\ x.kind = "claim" => x.id \in DOMAIN b.claims
              /\ x.kind = "evidence" => x.id \in DOMAIN b.evidence
              /\ x.kind = "source" => x.id \in DOMAIN b.sources
         /\ \A n \in DOMAIN b.claims : \E x \in Records(b) : x.kind = "claim" /\ x.id = n
         /\ \A n \in DOMAIN b.evidence : \E x \in Records(b) : x.kind = "evidence" /\ x.id = n
<1>1. ASSUME NEW x \in Records(b)
      PROVE  /\ x.kind = "claim" => x.id \in DOMAIN b.claims
             /\ x.kind = "evidence" => x.id \in DOMAIN b.evidence
             /\ x.kind = "source" => x.id \in DOMAIN b.sources
  BY DEF Records, Record
<1>2. ASSUME NEW n \in DOMAIN b.claims PROVE \E x \in Records(b) : x.kind = "claim" /\ x.id = n
  <2>1. Record("claim", n) \in Records(b)
    BY DEF Records
  <2> QED BY <2>1 DEF Record
<1>3. ASSUME NEW n \in DOMAIN b.evidence PROVE \E x \in Records(b) : x.kind = "evidence" /\ x.id = n
  <2>1. Record("evidence", n) \in Records(b)
    BY DEF Records
  <2> QED BY <2>1 DEF Record
<1> QED BY <1>1, <1>2, <1>3

\* If no record was left out, every one of them was selected.
LEMMA NothingOmitted ==
  ASSUME PlanningAssumption, NEW b \in SuppliedBundles, NEW r \in Requests,
         OmittedNodes(r, b) = 0
  PROVE  Selected(r, b) = Records(b)
<1> DEFINE all == Cardinality(Records(b))
<1>1. all \in Nat /\ r.maxNodes \in Nat
  BY RecordsAreFinite, FS_CardinalityType DEF PlanningAssumption
<1>2. all <= r.maxNodes
  <2>1. \A z \in Int : Max({0, z}) = 0 => z <= 0
    <3> SUFFICES ASSUME NEW z \in Int, z > 0 PROVE Max({0, z}) = z
      BY Z3
    <3> QED BY DEF Max
  <2> QED BY <1>1, <2>1 DEF OmittedNodes
<1>3. ASSUME NEW x \in Records(b)
      PROVE  Cardinality({y \in Records(b) : RankedBefore(y, x, r, b)}) < r.maxNodes
  <2> DEFINE before == {y \in Records(b) : RankedBefore(y, x, r, b)}
  <2>1. x \notin before
    BY RecordsAreFinite, RankIsStrict
  <2>2. /\ before \in SUBSET Records(b) /\ before # Records(b)
        /\ IsFiniteSet(Records(b)) /\ IsFiniteSet(before)
    BY <2>1, RecordsAreFinite, FS_Subset
  <2>3. Cardinality(before) \in Nat /\ Cardinality(before) < all
    BY <1>1, <2>2, FS_Subset, FS_CardinalityType
  <2> QED BY <1>1, <1>2, <2>3
<1> QED BY <1>3 DEF Selected

LEMMA OmittedIsNumber ==
  ASSUME PlanningAssumption, NEW b \in SuppliedBundles, NEW r \in Requests
  PROVE  OmittedNodes(r, b) \in Nat
<1>1. Cardinality(Records(b)) \in Nat /\ r.maxNodes \in Nat
  BY RecordsAreFinite, FS_CardinalityType DEF PlanningAssumption
<1>2. ASSUME NEW z \in Int PROVE Max({0, z}) \in Nat
  <2>1. \E x \in {0, z} : \A y \in {0, z} : x >= y
    <3>1. CASE z > 0
      BY <3>1
    <3>2. CASE ~(z > 0)
      BY <3>2
    <3> QED BY <3>1, <3>2
  <2>2. Max({0, z}) \in {0, z} /\ Max({0, z}) >= 0
    BY <2>1 DEF Max
  <2> QED BY <2>2
<1> QED BY <1>1, <1>2 DEF OmittedNodes

\* Then the context has every Claim and all of the evidence.
LEMMA AllIsRelevant ==
  ASSUME PlanningAssumption, NEW b \in SuppliedBundles, NEW r \in Requests,
         OmittedNodes(r, b) = 0
  PROVE  /\ Relevant(r, b).claims = DOMAIN b.claims
         /\ Relevant(r, b).evidence = DOMAIN b.evidence
<1> DEFINE Ids(kind) == {x.id : x \in {y \in Records(b) : y.kind = kind}}
<1>1. Ids("claim") = DOMAIN b.claims /\ Ids("evidence") = DOMAIN b.evidence
  BY KnownRecords
<1>2. /\ Relevant(r, b).claims = Ids("claim")
      /\ Relevant(r, b).evidence = WithEvidence(Ids("evidence"), Ids("claim"), b)
  BY NothingOmitted DEF Relevant
<1>3. \A c \in DOMAIN b.claims : b.claims[c].evidence \cup b.claims[c].counter \subseteq DOMAIN b.evidence
  BY DEF PlanningAssumption
<1> HIDE DEF Ids
<1> QED BY <1>1, <1>2, <1>3 DEF WithEvidence

\* What is seeded: paths, among them those the user named and the evidence is bound to.
LEMMA SeedPaths ==
  ASSUME PlanningAssumption, NEW b \in SuppliedBundles, NEW r \in Requests, NEW relevant,
         relevant.evidence \subseteq DOMAIN b.evidence, relevant.sources \subseteq DOMAIN b.sources
  PROVE  /\ DOMAIN Seeds(relevant, r, b) \subseteq Paths
         /\ ExplicitPaths(r.allowed) \cup UNION {b.evidence[e].paths : e \in relevant.evidence}
              \subseteq DOMAIN Seeds(relevant, r, b)
<1> DEFINE records == {s \in (UNION {b.evidence[e].sources : e \in relevant.evidence}) \cup relevant.sources :
                         b.sources[s].path # Nothing}
           paths == UNION {b.evidence[e].paths : e \in relevant.evidence}
           granted == ExplicitPaths(r.allowed)
<1>1. DOMAIN Seeds(relevant, r, b) = {b.sources[s].path : s \in records} \cup (paths \cup granted)
  BY DEF Seeds
<1>2. {b.sources[s].path : s \in records} \subseteq Paths
  <2> DEFINE named == UNION {b.evidence[e].sources : e \in relevant.evidence}
  <2>1. named \subseteq DOMAIN b.sources
    BY DEF PlanningAssumption
  <2> HIDE DEF named
  <2> SUFFICES ASSUME NEW s \in records PROVE b.sources[s].path \in Paths
    OBVIOUS
  <2>2. s \in named \cup relevant.sources /\ b.sources[s].path # Nothing
    BY DEF named
  <2>3. s \in DOMAIN b.sources
    BY <2>1, <2>2
  <2> QED BY <2>2, <2>3 DEF PlanningAssumption
<1>3. paths \subseteq Paths
  BY DEF PlanningAssumption
<1>4. granted \subseteq Paths
  BY DEF PlanningAssumption, ExplicitPaths
<1> HIDE DEF records, paths, granted
<1>5. granted \cup paths \subseteq DOMAIN Seeds(relevant, r, b)
  BY <1>1
<1> QED BY <1>1, <1>2, <1>3, <1>4, <1>5 DEF paths, granted

\* The records a context selects are records of the Bundle.
LEMMA RelevantIsKnown ==
  ASSUME PlanningAssumption, NEW b \in SuppliedBundles, NEW r
  PROVE  /\ Relevant(r, b).claims \subseteq DOMAIN b.claims
         /\ Relevant(r, b).evidence \subseteq DOMAIN b.evidence
         /\ Relevant(r, b).sources \subseteq DOMAIN b.sources
<1> DEFINE Ids(kind) == {x.id : x \in {y \in Selected(r, b) : y.kind = kind}}
<1>0. \A kind : \A n \in Ids(kind) : \E x \in Records(b) : x.kind = kind /\ x.id = n
  BY DEF Selected
<1>1. /\ Ids("claim") \subseteq DOMAIN b.claims
      /\ Ids("evidence") \subseteq DOMAIN b.evidence
      /\ Ids("source") \subseteq DOMAIN b.sources
  <2> HIDE DEF Ids
  <2> QED BY <1>0, KnownRecords
<1>2. /\ Relevant(r, b).claims = Ids("claim") /\ Relevant(r, b).sources = Ids("source")
      /\ Relevant(r, b).evidence = WithEvidence(Ids("evidence"), Ids("claim"), b)
  BY DEF Relevant
<1>3. \A c \in DOMAIN b.claims : b.claims[c].evidence \cup b.claims[c].counter \subseteq DOMAIN b.evidence
  BY DEF PlanningAssumption
<1> HIDE DEF Ids
<1> QED BY <1>1, <1>2, <1>3 DEF WithEvidence

----------------------------------------------------------------------------
\* Where a site comes from: a file was read that held this at some moment.
WasRead(s, x, h, b) ==
    /\ s.path \in DOMAIN x.seeds
    /\ \E content \in h[s.path] : s = Site(s.path, content, x.seeds[s.path], x.request, b)

\* What a context holds of its request and the Bundle.
Derived(x, b) ==
    /\ x.request \in Requests
    /\ x.relevant = Relevant(x.request, b)
    /\ x.limits = Constraints(x.request, b)
    /\ x.seeds = Seeds(x.relevant, x.request, b)

\* Unless something was left out, every seed but those to come was read or may not be.
Visited(x, todo, b) ==
    /\ x.omitted \in Nat
    /\ x.omitted = 0 =>
         /\ OmittedNodes(x.request, b) = 0
         /\ \A p \in DOMAIN x.seeds \ todo :
              Unreadable(p, x.limits) \/ \E s \in x.sites : s.path = p

GoodReading(x, b, h) ==
    /\ x = [request |-> x.request, relevant |-> x.relevant, limits |-> x.limits, seeds |-> x.seeds,
            todo |-> x.todo, sites |-> x.sites, bytes |-> x.bytes, omitted |-> x.omitted]
    /\ Derived(x, b)
    /\ x.todo \subseteq DOMAIN x.seeds
    /\ Visited(x, x.todo, b)
    /\ \A s \in x.sites : WasRead(s, x, h, b)

GoodContext(c, b) ==
    /\ Derived(c, b)
    /\ Visited(c, {}, b)
    /\ \A s \in c.sites : WasRead(s, c, c.seen, b)
    /\ c.gaps = CriticalGaps(c.relevant, c.limits, c.sites, c.request, b)

GoodPlan(plan, b) ==
    /\ GoodContext(plan.context, b)
    /\ plan.candidate \in Candidates
    /\ plan.status = Status(plan.candidate, plan.context)
    /\ plan.references = References(plan.context, b)
    /\ Used(plan.candidate) \subseteq DOMAIN plan.references

\* A site that is neither stale nor missing holds what its record says, if anything,
\* unless it cannot be understood.
LEMMA SiteIsGoverned ==
  ASSUME NEW p, NEW content, NEW src, NEW r, NEW b, NEW s, s = Site(p, content, src, r, b),
         s.status \notin {"STALE", "MISSING"}
  PROVE  \/ s.status = "UNSUPPORTED"
         \/ /\ s.content # Nothing
            /\ src = Nothing \/ b.sources[src].hash \in {Nothing, s.content}
<1>1. /\ s.content = content
      /\ s.status = ReadStatus(p, content, IF src = Nothing THEN Nothing ELSE b.sources[src].hash, r)
  BY DEF Site
<1> QED BY <1>1 DEF ReadStatus

\* What a plan that is READY is free of.
LEMMA ReadyIsClean ==
  ASSUME NEW k, NEW c, c.omitted \in Nat, Status(k, c) = "READY_FOR_HUMAN_REVIEW"
  PROVE  Blockers(k, c) = {} /\ Errors(k, c) = {} /\ c.omitted = 0 /\ c.gaps = {}
BY DEF Status

LEMMA NoGaps ==
  ASSUME NEW relevant, NEW limits, NEW sites, NEW r, NEW b,
         CriticalGaps(relevant, limits, sites, r, b) = {}
  PROVE  /\ b # NoBundle /\ limits.resolved
         /\ \A s \in sites : s.status \notin {"STALE", "MISSING"}
<1>1. b # NoBundle
  BY DEF CriticalGaps
<1>2. limits.resolved
  BY DEF CriticalGaps
<1>3. {<<s.status, s.path>> : s \in {x \in sites : x.status \in {"STALE", "MISSING"}}} = {}
  BY DEF CriticalGaps
<1> QED BY <1>1, <1>2, <1>3

\* A READY plan read it all.
LEMMA ReadyReadsItAll ==
  ASSUME PlanningAssumption, NEW b \in SuppliedBundles, NEW plan, GoodPlan(plan, b),
         plan.status = "READY_FOR_HUMAN_REVIEW"
  PROVE  ReadsItAll(plan, b)
<1> DEFINE c == plan.context
<1>0. c.omitted \in Nat /\ Status(plan.candidate, c) = "READY_FOR_HUMAN_REVIEW"
  BY DEF GoodPlan, GoodContext, Visited
<1>1. c.omitted = 0 /\ c.gaps = {}
  BY <1>0, ReadyIsClean
<1>2. /\ c.request \in Requests /\ c.relevant = Relevant(c.request, b)
      /\ c.seeds = Seeds(c.relevant, c.request, b)
  BY DEF GoodPlan, GoodContext, Derived
<1>3. b # NoBundle /\ \A s \in c.sites : s.status \notin {"STALE", "MISSING"}
  BY <1>1, NoGaps DEF GoodPlan, GoodContext
<1>4. OmittedNodes(c.request, b) = 0
  BY <1>1 DEF GoodPlan, GoodContext, Visited
<1>5. c.relevant.claims = DOMAIN b.claims /\ c.relevant.evidence = DOMAIN b.evidence
  BY <1>2, <1>4, AllIsRelevant
<1>6. ExplicitPaths(c.request.allowed) \cup UNION {b.evidence[e].paths : e \in DOMAIN b.evidence}
        \subseteq DOMAIN c.seeds
  BY <1>2, <1>5, SeedPaths, RelevantIsKnown
<1>7. ASSUME NEW p \in DOMAIN c.seeds, ~Unreadable(p, c.limits)
      PROVE  Governed(plan, p, b)
  <2>1. PICK s \in c.sites : s.path = p
    BY <1>1, <1>7 DEF GoodPlan, GoodContext, Visited
  <2>2. PICK content \in c.seen[p] : s = Site(p, content, c.seeds[p], c.request, b)
    BY <2>1 DEF GoodPlan, GoodContext, WasRead
  <2>3. s.content = content
    BY <2>2 DEF Site
  <2>4. \/ s.status = "UNSUPPORTED"
        \/ /\ s.content # Nothing
           /\ c.seeds[p] = Nothing \/ b.sources[c.seeds[p]].hash \in {Nothing, s.content}
    BY <1>3, <2>2, SiteIsGoverned
  <2> QED BY <2>1, <2>2, <2>3, <2>4 DEF Governed
<1> QED BY <1>3, <1>5, <1>6, <1>7 DEF ReadsItAll

\* An edit of a READY plan is in scope, and if it is required it rests on confirmed sources.
LEMMA ReadyIsJustified ==
  ASSUME PlanningAssumption, NEW b \in SuppliedBundles, NEW plan, GoodPlan(plan, b),
         plan.status = "READY_FOR_HUMAN_REVIEW"
  PROVE  EditsAreJustified(plan, b)
<1> DEFINE c == plan.context
           k == plan.candidate
<1>0. c.omitted \in Nat /\ Status(k, c) = "READY_FOR_HUMAN_REVIEW"
  BY DEF GoodPlan, GoodContext, Visited
<1>1. Blockers(k, c) = {} /\ Errors(k, c) = {} /\ c.gaps = {}
  BY <1>0, ReadyIsClean
<1>2. c.limits.resolved
  BY <1>1, NoGaps DEF GoodPlan, GoodContext
<1>3. c.limits = Constraints(c.request, b)
  BY DEF GoodPlan, GoodContext, Derived
<1>4. plan.references = References(c, b)
  BY DEF GoodPlan
<1> HIDE DEF c, k
<1> SUFFICES ASSUME NEW i \in DOMAIN k.items
             PROVE  /\ Edited(k.items[i]) =>
                         k.items[i].path \in Matched(Allowed(c.request, b))
                                               \ (Fixtures \cup c.request.protected \cup b.denied)
                    /\ k.items[i].disposition = "REQUIRED" =>
                         /\ RefsOf(k.items[i]) # {}
                         /\ \A ref \in k.items[i].sources \ k.items[i].evidence :
                              plan.references[ref] = "CONFIRMED"
  BY DEF EditsAreJustified, c, k
<1> DEFINE item == k.items[i]
<1>5. ItemBlockers(item, k, c) = {}
  BY <1>1 DEF Blockers
<1> HIDE DEF item
<1>6. item.path # Nothing
  BY <1>5 DEF ItemBlockers
<1>7. ItemErrors(item, c) = {}
  BY <1>1, <1>6 DEF Errors, item
<1>8. /\ Edited(item) => item.path \notin c.limits.protected
      /\ RefsOf(item) \subseteq EvidenceRefs(c) \cup SiteRefs(c)
      /\ (item.sources \ item.evidence) \cap EvidenceRefs(c) = {}
  BY <1>5, <1>6 DEF ItemBlockers
<1>9. /\ Edited(item) /\ item.path \notin c.limits.protected => item.path \in c.limits.allowed
      /\ item.disposition = "REQUIRED" => RefsOf(item) # {}
  BY <1>2, <1>7 DEF ItemErrors
<1>10. ASSUME item.disposition = "REQUIRED", NEW ref \in item.sources \ item.evidence
       PROVE  plan.references[ref] = "CONFIRMED"
  <2>1. ref \in SiteRefs(c)
    BY <1>8, <1>10 DEF RefsOf
  <2>2. SiteOf(ref, c).status = "CONFIRMED"
    <3> SUFFICES ASSUME SiteOf(ref, c).status # "CONFIRMED" PROVE FALSE
      OBVIOUS
    <3> DEFINE code == IF SiteOf(ref, c).status = "STALE" THEN "SOURCE_STALE" ELSE "SOURCE_MISSING"
    <3>1. code \in ItemErrors(item, c)
      BY <1>10, <2>1 DEF ItemErrors
    <3> QED BY <1>7, <3>1
  <2> QED BY <1>4, <2>1, <2>2 DEF References, SiteStatus
<1> QED BY <1>3, <1>8, <1>9, <1>10 DEF Constraints, item

LEMMA ReadyIsGrounded ==
  ASSUME PlanningAssumption, NEW b \in SuppliedBundles, NEW plan, GoodPlan(plan, b),
         plan.status = "READY_FOR_HUMAN_REVIEW"
  PROVE  ReadyPlan(plan, b)
<1>1. Blockers(plan.candidate, plan.context) = {}
  BY ReadyIsClean DEF GoodPlan, GoodContext, Visited
<1>2. ~Cyclic(plan.candidate)
  BY <1>1 DEF Blockers
<1>3. IsFiniteSet(DOMAIN plan.candidate.items)
  BY DEF GoodPlan, PlanningAssumption
<1> QED BY <1>2, <1>3, ReadyReadsItAll, ReadyIsJustified, AcyclicIsOrderable DEF ReadyPlan

----------------------------------------------------------------------------
\* A command that has read a plan has read a good one; until the package is replaced it
\* is the plan in it.
GoodConsumer(x, p, b) ==
    /\ x = [task |-> x.task, subject |-> x.subject, plan |-> x.plan, torn |-> x.torn]
    /\ x.torn \in BOOLEAN
    /\ GoodPlan(x.plan, b)
    /\ ~x.torn => p = x.plan

\* The inductive invariant.
FilesInv ==
    /\ bundle \in SuppliedBundles
    /\ files \in [Paths -> Contents \cup {Nothing}]
    /\ seen \in [Paths -> SUBSET (Contents \cup {Nothing})]
ReadingInv ==
    reading # Nothing => /\ GoodReading(reading, bundle, seen)
                         /\ \A p \in Paths : files[p] \in seen[p]
PackageInv ==
    /\ context # Nothing => GoodContext(context, bundle)
    /\ package # Nothing => GoodPlan(package, bundle)
    /\ consumer # Nothing => GoodConsumer(consumer, package, bundle)
PlansInv == FilesInv /\ ReadingInv /\ PackageInv /\ DerivedFromOnePlan

\* What was seen stays seen when more is seen.
LEMMA SeenStaysSeen ==
  ASSUME PlanningAssumption, NEW b \in SuppliedBundles, NEW x, NEW h, NEW g, GoodReading(x, b, h),
         \A p \in Paths : h[p] \subseteq g[p]
  PROVE  GoodReading(x, b, g)
<1>1. DOMAIN x.seeds \subseteq Paths
  BY SeedPaths, RelevantIsKnown DEF GoodReading, Derived
<1>2. ASSUME NEW s \in x.sites PROVE WasRead(s, x, g, b)
  <2>1. WasRead(s, x, h, b)
    BY DEF GoodReading
  <2> QED BY <1>1, <2>1 DEF WasRead
<1> QED BY <1>2 DEF GoodReading

LEMMA EditKeeps ==
  ASSUME PlanningAssumption, PlansInv,
         NEW p \in Paths, NEW content \in Contents \cup {Nothing}, Edit(p, content)
  PROVE  PlansInv'
<1>1. FilesInv'
  BY DEF Edit, PlansInv, FilesInv
<1>2. \A q \in Paths : seen[q] \subseteq seen'[q] /\ (files[q] \in seen[q] => files'[q] \in seen'[q])
  BY DEF Edit, PlansInv, FilesInv
<1>3. ReadingInv'
  <2> USE DEF Edit
  <2>1. bundle' = bundle /\ reading' = reading /\ bundle \in SuppliedBundles
    BY DEF PlansInv, FilesInv
  <2>2. ReadingInv
    BY DEF PlansInv
  <2>3. reading # Nothing => GoodReading(reading, bundle, seen')
    BY <1>2, <2>1, <2>2, SeenStaysSeen DEF ReadingInv
  <2> QED BY <1>2, <2>1, <2>2, <2>3 DEF ReadingInv
<1>4. PackageInv'
  BY DEF Edit, PlansInv, PackageInv
<1>5. DerivedFromOnePlan'
  BY DEF Edit, PlansInv, DerivedFromOnePlan
<1> QED BY <1>1, <1>3, <1>4, <1>5 DEF PlansInv

LEMMA RequestKeeps ==
  ASSUME PlanningAssumption, PlansInv, NEW r \in Requests, Request(r)
  PROVE  PlansInv'
<1>1. FilesInv'
  BY DEF Request, PlansInv, FilesInv
<1>2. ReadingInv'
  <2> DEFINE relevant == Relevant(r, bundle)
             seeds == Seeds(relevant, r, bundle)
             x == [request |-> r, relevant |-> relevant, limits |-> Constraints(r, bundle),
                   seeds |-> seeds, todo |-> DOMAIN seeds, sites |-> {}, bytes |-> 0,
                   omitted |-> OmittedNodes(r, bundle)]
  <2>1. reading' = x /\ bundle' = bundle
    BY DEF Request
  <2>2. OmittedNodes(r, bundle) \in Nat
    BY OmittedIsNumber DEF PlansInv, FilesInv
  <2>3. GoodReading(x, bundle, seen')
    BY <2>2 DEF GoodReading, Derived, Visited
  <2>4. \A p \in Paths : files'[p] \in seen'[p]
    BY DEF Request
  <2> QED BY <2>1, <2>3, <2>4 DEF ReadingInv
<1>3. PackageInv'
  BY DEF Request, PlansInv, PackageInv
<1>4. DerivedFromOnePlan'
  BY DEF Request, PlansInv, DerivedFromOnePlan
<1> QED BY <1>1, <1>2, <1>3, <1>4 DEF PlansInv

LEMMA InspectSeedKeeps ==
  ASSUME PlanningAssumption, PlansInv, InspectSeed
  PROVE  PlansInv'
<1>1. FilesInv'
  BY DEF InspectSeed, PlansInv, FilesInv
<1>2. ReadingInv'
  <2>1. /\ bundle' = bundle /\ files' = files /\ seen' = seen
        /\ reading # Nothing /\ reading.todo # {}
    BY DEF InspectSeed
  <2>2. /\ GoodReading(reading, bundle, seen) /\ \A q \in Paths : files[q] \in seen[q]
        /\ bundle \in SuppliedBundles
    BY <2>1 DEF PlansInv, ReadingInv, FilesInv
  <2>3. PICK x : x = reading
    OBVIOUS
  <2>4. PICK p : p = Min(x.todo)
    OBVIOUS
  <2>5. x.todo \subseteq Nat /\ DOMAIN x.seeds \subseteq Paths /\ x.todo \subseteq DOMAIN x.seeds
    BY <2>2, <2>3, SeedPaths, RelevantIsKnown DEF GoodReading, Derived, PlanningAssumption
  <2>6. p \in x.todo
    BY <2>1, <2>3, <2>4, <2>5, Smallest DEF Min
  <2> DEFINE rest == [x EXCEPT !.todo = @ \ {p}]
             left == [rest EXCEPT !.omitted = @ + 1]
             site == Site(p, files[p], x.seeds[p], x.request, bundle)
             more == [rest EXCEPT !.sites = @ \cup {site}, !.bytes = @ + SizeOf(files[p])]
  <2>7. \/ reading' = left
        \/ Unreadable(p, x.limits) /\ reading' = rest
        \/ reading' = more
    BY <2>3, <2>4 DEF InspectSeed
  <2>8. ASSUME NEW y \in {rest, left, more}
        PROVE  /\ y = [request |-> y.request, relevant |-> y.relevant, limits |-> y.limits, seeds |-> y.seeds,
                       todo |-> y.todo, sites |-> y.sites, bytes |-> y.bytes, omitted |-> y.omitted]
               /\ y.request = x.request /\ y.relevant = x.relevant /\ y.limits = x.limits
               /\ y.seeds = x.seeds /\ y.todo = x.todo \ {p}
    <3>1. PICK request, relevant, limits, seeds, todo, sites, bytes, omitted :
            x = [request |-> request, relevant |-> relevant, limits |-> limits, seeds |-> seeds,
                 todo |-> todo, sites |-> sites, bytes |-> bytes, omitted |-> omitted]
      BY <2>2, <2>3 DEF GoodReading
    <3>2. CASE y = rest
      BY <3>1, <3>2
    <3>3. CASE y = left
      BY <3>1, <3>3
    <3>4. CASE y = more
      <4> HIDE DEF site
      <4> QED BY <3>1, <3>4
    <3> QED BY <3>2, <3>3, <3>4
  <2>9. /\ rest.omitted = x.omitted /\ rest.sites = x.sites
        /\ left.omitted = x.omitted + 1 /\ left.sites = x.sites
        /\ more.omitted = x.omitted /\ more.sites = x.sites \cup {site}
    BY <2>2, <2>3 DEF GoodReading
  <2>10. WasRead(site, x, seen, bundle) /\ site.path = p
    BY <2>2, <2>5, <2>6 DEF WasRead, Site
  <2>11. GoodReading(x, bundle, seen)
    BY <2>2, <2>3
  <2> HIDE DEF rest, left, more, site
  <2>12. ASSUME NEW y, y = reading' PROVE GoodReading(y, bundle, seen)
    <3>1. y \in {rest, left, more}
      BY <2>7, <2>12
    <3>2. Derived(y, bundle) /\ y.todo \subseteq DOMAIN y.seeds
      BY <3>1, <2>8, <2>11 DEF GoodReading, Derived
    <3>3. \A s \in y.sites : WasRead(s, y, seen, bundle)
      BY <3>1, <2>8, <2>9, <2>10, <2>11 DEF GoodReading, WasRead
    <3>4. Visited(y, y.todo, bundle)
      BY <3>1, <2>6, <2>7, <2>8, <2>9, <2>10, <2>11, <2>12 DEF GoodReading, Visited
    <3> QED BY <3>1, <3>2, <3>3, <3>4, <2>8 DEF GoodReading
  <2> QED BY <2>1, <2>2, <2>12 DEF ReadingInv
<1>3. PackageInv'
  BY DEF InspectSeed, PlansInv, PackageInv
<1>4. DerivedFromOnePlan'
  BY DEF InspectSeed, PlansInv, DerivedFromOnePlan
<1> QED BY <1>1, <1>2, <1>3, <1>4 DEF PlansInv

LEMMA WriteContextKeeps ==
  ASSUME PlanningAssumption, PlansInv, WriteContext
  PROVE  PlansInv'
<1>1. FilesInv'
  BY DEF WriteContext, PlansInv, FilesInv
<1>2. ReadingInv'
  BY DEF WriteContext, ReadingInv
<1>3. PackageInv'
  <2>1. /\ bundle' = bundle /\ package' = package /\ consumer' = consumer
        /\ GoodReading(reading, bundle, seen) /\ reading.todo = {}
    BY DEF WriteContext, PlansInv, ReadingInv
  <2>2. PICK c : c = context'
    OBVIOUS
  <2>3. /\ c.request = reading.request /\ c.relevant = reading.relevant /\ c.limits = reading.limits
        /\ c.seeds = reading.seeds /\ c.sites = reading.sites /\ c.omitted = reading.omitted
        /\ c.seen = seen
        /\ c.gaps = CriticalGaps(c.relevant, c.limits, c.sites, c.request, bundle)
    BY <2>2 DEF WriteContext
  <2>4. Derived(c, bundle) /\ Visited(c, {}, bundle)
    BY <2>1, <2>3 DEF GoodReading, Derived, Visited
  <2>5. \A s \in c.sites : WasRead(s, c, c.seen, bundle)
    BY <2>1, <2>3 DEF GoodReading, WasRead
  <2>6. GoodContext(c, bundle)
    BY <2>3, <2>4, <2>5 DEF GoodContext
  <2> QED BY <2>1, <2>2, <2>6 DEF PlansInv, PackageInv
<1>4. DerivedFromOnePlan'
  BY DEF WriteContext, PlansInv, DerivedFromOnePlan
<1> QED BY <1>1, <1>2, <1>3, <1>4 DEF PlansInv

\* A command that is told the package changed is as good as it was.
LEMMA ConsumerIsTold ==
  ASSUME NEW x, NEW old, NEW new, NEW b, GoodConsumer(x, old, b)
  PROVE  GoodConsumer([x EXCEPT !.torn = @ \/ new # old], new, b)
<1>1. PICK task, subject, plan, torn :
        x = [task |-> task, subject |-> subject, plan |-> plan, torn |-> torn]
  BY DEF GoodConsumer
<1> DEFINE y == [x EXCEPT !.torn = @ \/ new # old]
<1>2. y = [task |-> task, subject |-> subject, plan |-> plan, torn |-> (torn \/ new # old)]
  BY <1>1
<1>3. torn \in BOOLEAN /\ GoodPlan(plan, b) /\ (~torn => old = plan)
  BY <1>1 DEF GoodConsumer
<1> HIDE DEF y
<1>4. /\ y.task = task /\ y.subject = subject /\ y.plan = plan /\ y.torn = (torn \/ new # old)
      /\ y.torn \in BOOLEAN
  BY <1>2
<1>5. GoodConsumer(y, new, b)
  BY <1>2, <1>3, <1>4 DEF GoodConsumer
<1> QED BY <1>5 DEF y

LEMMA ValidateKeeps ==
  ASSUME PlanningAssumption, PlansInv, NEW k \in Candidates, Validate(k)
  PROVE  PlansInv'
<1>1. FilesInv' /\ ReadingInv' /\ bundle' = bundle /\ context' = context
  BY DEF Validate, PlansInv, FilesInv, ReadingInv
<1>2. GoodPlan(package', bundle)
  <2>1. GoodContext(context, bundle) /\ Used(k) \subseteq DOMAIN References(context, bundle)
    BY DEF Validate, PlansInv, PackageInv
  <2>2. PICK plan : plan = package'
    OBVIOUS
  <2>3. /\ plan.context = context /\ plan.candidate = k /\ plan.status = Status(k, context)
        /\ plan.references = References(context, bundle)
    BY <2>2 DEF Validate
  <2> QED BY <2>1, <2>2, <2>3 DEF GoodPlan
<1>3. consumer' # Nothing => GoodConsumer(consumer', package', bundle)
  <2>1. CASE consumer = Nothing
    BY <2>1 DEF Validate
  <2>2. CASE consumer # Nothing
    <3>1. GoodConsumer(consumer, package, bundle)
      BY <2>2 DEF PlansInv, PackageInv
    <3>2. PICK x, old, new : x = consumer /\ old = package /\ new = package'
      OBVIOUS
    <3>3. consumer' = [x EXCEPT !.torn = @ \/ new # old]
      BY <2>2, <3>2 DEF Validate
    <3> QED BY <3>1, <3>2, <3>3, ConsumerIsTold
  <2> QED BY <2>1, <2>2
<1>4. PackageInv'
  BY <1>1, <1>2, <1>3 DEF PlansInv, PackageInv
<1>5. DerivedFromOnePlan'
  BY DEF Validate, PlansInv, DerivedFromOnePlan
<1> QED BY <1>1, <1>4, <1>5 DEF PlansInv

LEMMA LoadKeeps ==
  ASSUME PlanningAssumption, PlansInv, NEW task, NEW subject, Load(task, subject)
  PROVE  PlansInv'
<1>1. FilesInv' /\ ReadingInv' /\ bundle' = bundle /\ package' = package /\ context' = context
  BY DEF Load, PlansInv, FilesInv, ReadingInv
<1>2. PICK x : x = consumer'
  OBVIOUS
<1>3. x = [task |-> task, subject |-> subject, plan |-> package, torn |-> FALSE]
  BY <1>2 DEF Load
<1>4. GoodConsumer(x, package, bundle)
  <2>1. GoodPlan(package, bundle)
    BY DEF Load, PlansInv, PackageInv
  <2> QED BY <1>3, <2>1 DEF GoodConsumer
<1>5. PackageInv'
  BY <1>1, <1>2, <1>4 DEF PlansInv, PackageInv
<1>6. DerivedFromOnePlan'
  BY DEF Load, PlansInv, DerivedFromOnePlan
<1> QED BY <1>1, <1>5, <1>6 DEF PlansInv

\* A command that ends leaves everything but its answer.
LEMMA EndingKeeps ==
  ASSUME PlansInv, consumer' = Nothing,
         UNCHANGED <<bundle, files, reading, context, package, seen>>
  PROVE  FilesInv' /\ ReadingInv' /\ PackageInv'
BY DEF PlansInv, FilesInv, ReadingInv, PackageInv

\* The references of a good plan are those of its context, and it has all it uses.
LEMMA OwnReferences ==
  ASSUME NEW x, NEW p, NEW b, GoodConsumer(x, p, b), ~x.torn
  PROVE  /\ p.references = References(x.plan.context, b)
         /\ Used(x.plan.candidate) \subseteq DOMAIN p.references
BY DEF GoodConsumer, GoodPlan

LEMMA ExportKeeps ==
  ASSUME PlanningAssumption, PlansInv, Export
  PROVE  PlansInv'
<1>1. FilesInv' /\ ReadingInv' /\ PackageInv'
  BY EndingKeeps DEF Export
<1>2. skill' # Nothing => SkillAgrees(skill', bundle)
  <2>1. CASE skill' = skill
    BY <2>1 DEF PlansInv, DerivedFromOnePlan
  <2>2. CASE skill' # skill
    <3>1. PICK x, p, y : x = consumer /\ p = package /\ y = skill'
      OBVIOUS
    <3> DEFINE used == Used(x.plan.candidate)
    <3>2. y = [plan |-> x.plan, torn |-> x.torn, references |-> [ref \in used |-> p.references[ref]]]
      BY <2>2, <3>1 DEF Export
    <3>3. GoodConsumer(x, p, bundle)
      BY <3>1 DEF Export, PlansInv, PackageInv
    <3>4. ~x.torn => p.references = References(x.plan.context, bundle)
      BY <3>3, OwnReferences
    <3>5. y.plan = x.plan /\ y.torn = x.torn /\ y.references = [ref \in used |-> p.references[ref]]
      BY <3>2
    <3>6. SkillAgrees(y, bundle)
      BY <3>4, <3>5 DEF SkillAgrees, SameReferences
    <3> QED BY <3>1, <3>6
  <2> QED BY <2>1, <2>2
<1>3. DerivedFromOnePlan'
  BY <1>2 DEF Export, PlansInv, DerivedFromOnePlan
<1> QED BY <1>1, <1>3 DEF PlansInv

LEMMA TraceKeeps ==
  ASSUME PlanningAssumption, PlansInv, Trace
  PROVE  PlansInv'
<1>1. FilesInv' /\ ReadingInv' /\ PackageInv'
  BY EndingKeeps DEF Trace
<1>2. AnswerAgrees(answer', bundle)
  <2>1. PICK x, p, y : x = consumer /\ p = package /\ y = answer'
    OBVIOUS
  <2> DEFINE items == x.plan.candidate.items
             found == {i \in DOMAIN items : items[i].path = x.subject}
             wanted == UNION {RefsOf(items[i]) : i \in found}
  <2>2. y = [task |-> "trace", plan |-> x.plan, torn |-> x.torn, found |-> found,
             references |-> [ref \in wanted \cap DOMAIN p.references |-> p.references[ref]]]
    BY <2>1 DEF Trace
  <2>3. GoodConsumer(x, p, bundle)
    BY <2>1 DEF Trace, PlansInv, PackageInv
  <2>4. wanted \subseteq Used(x.plan.candidate)
    BY DEF Used
  <2>5. ASSUME ~x.torn
        PROVE  /\ p.references = References(x.plan.context, bundle)
               /\ wanted \cap DOMAIN p.references = wanted
    BY <2>3, <2>4, <2>5, OwnReferences
  <2> HIDE DEF wanted
  <2>6. /\ y.task = "trace" /\ y.plan = x.plan /\ y.torn = x.torn /\ y.found = found
        /\ y.references = [ref \in wanted \cap DOMAIN p.references |-> p.references[ref]]
    BY <2>2
  <2>7. ~y.torn => SameReferences(y, wanted, bundle)
    BY <2>5, <2>6 DEF SameReferences
  <2>8. AnswerAgrees(y, bundle)
    BY <2>6, <2>7 DEF AnswerAgrees, wanted
  <2> QED BY <2>1, <2>8
<1>3. DerivedFromOnePlan'
  BY <1>2 DEF Trace, PlansInv, DerivedFromOnePlan
<1> QED BY <1>1, <1>3 DEF PlansInv

\* What a READY plan's edits name: paths in scope and tests.
LEMMA PlannedIsInScope ==
  ASSUME PlanningAssumption, NEW b \in SuppliedBundles, NEW plan, GoodPlan(plan, b),
         plan.status = "READY_FOR_HUMAN_REVIEW", NEW changed
  PROVE  changed \ Mapped(plan.candidate, changed).unplanned
           \subseteq plan.context.limits.allowed
                       \cup UNION {plan.candidate.items[i].tests : i \in DOMAIN plan.candidate.items}
<1> DEFINE k == plan.candidate
           planned == UNION {ItemPaths(k.items[i]) : i \in PlannedItems(k)}
<1>1. Mapped(k, changed).unplanned = changed \ planned
  BY DEF Mapped
<1>2. plan.context.limits.allowed = Matched(Allowed(plan.context.request, b))
  BY DEF GoodPlan, GoodContext, Derived, Constraints
<1>3. ASSUME NEW i \in PlannedItems(k)
      PROVE  k.items[i].path \in plan.context.limits.allowed /\ i \in DOMAIN k.items
  BY <1>2, ReadyIsJustified DEF EditsAreJustified, PlannedItems
<1>4. ASSUME NEW i \in PlannedItems(k), NEW p \in ItemPaths(k.items[i])
      PROVE  p \in plan.context.limits.allowed \cup UNION {k.items[j].tests : j \in DOMAIN k.items}
  BY <1>3 DEF ItemPaths
<1> QED BY <1>1, <1>4

LEMMA HandOffKeeps ==
  ASSUME PlanningAssumption, PlansInv, HandOff
  PROVE  PlansInv'
<1>1. FilesInv' /\ ReadingInv' /\ PackageInv'
  BY EndingKeeps DEF HandOff
<1>2. AnswerAgrees(answer', bundle)
  <2>1. PICK x, y : x = consumer /\ y = answer'
    OBVIOUS
  <2>2. GoodPlan(x.plan, bundle) /\ bundle \in SuppliedBundles
    BY <2>1 DEF HandOff, PlansInv, PackageInv, FilesInv, GoodConsumer
  <2> DEFINE changed == ChangedPaths(x.subject)
             stale == Stale(package.references)
  <2>3. CASE y = [task |-> Refused, diff |-> x.subject]
    <3>1. y.task \notin {"trace", "handoff"}
      BY <2>3 DEF Refused
    <3>2. AnswerAgrees(y, bundle)
      BY <3>1 DEF AnswerAgrees
    <3> QED BY <2>1, <3>2
  <2>4. CASE y = [task |-> "handoff", plan |-> x.plan, diff |-> x.subject,
                  changed |-> changed, map |-> Mapped(x.plan.candidate, changed),
                  stale |-> stale, torn |-> x.torn,
                  status |-> IF changed # {} \/ stale # {} THEN "NEEDS_REVIEW" ELSE "PENDING"]
    <3> HIDE DEF changed, stale
    <3>1. /\ y.task = "handoff" /\ y.plan = x.plan /\ y.changed = changed
          /\ y.map = Mapped(x.plan.candidate, changed)
      BY <2>4
    <3>2. AnswerAgrees(y, bundle)
      BY <2>2, <3>1, PlannedIsInScope DEF AnswerAgrees
    <3> QED BY <2>1, <3>2
  <2> QED BY <2>1, <2>3, <2>4 DEF HandOff
<1>3. DerivedFromOnePlan'
  BY <1>2 DEF HandOff, PlansInv, DerivedFromOnePlan
<1> QED BY <1>1, <1>3 DEF PlansInv

\* The invariant holds in every state.
THEOREM PlansInvariance == PlansSpec => []PlansInv
<1>1. PlansInit => PlansInv
  BY PlanningIsBounded
     DEF PlansInit, PlansInv, FilesInv, ReadingInv, PackageInv, DerivedFromOnePlan, PlanningAssumption
<1>2. PlansInv /\ [PlansNext]_planVars => PlansInv'
  <2> SUFFICES ASSUME PlansInv, [PlansNext]_planVars PROVE PlansInv'
    OBVIOUS
  <2> USE PlanningIsBounded
  <2>1. ASSUME NEW p \in Paths, NEW content \in Contents \cup {Nothing}, Edit(p, content)
        PROVE  PlansInv'
    BY <2>1, EditKeeps
  <2>2. ASSUME NEW r \in Requests, Request(r) PROVE PlansInv'
    BY <2>2, RequestKeeps
  <2>3. CASE InspectSeed \/ WriteContext
    BY <2>3, InspectSeedKeeps, WriteContextKeeps
  <2>4. ASSUME NEW k \in Candidates, Validate(k) PROVE PlansInv'
    BY <2>4, ValidateKeeps
  <2>5. ASSUME NEW task, NEW subject, Load(task, subject) PROVE PlansInv'
    BY <2>5, LoadKeeps
  <2>6. CASE Export \/ Trace \/ HandOff
    BY <2>6, ExportKeeps, TraceKeeps, HandOffKeeps
  <2>7. CASE UNCHANGED planVars
    BY <2>7 DEF planVars, PlansInv, FilesInv, ReadingInv, PackageInv, DerivedFromOnePlan
  <2> QED BY <2>1, <2>2, <2>3, <2>4, <2>5, <2>6, <2>7 DEF PlansNext
<1> QED BY <1>1, <1>2, PTL DEF PlansSpec

\* For every workspace, Bundle, request, candidate and diff, and however often the user edits
\* files and a package is replaced: a READY plan rests on all of the evidence and on
\* sources that held what was recorded, its edits are in scope and can be put in an order,
\* and the Skill, the trace and the hand-off of a plan agree with it (PlansAreGrounded).
THEOREM PlansAreAlwaysGrounded == PlansSpec => []PlansAreGrounded
<1>1. PlansInv => PlansAreGrounded
  BY PlanningIsBounded, ReadyIsGrounded
     DEF PlansInv, FilesInv, PackageInv, PlansAreGrounded, ReadyPlansAreGrounded
<1> QED BY <1>1, PlansInvariance, PTL

(***************************************************************************)
(* Normalized runs.                                                        *)
(***************************************************************************)

\* f lists the numbers of a set, each once and in order.
Enumerates(f, n, at) ==
    /\ f \in [1..n -> at]
    /\ \A p \in at : \E i \in 1..n : f[i] = p
    /\ \A i, j \in 1..n : i < j => f[i] < f[j]

\* t is what s has at these positions, in order.
Selects(t, s, at) ==
    \E n \in Nat : \E f : /\ Enumerates(f, n, at)
                         /\ DOMAIN t = 1..n
                         /\ \A i \in 1..n : t[i] = s[f[i]]

\* What is picked at a set of positions is listed by them.
LEMMA PickedInOrder ==
  ASSUME NEW m \in Nat, NEW at \in SUBSET (1..m), NEW s
  PROVE  Selects(Picked(s, at), s, at)
<1> DEFINE below(i) == {j \in at : j <= i}
           c(i) == Cardinality(below(i))
           n == Cardinality(at)
           f == [i \in 1..n |-> Nth(at, i)]
<1>a. at \subseteq 1..m
  OBVIOUS
<1>0. \A i \in at : i \in Nat /\ 1 <= i /\ i <= m
  BY <1>a
<1>1. IsFiniteSet(at) /\ n \in Nat
  <2>1. IsFiniteSet(1..m)
    BY FS_Interval
  <2>2. IsFiniteSet(at)
    BY <1>a, <2>1, FS_Subset
  <2> QED BY <2>2, FS_CardinalityType
<1>2. ASSUME NEW i \in 0..m
      PROVE  IsFiniteSet(below(i)) /\ c(i) \in Nat /\ c(i) <= n
  BY <1>1, FS_Subset, FS_CardinalityType
<1>3. c(0) = 0
  <2>1. \A j \in at : ~ (j <= 0)
    BY <1>0
  <2>2. below(0) = {}
    BY <2>1
  <2> QED BY <2>2, FS_EmptySet
<1>4. c(m) = n
  <2>1. below(m) = at
    BY <1>0
  <2> QED BY <2>1
<1>5. ASSUME NEW i \in 1..m PROVE c(i) = IF i \in at THEN c(i - 1) + 1 ELSE c(i - 1)
  <2>0. \A j \in at : (j <= i <=> (j <= i - 1 \/ j = i))
    BY <1>0
  <2>1. IsFiniteSet(below(i - 1)) /\ i \notin below(i - 1)
    <3>1. i - 1 \in 0..m /\ ~ (i <= i - 1)
      OBVIOUS
    <3> QED BY <3>1, <1>2
  <2>2. CASE i \in at
    <3>1. below(i) = below(i - 1) \cup {i}
      BY <2>0, <2>2
    <3>2. Cardinality(below(i - 1) \cup {i}) = c(i - 1) + 1
      BY <2>1, FS_AddElement
    <3> QED BY <3>1, <3>2, <2>2
  <2>3. CASE i \notin at
    <3>1. below(i) = below(i - 1)
      BY <2>0, <2>3
    <3> QED BY <3>1, <2>3
  <2> QED BY <2>2, <2>3
<1>6. ASSUME NEW i \in at, NEW j \in at, i < j PROVE c(i) < c(j)
  <2>0. i \in Nat /\ j \in Nat /\ i \in 0..m /\ j \in 0..m
    BY <1>0
  <2>1. (\A x \in at : x <= i => x <= j) /\ j <= j /\ ~ (j <= i)
    BY <1>0, <1>6, <2>0
  <2>2. below(i) \subseteq below(j) /\ j \in below(j) /\ j \notin below(i)
    BY <2>1
  <2>3. c(i) <= c(j) /\ c(i) # c(j)
    BY <1>2, <2>0, <2>2, FS_Subset
  <2> QED BY <2>0, <2>3, <1>2
<1>7. ASSUME NEW k \in 1..n PROVE \E p \in at : c(p) = k
  <2> DEFINE T == {i \in 0..m : k <= c(i)}
  <2>1. T \subseteq Nat /\ T # {}
    <3>1. m \in T
      BY <1>1, <1>4
    <3> QED BY <3>1
  <2>2. PICK x \in T : \A y \in T : x <= y
    BY <2>1, Smallest
  <2>3. x # 0
    BY <1>3, <2>2
  <2>4. x \in 1..m /\ x - 1 \in 0..m /\ x - 1 \notin T
    <3>1. x \in 0..m
      BY <2>2
    <3>2. x \in 1..m /\ x - 1 \in 0..m /\ x - 1 \in Nat /\ ~ (x <= x - 1)
      BY <2>3, <3>1
    <3> HIDE DEF T
    <3> QED BY <2>2, <3>2
  <2>5. c(x - 1) \in Nat /\ c(x) \in Nat /\ ~ (k <= c(x - 1)) /\ k <= c(x)
    BY <2>4, <1>2
  <2>6. c(x) = IF x \in at THEN c(x - 1) + 1 ELSE c(x - 1)
    BY <2>4, <1>5
  <2> HIDE DEF T, c
  <2>7. x \in at /\ c(x) = k
    BY <2>5, <2>6
  <2> QED BY <2>7
<1>8. ASSUME NEW k \in 1..n PROVE f[k] \in at /\ c(f[k]) = k
  <2>1. f[k] = CHOOSE i \in at : c(i) = k
    BY DEF Nth
  <2> HIDE DEF f, c
  <2> QED BY <1>7, <2>1
<1>9. ASSUME NEW p \in at PROVE c(p) \in 1..n /\ f[c(p)] = p
  <2>1. c(p) \in 1..n
    <3>1. p \in 1..m /\ p \in 0..m /\ p - 1 \in 0..m
      BY <1>0
    <3>2. c(p) <= n /\ c(p - 1) \in Nat
      BY <1>2, <3>1
    <3>3. c(p) = c(p - 1) + 1
      BY <1>5, <3>1
    <3> HIDE DEF c, n
    <3> QED BY <3>2, <3>3, <1>1
  <2>2. f[c(p)] \in at /\ c(f[c(p)]) = c(p)
    BY <2>1, <1>8
  <2>3. p \in Nat /\ f[c(p)] \in Nat
    BY <1>0, <2>2
  <2>4. c(p) \in Nat
    BY <2>1, <1>1
  <2> HIDE DEF f, c, n
  <2>5. ~ (p < f[c(p)]) /\ ~ (f[c(p)] < p)
    <3>1. p < f[c(p)] => c(p) < c(f[c(p)])
      BY <1>6, <2>2
    <3>2. f[c(p)] < p => c(f[c(p)]) < c(p)
      BY <1>6, <2>2
    <3> QED BY <3>1, <3>2, <2>2, <2>4
  <2> QED BY <2>1, <2>3, <2>5
<1>10. ASSUME NEW i \in 1..n, NEW j \in 1..n, i < j PROVE f[i] < f[j]
  <2>1. f[i] \in at /\ f[j] \in at /\ c(f[i]) = i /\ c(f[j]) = j
    BY <1>8
  <2> HIDE DEF f, c, n
  <2>2. f[i] \in Nat /\ f[j] \in Nat /\ i \in Nat /\ j \in Nat
    <3>1. f[i] \in Nat /\ f[j] \in Nat
      BY <1>0, <2>1
    <3> QED BY <3>1
  <2>3. ~ (f[j] < f[i])
    <3>1. f[j] < f[i] => c(f[j]) < c(f[i])
      BY <1>6, <2>1
    <3> QED BY <3>1, <2>1, <2>2, <1>10
  <2>4. f[i] # f[j]
    BY <2>1, <2>2, <1>10
  <2> QED BY <2>2, <2>3, <2>4
<1>11. Enumerates(f, n, at)
  <2>1. f \in [1..n -> at]
    BY <1>8
  <2> HIDE DEF f, c
  <2> QED BY <2>1, <1>9, <1>10 DEF Enumerates
<1>12. DOMAIN Picked(s, at) = 1..n /\ \A i \in 1..n : Picked(s, at)[i] = s[f[i]]
  BY DEF Picked
<1> HIDE DEF f, n
<1> QED BY <1>1, <1>11, <1>12 DEF Selects

Alike(f, g, n) == \A i \in 1..n : f[i] = g[i]

\* A set of numbers is listed in one way only.
LEMMA OneEnumeration ==
  ASSUME NEW at, at \subseteq Nat, NEW n \in Nat, NEW k \in Nat, NEW f, NEW g,
         Enumerates(f, n, at), Enumerates(g, k, at)
  PROVE  n = k /\ Alike(f, g, n)
<1> DEFINE T == {i \in Nat : /\ i \in 1..n \cup 1..k
                             /\ ~ (i <= n /\ i <= k /\ f[i] = g[i])}
<1>a. \A i \in 1..n : f[i] \in at /\ f[i] \in Nat
  BY DEF Enumerates
<1>b. \A i \in 1..k : g[i] \in at /\ g[i] \in Nat
  BY DEF Enumerates
<1>c. \A p \in at : (\E i \in 1..n : f[i] = p) /\ (\E i \in 1..k : g[i] = p)
  BY DEF Enumerates
<1>d. /\ \A i, j \in 1..n : i < j => f[i] < f[j]
      /\ \A i, j \in 1..k : i < j => g[i] < g[j]
  BY DEF Enumerates
<1>1. T = {}
  <2> SUFFICES ASSUME T # {} PROVE FALSE
    OBVIOUS
  <2>1. PICK i \in T : \A y \in T : i <= y
    BY Smallest
  <2>2. ASSUME NEW j \in Nat, 1 <= j, j < i PROVE j <= n /\ j <= k /\ f[j] = g[j]
    <3>1. j \notin T /\ (j <= n \/ j <= k)
      BY <2>1, <2>2
    <3> QED BY <3>1, <2>2
  <2>3. i \in Nat /\ 1 <= i /\ (i <= n \/ i <= k) /\ ~ (i <= n /\ i <= k /\ f[i] = g[i])
    BY <2>1
  <2> HIDE DEF T
  <2>4. CASE i <= n
    <3>1. i \in 1..n /\ f[i] \in at /\ f[i] \in Nat
      BY <1>a, <2>3, <2>4
    <3>2. PICK j \in 1..k : g[j] = f[i]
      BY <1>c, <3>1
    <3>3. ~ (j < i)
      <4> SUFFICES ASSUME j < i PROVE FALSE
        OBVIOUS
      <4>1. j \in 1..n /\ f[j] = g[j]
        BY <2>2
      <4>2. f[j] < f[i]
        BY <1>d, <3>1, <4>1
      <4> QED BY <3>1, <3>2, <4>1, <4>2
    <3>4. j # i
      BY <2>3, <2>4, <3>2
    <3>5. i \in 1..k /\ i < j
      BY <2>3, <3>3, <3>4
    <3>6. g[i] < f[i] /\ g[i] \in at /\ g[i] \in Nat
      BY <1>b, <1>d, <3>2, <3>5
    <3>7. PICK l \in 1..n : f[l] = g[i]
      BY <1>c, <3>6
    <3>8. l < i
      <4>1. i < l => f[i] < f[l]
        BY <1>d, <3>1
      <4>2. l # i /\ ~ (i < l)
        BY <3>1, <3>6, <3>7, <4>1
      <4> QED BY <4>2, <2>3
    <3>9. l \in 1..k /\ g[l] = g[i] /\ g[l] < g[i]
      BY <1>d, <2>2, <3>5, <3>7, <3>8
    <3> QED BY <3>6, <3>9
  <2>5. CASE ~ (i <= n)
    <3>1. i \in 1..k /\ g[i] \in at /\ g[i] \in Nat
      BY <1>b, <2>3, <2>5
    <3>2. PICK l \in 1..n : f[l] = g[i]
      BY <1>c, <3>1
    <3>3. l < i
      BY <2>3, <2>5
    <3>4. l \in 1..k /\ g[l] = g[i] /\ g[l] < g[i]
      BY <1>d, <2>2, <3>1, <3>2, <3>3
    <3> QED BY <3>1, <3>4
  <2> QED BY <2>4, <2>5
<1>2. ASSUME NEW i \in 1..n PROVE i <= k /\ f[i] = g[i]
  BY <1>1
<1>3. ASSUME NEW i \in 1..k PROVE i <= n
  BY <1>1
<1>4. n = k
  <2>1. n > 0 => n <= k
    BY <1>2
  <2>2. k > 0 => k <= n
    BY <1>3
  <2> QED BY <2>1, <2>2
<1> QED BY <1>2, <1>4 DEF Alike

\* A list of n members.
IsList(s, n) == n \in Nat /\ DOMAIN s = 1..n

\* Records are what the import made of a draft, and an identity tells type and call.
WellFormed(s) ==
    \A i \in DOMAIN s :
      /\ s[i] = [id |-> s[i].id, draft |-> s[i].draft, linked |-> s[i].linked]
      /\ s[i].id.component = <<s[i].draft.type, s[i].draft.call>>

\* Of two records that are the same, or answer the same call, the first is kept.
Same(r, q) == r.id = q.id \/ (IsResult(r) /\ IsResult(q) /\ r.draft.call = q.draft.call)
Firsts(s) == {i \in DOMAIN s : \A j \in 1..(i - 1) : ~Same(s[j], s[i])}

Linked(r, s) == IF IsResult(r) THEN [r EXCEPT !.linked = CallFor(s, r.draft.call)] ELSE r
IsCall(r, call) == r.draft.type = "call" /\ r.draft.call = call

LEMMA IdTells ==
  ASSUME NEW s, WellFormed(s), NEW i \in DOMAIN s, NEW j \in DOMAIN s, s[i].id = s[j].id
  PROVE  s[i].draft.type = s[j].draft.type /\ s[i].draft.call = s[j].draft.call
<1>1. s[i].id.component = <<s[i].draft.type, s[i].draft.call>>
      /\ s[j].id.component = <<s[j].draft.type, s[j].draft.call>>
  BY DEF WellFormed
<1> QED BY <1>1

\* The call that a result is linked to is the first of its name.
LEMMA FirstCall ==
  ASSUME NEW s, NEW call, NEW p \in DOMAIN s, DOMAIN s \subseteq Nat, call # NoCall,
         IsCall(s[p], call), \A j \in DOMAIN s : j < p => ~IsCall(s[j], call)
  PROVE  CallFor(s, call) = s[p].id
<1> DEFINE at == {i \in DOMAIN s : s[i].draft.type = "call" /\ s[i].draft.call = call}
           first == CHOOSE i \in at : \A j \in at : i <= j
<1>1. p \in at /\ at \subseteq Nat /\ \A j \in at : p <= j
  BY DEF IsCall
<1>2. first \in at /\ \A j \in at : first <= j
  BY <1>1
<1>3. first = p
  <2>1. first <= p /\ p <= first /\ first \in Nat /\ p \in Nat
    BY <1>1, <1>2
  <2> HIDE DEF first
  <2> QED BY <2>1
<1>4. CallFor(s, call) = s[first].id
  BY <1>1 DEF CallFor
<1> QED BY <1>3, <1>4

LEMMA NoCallFor ==
  ASSUME NEW s, NEW call, call = NoCall \/ \A i \in DOMAIN s : ~IsCall(s[i], call)
  PROVE  CallFor(s, call) = NoId
BY DEF CallFor, IsCall

LEMMA FirstOfThem ==
  ASSUME NEW m \in Nat, NEW at, at \subseteq 1..m, at # {}
  PROVE  \E p \in at : \A j \in at : p <= j
<1>1. at \subseteq Nat
  OBVIOUS
<1> QED BY <1>1, Smallest

\* Merging keeps the first record of every identity, hence the first call of every name.
LEMMA CallForMerged ==
  ASSUME NEW m \in Nat, NEW s, DOMAIN s = 1..m, WellFormed(s), NEW n \in Nat, NEW f, NEW t,
         Enumerates(f, n, {i \in DOMAIN s : \A j \in 1..(i - 1) : s[j].id # s[i].id}),
         DOMAIN t = 1..n, \A i \in 1..n : t[i] = s[f[i]], NEW call
  PROVE  CallFor(t, call) = CallFor(s, call)
<1> DEFINE at == {i \in DOMAIN s : IsCall(s[i], call)}
           ids == {i \in DOMAIN s : \A j \in 1..(i - 1) : s[j].id # s[i].id}
<1>1. /\ \A i \in 1..n : f[i] \in ids /\ f[i] \in 1..m
      /\ \A p \in ids : \E i \in 1..n : f[i] = p
      /\ \A i, j \in 1..n : i < j => f[i] < f[j]
  BY DEF Enumerates
<1>2. DOMAIN t = 1..n /\ \A i \in 1..n : t[i] = s[f[i]]
  OBVIOUS
<1>3. CASE call = NoCall
  BY <1>3, NoCallFor
<1>4. CASE at = {}
  <2>1. \A i \in DOMAIN t : ~IsCall(t[i], call)
    BY <1>1, <1>2, <1>4
  <2> QED BY <2>1, <1>4, NoCallFor
<1>5. CASE call # NoCall /\ at # {}
  <2>1. PICK p \in at : \A j \in at : p <= j
    BY <1>5, FirstOfThem
  <2>2. p \in 1..m /\ IsCall(s[p], call) /\ \A j \in 1..m : j < p => ~IsCall(s[j], call)
    BY <2>1
  <2>3. p \in ids
    <3> SUFFICES ASSUME NEW j \in 1..(p - 1), s[j].id = s[p].id PROVE FALSE
      BY <2>2
    <3>1. j \in 1..m /\ j < p
      BY <2>2
    <3>2. IsCall(s[j], call)
      BY <2>2, <3>1, IdTells DEF IsCall
    <3> QED BY <2>2, <3>1, <3>2
  <2>4. PICK a \in 1..n : f[a] = p
    BY <1>1, <2>3
  <2>5. IsCall(t[a], call)
    BY <1>2, <2>2, <2>4
  <2>6. ASSUME NEW b \in DOMAIN t, b < a PROVE ~IsCall(t[b], call)
    <3>1. b \in 1..n /\ f[b] < p /\ f[b] \in 1..m /\ t[b] = s[f[b]]
      BY <1>1, <1>2, <2>4, <2>6
    <3> QED BY <2>2, <3>1
  <2>7. CallFor(s, call) = s[p].id
    <3>1. DOMAIN s \subseteq Nat /\ p \in DOMAIN s
      BY <2>2
    <3> QED BY <1>5, <2>2, <3>1, FirstCall
  <2>8. CallFor(t, call) = t[a].id
    <3>1. DOMAIN t \subseteq Nat /\ a \in DOMAIN t
      BY <1>2
    <3> QED BY <1>5, <2>5, <2>6, <3>1, FirstCall
  <2> QED BY <1>2, <2>4, <2>7, <2>8
<1> QED BY <1>3, <1>4, <1>5

\* t is what s has at these positions, in order, with its results linked by what u has.
LinksOf(t, s, at, u) ==
    \E n \in Nat : \E f : /\ Enumerates(f, n, at)
                         /\ DOMAIN t = 1..n
                         /\ \A i \in 1..n : t[i] = Linked(s[f[i]], u)

\* Linking keeps the records that do not answer a call again, and links the results.
LEMMA LinkGives ==
  ASSUME NEW m, NEW t, IsList(t, m)
  PROVE  LinksOf(Link(t), t, {i \in DOMAIN t : ~Duplicate(t, i)}, t)
<1> DEFINE at == {i \in DOMAIN t : ~Duplicate(t, i)}
           kept == Picked(t, at)
<1>1. m \in Nat /\ at \in SUBSET (1..m)
  BY DEF IsList
<1>2. Link(t) = [i \in DOMAIN kept |->
                    IF IsResult(kept[i])
                    THEN [kept[i] EXCEPT !.linked = CallFor(t, kept[i].draft.call)]
                    ELSE kept[i]]
  BY DEF Link
<1> HIDE DEF at
<1>3. Selects(kept, t, at)
  BY <1>1, PickedInOrder
<1>3a. PICK n \in Nat : \E f : /\ Enumerates(f, n, at)
                               /\ DOMAIN kept = 1..n
                               /\ \A i \in 1..n : kept[i] = t[f[i]]
  BY <1>3 DEF Selects
<1>4. PICK f : /\ Enumerates(f, n, at)
               /\ DOMAIN kept = 1..n
               /\ \A i \in 1..n : kept[i] = t[f[i]]
  BY <1>3a
<1> HIDE DEF kept
<1>5. DOMAIN Link(t) = 1..n /\ \A i \in 1..n : Link(t)[i] = Linked(t[f[i]], t)
  BY <1>2, <1>4 DEF Linked
<1>6. LinksOf(Link(t), t, at, t)
  BY <1>4, <1>5 DEF LinksOf
<1> USE DEF at
<1> QED BY <1>6

LEMMA MergeGives ==
  ASSUME NEW m, NEW s, IsList(s, m)
  PROVE  Selects(Merge(s), s, {i \in DOMAIN s : \A j \in 1..(i - 1) : s[j].id # s[i].id})
<1> DEFINE at == {i \in DOMAIN s : \A j \in 1..(i - 1) : s[j].id # s[i].id}
<1>1. m \in Nat /\ at \in SUBSET (1..m)
  BY DEF IsList
<1>2. Merge(s) = Picked(s, at)
  BY DEF Merge
<1> HIDE DEF at
<1>3. Selects(Merge(s), s, at)
  BY <1>1, <1>2, PickedInOrder
<1> USE DEF at
<1> QED BY <1>3

\* Merging and linking keep the first of every kind, in order, and link it to the first call
\* of its name among all that was merged.
LEMMA Distilled ==
  ASSUME NEW m, NEW s, IsList(s, m), WellFormed(s)
  PROVE  LinksOf(Link(Merge(s)), s, Firsts(s), s)
<1> DEFINE ids == {i \in DOMAIN s : \A j \in 1..(i - 1) : s[j].id # s[i].id}
           t == Merge(s)
           once == {i \in DOMAIN t : ~Duplicate(t, i)}
<1>0. m \in Nat /\ DOMAIN s = 1..m
  BY DEF IsList
<1>0a. Selects(t, s, ids)
  BY MergeGives
<1>1. PICK n1 \in Nat : \E f : /\ Enumerates(f, n1, ids)
                               /\ DOMAIN t = 1..n1
                               /\ \A i \in 1..n1 : t[i] = s[f[i]]
  BY <1>0a DEF Selects
<1>2. PICK f : /\ Enumerates(f, n1, ids)
               /\ DOMAIN t = 1..n1
               /\ \A i \in 1..n1 : t[i] = s[f[i]]
  BY <1>1
<1>3. DOMAIN t = 1..n1 /\ \A i \in 1..n1 : t[i] = s[f[i]]
  BY <1>2
<1>3a. IsList(t, n1)
  BY <1>3 DEF IsList
<1> HIDE DEF t
<1> USE <1>0
<1>4a. LinksOf(Link(t), t, once, t)
  BY <1>3a, LinkGives
<1>4. PICK n \in Nat : \E g : /\ Enumerates(g, n, once)
                              /\ DOMAIN Link(t) = 1..n
                              /\ \A i \in 1..n : Link(t)[i] = Linked(t[g[i]], t)
  BY <1>4a DEF LinksOf
<1>5. PICK g : /\ Enumerates(g, n, once)
               /\ DOMAIN Link(t) = 1..n
               /\ \A i \in 1..n : Link(t)[i] = Linked(t[g[i]], t)
  BY <1>4
<1> DEFINE h == [i \in 1..n |-> f[g[i]]]
<1>6. /\ \A i \in 1..n1 : f[i] \in ids /\ f[i] \in 1..m
      /\ \A p \in ids : \E i \in 1..n1 : f[i] = p
      /\ \A i, j \in 1..n1 : i < j => f[i] < f[j]
  BY <1>2 DEF Enumerates
<1>7. /\ \A i \in 1..n : g[i] \in once /\ g[i] \in 1..n1
      /\ \A a \in once : \E i \in 1..n : g[i] = a
      /\ \A i, j \in 1..n : i < j => g[i] < g[j]
  BY <1>3, <1>5 DEF Enumerates
<1>8. ASSUME NEW a \in once PROVE f[a] \in Firsts(s)
  <2>1. a \in 1..n1 /\ f[a] \in ids /\ f[a] \in 1..m /\ ~Duplicate(t, a)
    BY <1>3, <1>6
  <2> SUFFICES ASSUME NEW j \in 1..(f[a] - 1), Same(s[j], s[f[a]]) PROVE FALSE
    BY <2>1 DEF Firsts
  <2>2. j \in 1..m /\ j < f[a] /\ s[j].id # s[f[a]].id
    BY <2>1
  <2>3. IsResult(s[j]) /\ IsResult(s[f[a]]) /\ s[j].draft.call = s[f[a]].draft.call
    BY <2>2 DEF Same
  <2> DEFINE alike == {i \in 1..m : s[i].id = s[j].id}
  <2>4. PICK k \in alike : \A i \in alike : k <= i
    <3>1. alike \subseteq 1..m /\ alike # {}
      BY <2>2
    <3> HIDE DEF alike
    <3> QED BY <3>1, FirstOfThem
  <2>5. k \in 1..m /\ k <= j /\ s[k].id = s[j].id
    BY <2>2, <2>4
  <2>6. k \in ids
    <3> SUFFICES ASSUME NEW i \in 1..(k - 1), s[i].id = s[k].id PROVE FALSE
      BY <2>5
    <3>1. i \in alike /\ ~ (k <= i)
      BY <2>5
    <3> QED BY <2>4, <3>1
  <2>7. IsResult(s[k]) /\ s[k].draft.call = s[f[a]].draft.call
    BY <2>2, <2>3, <2>5, IdTells DEF IsResult
  <2>8. PICK b \in 1..n1 : f[b] = k
    BY <1>6, <2>6
  <2>9. b < a
    <3>1. f[b] < f[a]
      BY <2>1, <2>2, <2>5, <2>8
    <3>2. f[a] \in Nat /\ f[b] \in Nat /\ (a < b => f[a] < f[b])
      BY <1>6, <2>1
    <3> QED BY <2>1, <3>1, <3>2
  <2>10. IsResult(t[a]) /\ IsResult(t[b]) /\ t[b].draft.call = t[a].draft.call
    BY <1>3, <2>1, <2>3, <2>7, <2>8
  <2>11. b \in 1..(a - 1)
    BY <2>1, <2>9
  <2> QED BY <2>1, <2>10, <2>11 DEF Duplicate
<1>9. ASSUME NEW p \in Firsts(s) PROVE \E a \in once : f[a] = p
  <2>1. p \in ids
    BY DEF Firsts, Same
  <2>2. PICK a \in 1..n1 : f[a] = p
    BY <1>6, <2>1
  <2>3. ASSUME Duplicate(t, a) PROVE FALSE
    <3>1. PICK b \in 1..(a - 1) : IsResult(t[b]) /\ t[b].draft.call = t[a].draft.call
      BY <2>3 DEF Duplicate
    <3>2. b \in 1..n1 /\ b < a
      OBVIOUS
    <3>3. f[b] \in 1..(p - 1)
      BY <1>6, <2>2, <3>2
    <3>4. Same(s[f[b]], s[p])
      BY <1>3, <2>2, <2>3, <3>1, <3>2 DEF Same, Duplicate
    <3> QED BY <3>3, <3>4 DEF Firsts
  <2> QED BY <1>3, <2>2, <2>3
<1> HIDE DEF once, ids
<1>10. Enumerates(h, n, Firsts(s))
  <2>1. h \in [1..n -> Firsts(s)]
    BY <1>7, <1>8
  <2>2. ASSUME NEW p \in Firsts(s) PROVE \E i \in 1..n : h[i] = p
    BY <1>7, <1>9
  <2>3. ASSUME NEW i \in 1..n, NEW j \in 1..n, i < j PROVE h[i] < h[j]
    <3>1. g[i] < g[j] /\ g[i] \in 1..n1 /\ g[j] \in 1..n1
      BY <1>7, <2>3
    <3> QED BY <1>6, <3>1
  <2> QED BY <2>1, <2>2, <2>3 DEF Enumerates
<1>11. ASSUME NEW i \in 1..n PROVE Link(t)[i] = Linked(s[h[i]], s)
  <2>1. t[g[i]] = s[h[i]] /\ Link(t)[i] = Linked(t[g[i]], t)
    BY <1>3, <1>5, <1>7
  <2>2. \A call : CallFor(t, call) = CallFor(s, call)
    BY <1>2, CallForMerged DEF ids
  <2> QED BY <2>1, <2>2 DEF Linked
<1> USE DEF t
<1> QED BY <1>5, <1>10, <1>11 DEF LinksOf

LEMMA LinkedKeeps ==
  ASSUME NEW r, NEW s, r = [id |-> r.id, draft |-> r.draft, linked |-> r.linked]
  PROVE  Linked(r, s) = [id |-> r.id, draft |-> r.draft,
                         linked |-> IF IsResult(r) THEN CallFor(s, r.draft.call) ELSE r.linked]
<1>1. [r EXCEPT !.linked = CallFor(s, r.draft.call)]
        = [id |-> r.id, draft |-> r.draft, linked |-> CallFor(s, r.draft.call)]
  OBVIOUS
<1> QED BY <1>1 DEF Linked

\* Only results have links, and records come from drafts.
Sourced(s) ==
    \A i \in DOMAIN s : s[i].draft \in Drafts /\ (s[i].linked # NoId => IsResult(s[i]))

IsFcn(s) == s = [i \in DOMAIN s |-> s[i]]

\* Records as an import leaves them, and the findings that go with them.
LinksHold(s) ==
    /\ \A i \in DOMAIN s : s[i].linked # NoId => \E j \in DOMAIN s : s[j].id = s[i].linked
    /\ \A i, j \in DOMAIN s :
         (IsResult(s[i]) /\ IsResult(s[j]) /\ s[i].draft.call = s[j].draft.call) => i = j
FindingsHold(r) ==
    /\ ("orphan_tool_result" \in r.diagnostics)
          <=> \E i \in DOMAIN r.records : IsResult(r.records[i]) /\ r.records[i].linked = NoId
    /\ ("missing_tool_result" \in r.diagnostics)
          <=> (~r.partial /\ Unanswered(r.records) # {})
Settled(r) ==
    /\ r.partial \in BOOLEAN
    /\ \E n : IsList(r.records, n)
    /\ IsFcn(r.records)
    /\ WellFormed(r.records) /\ Sourced(r.records)
    /\ LinksHold(r.records) /\ FindingsHold(r)

\* What linking does to merged records, seen from the records themselves.
LEMMA LinkSettles ==
  ASSUME NEW m, NEW t, IsList(t, m), WellFormed(t), Sourced(t)
  PROVE  /\ \E n : IsList(Link(t), n)
         /\ WellFormed(Link(t)) /\ Sourced(Link(t)) /\ LinksHold(Link(t))
         /\ (\E i \in DOMAIN Link(t) : IsResult(Link(t)[i]) /\ Link(t)[i].linked = NoId)
              <=> \E a \in DOMAIN t : /\ IsResult(t[a]) /\ ~Duplicate(t, a)
                                      /\ CallFor(t, t[a].draft.call) = NoId
         /\ Unanswered(Link(t)) = Unanswered(t)
<1> DEFINE once == {i \in DOMAIN t : ~Duplicate(t, i)}
           s == Link(t)
<1>1. m \in Nat /\ DOMAIN t = 1..m
  BY DEF IsList
<1>2. LinksOf(s, t, once, t)
  BY LinkGives
<1> HIDE DEF s
<1>3. PICK n \in Nat : \E g : /\ Enumerates(g, n, once)
                              /\ DOMAIN s = 1..n
                              /\ \A i \in 1..n : s[i] = Linked(t[g[i]], t)
  BY <1>2 DEF LinksOf
<1>4. PICK g : /\ Enumerates(g, n, once)
               /\ DOMAIN s = 1..n
               /\ \A i \in 1..n : s[i] = Linked(t[g[i]], t)
  BY <1>3
<1>5. /\ \A i \in 1..n : g[i] \in 1..m /\ ~Duplicate(t, g[i])
      /\ \A a \in 1..m : ~Duplicate(t, a) => \E i \in 1..n : g[i] = a
      /\ \A i, j \in 1..n : i < j => g[i] < g[j]
  BY <1>1, <1>4 DEF Enumerates
<1> HIDE DEF once
<1>6. ASSUME NEW i \in 1..n
      PROVE  s[i] = [id |-> t[g[i]].id, draft |-> t[g[i]].draft,
                     linked |-> IF IsResult(t[g[i]]) THEN CallFor(t, t[g[i]].draft.call)
                                ELSE t[g[i]].linked]
  BY <1>1, <1>4, <1>5, LinkedKeeps DEF WellFormed
<1>7. ASSUME NEW i \in 1..n
      PROVE  /\ s[i].id = t[g[i]].id /\ s[i].draft = t[g[i]].draft
             /\ IsResult(s[i]) <=> IsResult(t[g[i]])
             /\ s[i].linked = IF IsResult(t[g[i]]) THEN CallFor(t, t[g[i]].draft.call)
                              ELSE t[g[i]].linked
  <2> DEFINE link == IF IsResult(t[g[i]]) THEN CallFor(t, t[g[i]].draft.call)
                     ELSE t[g[i]].linked
  <2>1. s[i] = [id |-> t[g[i]].id, draft |-> t[g[i]].draft, linked |-> link]
    BY <1>6
  <2> HIDE DEF link
  <2>2. s[i].id = t[g[i]].id /\ s[i].draft = t[g[i]].draft /\ s[i].linked = link
    BY <2>1
  <2>3. IsResult(s[i]) <=> IsResult(t[g[i]])
    BY <2>2 DEF IsResult
  <2> USE DEF link
  <2> QED BY <2>2, <2>3
<1>8. IsList(s, n)
  BY <1>4 DEF IsList
<1>9. WellFormed(s)
  BY <1>1, <1>4, <1>5, <1>6, <1>7 DEF WellFormed
<1>10. Sourced(s)
  BY <1>1, <1>4, <1>5, <1>7 DEF Sourced
<1>11. ASSUME NEW a \in 1..m, ~IsResult(t[a]) PROVE \E i \in 1..n : g[i] = a
  BY <1>5, <1>11 DEF Duplicate
<1>12. ASSUME NEW a \in 1..m, IsResult(t[a])
       PROVE  \E i \in 1..n : IsResult(t[g[i]]) /\ t[g[i]].draft.call = t[a].draft.call
  <2> DEFINE alike == {b \in 1..m : IsResult(t[b]) /\ t[b].draft.call = t[a].draft.call}
  <2>1. PICK b \in alike : \A x \in alike : b <= x
    <3>1. alike \subseteq 1..m /\ alike # {}
      BY <1>12
    <3> HIDE DEF alike
    <3> QED BY <1>1, <3>1, FirstOfThem
  <2>2. ~Duplicate(t, b)
    <3> SUFFICES ASSUME NEW x \in 1..(b - 1), IsResult(t[x]), t[x].draft.call = t[b].draft.call
                 PROVE  FALSE
      BY DEF Duplicate
    <3>1. x \in alike /\ ~ (b <= x)
      BY <1>1
    <3> QED BY <2>1, <3>1
  <2> QED BY <1>5, <2>2
<1>13. ASSUME NEW i \in 1..n, NEW j \in 1..n, i # j, IsResult(s[i]), IsResult(s[j]),
              s[i].draft.call = s[j].draft.call
       PROVE  FALSE
  <2>1. ASSUME NEW x \in 1..n, NEW y \in 1..n, x < y, IsResult(s[x]), IsResult(s[y]),
               s[x].draft.call = s[y].draft.call
        PROVE  FALSE
    <3>1. g[x] \in 1..m /\ g[y] \in 1..m /\ g[x] < g[y] /\ ~Duplicate(t, g[y])
      BY <1>5, <2>1
    <3>2. g[x] \in 1..(g[y] - 1)
      BY <1>1, <3>1
    <3>3. IsResult(t[g[x]]) /\ IsResult(t[g[y]]) /\ t[g[x]].draft.call = t[g[y]].draft.call
      BY <1>7, <2>1
    <3> QED BY <3>1, <3>2, <3>3 DEF Duplicate
  <2>2. i < j \/ j < i
    BY <1>13
  <2> QED BY <1>13, <2>1, <2>2
<1>14. ASSUME NEW i \in 1..n, s[i].linked # NoId PROVE \E j \in 1..n : s[j].id = s[i].linked
  <2>1. IsResult(t[g[i]]) /\ s[i].linked = CallFor(t, t[g[i]].draft.call)
    BY <1>1, <1>5, <1>7, <1>14 DEF Sourced
  <2> DEFINE call == t[g[i]].draft.call
             at == {a \in 1..m : IsCall(t[a], call)}
  <2>2. at # {} /\ call # NoCall
    BY <1>1, <1>14, <2>1, NoCallFor
  <2>3. PICK p \in at : \A x \in at : p <= x
    <3>1. at \subseteq 1..m
      OBVIOUS
    <3> HIDE DEF at
    <3> QED BY <1>1, <2>2, <3>1, FirstOfThem
  <2>4. p \in 1..m /\ IsCall(t[p], call) /\ \A x \in 1..m : x < p => ~IsCall(t[x], call)
    BY <1>1, <2>3
  <2>5. DOMAIN t \subseteq Nat /\ p \in DOMAIN t
    BY <1>1, <2>4
  <2> HIDE DEF call
  <2>6. CallFor(t, call) = t[p].id
    BY <1>1, <2>2, <2>4, <2>5, FirstCall
  <2>7. ~IsResult(t[p])
    BY <2>4 DEF IsCall, IsResult
  <2>8. PICK j \in 1..n : g[j] = p
    BY <1>11, <2>4, <2>7
  <2> USE DEF call
  <2> QED BY <1>7, <2>1, <2>6, <2>8
<1>15. LinksHold(s)
  BY <1>4, <1>13, <1>14 DEF LinksHold
<1>16. (\E i \in 1..n : IsResult(s[i]) /\ s[i].linked = NoId)
         <=> \E a \in 1..m : /\ IsResult(t[a]) /\ ~Duplicate(t, a)
                             /\ CallFor(t, t[a].draft.call) = NoId
  <2>1. ASSUME NEW i \in 1..n, IsResult(s[i]), s[i].linked = NoId
        PROVE  /\ g[i] \in 1..m /\ IsResult(t[g[i]]) /\ ~Duplicate(t, g[i])
               /\ CallFor(t, t[g[i]].draft.call) = NoId
    BY <1>5, <1>7, <2>1
  <2>2. ASSUME NEW a \in 1..m, IsResult(t[a]), ~Duplicate(t, a),
               CallFor(t, t[a].draft.call) = NoId
        PROVE  \E i \in 1..n : IsResult(s[i]) /\ s[i].linked = NoId
    <3>1. PICK i \in 1..n : g[i] = a
      BY <1>5, <2>2
    <3> QED BY <1>7, <2>2, <3>1
  <2> QED BY <2>1, <2>2
<1>17. Unanswered(s) = Unanswered(t)
  <2>1. \A c : (\E i \in 1..n : s[i].draft.type = "call" /\ s[i].draft.call = c)
                 <=> \E a \in 1..m : t[a].draft.type = "call" /\ t[a].draft.call = c
    <3>1. ASSUME NEW a \in 1..m, t[a].draft.type = "call"
          PROVE  \E i \in 1..n : s[i].draft = t[a].draft
      <4>1. ~IsResult(t[a])
        BY <3>1 DEF IsResult
      <4> QED BY <1>7, <1>11, <4>1
    <3>2. \A i \in 1..n : g[i] \in 1..m /\ s[i].draft = t[g[i]].draft
      BY <1>5, <1>7
    <3> QED BY <3>1, <3>2
  <2>2. \A c : (\E i \in 1..n : IsResult(s[i]) /\ s[i].draft.call = c)
                 <=> \E a \in 1..m : IsResult(t[a]) /\ t[a].draft.call = c
    BY <1>5, <1>7, <1>12
  <2>3. \A c : c \in Unanswered(s)
                 <=> /\ \E i \in 1..n : s[i].draft.type = "call" /\ s[i].draft.call = c
                     /\ c # NoCall
                     /\ ~ \E i \in 1..n : IsResult(s[i]) /\ s[i].draft.call = c
    BY <1>4 DEF Unanswered
  <2>4. \A c : c \in Unanswered(t)
                 <=> /\ \E i \in 1..m : t[i].draft.type = "call" /\ t[i].draft.call = c
                     /\ c # NoCall
                     /\ ~ \E i \in 1..m : IsResult(t[i]) /\ t[i].draft.call = c
    BY <1>1 DEF Unanswered
  <2> QED BY <2>1, <2>2, <2>3, <2>4
<1> USE DEF s
<1> QED BY <1>1, <1>4, <1>8, <1>9, <1>10, <1>15, <1>16, <1>17

\* What an import leaves is settled: the findings of earlier imports that these records give
\* no reason for are gone.
LEMMA ImportSettles ==
  ASSUME NEW m, NEW s, IsList(s, m), WellFormed(s), Sourced(s), NEW known,
         NEW partial \in BOOLEAN, NEW r,
         r = [records     |-> Link(Merge(s)),
              diagnostics |-> Carried(known) \cup Findings(Merge(s), partial),
              partial     |-> partial]
  PROVE  Settled(r)
<1> DEFINE ids == {i \in DOMAIN s : \A j \in 1..(i - 1) : s[j].id # s[i].id}
           t == Merge(s)
<1>1. m \in Nat /\ DOMAIN s = 1..m
  BY DEF IsList
<1>2. Selects(t, s, ids)
  BY MergeGives
<1>3. PICK n \in Nat : \E f : /\ Enumerates(f, n, ids)
                              /\ DOMAIN t = 1..n
                              /\ \A i \in 1..n : t[i] = s[f[i]]
  BY <1>2 DEF Selects
<1>4. PICK f : /\ Enumerates(f, n, ids)
               /\ DOMAIN t = 1..n
               /\ \A i \in 1..n : t[i] = s[f[i]]
  BY <1>3
<1>5. \A i \in 1..n : f[i] \in 1..m /\ t[i] = s[f[i]]
  BY <1>1, <1>4 DEF Enumerates
<1>6. r.records = Link(t) /\ r.partial = partial
      /\ r.diagnostics = Carried(known) \cup Findings(t, partial)
  OBVIOUS
<1> HIDE DEF t, ids
<1>7. IsList(t, n) /\ WellFormed(t) /\ Sourced(t)
  BY <1>1, <1>4, <1>5 DEF IsList, WellFormed, Sourced
<1>8. /\ \E k : IsList(Link(t), k)
      /\ WellFormed(Link(t)) /\ Sourced(Link(t)) /\ LinksHold(Link(t))
  BY <1>7, LinkSettles
<1>9. "orphan_tool_result" \in r.diagnostics
        <=> \E i \in DOMAIN Link(t) : IsResult(Link(t)[i]) /\ Link(t)[i].linked = NoId
  <2>1. "orphan_tool_result" \in Findings(t, partial)
          <=> \E a \in DOMAIN t : /\ IsResult(t[a]) /\ ~Duplicate(t, a)
                                  /\ CallFor(t, t[a].draft.call) = NoId
    BY DEF Findings
  <2>2. "orphan_tool_result" \notin Carried(known)
    BY DEF Carried
  <2> QED BY <1>6, <1>7, <2>1, <2>2, LinkSettles
<1>10. "missing_tool_result" \in r.diagnostics <=> (~partial /\ Unanswered(Link(t)) # {})
  <2>1. "missing_tool_result" \in Findings(t, partial) <=> (~partial /\ Unanswered(t) # {})
    BY DEF Findings
  <2>2. "missing_tool_result" \notin Carried(known)
    BY DEF Carried
  <2> QED BY <1>6, <1>7, <2>1, <2>2, LinkSettles
<1>11. IsFcn(Link(t))
  BY DEF Link, IsFcn
<1> QED BY <1>6, <1>8, <1>9, <1>10, <1>11 DEF Settled, FindingsHold

LEMMA RecordIs ==
  \A d, pos, fallback :
    LET r == RecordFromDraft(d, pos, fallback)
    IN  /\ r = [id |-> r.id, draft |-> r.draft, linked |-> r.linked]
        /\ r.id.component = <<r.draft.type, r.draft.call>>
        /\ r.draft = d /\ r.linked = NoId
BY DEF RecordFromDraft

LEMMA SameIsTransitive ==
  ASSUME NEW a, NEW b, NEW c, Same(a, b), Same(b, c),
         a.id.component = <<a.draft.type, a.draft.call>>,
         b.id.component = <<b.draft.type, b.draft.call>>,
         c.id.component = <<c.draft.type, c.draft.call>>
  PROVE  Same(a, c)
<1>1. a.id = b.id => a.draft.type = b.draft.type /\ a.draft.call = b.draft.call
  OBVIOUS
<1>2. b.id = c.id => b.draft.type = c.draft.type /\ b.draft.call = c.draft.call
  OBVIOUS
<1> QED BY <1>1, <1>2 DEF Same, IsResult

\* The records of the first u drafts, when every import names its generation.
Sources(src, u) == CurrentRecords(src, 1, u, FALSE)

LEMMA SourcesAre ==
  ASSUME NEW src, NEW u \in Nat
  PROVE  /\ IsList(Sources(src, u), u) /\ IsFcn(Sources(src, u)) /\ WellFormed(Sources(src, u))
         /\ DOMAIN Sources(src, u) = 1..u
         /\ \A p \in 1..u : Sources(src, u)[p] = RecordFromDraft(src[p], p, FALSE)
<1>1. Sources(src, u) = [p \in 1..(u - 1 + 1) |-> RecordFromDraft(src[1 + p - 1], 1 + p - 1, FALSE)]
  BY DEF Sources, CurrentRecords
<1>2. u - 1 + 1 = u /\ \A p \in 1..u : 1 + p - 1 = p
  OBVIOUS
<1>3. /\ DOMAIN Sources(src, u) = 1..u
      /\ \A p \in 1..u : Sources(src, u)[p] = RecordFromDraft(src[p], p, FALSE)
  BY <1>1, <1>2
<1>4. IsList(Sources(src, u), u) /\ IsFcn(Sources(src, u))
  BY <1>1, <1>2 DEF IsList, IsFcn
<1>5. WellFormed(Sources(src, u))
  <2> SUFFICES ASSUME NEW p \in 1..u, NEW r, r = Sources(src, u)[p]
               PROVE  /\ r = [id |-> r.id, draft |-> r.draft, linked |-> r.linked]
                      /\ r.id.component = <<r.draft.type, r.draft.call>>
    BY <1>3 DEF WellFormed
  <2>1. r = RecordFromDraft(src[p], p, FALSE)
    BY <1>3
  <2> QED BY <2>1 DEF RecordFromDraft
<1> QED BY <1>3, <1>4, <1>5

\* s is t and then c.
JoinOf(s, t, n, c, k) ==
    /\ IsList(s, n + k)
    /\ \A i \in 1..n : s[i] = t[i]
    /\ \A i \in 1..k : s[n + i] = c[i]

\* t is what one import of the first u drafts keeps.
ImportOf(t, src, u) ==
    LinksOf(t, Sources(src, u), Firsts(Sources(src, u)), Sources(src, u))

ChunkOf(c, k, src, lo, hi) == c = CurrentRecords(src, lo, hi, FALSE) /\ k = hi - lo + 1

\* The chunk lo..hi takes an import of u drafts to one of w.
Extends(u, lo, hi, w) ==
    /\ u \in Nat /\ lo \in 1..(u + 1) /\ hi \in Nat /\ lo <= hi
    /\ w = IF hi > u THEN hi ELSE u

\* A chunk that overlaps what was imported adds to what one import of all that gives
\* exactly what one import would have added.
LEMMA ChunkExtends ==
  ASSUME NEW src, NEW u, NEW lo, NEW hi, NEW w, Extends(u, lo, hi, w),
         NEW t, ImportOf(t, src, u),
         NEW n, IsList(t, n), NEW s, WellFormed(s),
         NEW chunk, NEW size, ChunkOf(chunk, size, src, lo, hi), JoinOf(s, t, n, chunk, size)
  PROVE  Link(Merge(s)) = Link(Merge(Sources(src, w)))
<1> DEFINE Rec(p) == RecordFromDraft(src[p], p, FALSE)
           m == n + (hi - lo + 1)
           U == Sources(src, u)
           W == Sources(src, w)
<1> USE DEF Extends
<1>0. /\ IsList(s, m)
      /\ \A i \in 1..n : s[i] = t[i]
      /\ \A i \in 1..(hi - lo + 1) : s[n + i] = CurrentRecords(src, lo, hi, FALSE)[i]
  BY DEF JoinOf, ChunkOf
<1>1. /\ n \in Nat /\ lo \in Nat /\ 1 <= lo /\ lo <= u + 1 /\ m \in Nat /\ u <= w /\ hi <= w
      /\ hi - lo + 1 \in Nat
      /\ DOMAIN t = 1..n /\ DOMAIN s = 1..m
  BY <1>0 DEF IsList
<1>a. u \in Nat /\ lo \in 1..(u + 1) /\ hi \in Nat /\ w \in Nat /\ lo <= hi /\ (w = u \/ w = hi)
  OBVIOUS
<1> USE <1>a
<1> HIDE DEF Extends
<1>2. DOMAIN U = 1..u /\ \A p \in 1..u : U[p] = Rec(p)
  BY <1>1, SourcesAre
<1>3. DOMAIN W = 1..w /\ \A p \in 1..w : W[p] = Rec(p)
  BY <1>1, SourcesAre
<1>4. \A p : /\ Rec(p) = [id |-> Rec(p).id, draft |-> Rec(p).draft, linked |-> Rec(p).linked]
             /\ Rec(p).id.component = <<Rec(p).draft.type, Rec(p).draft.call>>
             /\ Rec(p).linked = NoId
  <2> SUFFICES ASSUME NEW p
               PROVE  LET r == RecordFromDraft(src[p], p, FALSE)
                      IN  /\ r = [id |-> r.id, draft |-> r.draft, linked |-> r.linked]
                          /\ r.id.component = <<r.draft.type, r.draft.call>>
                          /\ r.linked = NoId
    OBVIOUS
  <2> QED BY DEF RecordFromDraft
<1>5. PICK f : /\ Enumerates(f, n, Firsts(U))
               /\ \A i \in 1..n : t[i] = Linked(U[f[i]], U)
  <2>1. PICK n1 \in Nat : \E f : /\ Enumerates(f, n1, Firsts(U))
                                 /\ DOMAIN t = 1..n1
                                 /\ \A i \in 1..n1 : t[i] = Linked(U[f[i]], U)
    BY DEF ImportOf, LinksOf
  <2>2. n1 = n
    BY <1>1, <2>1
  <2> QED BY <2>1, <2>2
<1>6. \A p : p \in Firsts(U) <=> p \in 1..u /\ \A q \in 1..(p - 1) : ~Same(Rec(q), Rec(p))
  <2> SUFFICES ASSUME NEW p \in 1..u
               PROVE  p \in Firsts(U) <=> \A q \in 1..(p - 1) : ~Same(Rec(q), Rec(p))
    BY <1>2 DEF Firsts
  <2>1. \A q \in 1..(p - 1) : q \in 1..u
    BY <1>1
  <2> HIDE DEF Rec, U
  <2> QED BY <1>2, <2>1 DEF Firsts
<1>7. \A p : p \in Firsts(W) <=> p \in 1..w /\ \A q \in 1..(p - 1) : ~Same(Rec(q), Rec(p))
  <2> SUFFICES ASSUME NEW p \in 1..w
               PROVE  p \in Firsts(W) <=> \A q \in 1..(p - 1) : ~Same(Rec(q), Rec(p))
    BY <1>3 DEF Firsts
  <2>1. \A q \in 1..(p - 1) : q \in 1..w
    BY <1>1
  <2> HIDE DEF Rec, W
  <2> QED BY <1>3, <2>1 DEF Firsts
<1>8. /\ \A i \in 1..n : f[i] \in Firsts(U) /\ f[i] \in 1..u
      /\ \A p \in Firsts(U) : \E i \in 1..n : f[i] = p
      /\ \A i, j \in 1..n : i < j => f[i] < f[j]
  BY <1>5, <1>6 DEF Enumerates
<1> DEFINE P(i) == IF i <= n THEN f[i] ELSE lo + (i - n) - 1
<1>9. ASSUME NEW i \in 1..m
      PROVE  /\ P(i) \in 1..w
             /\ s[i].id = Rec(P(i)).id /\ s[i].draft = Rec(P(i)).draft
             /\ ~IsResult(s[i]) => s[i] = Rec(P(i))
  <2>1. CASE i <= n
    <3>1. i \in 1..n /\ P(i) = f[i] /\ f[i] \in 1..u /\ f[i] \in 1..w
      BY <1>1, <1>8, <2>1
    <3>2. s[i] = Linked(Rec(f[i]), U)
      BY <1>0, <1>2, <1>5, <3>1
    <3>3. Linked(Rec(f[i]), U)
            = [id |-> Rec(f[i]).id, draft |-> Rec(f[i]).draft,
               linked |-> IF IsResult(Rec(f[i])) THEN CallFor(U, Rec(f[i]).draft.call)
                          ELSE Rec(f[i]).linked]
      BY <1>4, LinkedKeeps
    <3> DEFINE link == IF IsResult(Rec(f[i])) THEN CallFor(U, Rec(f[i]).draft.call)
                       ELSE Rec(f[i]).linked
               r == Rec(f[i])
    <3>4. s[i] = [id |-> r.id, draft |-> r.draft, linked |-> link]
      BY <3>2, <3>3
    <3>5. ~IsResult(r) => link = r.linked
      OBVIOUS
    <3>6. r = [id |-> r.id, draft |-> r.draft, linked |-> r.linked]
      BY <1>4
    <3> HIDE DEF link, r
    <3>7. s[i].id = r.id /\ s[i].draft = r.draft /\ (~IsResult(s[i]) => s[i] = r)
      BY <3>4, <3>5, <3>6 DEF IsResult
    <3> USE DEF r
    <3> QED BY <3>1, <3>7
  <2>2. CASE ~ (i <= n)
    <3> DEFINE j == i - n
    <3>1. j \in 1..(hi - lo + 1) /\ i = n + j
      BY <1>1, <2>2
    <3>2. P(i) = lo + j - 1 /\ P(i) \in 1..w
      BY <1>1, <2>2, <3>1
    <3>3. s[i] = Rec(lo + j - 1)
      <4> HIDE DEF j, m
      <4>1. CurrentRecords(src, lo, hi, FALSE)[j] = Rec(lo + j - 1)
        BY <3>1 DEF CurrentRecords
      <4> QED BY <1>0, <3>1, <4>1
    <3> QED BY <3>2, <3>3
  <2> QED BY <2>1, <2>2
<1>10. ASSUME NEW i \in 1..m, NEW j \in 1..m
       PROVE  Same(s[i], s[j]) <=> Same(Rec(P(i)), Rec(P(j)))
  BY <1>9 DEF Same, IsResult
<1>11. /\ \A i \in 1..n : P(i) = f[i] /\ P(i) <= u
       /\ \A i, j \in 1..m : (i < j /\ j <= n) => P(i) < P(j)
       /\ \A i, j \in 1..m : (n < i /\ i < j) => P(i) < P(j)
  BY <1>1, <1>8
<1>12. \A p \in lo..hi : p - lo + 1 + n \in (n + 1)..m /\ P(p - lo + 1 + n) = p
  BY <1>1
<1>13. \A i \in 1..m : i \in Firsts(s) <=> \A j \in 1..(i - 1) : ~Same(s[j], s[i])
  BY <1>1 DEF Firsts
<1>14. Firsts(s) \subseteq 1..m /\ m \in Nat
  BY <1>1 DEF Firsts
<1>15. \A i \in 1..m : P(i) \in 1..w /\ P(i) \in Nat
  <2> SUFFICES ASSUME NEW i \in 1..m PROVE P(i) \in 1..w /\ P(i) \in Nat
    OBVIOUS
  <2>1. P(i) \in 1..w
    BY <1>9
  <2> HIDE DEF P
  <2> QED BY <2>1
<1>16. \A i, j \in 1..m : Same(s[i], s[j]) <=> Same(Rec(P(i)), Rec(P(j)))
  BY <1>10
<1>17. \A i \in 1..m : i <= n \/ n < i
  BY <1>1
<1>18. \A i \in 1..m : i \in Nat
  OBVIOUS
<1>19. \A p, q, r : Same(Rec(p), Rec(q)) /\ Same(Rec(q), Rec(r)) => Same(Rec(p), Rec(r))
  BY <1>4, SameIsTransitive
<1>20. \A p : Same(Rec(p), Rec(p))
  BY DEF Same
<1> HIDE DEF Rec, P, m, U, W
\* A record that is the first of its kind in all of it is the first of its kind here.
<1>21. ASSUME NEW p \in Firsts(W) PROVE \E i \in Firsts(s) : P(i) = p
  <2>1. p \in 1..w /\ \A q \in 1..(p - 1) : ~Same(Rec(q), Rec(p))
    BY <1>7
  <2>2. CASE p <= u
    <3>1. PICK i \in 1..n : f[i] = p
      BY <1>6, <1>8, <2>1, <2>2
    <3>2. i \in 1..m /\ P(i) = p
      BY <1>1, <1>11, <3>1 DEF m
    <3>3. ASSUME NEW j \in 1..(i - 1) PROVE ~Same(s[j], s[i])
      <4>1. j \in 1..m /\ j < i /\ i <= n
        BY <1>1, <3>1 DEF m
      <4>2. P(j) \in 1..(p - 1)
        BY <1>11, <1>15, <2>1, <3>2, <4>1
      <4> QED BY <1>16, <2>1, <3>2, <4>1, <4>2
    <3> QED BY <1>13, <3>2, <3>3
  <2>3. CASE ~ (p <= u)
    <3> DEFINE i == p - lo + 1 + n
    <3>1. p \in lo..hi
      BY <1>1, <2>1, <2>3
    <3>2. i \in 1..m /\ n < i /\ P(i) = p
      BY <1>1, <1>12, <3>1 DEF m
    <3> HIDE DEF i
    <3>3. ASSUME NEW j \in 1..(i - 1) PROVE ~Same(s[j], s[i])
      <4>1. j \in 1..m /\ j < i
        BY <3>2, <1>18, <1>14
      <4>2. P(j) < p
        <5>1. CASE j <= n
          <6>1. j \in 1..n /\ P(j) <= u
            BY <1>11, <4>1, <5>1, <1>1
          <6> QED BY <1>15, <2>1, <2>3, <4>1, <6>1
        <5>2. CASE n < j
          BY <1>11, <3>2, <4>1, <5>2
        <5> QED BY <1>17, <4>1, <5>1, <5>2
      <4>3. P(j) \in 1..(p - 1)
        BY <1>15, <2>1, <4>1, <4>2
      <4> QED BY <1>16, <2>1, <3>2, <4>1, <4>3
    <3> QED BY <1>13, <3>2, <3>3
  <2> QED BY <2>2, <2>3
\* A record that is the first of its kind comes after all that was put before it.
<1>22. ASSUME NEW j \in Firsts(s), P(j) \in Firsts(W), NEW i \in 1..m, i < j
       PROVE  P(i) < P(j)
  <2>1. j \in 1..m
    BY <1>14
  <2>2. CASE j <= n
    BY <1>11, <1>22, <2>1, <2>2
  <2>3. CASE n < i
    BY <1>11, <1>22, <2>1, <2>3
  <2>4. CASE i <= n /\ n < j
    <3>1. ~ (P(j) <= u)
      <4> SUFFICES ASSUME P(j) <= u PROVE FALSE
        OBVIOUS
      <4>1. P(j) \in Firsts(U)
        BY <1>6, <1>7, <1>22, <1>1
      <4>2. PICK k \in 1..n : f[k] = P(j)
        BY <1>8, <4>1
      <4>3. k \in 1..m /\ k \in 1..(j - 1) /\ P(k) = P(j)
        BY <1>1, <1>11, <2>1, <2>4, <4>2 DEF m
      <4>4. Same(s[k], s[j])
        BY <1>16, <1>20, <2>1, <4>3
      <4> QED BY <1>13, <2>1, <4>3, <4>4
    <3>2. P(i) <= u
      BY <1>1, <1>11, <2>4
    <3> QED BY <1>15, <2>1, <3>1, <3>2
  <2> QED BY <1>17, <2>1, <2>2, <2>3, <2>4
<1>23. ASSUME NEW i \in Firsts(s) PROVE P(i) \in Firsts(W)
  <2>1. i \in 1..m /\ P(i) \in 1..w
    BY <1>14, <1>15
  <2> SUFFICES ASSUME NEW q \in 1..(P(i) - 1), Same(Rec(q), Rec(P(i))) PROVE FALSE
    BY <1>7, <2>1
  <2> DEFINE alike == {x \in 1..w : Same(Rec(x), Rec(P(i)))}
  <2>2. PICK x \in alike : \A y \in alike : x <= y
    <3>1. q \in alike /\ alike \subseteq 1..w
      BY <2>1
    <3> HIDE DEF alike
    <3> QED BY <3>1, FirstOfThem
  <2>3. x \in 1..w /\ Same(Rec(x), Rec(P(i))) /\ x < P(i)
    <3>1. q \in alike
      BY <2>1
    <3> QED BY <2>1, <2>2, <3>1
  <2>4. x \in Firsts(W)
    <3> SUFFICES ASSUME NEW y \in 1..(x - 1), Same(Rec(y), Rec(x)) PROVE FALSE
      BY <1>7, <2>3
    <3>1. y \in alike /\ ~ (x <= y)
      BY <1>19, <2>3
    <3> QED BY <2>2, <3>1
  <2>5. PICK j \in Firsts(s) : P(j) = x
    BY <1>21, <2>4
  <2>6. j \in 1..m /\ j # i
    BY <1>14, <1>15, <2>1, <2>3, <2>5
  <2>7. ~ (i < j)
    <3>1. i < j => P(i) < P(j)
      BY <1>22, <2>1, <2>4, <2>5
    <3> QED BY <1>15, <2>1, <2>3, <2>5, <3>1
  <2>8. j \in 1..(i - 1)
    BY <2>1, <2>6, <2>7, <1>18
  <2> QED BY <1>13, <1>16, <2>1, <2>3, <2>5, <2>6, <2>8
\* Both list the first of every kind of the whole.
<1>24. PICK k \in Nat : \E g : /\ Enumerates(g, k, Firsts(s))
                               /\ DOMAIN Link(Merge(s)) = 1..k
                               /\ \A i \in 1..k : Link(Merge(s))[i] = Linked(s[g[i]], s)
  BY <1>0, Distilled DEF LinksOf
<1>25. PICK g : /\ Enumerates(g, k, Firsts(s))
                /\ DOMAIN Link(Merge(s)) = 1..k
                /\ \A i \in 1..k : Link(Merge(s))[i] = Linked(s[g[i]], s)
  BY <1>24
<1>26. IsList(W, w) /\ WellFormed(W)
  BY <1>3, <1>4 DEF IsList, WellFormed
<1>27. LinksOf(Link(Merge(W)), W, Firsts(W), W)
  BY <1>26, Distilled
<1>28. PICK l \in Nat : \E h : /\ Enumerates(h, l, Firsts(W))
                               /\ DOMAIN Link(Merge(W)) = 1..l
                               /\ \A i \in 1..l : Link(Merge(W))[i] = Linked(W[h[i]], W)
  BY <1>27 DEF LinksOf
<1>29. PICK h : /\ Enumerates(h, l, Firsts(W))
                /\ DOMAIN Link(Merge(W)) = 1..l
                /\ \A i \in 1..l : Link(Merge(W))[i] = Linked(W[h[i]], W)
  BY <1>28
<1> DEFINE e == [i \in 1..k |-> P(g[i])]
<1>30. /\ \A i \in 1..k : g[i] \in Firsts(s) /\ g[i] \in 1..m
       /\ \A p \in Firsts(s) : \E i \in 1..k : g[i] = p
       /\ \A i, j \in 1..k : i < j => g[i] < g[j]
  BY <1>14, <1>25 DEF Enumerates
<1>31. Enumerates(e, k, Firsts(W))
  <2>1. e \in [1..k -> Firsts(W)]
    BY <1>23, <1>30
  <2>2. ASSUME NEW p \in Firsts(W) PROVE \E i \in 1..k : e[i] = p
    BY <1>21, <1>30
  <2>3. ASSUME NEW i \in 1..k, NEW j \in 1..k, i < j PROVE e[i] < e[j]
    BY <1>22, <1>23, <1>30, <2>3
  <2> QED BY <2>1, <2>2, <2>3 DEF Enumerates
<1>32. k = l /\ \A i \in 1..k : e[i] = h[i]
  <2>1. Firsts(W) \subseteq Nat
    BY <1>7
  <2> HIDE DEF e
  <2>2. Enumerates(h, l, Firsts(W))
    BY <1>29
  <2>3. k = l /\ Alike(e, h, k)
    BY <1>31, <2>1, <2>2, OneEnumeration
  <2> QED BY <2>3 DEF Alike
\* And they link results to the first calls of the whole.
<1>33. ASSUME NEW call PROVE CallFor(s, call) = CallFor(W, call)
  <2> DEFINE at == {p \in 1..w : IsCall(Rec(p), call)}
  <2>1. CASE call = NoCall
    BY <2>1, NoCallFor
  <2>2. CASE at = {}
    <3>1. \A p \in DOMAIN W : ~IsCall(W[p], call)
      BY <1>3, <2>2
    <3>2. \A i \in DOMAIN s : ~IsCall(s[i], call)
      BY <1>1, <1>9, <2>2 DEF IsCall
    <3> QED BY <3>1, <3>2, NoCallFor
  <2>3. CASE call # NoCall /\ at # {}
    <3>1. PICK p \in at : \A q \in at : p <= q
      BY <2>3, FirstOfThem
    <3>2. p \in 1..w /\ IsCall(Rec(p), call) /\ \A q \in 1..w : q < p => ~IsCall(Rec(q), call)
      BY <3>1
    <3>3. p \in Firsts(W)
      <4> SUFFICES ASSUME NEW q \in 1..(p - 1), Same(Rec(q), Rec(p)) PROVE FALSE
        BY <1>7, <3>2
      <4>1. q \in 1..w /\ q < p
        BY <3>2
      <4>2. Rec(q).id = Rec(p).id
        BY <3>2 DEF Same, IsResult, IsCall
      <4>3. IsCall(Rec(q), call)
        BY <1>4, <3>2, <4>2 DEF IsCall
      <4> QED BY <3>2, <4>1, <4>3
    <3>4. PICK i \in Firsts(s) : P(i) = p
      BY <1>21, <3>3
    <3>5. i \in 1..m /\ IsCall(s[i], call)
      BY <1>9, <1>14, <3>2, <3>4 DEF IsCall
    <3>6. ASSUME NEW j \in DOMAIN s, j < i PROVE ~IsCall(s[j], call)
      <4>1. j \in 1..m
        BY <1>1, <3>6 DEF m
      <4>2. P(j) \in 1..w /\ P(j) < p
        BY <1>15, <1>22, <3>3, <3>4, <3>6, <4>1
      <4> QED BY <1>9, <3>2, <4>1, <4>2 DEF IsCall
    <3>7. CallFor(s, call) = s[i].id
      <4>1. DOMAIN s \subseteq Nat /\ i \in DOMAIN s
        BY <1>1, <1>18, <3>5 DEF m
      <4> QED BY <2>3, <3>5, <3>6, <4>1, FirstCall
    <3>8. CallFor(W, call) = W[p].id
      <4>1. DOMAIN W \subseteq Nat /\ p \in DOMAIN W /\ IsCall(W[p], call)
            /\ \A q \in DOMAIN W : q < p => ~IsCall(W[q], call)
        BY <1>3, <3>2
      <4> QED BY <2>3, <4>1, FirstCall
    <3> QED BY <1>3, <1>9, <3>2, <3>4, <3>5, <3>7, <3>8
  <2> QED BY <2>1, <2>2, <2>3
<1>34. ASSUME NEW i \in 1..k PROVE Link(Merge(s))[i] = Link(Merge(W))[i]
  <2> DEFINE a == g[i]
             p == h[i]
  <2>1. a \in 1..m /\ P(a) = p /\ p \in 1..w
    BY <1>15, <1>30, <1>32
  <2>2. Link(Merge(s))[i] = Linked(s[a], s) /\ Link(Merge(W))[i] = Linked(Rec(p), W)
    BY <1>3, <1>25, <1>29, <1>32, <2>1
  <2> HIDE DEF a, p
  <2>3. s[a].id = Rec(p).id /\ s[a].draft = Rec(p).draft /\ (~IsResult(s[a]) => s[a] = Rec(p))
    BY <1>9, <2>1
  <2>4. CASE IsResult(s[a])
    <3>1. IsResult(Rec(p))
      BY <2>3, <2>4 DEF IsResult
    <3>2. Linked(s[a], s) = [id |-> s[a].id, draft |-> s[a].draft,
                             linked |-> CallFor(s, s[a].draft.call)]
      <4>1. s[a] = [id |-> s[a].id, draft |-> s[a].draft, linked |-> s[a].linked]
        BY <1>1, <2>1 DEF WellFormed, m
      <4> QED BY <2>4, <4>1, LinkedKeeps
    <3>3. Linked(Rec(p), W) = [id |-> Rec(p).id, draft |-> Rec(p).draft,
                               linked |-> CallFor(W, Rec(p).draft.call)]
      BY <1>4, <3>1, LinkedKeeps
    <3> QED BY <1>33, <2>2, <2>3, <3>2, <3>3
  <2>5. CASE ~IsResult(s[a])
    BY <2>2, <2>3, <2>5 DEF Linked
  <2> QED BY <2>4, <2>5
<1>35. \A x : Link(x) = [i \in DOMAIN Link(x) |-> Link(x)[i]]
  BY DEF Link
<1>36. DOMAIN Link(Merge(s)) = DOMAIN Link(Merge(W))
  BY <1>25, <1>29, <1>32
<1>37. Link(Merge(s)) = Link(Merge(W))
  BY <1>25, <1>34, <1>35, <1>36
<1> QED BY <1>37 DEF W

LEMMA Joined ==
  ASSUME NEW n, NEW t, IsList(t, n), IsFcn(t), NEW k, NEW c, IsList(c, k), IsFcn(c)
  PROVE  JoinOf(t \o c, t, n, c, k)
<1> DEFINE S == {t[i] : i \in 1..n} \cup {c[i] : i \in 1..k}
<1>1. n \in Nat /\ k \in Nat /\ DOMAIN t = 1..n /\ DOMAIN c = 1..k
  BY DEF IsList
<1>2. t \in [1..n -> S] /\ c \in [1..k -> S]
  BY <1>1 DEF IsFcn
<1> HIDE DEF S
<1>3. t \in Seq(S) /\ c \in Seq(S) /\ Len(t) = n /\ Len(c) = k
  BY <1>1, <1>2
<1>4. t \o c \in Seq(S) /\ Len(t \o c) = n + k
  BY <1>3
<1>5. IsList(t \o c, n + k)
  BY <1>1, <1>4 DEF IsList
<1>6. \A i \in 1..(n + k) : (t \o c)[i] = IF i <= n THEN t[i] ELSE c[i - n]
  BY <1>3
<1>7. ASSUME NEW i \in 1..n PROVE (t \o c)[i] = t[i]
  BY <1>1, <1>6
<1>8. ASSUME NEW i \in 1..k PROVE (t \o c)[n + i] = c[i]
  <2>1. \E j \in 1..(n + k) : j = n + i /\ ~ (j <= n) /\ j - n = i
    BY <1>1
  <2>2. PICK j \in 1..(n + k) : j = n + i /\ ~ (j <= n) /\ j - n = i
    BY <2>1
  <2>3. (t \o c)[j] = c[i]
    BY <1>6, <2>2
  <2> QED BY <2>2, <2>3
<1> QED BY <1>5, <1>7, <1>8 DEF JoinOf

LEMMA JoinKeeps ==
  ASSUME NEW n, NEW t, IsList(t, n), NEW k, NEW c, IsList(c, k), NEW s, JoinOf(s, t, n, c, k),
         WellFormed(t), WellFormed(c), Sourced(t), Sourced(c)
  PROVE  WellFormed(s) /\ Sourced(s)
<1>1. n \in Nat /\ k \in Nat /\ DOMAIN t = 1..n /\ DOMAIN c = 1..k /\ DOMAIN s = 1..(n + k)
  BY DEF IsList, JoinOf
<1>2. ASSUME NEW i \in DOMAIN s
      PROVE  /\ s[i] = [id |-> s[i].id, draft |-> s[i].draft, linked |-> s[i].linked]
             /\ s[i].id.component = <<s[i].draft.type, s[i].draft.call>>
             /\ s[i].draft \in Drafts /\ (s[i].linked # NoId => IsResult(s[i]))
  <2>1. CASE i <= n
    <3>1. i \in DOMAIN t /\ s[i] = t[i]
      BY <1>1, <2>1 DEF JoinOf
    <3> QED BY <3>1 DEF WellFormed, Sourced
  <2>2. CASE ~ (i <= n)
    <3>1. i - n \in DOMAIN c /\ i = n + (i - n)
      BY <1>1, <2>2
    <3>2. PICK j \in DOMAIN c : i = n + j
      BY <3>1
    <3>3. s[i] = c[j]
      BY <1>1, <3>2 DEF JoinOf
    <3> QED BY <3>3 DEF WellFormed, Sourced
  <2> QED BY <2>1, <2>2
<1> QED BY <1>2 DEF WellFormed, Sourced

\* A chunk is made of records that have not been linked.
LEMMA ChunkIs ==
  ASSUME NEW src, NEW lo \in Nat, NEW hi \in Nat, 1 <= lo, lo <= hi + 1, NEW fallback,
         \A p \in lo..hi : src[p] \in Drafts
  PROVE  LET c == CurrentRecords(src, lo, hi, fallback)
         IN  IsList(c, hi - lo + 1) /\ IsFcn(c) /\ WellFormed(c) /\ Sourced(c)
<1> DEFINE c == CurrentRecords(src, lo, hi, fallback)
           k == hi - lo + 1
           Rec(i) == RecordFromDraft(src[lo + i - 1], lo + i - 1, fallback)
<1>1. k \in Nat /\ \A i \in 1..k : lo + i - 1 \in lo..hi
  OBVIOUS
<1>2. c = [i \in 1..k |-> Rec(i)]
  BY DEF CurrentRecords
<1>3. ASSUME NEW i \in 1..k
      PROVE  /\ Rec(i) = [id |-> Rec(i).id, draft |-> Rec(i).draft, linked |-> Rec(i).linked]
             /\ Rec(i).id.component = <<Rec(i).draft.type, Rec(i).draft.call>>
             /\ Rec(i).draft \in Drafts /\ Rec(i).linked = NoId
  BY <1>1 DEF RecordFromDraft
<1> HIDE DEF c, k, Rec
<1>4. IsList(c, k) /\ IsFcn(c)
  BY <1>1, <1>2 DEF IsList, IsFcn
<1>5. WellFormed(c) /\ Sourced(c)
  BY <1>2, <1>3 DEF WellFormed, Sourced
<1> QED BY <1>4, <1>5 DEF c, k

\* The inductive invariant.  The findings hold of any records that were merged and linked;
\* the records are those of one import when every import named its generation.
ImportsInv ==
    /\ source \in Seq(Drafts) /\ upTo \in 0..Len(source)
    /\ Settled(run)
    /\ explicit => run.records = Link(Merge(Sources(source, upTo)))

LEMMA ImportsInitially == ImportsInit => ImportsInv
<1> SUFFICES ASSUME ImportsInit PROVE ImportsInv
  OBVIOUS
<1>1. source \in Seq(Drafts) /\ upTo = 0 /\ run = NoRun
  <2>1. PICK n \in 1..MaxLength[explicit] : source \in [1..n -> Drafts]
    BY DEF ImportsInit
  <2>2. n \in Nat
    OBVIOUS
  <2> QED BY <2>1, <2>2 DEF ImportsInit
<1>2. upTo \in 0..Len(source)
  BY <1>1
<1>3. run.records = <<>> /\ run.diagnostics = {} /\ run.partial = FALSE /\ DOMAIN <<>> = {}
  BY <1>1 DEF NoRun
<1>4. Settled(run)
  <2>1. IsList(<<>>, 0) /\ IsFcn(<<>>)
    BY DEF IsList, IsFcn
  <2>2. Unanswered(<<>>) = {}
    BY DEF Unanswered
  <2>3. WellFormed(<<>>) /\ Sourced(<<>>) /\ LinksHold(<<>>)
    BY <1>3 DEF WellFormed, Sourced, LinksHold
  <2>4. FindingsHold(run)
    BY <1>3, <2>2 DEF FindingsHold
  <2> QED BY <1>3, <2>1, <2>3, <2>4 DEF Settled
<1>5. Link(Merge(Sources(source, 0))) = <<>>
  <2> DEFINE S == Sources(source, 0)
  <2>1. DOMAIN S = 1..0
    BY SourcesAre
  <2>2. IsList(S, 0) /\ WellFormed(S) /\ Firsts(S) = {}
    BY <2>1 DEF IsList, WellFormed, Firsts
  <2>3. LinksOf(Link(Merge(S)), S, {}, S)
    BY <2>2, Distilled
  <2> HIDE DEF S
  <2>4. PICK n \in Nat : \E f : Enumerates(f, n, {}) /\ DOMAIN Link(Merge(S)) = 1..n
    BY <2>3 DEF LinksOf
  <2>5. n = 0
    BY <2>4 DEF Enumerates
  <2>6. IsFcn(Link(Merge(S)))
    BY DEF Link, IsFcn
  <2>7. Link(Merge(S)) = [i \in {} |-> Link(Merge(S))[i]]
    BY <2>4, <2>5, <2>6 DEF IsFcn
  <2>8. Link(Merge(S)) = <<>>
    BY <2>7
  <2> QED BY <2>8 DEF S
<1> QED BY <1>1, <1>2, <1>3, <1>4, <1>5 DEF ImportsInv

LEMMA ImportKeeps ==
  ASSUME ImportsInv, NEW lo \in 1..(upTo + 1), NEW hi \in 1..Len(source), lo <= hi,
         NEW partial \in BOOLEAN, Import(lo, hi, partial)
  PROVE  ImportsInv'
<1> DEFINE fallback == partial /\ ~explicit
           c == CurrentRecords(source, lo, hi, fallback)
           s == run.records \o c
           k == hi - lo + 1
<1>1. /\ source \in Seq(Drafts) /\ upTo \in 0..Len(source) /\ Settled(run)
      /\ explicit => run.records = Link(Merge(Sources(source, upTo)))
  BY DEF ImportsInv
<1>2. /\ source' = source /\ explicit' = explicit
      /\ upTo' = IF hi > upTo THEN hi ELSE upTo
      /\ run' = Normalized(run, c, partial)
  BY DEF Import
<1>3. /\ Len(source) \in Nat /\ lo \in Nat /\ hi \in Nat /\ 1 <= lo /\ upTo \in Nat
      /\ lo <= hi + 1 /\ \A p \in lo..hi : source[p] \in Drafts
  BY <1>1
<1>4. IsList(c, k) /\ IsFcn(c) /\ WellFormed(c) /\ Sourced(c)
  BY <1>3, ChunkIs
<1> HIDE DEF c, k
<1>5. PICK n : IsList(run.records, n)
  BY <1>1 DEF Settled
<1>6. JoinOf(s, run.records, n, c, k)
  <2>1. IsFcn(run.records)
    BY <1>1 DEF Settled
  <2> QED BY <1>4, <1>5, <2>1, Joined
<1> HIDE DEF s
<1>7. IsList(s, n + k)
  BY <1>6 DEF JoinOf
<1>8. WellFormed(run.records) /\ Sourced(run.records)
  BY <1>1 DEF Settled
<1>9. WellFormed(s) /\ Sourced(s)
  BY <1>4, <1>5, <1>6, <1>8, JoinKeeps
<1>10. run' = [records     |-> Link(Merge(s)),
               diagnostics |-> Carried(run.diagnostics) \cup Findings(Merge(s), partial),
               partial     |-> partial]
  BY <1>2 DEF Normalized, s
<1>11. Settled(run')
  BY <1>7, <1>9, <1>10, ImportSettles
<1>12. upTo' \in 0..Len(source)
  BY <1>2, <1>3, <1>1
<1>13. ASSUME explicit PROVE run'.records = Link(Merge(Sources(source, upTo')))
  <2>1. fallback = FALSE
    BY <1>13
  <2>2. run.records = Link(Merge(Sources(source, upTo)))
    BY <1>1, <1>13
  <2>3. IsList(Sources(source, upTo), upTo) /\ WellFormed(Sources(source, upTo))
    BY <1>3, SourcesAre
  <2>4. ImportOf(run.records, source, upTo)
    BY <2>2, <2>3, Distilled DEF ImportOf
  <2>5. ChunkOf(c, k, source, lo, hi)
    BY <2>1 DEF c, k, ChunkOf
  <2>7. Extends(upTo, lo, hi, upTo')
    BY <1>2, <1>3 DEF Extends
  <2>8. Link(Merge(s)) = Link(Merge(Sources(source, upTo')))
    BY <1>5, <1>6, <1>9, <2>4, <2>5, <2>7, ChunkExtends
  <2> QED BY <1>10, <2>8
<1> QED BY <1>1, <1>2, <1>11, <1>12, <1>13 DEF ImportsInv

LEMMA InvGivesOne == ImportsInv => ImportsAreOne
<1> SUFFICES ASSUME ImportsInv PROVE ImportsAreOne
  OBVIOUS
<1>1. source \in Seq(Drafts) /\ upTo \in 0..Len(source) /\ Settled(run)
  BY DEF ImportsInv
<1>2. LinksAreCurrent
  BY <1>1 DEF LinksAreCurrent, ImportsTypeOK, Settled, Sourced, LinksHold, FindingsHold
<1>3. Whole(upTo, FALSE).records = Link(Merge(Sources(source, upTo)))
  <2> DEFINE c == Sources(source, upTo)
  <2>1. upTo \in Nat
    BY <1>1
  <2>2. IsList(c, upTo) /\ IsFcn(c)
    BY <2>1, SourcesAre
  <2>3. Whole(upTo, FALSE).records = Link(Merge(<<>> \o c))
    BY DEF Whole, Normalized, NoRun, Sources
  <2> HIDE DEF c
  <2>4. c \in Seq({c[i] : i \in 1..upTo})
    BY <2>1, <2>2 DEF IsList, IsFcn
  <2>5. <<>> \o c = c
    BY <2>4
  <2> QED BY <2>3, <2>5 DEF c
<1> QED BY <1>2, <1>3 DEF ImportsInv, ImportsAreOne, ChunksLeaveNoTrace

\* Chunked imports are one import: whatever chunks a run is imported in, overlapping or
\* repeated, as complete or as partial, its records and links are those of a single import
\* when each import names its generation, no call has two results, and what is reported of
\* orphans and missing results is true of the records there are (normalize_run).
THEOREM ImportsAreAlwaysOne == ImportsSpec => []ImportsAreOne
<1>1. ImportsInit => ImportsInv
  BY ImportsInitially
<1>2. ImportsInv /\ [ImportsNext]_importVars => ImportsInv'
  <2> SUFFICES ASSUME ImportsInv, [ImportsNext]_importVars PROVE ImportsInv'
    OBVIOUS
  <2>1. CASE ImportsNext
    BY <2>1, ImportKeeps DEF ImportsNext
  <2>2. CASE UNCHANGED importVars
    BY <2>2 DEF importVars, ImportsInv
  <2> QED BY <2>1, <2>2
<1>3. ImportsInv => ImportsAreOne
  BY InvGivesOne
<1> QED BY <1>1, <1>2, <1>3, PTL DEF ImportsSpec
=============================================================================
