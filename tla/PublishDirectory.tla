------------------------ MODULE PublishDirectory ------------------------
(***************************************************************************)
(* Replacing an output directory by "move the old one aside, rename the    *)
(* new one in, delete the old one".  Four writers of the toolkit do it:    *)
(*                                                                         *)
(*   "run"    write_normalized_run (run_normalization/core.py)             *)
(*   "atlas"  _publish_directory   (atlas/storage.py)                      *)
(*   "audit"  _replace_bundle      (repository_audit.py)                   *)
(*   "plan"   _publish             (planning/package_builder.py)           *)
(*                                                                         *)
(* They differ in how the backup is named, when a stale backup refuses the *)
(* attempt, and what happens when a rename fails; scene.protocol picks one.*)
(* None of them takes a lock, so publishers may overlap.  A directory      *)
(* rename onto an existing (never empty) directory fails.                  *)
(***************************************************************************)
EXTENDS Naturals, FiniteSets, Sequences

CONSTANTS
    Publishers,   \* processes that publish to the one output path
    Scenes,       \* [protocol, faults, crashes]: which of the four writers they
                  \* run; how many OSErrors are injected into renames and
                  \* deletions; how many processes are killed inside an attempt
    Original,     \* the directory that may be there at the start
    Torn,         \* a directory whose deletion stopped half-way
    Shared,       \* the fixed backup name of _replace_bundle
    None,
    MaxAttempts   \* bound: publications each process starts

\* What can be published, what can be found on disk, and the backup paths.
Versions == {Original} \cup (Publishers \X (1..MaxAttempts))
Bundles == Versions \cup {Torn}
Backups == {Shared} \cup (Publishers \X (0..MaxAttempts))

PublishAssumption ==
    /\ \A s \in Scenes : /\ s.protocol \in {"run", "atlas", "audit", "plan"}
                          /\ {s.faults, s.crashes} \subseteq Nat
    /\ MaxAttempts \in Nat
    /\ None \notin Bundles /\ Torn \notin Versions
    /\ Original \notin Publishers \X (1..MaxAttempts)
    /\ Shared \notin Publishers \X (0..MaxAttempts)

VARIABLES
    scene,     \* the scene: it never changes
    out,       \* what the output path holds
    shelf,     \* what each backup path holds
    pc,        \* where each process is in its attempt
    attempt,   \* attempts each process has started
    moved,     \* whether this attempt took the old directory aside
    published, \* bundles in the order they reached the output path
    acked,     \* bundles whose writer returned normally
    overlapped, \* history: whether two attempts were ever under way at once
    faults, crashes

publisher == <<pc, attempt, moved>>
history   == <<published, acked, overlapped>>
vars      == <<scene, out, shelf, publisher, history, faults, crashes>>

Protocol == scene.protocol

Mine(t) == <<t, attempt[t]>>

\* A fresh name per attempt, one per process, or one for everybody.
Backup(t) == CASE Protocol = "audit" -> Shared
               [] Protocol = "plan"  -> <<t, 0>>
               [] OTHER              -> <<t, attempt[t]>>

Init ==
    /\ scene \in Scenes
    /\ out \in {Original, None}
    /\ shelf = [b \in Backups |-> None]
    /\ pc = [t \in Publishers |-> "idle"]
    /\ attempt = [t \in Publishers |-> 0]
    /\ moved = [t \in Publishers |-> FALSE]
    /\ published = IF out = None THEN <<>> ELSE <<Original>>
    /\ acked = {}
    /\ overlapped = FALSE
    /\ faults = 0 /\ crashes = 0

Goto(t, from, to) == pc[t] = from /\ pc' = [pc EXCEPT ![t] = to]

\* An OSError nobody provoked: a full disk, an open handle, a permission.
Fault == faults < scene.faults /\ faults' = faults + 1
NoFault == UNCHANGED faults

(***************************************************************************)
(* One attempt                                                             *)
(***************************************************************************)
\* The new directory is written beside the output, under a private name.
Stage(t) ==
    /\ Goto(t, "idle", "staged")
    /\ attempt[t] < MaxAttempts
    /\ attempt' = [attempt EXCEPT ![t] = @ + 1]
    /\ moved' = [moved EXCEPT ![t] = FALSE]
    /\ overlapped' = (overlapped \/ \E u \in Publishers \ {t} : pc[u] # "idle")
    /\ UNCHANGED <<out, shelf, published, acked, faults, crashes>>

\* _replace_bundle looks for a stale backup before anything else.
ScreenBackup(t) ==
    /\ Protocol = "audit"
    /\ Goto(t, "staged", IF shelf[Shared] = None THEN "screened" ELSE "idle")
    /\ UNCHANGED <<out, shelf, attempt, moved, history, faults, crashes>>

\* output.exists()
Look(t) ==
    /\ Goto(t, IF Protocol = "audit" THEN "screened" ELSE "staged",
            IF out = None THEN "publish" ELSE IF Protocol = "plan" THEN "screen" ELSE "move")
    /\ UNCHANGED <<out, shelf, attempt, moved, history, faults, crashes>>

\* _publish refuses when its own backup path is taken.
RefuseStale(t) ==
    /\ Goto(t, "screen", IF shelf[Backup(t)] = None THEN "move" ELSE "idle")
    /\ UNCHANGED <<out, shelf, attempt, moved, history, faults, crashes>>

MoveFailed == CASE Protocol = "run" -> "recover" [] Protocol = "atlas" -> "sweep" [] OTHER -> "idle"

\* os.replace(output, backup)
MoveOld(t) ==
    \/ /\ Goto(t, "move", "publish")
       /\ out # None /\ shelf[Backup(t)] = None
       /\ shelf' = [shelf EXCEPT ![Backup(t)] = out]
       /\ out' = None
       /\ moved' = [moved EXCEPT ![t] = TRUE]
       /\ NoFault
       /\ UNCHANGED <<attempt, history, crashes>>
    \/ /\ Goto(t, "move", MoveFailed)
       /\ IF out = None \/ shelf[Backup(t)] # None THEN NoFault ELSE Fault
       /\ UNCHANGED <<out, shelf, attempt, moved, history, crashes>>

PublishFailed(t) == IF Protocol = "plan" /\ ~moved[t] THEN "idle" ELSE "recover"

\* os.replace(temporary, output)
Publish(t) ==
    \/ /\ Goto(t, "publish", "clean")
       /\ out = None
       /\ out' = Mine(t)
       /\ published' = Append(published, Mine(t))
       /\ NoFault
       /\ UNCHANGED <<shelf, attempt, moved, acked, overlapped, crashes>>
    \/ /\ Goto(t, "publish", PublishFailed(t))
       /\ IF out # None THEN NoFault ELSE Fault
       /\ UNCHANGED <<out, shelf, attempt, moved, history, crashes>>

\* Defective variant: every protocol deletes its backup on the way out.
AlwaysSweep == "sweep"
Finish == IF Protocol = "atlas" THEN "sweep" ELSE "idle"

\* Whether the exception handler will try to put the old directory back.
MayRestore(t) ==
    CASE Protocol = "run"   -> shelf[Backup(t)] # None /\ out = None
      [] Protocol = "atlas" -> moved[t] /\ shelf[Backup(t)] # None /\ out = None
      [] Protocol = "audit" -> shelf[Backup(t)] # None
      [] OTHER              -> TRUE

Recover(t) ==
    /\ Goto(t, "recover", IF MayRestore(t) THEN "restore" ELSE Finish)
    /\ UNCHANGED <<out, shelf, attempt, moved, history, faults, crashes>>

\* Defective variant: the restore clears the output path first.
RestoreOverwrites(t) ==
    /\ Goto(t, "restore", Finish)
    /\ shelf[Backup(t)] # None
    /\ out' = shelf[Backup(t)]
    /\ shelf' = [shelf EXCEPT ![Backup(t)] = None]
    /\ NoFault
    /\ UNCHANGED <<attempt, moved, history, crashes>>
\* os.replace(backup, output)
Restore(t) ==
    /\ Goto(t, "restore", Finish)
    /\ \/ /\ shelf[Backup(t)] # None /\ out = None
          /\ out' = shelf[Backup(t)]
          /\ shelf' = [shelf EXCEPT ![Backup(t)] = None]
          /\ NoFault
       \/ /\ IF shelf[Backup(t)] # None /\ out = None THEN Fault ELSE NoFault
          /\ UNCHANGED <<out, shelf>>
    /\ UNCHANGED <<attempt, moved, history, crashes>>

\* The finally clause of _publish_directory after a failure.
Sweep(t) ==
    /\ Goto(t, "sweep", "idle")
    /\ shelf' = [shelf EXCEPT ![Backup(t)] = None]
    /\ UNCHANGED <<out, attempt, moved, history, faults, crashes>>

\* Delete the old directory and return.  The shared backup is deleted by
\* whoever finds it; the others delete only what they moved.
Clean(t) ==
    \/ /\ Goto(t, "clean", "idle")
       /\ shelf' = [shelf EXCEPT ![Backup(t)] =
                       IF moved[t] \/ Protocol = "audit" THEN None ELSE @]
       /\ acked' = acked \cup {Mine(t)}
       /\ NoFault
       /\ UNCHANGED <<out, attempt, moved, published, overlapped, crashes>>
    \/ /\ Goto(t, "clean", IF Protocol = "run" THEN "recover" ELSE "idle")
       /\ shelf[Backup(t)] # None
       /\ moved[t] \/ Protocol = "audit"
       /\ shelf' = [shelf EXCEPT ![Backup(t)] = Torn]
       /\ Fault
       /\ UNCHANGED <<out, attempt, moved, history, crashes>>

\* The process is killed; its temporary and its backup stay where they are.
Crash(t) ==
    /\ pc[t] # "idle"
    /\ crashes < scene.crashes
    /\ crashes' = crashes + 1
    /\ pc' = [pc EXCEPT ![t] = "idle"]
    /\ UNCHANGED <<out, shelf, attempt, moved, history, faults>>

Next ==
    \E t \in Publishers :
          \/ Stage(t) \/ ScreenBackup(t) \/ Look(t) \/ RefuseStale(t)
          \/ MoveOld(t) \/ Publish(t) \/ Recover(t) \/ Restore(t)
          \/ Sweep(t) \/ Clean(t) \/ Crash(t)

Step == Next /\ UNCHANGED scene
Spec == Init /\ [][Step]_vars

(***************************************************************************)
(* Properties                                                              *)
(***************************************************************************)
Quiet == \A t \in Publishers : pc[t] = "idle"

\* Type invariant; once a process is idle nothing of its attempt is pending.
TypeOK ==
    /\ scene \in Scenes
    /\ out \in Bundles \cup {None}
    /\ shelf \in [Backups -> Bundles \cup {None}]
    /\ pc \in [Publishers -> {"idle", "staged", "screened", "screen", "move",
                              "publish", "recover", "restore", "sweep", "clean"}]
    /\ attempt \in [Publishers -> 0..MaxAttempts]
    /\ moved \in [Publishers -> BOOLEAN]
    /\ published \in Seq(Bundles)
    /\ acked \subseteq Bundles
    /\ overlapped \in BOOLEAN
    /\ faults \in 0..scene.faults /\ crashes \in 0..scene.crashes

\* Once the output existed a complete copy of some version is on disk, published
\* or as a backup ("one recoverable bundle", _replace_bundle): whatever fails or
\* dies and however writers overlap in "run" and "plan"; as long as the restore
\* of an Atlas does not fail as well (its sweep deletes the backup regardless);
\* as long as audits, which share one backup name, do not overlap.
Recoverable ==
    /\ TypeOK
    /\ (/\ published # <<>>
        /\ Protocol = "atlas" => faults <= 1
        /\ Protocol = "audit" => ~overlapped)
       => \E b \in Bundles \ {Torn} : b = out \/ \E k \in Backups : shelf[k] = b

\* One failing rename or deletion leaves the output in place: when all writers
\* have returned and none was killed, a path that was ever published resolves.
FailureLeavesOutput ==
    /\ Quiet /\ published # <<>>
    /\ crashes = 0 /\ faults <= 1
    /\ Protocol = "audit" => ~overlapped
    => out # None

\* Together: the output is kept.
OutputIsKept == Recoverable /\ FailureLeavesOutput

PositionOf(b) == CHOOSE i \in 1..Len(published) : published[i] = b

\* A version whose writer reported success is never rolled back to an older
\* one: when all writers have returned, what the output holds was published
\* no earlier than every acknowledged version.  Of overlapping writers only
\* audits keep this, and only when no operation fails: one of three may put back
\* what another could not delete whole.
NoRollback ==
    /\ Quiet /\ out # None
    /\ overlapped => Protocol = "audit" /\ faults = 0
    => \A b \in acked : PositionOf(b) <= PositionOf(out)
=============================================================================
