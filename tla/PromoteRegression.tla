------------------------- MODULE PromoteRegression -------------------------
(***************************************************************************)
(* `aet quality promote` (quality.py, promote_regression): threads of      *)
(* several processes record badcases in regression bundles, directories    *)
(* named by the digest of the canonical case.                              *)
(*                                                                         *)
(* A promotion hashes the fixture, takes a lock inside its process and     *)
(* then a file lock, and either publishes a new bundle with one rename or  *)
(* rewrites the sidecar quality.json of the bundle it finds, through a     *)
(* directory descriptor whose identity it checks before and after.  The    *)
(* user edits the fixture source and moves bundles at any time; a process  *)
(* may die between any two steps, which drops its locks.                   *)
(*                                                                         *)
(* All promotions of the model agree on every field of the canonical case  *)
(* except the fixture, so a digest is a fixture content.                   *)
(***************************************************************************)
EXTENDS Naturals, FiniteSets

CONSTANTS
    Promoters,  \* threads, each running one promotion
    Procs,      \* operating-system processes
    ProcOf,     \* the process of a promoter
    CaseIds,    \* badcase ids
    CaseId,     \* the id of the badcase a promoter is given
    SeenAt,     \* its observed_at
    Contents,   \* contents of a fixture tree
    Copies,     \* inodes of the copies of bundles the user makes
    MaxEdits,   \* bound on the user's steps
    None

ASSUME PromoteAssumption ==
    /\ ProcOf \in [Promoters -> Procs]
    /\ CaseId \in [Promoters -> CaseIds]
    /\ SeenAt \in [Promoters -> Nat]
    /\ MaxEdits \in Nat
    /\ IsFiniteSet(CaseIds)
    /\ Promoters \cap Copies = {}
    /\ None \notin Promoters \cup Copies \cup Contents

\* A promotion makes at most one directory, so its inode is named after it.
Inodes == Promoters \cup Copies
Digests == Contents

\* What _validate_candidate_bundle accepts as quality.json.
Sidecar ==
    {q \in [ids : SUBSET CaseIds, support : Nat, first : Nat, last : Nat] :
        q.support = Cardinality(q.ids) /\ q.first <= q.last}
NoSidecar == [ids |-> {}, support |-> 0, first |-> 0, last |-> 0]

Running == {"hashed", "local", "locked", "anchored", "merged", "bound",
            "renamed", "copied", "sealed", "published"}
Finished == {"done", "error", "crashed"}

VARIABLES
    pc,         \* pc[t]: where promoter t is
    sha,        \* sha[t]: the digest of the fixture t hashed
    inode,      \* inode[t]: the bundle t opened or made
    merged,     \* merged[t]: the sidecar t is about to put in place
    localLock,  \* the threading.Lock of each process and digest: its holder
    flock,      \* the file lock of each digest: its holder
    dest,       \* dest[d]: the inode at output/d
    fixture,    \* fixture[i]: the fixture tree inside inode i
    quality,    \* quality[i]: the sidecar inside inode i
    source,     \* the fixture tree the badcase points to
    edits       \* the user's steps so far

vars == <<pc, sha, inode, merged, localLock, flock, dest, fixture, quality,
          source, edits>>
bundles == <<dest, fixture, quality>>
locks == <<localLock, flock>>
user == <<source, edits>>

MinOf(a, b) == IF a <= b THEN a ELSE b
MaxOf(a, b) == IF a >= b THEN a ELSE b

\* The sidecar of a bundle with one badcase (`quality` before the lock).
FirstSidecar(t) ==
    [ids |-> {CaseId[t]}, support |-> 1, first |-> SeenAt[t], last |-> SeenAt[t]]

\* Defective variant: the ids already there are forgotten.
AccumulateFromScratch(q, t) ==
    [FirstSidecar(t) EXCEPT !.first = MinOf(q.first, SeenAt[t]),
                            !.last = MaxOf(q.last, SeenAt[t])]

\* The sidecar t writes over q: one more id, a recounted support, a wider
\* observation window.
Accumulate(q, t) ==
    LET ids == q.ids \cup {CaseId[t]}
    IN  [ids |-> ids, support |-> Cardinality(ids),
         first |-> MinOf(q.first, SeenAt[t]), last |-> MaxOf(q.last, SeenAt[t])]

Init ==
    /\ pc = [t \in Promoters |-> "idle"]
    /\ sha = [t \in Promoters |-> None]
    /\ inode = [t \in Promoters |-> None]
    /\ merged = [t \in Promoters |-> NoSidecar]
    /\ localLock = [p \in Procs |-> [d \in Digests |-> None]]
    /\ flock = [d \in Digests |-> None]
    /\ dest = [d \in Digests |-> None]
    /\ fixture = [i \in Inodes |-> None]
    /\ quality = [i \in Inodes |-> NoSidecar]
    /\ source \in Contents
    /\ edits = 0

Goto(t, from, to) ==
    /\ pc[t] = from
    /\ pc' = [pc EXCEPT ![t] = to]

---------------------------------------------------------------------------
(* The promotion, up to the lock.                                           *)

\* The checks of the inputs pass and the fixture is hashed: the digest, and so
\* the destination, is settled long before the lock is held.
HashFixture(t) ==
    /\ Goto(t, "idle", "hashed")
    /\ sha' = [sha EXCEPT ![t] = source]
    /\ UNCHANGED <<inode, merged, locks, bundles, user>>

LockLocal(t) ==
    /\ Goto(t, "hashed", "local")
    /\ localLock[ProcOf[t]][sha[t]] = None
    /\ localLock' = [localLock EXCEPT ![ProcOf[t]][sha[t]] = t]
    /\ UNCHANGED <<sha, inode, merged, flock, bundles, user>>

\* Defective variant: a shared lock instead of an exclusive one.
LockFileShared(t) ==
    /\ Goto(t, "local", "locked")
    /\ flock' = [flock EXCEPT ![sha[t]] = t]
    /\ UNCHANGED <<sha, inode, merged, localLock, bundles, user>>

LockFile(t) ==
    /\ Goto(t, "local", "locked")
    /\ flock[sha[t]] = None
    /\ flock' = [flock EXCEPT ![sha[t]] = t]
    /\ UNCHANGED <<sha, inode, merged, localLock, bundles, user>>

\* Only the local lock was held; as a variant of Unlock, defective: the descriptor of the
\* lock file is leaked.
UnlockLocalOnly(t) ==
    /\ localLock' = [localLock EXCEPT ![ProcOf[t]][sha[t]] = None]
    /\ UNCHANGED flock

\* Leaving the with-block closes the descriptor and releases both locks.
Unlock(t) ==
    /\ localLock' = [localLock EXCEPT ![ProcOf[t]][sha[t]] = None]
    /\ flock' = [flock EXCEPT ![sha[t]] = None]

Fail(t) ==
    /\ pc' = [pc EXCEPT ![t] = "error"]
    /\ Unlock(t)
    /\ UNCHANGED <<sha, inode, merged, bundles, user>>

---------------------------------------------------------------------------
(* The destination exists: rewrite its sidecar.                             *)

Anchor(t) ==
    /\ Goto(t, "locked", "anchored")
    /\ dest[sha[t]] # None
    /\ inode' = [inode EXCEPT ![t] = dest[sha[t]]]
    /\ UNCHANGED <<sha, merged, locks, bundles, user>>

\* Defective variant: the duplicate check is missing.
MergeableTwice(t) == fixture[inode[t]] = sha[t]

Mergeable(t) ==
    /\ fixture[inode[t]] = sha[t]
    /\ CaseId[t] \notin quality[inode[t]].ids

ReadSidecar(t) ==
    /\ Goto(t, "anchored", "merged")
    /\ Mergeable(t)
    /\ merged' = [merged EXCEPT ![t] = Accumulate(quality[inode[t]], t)]
    /\ UNCHANGED <<sha, inode, locks, bundles, user>>

\* The fixture inside has changed, or the badcase id is already represented.
RefuseMerge(t) ==
    /\ pc[t] = "anchored"
    /\ ~Mergeable(t)
    /\ Fail(t)
\* _assert_bundle_binding: the directory at the destination is still the one
\* that was opened.
Bound(t) == dest[sha[t]] = inode[t]

AssertBinding(t) ==
    \/ /\ Goto(t, "merged", "bound")
       /\ Bound(t)
       /\ UNCHANGED <<sha, inode, merged, locks, bundles, user>>
    \/ /\ pc[t] = "merged"
       /\ ~Bound(t)
       /\ Fail(t)

\* The rename goes through the descriptor: it lands in the opened directory
\* wherever that is by now.
ReplaceSidecar(t) ==
    /\ Goto(t, "bound", "renamed")
    /\ quality' = [quality EXCEPT ![inode[t]] = merged[t]]
    /\ UNCHANGED <<sha, inode, merged, locks, dest, fixture, user>>

ConfirmBinding(t) ==
    \/ /\ Goto(t, "renamed", "done")
       /\ Bound(t)
       /\ Unlock(t)
       /\ UNCHANGED <<sha, inode, merged, bundles, user>>
    \/ /\ pc[t] = "renamed"
       /\ ~Bound(t)
       /\ Fail(t)

---------------------------------------------------------------------------
(* The destination does not exist: publish a new bundle.                    *)

CopyFixture(t) ==
    /\ Goto(t, "locked", "copied")
    /\ dest[sha[t]] = None
    /\ fixture' = [fixture EXCEPT ![t] = source]
    /\ UNCHANGED <<sha, inode, merged, locks, dest, quality, user>>

\* Defective variant: only the source is hashed again.
SourceUnchanged(t) == source = sha[t]

\* Both the copy and the source are hashed again; then task.json and
\* quality.json are written beside the copy, where nobody looks yet.
FixtureUnchanged(t) == fixture[t] = sha[t] /\ source = sha[t]

SealBundle(t) ==
    /\ Goto(t, "copied", "sealed")
    /\ FixtureUnchanged(t)
    /\ merged' = [merged EXCEPT ![t] = FirstSidecar(t)]
    /\ UNCHANGED <<sha, inode, locks, bundles, user>>

\* The temporary directory goes away with the error.
Discard(t) ==
    /\ pc' = [pc EXCEPT ![t] = "error"]
    /\ fixture' = [fixture EXCEPT ![t] = None]
    /\ Unlock(t)
    /\ UNCHANGED <<sha, inode, merged, dest, quality, user>>

RefuseCopy(t) ==
    /\ pc[t] = "copied"
    /\ ~FixtureUnchanged(t)
    /\ Discard(t)

\* os.replace of a directory over one that is not empty is an OSError.
PublishBundle(t) ==
    \/ /\ Goto(t, "sealed", "published")
       /\ dest[sha[t]] = None
       /\ dest' = [dest EXCEPT ![sha[t]] = t]
       /\ inode' = [inode EXCEPT ![t] = t]
       /\ quality' = [quality EXCEPT ![t] = merged[t]]
       /\ UNCHANGED <<sha, merged, locks, fixture, user>>
    \/ /\ pc[t] = "sealed"
       /\ dest[sha[t]] # None
       /\ Discard(t)

ReturnTask(t) ==
    /\ Goto(t, "published", "done")
    /\ Unlock(t)
    /\ UNCHANGED <<sha, inode, merged, bundles, user>>

---------------------------------------------------------------------------
(* A failing file operation.                                                *)

\* The lock file cannot be opened or locked: only the local lock was held.
FailToLock(t) ==
    /\ Goto(t, "local", "error")
    /\ UnlockLocalOnly(t)
    /\ UNCHANGED <<sha, inode, merged, bundles, user>>

\* An OSError at the lock or anywhere under it, the fsync after the rename included, or
\* a bundle that goes away between exists() and open.
IOFails(t) ==
    \/ FailToLock(t)
    \/ /\ pc[t] \in {"locked", "anchored", "merged", "bound", "renamed"}
       /\ Fail(t)
    \/ /\ pc[t] \in {"copied", "sealed"}
       /\ Discard(t)

---------------------------------------------------------------------------
(* The environment.                                                         *)

\* A process dies: its threads stop and the kernel drops its locks.  What it
\* left in a temporary directory stays there.
Crash(p) ==
    LET dead == {t \in Promoters : ProcOf[t] = p /\ pc[t] \in Running}
    IN  /\ dead # {}
        /\ pc' = [t \in Promoters |-> IF t \in dead THEN "crashed" ELSE pc[t]]
        /\ localLock' = [localLock EXCEPT ![p] = [d \in Digests |-> None]]
        /\ flock' = [d \in Digests |-> IF flock[d] \in dead THEN None ELSE flock[d]]
        /\ UNCHANGED <<sha, inode, merged, bundles, user>>

Edit ==
    /\ edits < MaxEdits
    /\ edits' = edits + 1
    /\ UNCHANGED <<pc, sha, inode, merged, locks>>

EditSource(c) ==
    /\ Edit
    /\ source' = c
    /\ UNCHANGED bundles

TakeAway(d) ==
    /\ Edit
    /\ dest[d] # None
    /\ dest' = [dest EXCEPT ![d] = None]
    /\ UNCHANGED <<fixture, quality, source>>

\* The user puts a copy k of the bundle at e, edited or not, in the place d.
PutCopy(d, e, k, c) ==
    /\ Edit
    /\ dest[e] # None
    /\ quality[k] = NoSidecar
    /\ dest' = [dest EXCEPT ![d] = k]
    /\ fixture' = [fixture EXCEPT ![k] = c]
    /\ quality' = [quality EXCEPT ![k] = quality[dest[e]]]
    /\ UNCHANGED source

---------------------------------------------------------------------------
Promote(t) ==
    \/ HashFixture(t) \/ LockLocal(t) \/ LockFile(t)
    \/ Anchor(t) \/ ReadSidecar(t) \/ RefuseMerge(t)
    \/ AssertBinding(t) \/ ReplaceSidecar(t) \/ ConfirmBinding(t)
    \/ CopyFixture(t) \/ SealBundle(t) \/ RefuseCopy(t) \/ PublishBundle(t)
    \/ ReturnTask(t) \/ IOFails(t)

User ==
    \/ \E c \in Contents : EditSource(c)
    \/ \E d \in Digests : TakeAway(d)
    \/ \E d, e \in Digests, k \in Copies, c \in Contents : PutCopy(d, e, k, c)

\* Every promotion has returned or died: nothing more needs to happen.
Quiescent == \A t \in Promoters : pc[t] \in Finished

Next ==
    \/ \E t \in Promoters : Promote(t)
    \/ \E p \in Procs : Crash(p)
    \/ User
    \/ Quiescent /\ UNCHANGED vars

Spec == Init /\ [][Next]_vars

\* A thread that can take a step takes one: the locks are released by whoever
\* holds them, and each promotion runs once.  That a lock cannot be had is nothing a
\* thread waiting for it may count on.
FairSpec == Spec /\ \A t \in Promoters : WF_vars(Promote(t) /\ ~FailToLock(t))

---------------------------------------------------------------------------
(* Properties.                                                              *)

TypeOK ==
    /\ pc \in [Promoters -> {"idle"} \cup Running \cup Finished]
    /\ sha \in [Promoters -> Contents \cup {None}]
    /\ inode \in [Promoters -> Inodes \cup {None}]
    /\ merged \in [Promoters -> Sidecar]
    /\ localLock \in [Procs -> [Digests -> Promoters \cup {None}]]
    /\ flock \in [Digests -> Promoters \cup {None}]
    /\ dest \in [Digests -> Inodes \cup {None}]
    /\ fixture \in [Inodes -> Contents \cup {None}]
    /\ quality \in [Inodes -> Sidecar]
    /\ source \in Contents
    /\ edits \in 0..MaxEdits

\* A promotion that returned success is still counted in the bundle it went
\* to, with its time inside the observation window, whatever promotions of
\* other threads and processes did to that sidecar since (promote_regression
\* reads, merges and rewrites the whole file).
AcknowledgedIsCounted ==
    \A t \in Promoters : pc[t] = "done" =>
        LET q == quality[inode[t]]
        IN  CaseId[t] \in q.ids /\ q.first <= SeenAt[t] /\ SeenAt[t] <= q.last

\* One badcase id raises the support of a bundle once: of two promotions given
\* the same badcase only one can succeed on the same bundle, however they
\* interleave ("duplicate badcase id is already represented").
CountedOnce ==
    \A t, u \in Promoters :
        (t # u /\ pc[t] = "done" /\ pc[u] = "done" /\ inode[t] = inode[u])
            => CaseId[t] # CaseId[u]

\* A promotion puts at a destination only a bundle whose fixture hashes to the
\* name of the directory, although the source was hashed before the lock and
\* may be edited before and after it is copied.
PublishedFixtureMatches ==
    [][\A d \in Digests :
         (dest'[d] # dest[d] /\ dest'[d] \in Promoters) => fixture'[dest'[d]] = d]_vars
\* The abstract shelf: promotions appear atomic, support only grows, and no
\* step of one promotion undoes what another recorded (promote_regression
\* rewrites the whole sidecar).
Store == INSTANCE RegressionStore WITH
    where <- dest,
    counted <- [i \in Inodes |-> quality[i].ids]

ImplementsStore == Store!Spec

\* No promotion waits forever: the two locks are always taken in the same
\* order, and crash or refusal releases them.
EveryPromotionReturns ==
    \A t \in Promoters : pc[t] = "hashed" ~> pc[t] \in Finished
=============================================================================
