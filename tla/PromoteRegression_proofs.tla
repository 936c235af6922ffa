---------------------- MODULE PromoteRegression_proofs ----------------------
(***************************************************************************)
(* Proofs about `aet quality promote`, for any threads, processes, badcase *)
(* ids, contents and user steps.                                           *)
(*                                                                         *)
(* The argument: a promotion between its locks owns its digest (Owners),   *)
(* a bundle on the shelf is never empty and an unpublished one always is   *)
(* (Fresh), so the inode a promotion has opened belongs to its digest      *)
(* alone (Placed); hence nobody else rewrites the sidecar between its read *)
(* and its rename (Drafts), and what it recorded stays (Counted).          *)
(***************************************************************************)
EXTENDS PromoteRegression, TLAPS, FiniteSetTheorems

Critical == {"locked", "anchored", "merged", "bound", "renamed",
             "copied", "sealed", "published"}
Opened == {"anchored", "merged", "bound", "renamed", "published"}
Unpublished == {"idle", "hashed", "local", "locked", "copied", "sealed"}
Recorded == {"renamed", "published", "done"}

Owners ==
    \A t \in Promoters :
        /\ pc[t] \in Running => sha[t] \in Contents
        /\ pc[t] \in Critical => flock[sha[t]] = t

Fresh ==
    /\ \A t \in Promoters : pc[t] \in Unpublished => quality[t].ids = {}
    /\ \A d \in Digests : dest[d] # None => quality[dest[d]].ids # {}
    /\ \A t \in Promoters :
         pc[t] \in Opened \cup {"done"} =>
            inode[t] \in Inodes /\ quality[inode[t]].ids # {}

Placed ==
    /\ \A d, e \in Digests : (dest[d] = dest[e] /\ dest[d] # None) => d = e
    /\ \A t \in Promoters : pc[t] \in Opened =>
         \A e \in Digests : dest[e] = inode[t] => e = sha[t]
    /\ \A t, u \in Promoters :
         (pc[t] \in Opened /\ pc[u] \in Opened /\ inode[t] = inode[u]) => sha[t] = sha[u]

Drafts ==
    \A t \in Promoters :
        /\ pc[t] \in {"merged", "bound"} =>
             /\ merged[t] = Accumulate(quality[inode[t]], t)
             /\ CaseId[t] \notin quality[inode[t]].ids
        /\ pc[t] = "sealed" => merged[t] = FirstSidecar(t) /\ fixture[t] = sha[t]

Includes(q, t) == CaseId[t] \in q.ids /\ q.first <= SeenAt[t] /\ SeenAt[t] <= q.last

Counted ==
    /\ \A t \in Promoters : pc[t] \in Recorded => Includes(quality[inode[t]], t)
    /\ \A t, u \in Promoters :
         (t # u /\ pc[t] \in Recorded /\ pc[u] \in Recorded /\ inode[t] = inode[u])
            => CaseId[t] # CaseId[u]

IInv == TypeOK /\ Owners /\ Fresh /\ Placed /\ Drafts /\ Counted

(***************************************************************************)
(* Sidecars                                                                *)
(***************************************************************************)

\* A bundle without a sidecar counts nothing.
LEMMA NoSidecarType == NoSidecar \in Sidecar /\ NoSidecar.ids = {}
  BY FS_EmptySet DEF NoSidecar, Sidecar

\* The first sidecar of a bundle is valid and records its badcase.
LEMMA FirstSidecarFacts ==
  ASSUME NEW t \in Promoters
  PROVE  /\ FirstSidecar(t) \in Sidecar
         /\ FirstSidecar(t).ids = {CaseId[t]}
         /\ Includes(FirstSidecar(t), t)
<1>1. CaseId[t] \in CaseIds /\ SeenAt[t] \in Nat
  BY PromoteAssumption
<1>2. Cardinality({CaseId[t]}) = 1
  BY FS_Singleton
<1> QED BY <1>1, <1>2 DEF FirstSidecar, Sidecar, Includes

\* Accumulate makes a valid sidecar that records the badcase and keeps every
\* badcase already recorded, with its time in the window.
LEMMA AccumulateFacts ==
  ASSUME NEW t \in Promoters, NEW q \in Sidecar
  PROVE  /\ Accumulate(q, t) \in Sidecar
         /\ Accumulate(q, t).ids = q.ids \cup {CaseId[t]}
         /\ Includes(Accumulate(q, t), t)
         /\ \A u \in Promoters : Includes(q, u) => Includes(Accumulate(q, t), u)
<1>1. /\ CaseId[t] \in CaseIds
      /\ \A u \in Promoters : SeenAt[u] \in Nat
  BY PromoteAssumption
<1>2. q.ids \cup {CaseId[t]} \in SUBSET CaseIds
  BY <1>1 DEF Sidecar
<1>3. Cardinality(q.ids \cup {CaseId[t]}) \in Nat
  BY <1>2, PromoteAssumption, FS_Subset, FS_CardinalityType
<1>4. q.first \in Nat /\ q.last \in Nat /\ q.first <= q.last
  BY DEF Sidecar
<1>5. /\ MinOf(q.first, SeenAt[t]) \in Nat
      /\ MaxOf(q.last, SeenAt[t]) \in Nat
      /\ MinOf(q.first, SeenAt[t]) <= q.first /\ MinOf(q.first, SeenAt[t]) <= SeenAt[t]
      /\ q.last <= MaxOf(q.last, SeenAt[t]) /\ SeenAt[t] <= MaxOf(q.last, SeenAt[t])
      /\ MinOf(q.first, SeenAt[t]) <= MaxOf(q.last, SeenAt[t])
  BY <1>1, <1>4 DEF MinOf, MaxOf
<1>6. Accumulate(q, t) =
        [ids |-> q.ids \cup {CaseId[t]}, support |-> Cardinality(q.ids \cup {CaseId[t]}),
         first |-> MinOf(q.first, SeenAt[t]), last |-> MaxOf(q.last, SeenAt[t])]
  BY DEF Accumulate
<1>7. Accumulate(q, t) \in Sidecar
  BY <1>2, <1>3, <1>5, <1>6 DEF Sidecar
<1>8. Includes(Accumulate(q, t), t)
  BY <1>5, <1>6 DEF Includes
<1>9. ASSUME NEW u \in Promoters, Includes(q, u)
      PROVE  Includes(Accumulate(q, t), u)
  BY <1>1, <1>4, <1>5, <1>6, <1>9 DEF Includes
<1> QED BY <1>6, <1>7, <1>8, <1>9

(***************************************************************************)
(* The invariant is inductive                                              *)
(***************************************************************************)

\* Nothing is published, locked or recorded at the start.
LEMMA InitHolds == Init => IInv
<1> SUFFICES ASSUME Init PROVE IInv
  OBVIOUS
<1>1. TypeOK
  BY NoSidecarType, PromoteAssumption DEF Init, TypeOK, Running, Digests, Inodes
<1>2. Owners /\ Placed /\ Drafts /\ Counted
  BY DEF Init, Owners, Placed, Drafts, Counted, Running, Critical, Opened, Recorded, Digests
<1>3. Fresh
  BY NoSidecarType DEF Init, Fresh, Opened, Unpublished, Digests, Inodes
<1> QED BY <1>1, <1>2, <1>3 DEF IInv

\* Two promotions that hold locks of one digest, or have opened one inode, are
\* the same: the file lock is exclusive.
LEMMA Exclusive ==
  ASSUME IInv, NEW t \in Promoters, NEW u \in Promoters,
         pc[t] \in Critical, pc[u] \in Critical,
         sha[t] = sha[u] \/ (pc[t] \in Opened /\ pc[u] \in Opened /\ inode[t] = inode[u])
  PROVE  t = u
  BY DEF IInv, Owners, Placed

LocalLocks == [Procs -> [Digests -> Promoters \cup {None}]]
FileLocks == [Digests -> Promoters \cup {None}]

\* Taking or releasing a lock keeps the lock tables typed.
LEMMA LockTypes ==
  ASSUME TypeOK, NEW t \in Promoters, sha[t] \in Contents, NEW v \in Promoters \cup {None}
  PROVE  /\ [localLock EXCEPT ![ProcOf[t]][sha[t]] = v] \in LocalLocks
         /\ [flock EXCEPT ![sha[t]] = v] \in FileLocks
<1>1. ProcOf[t] \in Procs /\ sha[t] \in Digests
  BY PromoteAssumption DEF Digests
<1>2. localLock \in LocalLocks /\ flock \in FileLocks
  BY DEF TypeOK, LocalLocks, FileLocks
<1> QED BY <1>1, <1>2 DEF LocalLocks, FileLocks

\* The steps up to the locks.
LEMMA ApproachHolds ==
  ASSUME IInv, NEW t \in Promoters, HashFixture(t) \/ LockLocal(t) \/ LockFile(t)
  PROVE  IInv'
<1> USE DEF Goto, locks, bundles, user
<1>1. TypeOK'
  <2>1. pc[t] # "idle" => sha[t] \in Contents
    BY DEF IInv, Owners, Running, HashFixture, LockLocal, LockFile
  <2>2. CASE HashFixture(t)
    BY <2>2 DEF IInv, TypeOK, Running, HashFixture
  <2>3. CASE LockLocal(t)
    BY <2>1, <2>3, LockTypes DEF IInv, TypeOK, LocalLocks, Running, LockLocal
  <2>4. CASE LockFile(t)
    BY <2>1, <2>4, LockTypes DEF IInv, TypeOK, FileLocks, Running, LockFile
  <2> QED BY <2>2, <2>3, <2>4
<1> USE DEF HashFixture, LockLocal, LockFile
<1>2. Owners'
  BY PromoteAssumption DEF IInv, TypeOK, Owners, Running, Critical, Digests
<1>3. Fresh'
  BY DEF IInv, TypeOK, Fresh, Opened, Unpublished
<1>4. Placed'
  <2>1. \A u \in Promoters : pc'[u] \in Opened => pc[u] \in Opened /\ sha'[u] = sha[u]
    BY DEF IInv, TypeOK, Opened
  <2> QED BY <2>1 DEF IInv, Placed
<1>5. Drafts'
  BY DEF IInv, TypeOK, Drafts
<1>6. Counted'
  BY DEF IInv, TypeOK, Counted, Recorded
<1> QED BY <1>1, <1>2, <1>3, <1>4, <1>5, <1>6 DEF IInv

\* A promotion returns or fails: it releases its locks and owns nothing else.
LEMMA LeaveHolds ==
  ASSUME IInv, NEW t \in Promoters, pc[t] \in Critical, Unlock(t),
         NEW to \in Finished, pc' = [pc EXCEPT ![t] = to],
         to = "done" => pc[t] \in {"renamed", "published"},
         UNCHANGED <<sha, inode, merged, bundles, user>>
  PROVE  IInv'
<1> USE DEF Unlock, bundles, user
<1>0. sha[t] \in Contents
  BY DEF IInv, Owners, Critical, Running
<1>1. TypeOK'
  BY <1>0, LockTypes DEF IInv, TypeOK, LocalLocks, FileLocks
<1>2. Owners'
  BY <1>0, Exclusive DEF IInv, TypeOK, Owners, Running, Critical, Finished, Digests
<1>3. Fresh'
  BY DEF IInv, TypeOK, Fresh, Opened, Unpublished, Finished
<1>4. Placed'
  BY DEF IInv, TypeOK, Placed, Opened, Finished
<1>5. Drafts'
  BY DEF IInv, TypeOK, Drafts, Finished
<1>6. Counted'
  BY DEF IInv, TypeOK, Counted, Recorded, Finished
<1> QED BY <1>1, <1>2, <1>3, <1>4, <1>5, <1>6 DEF IInv

\* A promotion that cannot lock the file gives the local lock back; it never had another.
LEMMA FailToLockHolds ==
  ASSUME IInv, NEW t \in Promoters, FailToLock(t)
  PROVE  IInv'
<1> USE DEF FailToLock, UnlockLocalOnly, Goto, bundles, user
<1>0. sha[t] \in Contents
  BY DEF IInv, Owners, Running
<1>1. TypeOK'
  BY <1>0, LockTypes DEF IInv, TypeOK, LocalLocks, Finished
<1>2. Owners'
  BY DEF IInv, TypeOK, Owners, Running, Critical
<1>3. Fresh'
  BY DEF IInv, TypeOK, Fresh, Opened, Unpublished
<1>4. Placed'
  BY DEF IInv, TypeOK, Placed, Opened
<1>5. Drafts'
  BY DEF IInv, TypeOK, Drafts
<1>6. Counted'
  BY DEF IInv, TypeOK, Counted, Recorded
<1> QED BY <1>1, <1>2, <1>3, <1>4, <1>5, <1>6 DEF IInv

\* Discarding a bundle that was never published: as above, and its copy of the
\* fixture goes.
LEMMA DiscardHolds ==
  ASSUME IInv, NEW t \in Promoters, pc[t] \in {"copied", "sealed"}, Discard(t)
  PROVE  IInv'
<1> USE DEF Unlock, Discard, user
<1>0. sha[t] \in Contents /\ pc[t] \in Critical /\ t \in Inodes
  BY DEF IInv, Owners, Critical, Running, Inodes
<1>1. TypeOK'
  BY <1>0, LockTypes DEF IInv, TypeOK, LocalLocks, FileLocks, Finished
<1>2. Owners'
  BY <1>0, Exclusive DEF IInv, TypeOK, Owners, Running, Critical, Digests
<1>3. Fresh'
  BY DEF IInv, TypeOK, Fresh, Opened, Unpublished
<1>4. Placed'
  BY DEF IInv, TypeOK, Placed, Opened
<1>5. Drafts'
  BY <1>0 DEF IInv, TypeOK, Drafts, Inodes
<1>6. Counted'
  BY DEF IInv, TypeOK, Counted, Recorded
<1> QED BY <1>1, <1>2, <1>3, <1>4, <1>5, <1>6 DEF IInv

\* Opening the bundle at the destination: it is not empty and is nowhere else.
LEMMA AnchorHolds ==
  ASSUME IInv, NEW t \in Promoters, Anchor(t)
  PROVE  IInv'
<1> USE DEF Goto, Anchor, locks, bundles, user
<1>0. sha[t] \in Digests /\ dest[sha[t]] \in Inodes
  BY DEF IInv, TypeOK, Owners, Running, Digests
<1>1. TypeOK'
  BY <1>0 DEF IInv, TypeOK, Running
<1>2. Owners'
  BY DEF IInv, TypeOK, Owners, Running, Critical
<1>3. Fresh'
  BY <1>0 DEF IInv, TypeOK, Fresh, Opened, Unpublished
<1>4. Placed'
  BY <1>0 DEF IInv, TypeOK, Placed, Opened
<1>5. Drafts'
  BY DEF IInv, TypeOK, Drafts
<1>6. Counted'
  BY DEF IInv, TypeOK, Counted, Recorded
<1> QED BY <1>1, <1>2, <1>3, <1>4, <1>5, <1>6 DEF IInv

\* Reading the sidecar into memory, or checking the binding again.
LEMMA ReadHolds ==
  ASSUME IInv, NEW t \in Promoters,
         \/ ReadSidecar(t)
         \/ AssertBinding(t) /\ pc'[t] = "bound"
  PROVE  IInv'
<1> USE DEF Goto, ReadSidecar, AssertBinding, locks, bundles, user, Fail
<1>0. inode[t] \in Inodes /\ quality[inode[t]] \in Sidecar
  BY DEF IInv, TypeOK, Fresh, Opened
<1>1. TypeOK'
  <2>1. CASE ReadSidecar(t)
    BY <1>0, <2>1, AccumulateFacts DEF IInv, TypeOK, Running
  <2>2. CASE AssertBinding(t) /\ pc'[t] = "bound"
    BY <2>2 DEF IInv, TypeOK, Running
  <2> QED BY <2>1, <2>2
<1>2. Owners'
  BY DEF IInv, TypeOK, Owners, Running, Critical
<1>3. Fresh'
  BY DEF IInv, TypeOK, Fresh, Opened, Unpublished
<1>4. Placed'
  <2>1. \A u \in Promoters : pc'[u] \in Opened => pc[u] \in Opened
    BY DEF IInv, TypeOK, Opened
  <2> QED BY <2>1 DEF IInv, Placed
<1>5. Drafts'
  <2>1. CASE ReadSidecar(t)
    BY <2>1 DEF IInv, TypeOK, Drafts, Mergeable
  <2>2. CASE AssertBinding(t) /\ pc'[t] = "bound"
    BY <2>2 DEF IInv, TypeOK, Drafts
  <2> QED BY <2>1, <2>2
<1>6. Counted'
  BY DEF IInv, TypeOK, Counted, Recorded
<1> QED BY <1>1, <1>2, <1>3, <1>4, <1>5, <1>6 DEF IInv

\* The rename of the sidecar: the draft is still what the sidecar would be
\* merged into now, because nobody else had the inode.
LEMMA ReplaceHolds ==
  ASSUME IInv, NEW t \in Promoters, ReplaceSidecar(t)
  PROVE  IInv'
<1> USE DEF Goto, ReplaceSidecar, locks, user
<1> DEFINE i == inode[t]
<1>0. /\ i \in Inodes /\ quality[i] \in Sidecar /\ merged[t] \in Sidecar
      /\ merged[t] = Accumulate(quality[i], t)
      /\ CaseId[t] \notin quality[i].ids
      /\ pc[t] \in Opened /\ pc[t] \in Critical
  BY DEF IInv, TypeOK, Fresh, Drafts, Opened, Critical
<1>a. /\ quality'[i].ids = quality[i].ids \cup {CaseId[t]}
      /\ Includes(quality'[i], t)
      /\ \A u \in Promoters : Includes(quality[i], u) => Includes(quality'[i], u)
      /\ \A j \in Inodes \ {i} : quality'[j] = quality[j]
  BY <1>0, AccumulateFacts DEF IInv, TypeOK
<1>1. TypeOK'
  BY <1>0 DEF IInv, TypeOK, Running
<1>2. Owners'
  BY DEF IInv, TypeOK, Owners, Running, Critical
<1>3. Fresh'
  <2>1. \A j \in Inodes : quality[j].ids # {} => quality'[j].ids # {}
    BY <1>a
  <2>2. \A u \in Promoters : pc'[u] \in Unpublished => pc[u] \in Unpublished /\ u # i
    BY <1>0 DEF IInv, TypeOK, Fresh, Unpublished, Opened
  <2>3. \A u \in Promoters : pc'[u] \in Unpublished => quality'[u].ids = {}
    BY <1>a, <2>2 DEF IInv, Fresh, Inodes
  <2>4. \A d \in Digests : dest[d] # None => quality'[dest[d]].ids # {}
    BY <2>1 DEF IInv, TypeOK, Fresh
  <2>5. \A u \in Promoters : pc'[u] \in Opened \cup {"done"} => pc[u] \in Opened \cup {"done"}
    BY DEF IInv, TypeOK, Opened
  <2>6. \A u \in Promoters : pc'[u] \in Opened \cup {"done"} =>
           inode[u] \in Inodes /\ quality'[inode[u]].ids # {}
    BY <2>1, <2>5 DEF IInv, Fresh
  <2> QED BY <2>3, <2>4, <2>6 DEF Fresh
<1>4. Placed'
  <2>1. \A u \in Promoters : pc'[u] \in Opened => pc[u] \in Opened
    BY DEF IInv, TypeOK, Opened
  <2> QED BY <2>1 DEF IInv, Placed
<1>5. Drafts'
  <2>1. ASSUME NEW u \in Promoters, pc'[u] \in {"merged", "bound"}
        PROVE  /\ merged'[u] = Accumulate(quality'[inode'[u]], u)
               /\ CaseId[u] \notin quality'[inode'[u]].ids
    <3>1. u # t /\ pc[u] \in {"merged", "bound"}
      BY <2>1 DEF IInv, TypeOK
    <3>2. pc[u] \in Opened /\ pc[u] \in Critical
      BY <3>1 DEF Opened, Critical
    <3>3. inode[u] \in Inodes /\ inode[u] # i
      BY <1>0, <3>1, <3>2, Exclusive DEF IInv, Fresh
    <3> QED BY <1>a, <3>1, <3>3 DEF IInv, Drafts
  <2>2. \A u \in Promoters : pc'[u] = "sealed" => pc[u] = "sealed"
    BY DEF IInv, TypeOK
  <2> QED BY <2>1, <2>2 DEF IInv, Drafts
<1>6. Counted'
  <2>1. \A u \in Promoters : pc'[u] \in Recorded /\ u # t => pc[u] \in Recorded
    BY DEF IInv, TypeOK, Recorded
  <2>2. \A u \in Promoters : pc[u] \in Recorded => inode[u] \in Inodes
    BY DEF IInv, Fresh, Recorded, Opened
  <2>3. ASSUME NEW u \in Promoters, pc'[u] \in Recorded
        PROVE  Includes(quality'[inode[u]], u)
    BY <1>a, <2>1, <2>2, <2>3 DEF IInv, Counted
  <2>4. ASSUME NEW u \in Promoters, u # t, pc'[u] \in Recorded, inode[u] = i
        PROVE  CaseId[u] # CaseId[t]
    BY <1>0, <2>1, <2>4 DEF IInv, Counted, Includes
  <2>5. ASSUME NEW u \in Promoters, NEW v \in Promoters, u # v, pc'[u] \in Recorded,
               pc'[v] \in Recorded, inode[u] = inode[v]
        PROVE  CaseId[u] # CaseId[v]
    BY <2>1, <2>4, <2>5 DEF IInv, Counted
  <2> QED BY <2>3, <2>5 DEF Counted
<1> QED BY <1>1, <1>2, <1>3, <1>4, <1>5, <1>6 DEF IInv

\* Building a new bundle beside the shelf.
LEMMA BuildHolds ==
  ASSUME IInv, NEW t \in Promoters, CopyFixture(t) \/ SealBundle(t)
  PROVE  IInv'
<1> USE DEF Goto, CopyFixture, SealBundle, locks, bundles, user
<1>0. t \in Inodes
  BY DEF Inodes
<1>1. TypeOK'
  <2>1. CASE CopyFixture(t)
    BY <1>0, <2>1 DEF IInv, TypeOK, Running
  <2>2. CASE SealBundle(t)
    BY <2>2, FirstSidecarFacts DEF IInv, TypeOK, Running
  <2> QED BY <2>1, <2>2
<1>2. Owners'
  BY DEF IInv, TypeOK, Owners, Running, Critical
<1>3. Fresh'
  BY DEF IInv, TypeOK, Fresh, Opened, Unpublished
<1>4. Placed'
  <2>1. \A u \in Promoters : pc'[u] \in Opened => pc[u] \in Opened
    BY DEF IInv, TypeOK, Opened
  <2> QED BY <2>1 DEF IInv, Placed
<1>5. Drafts'
  <2>1. CASE CopyFixture(t)
    BY <1>0, <2>1 DEF IInv, TypeOK, Drafts, Inodes
  <2>2. CASE SealBundle(t)
    BY <2>2 DEF IInv, TypeOK, Drafts, FixtureUnchanged
  <2> QED BY <2>1, <2>2
<1>6. Counted'
  BY DEF IInv, TypeOK, Counted, Recorded
<1> QED BY <1>1, <1>2, <1>3, <1>4, <1>5, <1>6 DEF IInv

\* The rename that publishes: the new inode was empty, so nobody has it.
LEMMA PublishHolds ==
  ASSUME IInv, NEW t \in Promoters, PublishBundle(t), pc'[t] = "published"
  PROVE  IInv'
<1> USE DEF locks, user
<1>0. /\ pc[t] = "sealed" /\ pc' = [pc EXCEPT ![t] = "published"]
      /\ dest[sha[t]] = None
      /\ dest' = [dest EXCEPT ![sha[t]] = t]
      /\ inode' = [inode EXCEPT ![t] = t]
      /\ quality' = [quality EXCEPT ![t] = merged[t]]
      /\ UNCHANGED <<sha, merged, locks, fixture, user>>
  BY DEF PublishBundle, Discard, Goto, IInv, TypeOK
<1>a. /\ t \in Inodes /\ sha[t] \in Digests /\ pc[t] \in Critical
      /\ quality[t].ids = {}
      /\ merged[t] = FirstSidecar(t) /\ merged[t] \in Sidecar
      /\ merged[t].ids # {} /\ Includes(merged[t], t)
  BY <1>0, FirstSidecarFacts
     DEF IInv, TypeOK, Owners, Fresh, Drafts, Running, Critical, Unpublished, Inodes, Digests
<1>b. /\ \A d \in Digests : dest[d] # t
      /\ \A u \in Promoters : pc[u] \in Opened \cup {"done"} => inode[u] # t /\ u # t
  BY <1>0, <1>a, PromoteAssumption DEF IInv, TypeOK, Fresh, Opened
<1>c. /\ quality'[t] = merged[t]
      /\ \A j \in Inodes \ {t} : quality'[j] = quality[j]
      /\ inode'[t] = t /\ \A u \in Promoters \ {t} : inode'[u] = inode[u]
      /\ pc'[t] = "published" /\ \A u \in Promoters \ {t} : pc'[u] = pc[u]
      /\ dest'[sha[t]] = t /\ \A d \in Digests \ {sha[t]} : dest'[d] = dest[d]
  BY <1>0, <1>a DEF IInv, TypeOK
<1>1. TypeOK'
  BY <1>0, <1>a DEF IInv, TypeOK, Running
<1>2. Owners'
  BY <1>0, <1>a DEF IInv, TypeOK, Owners, Running, Critical
<1>3. Fresh'
  <2>1. \A u \in Promoters : pc'[u] \in Unpublished => quality'[u].ids = {}
    BY <1>c DEF IInv, Fresh, Unpublished, Inodes
  <2>2. ASSUME NEW d \in Digests, dest'[d] # None
        PROVE  quality'[dest'[d]].ids # {}
    <3>1. CASE d = sha[t]
      BY <1>a, <1>c, <3>1
    <3>2. CASE d # sha[t]
      <4>1. dest'[d] = dest[d] /\ dest[d] \in Inodes \ {t}
        BY <1>b, <1>c, <2>2, <3>2 DEF IInv, TypeOK
      <4> QED BY <1>c, <2>2, <4>1 DEF IInv, Fresh
    <3> QED BY <3>1, <3>2
  <2>3. \A u \in Promoters : pc'[u] \in Opened \cup {"done"} =>
           inode'[u] \in Inodes /\ quality'[inode'[u]].ids # {}
    BY <1>a, <1>b, <1>c DEF IInv, Fresh
  <2> QED BY <2>1, <2>2, <2>3 DEF Fresh
<1>4. Placed'
  <2>1. \A d, e \in Digests : (dest'[d] = dest'[e] /\ dest'[d] # None) => d = e
    BY <1>b, <1>c DEF IInv, Placed
  <2>2. \A u \in Promoters : pc'[u] \in Opened =>
           \A e \in Digests : dest'[e] = inode'[u] => e = sha'[u]
    BY <1>0, <1>b, <1>c DEF IInv, Placed
  <2>3. \A u, v \in Promoters :
           (pc'[u] \in Opened /\ pc'[v] \in Opened /\ inode'[u] = inode'[v])
              => sha'[u] = sha'[v]
    BY <1>0, <1>b, <1>c DEF IInv, Placed
  <2> QED BY <2>1, <2>2, <2>3 DEF Placed
<1>5. Drafts'
  <2>1. ASSUME NEW u \in Promoters, pc'[u] \in {"merged", "bound"}
        PROVE  /\ merged'[u] = Accumulate(quality'[inode'[u]], u)
               /\ CaseId[u] \notin quality'[inode'[u]].ids
    <3>1. u # t /\ pc[u] \in {"merged", "bound"} /\ pc[u] \in Opened
      BY <1>c, <2>1 DEF Opened
    <3>2. inode'[u] = inode[u] /\ inode[u] \in Inodes \ {t}
      BY <1>b, <1>c, <3>1 DEF IInv, Fresh
    <3> QED BY <1>0, <1>c, <3>1, <3>2 DEF IInv, Drafts
  <2>2. \A u \in Promoters : pc'[u] = "sealed" => pc[u] = "sealed"
    BY <1>c
  <2> QED BY <1>0, <2>1, <2>2 DEF IInv, Drafts
<1>6. Counted'
  <2>1. \A u \in Promoters \ {t} : pc'[u] \in Recorded =>
           /\ pc[u] \in Recorded
           /\ inode'[u] = inode[u] /\ inode[u] \in Inodes \ {t}
    BY <1>b, <1>c DEF IInv, Fresh, Recorded, Opened
  <2>2. \A u \in Promoters : pc'[u] \in Recorded => Includes(quality'[inode'[u]], u)
    BY <1>a, <1>c, <2>1 DEF IInv, Counted
  <2>3. \A u, v \in Promoters :
           (u # v /\ pc'[u] \in Recorded /\ pc'[v] \in Recorded /\ inode'[u] = inode'[v])
              => CaseId[u] # CaseId[v]
    BY <1>c, <2>1 DEF IInv, Counted
  <2> QED BY <2>2, <2>3 DEF Counted
<1> QED BY <1>1, <1>2, <1>3, <1>4, <1>5, <1>6 DEF IInv

\* A dying process takes its locks with it, and no one else's.
LEMMA CrashHolds ==
  ASSUME IInv, NEW p \in Procs, Crash(p)
  PROVE  IInv'
<1> DEFINE dead == {t \in Promoters : ProcOf[t] = p /\ pc[t] \in Running}
<1>0. /\ pc' = [t \in Promoters |-> IF t \in dead THEN "crashed" ELSE pc[t]]
      /\ localLock' = [localLock EXCEPT ![p] = [d \in Digests |-> None]]
      /\ flock' = [d \in Digests |-> IF flock[d] \in dead THEN None ELSE flock[d]]
      /\ UNCHANGED <<sha, inode, merged, dest, fixture, quality, source, edits>>
  BY DEF Crash, bundles, user
<1>1. \A t \in Promoters : pc'[t] = pc[t] \/ pc'[t] = "crashed"
  BY <1>0
<1> HIDE DEF dead
<1>2. TypeOK'
  <2>1. pc' \in [Promoters -> {"idle"} \cup Running \cup Finished]
    BY <1>0 DEF IInv, TypeOK, Finished
  <2>2. localLock' \in [Procs -> [Digests -> Promoters \cup {None}]]
    BY <1>0 DEF IInv, TypeOK
  <2>3. flock' \in [Digests -> Promoters \cup {None}]
    BY <1>0 DEF IInv, TypeOK
  <2> QED BY <1>0, <2>1, <2>2, <2>3 DEF IInv, TypeOK
<1>3. Owners'
  <2>1. ASSUME NEW t \in Promoters, pc'[t] \in Critical
        PROVE  flock'[sha[t]] = t
    <3>1. pc'[t] = pc[t] /\ t \notin dead /\ pc[t] \in Running
      BY <1>0, <2>1 DEF Critical, Running
    <3> QED BY <1>0, <2>1, <3>1 DEF IInv, Owners, Digests
  <2>2. \A t \in Promoters : pc'[t] \in Running => sha[t] \in Contents
    BY <1>1 DEF IInv, Owners, Running
  <2> QED BY <1>0, <2>1, <2>2 DEF Owners
<1>4. Fresh'
  <2>1. \A t \in Promoters :
           /\ pc'[t] \in Unpublished => pc[t] \in Unpublished
           /\ pc'[t] \in Opened \cup {"done"} => pc[t] \in Opened \cup {"done"}
    BY <1>1 DEF Unpublished, Opened
  <2> QED BY <1>0, <2>1 DEF IInv, Fresh
<1>5. Placed'
  <2>1. \A t \in Promoters : pc'[t] \in Opened => pc[t] \in Opened
    BY <1>1 DEF Opened
  <2> QED BY <1>0, <2>1 DEF IInv, Placed
<1>6. Drafts'
  BY <1>0, <1>1 DEF IInv, Drafts
<1>7. Counted'
  <2>1. \A t \in Promoters : pc'[t] \in Recorded => pc[t] \in Recorded
    BY <1>1 DEF Recorded
  <2> QED BY <1>0, <2>1 DEF IInv, Counted
<1> QED BY <1>2, <1>3, <1>4, <1>5, <1>6, <1>7 DEF IInv

\* Editing the source or taking a bundle away.
LEMMA EditHolds ==
  ASSUME IInv,
         \/ \E c \in Contents : EditSource(c)
         \/ \E d \in Digests : TakeAway(d)
  PROVE  IInv'
<1>0. /\ UNCHANGED <<pc, sha, inode, merged, localLock, flock, fixture, quality>>
      /\ edits < MaxEdits /\ edits' = edits + 1
      /\ source' \in Contents
      /\ dest' \in [Digests -> Inodes \cup {None}]
      /\ \A d \in Digests : dest'[d] = dest[d] \/ dest'[d] = None
  BY DEF IInv, TypeOK, EditSource, TakeAway, Edit, locks, bundles
<1>1. edits' \in 0..MaxEdits
  BY <1>0, PromoteAssumption DEF IInv, TypeOK
<1>2. TypeOK'
  BY <1>0, <1>1 DEF IInv, TypeOK
<1>3. Owners' /\ Drafts' /\ Counted'
  BY <1>0 DEF IInv, Owners, Drafts, Counted
<1>4. Fresh'
  BY <1>0 DEF IInv, Fresh
<1>5. Placed'
  <2>1. \A t \in Promoters : pc[t] \in Opened => inode[t] # None
    BY PromoteAssumption DEF IInv, Fresh, Inodes
  <2> QED BY <1>0, <2>1 DEF IInv, Placed
<1> QED BY <1>2, <1>3, <1>4, <1>5 DEF IInv

\* Putting a copy in place: the inode is new, so no promotion has it.
LEMMA PutCopyHolds ==
  ASSUME IInv, NEW d \in Digests, NEW e \in Digests, NEW k \in Copies, NEW c \in Contents,
         PutCopy(d, e, k, c)
  PROVE  IInv'
<1>0. /\ UNCHANGED <<pc, sha, inode, merged, localLock, flock, source>>
      /\ edits < MaxEdits /\ edits' = edits + 1
      /\ dest[e] # None /\ quality[k] = NoSidecar
      /\ dest' = [dest EXCEPT ![d] = k]
      /\ fixture' = [fixture EXCEPT ![k] = c]
      /\ quality' = [quality EXCEPT ![k] = quality[dest[e]]]
  BY DEF PutCopy, Edit, locks
<1>a. /\ k \in Inodes /\ k \notin Promoters /\ k # None /\ dest[e] \in Inodes
      /\ quality[k].ids = {} /\ quality[dest[e]].ids # {}
  BY <1>0, NoSidecarType, PromoteAssumption DEF IInv, TypeOK, Fresh, Inodes
<1>b. /\ \A x \in Digests : dest[x] # k
      /\ \A t \in Promoters : pc[t] \in Opened \cup {"done"} =>
            inode[t] \in Inodes \ {k}
  BY <1>a, PromoteAssumption DEF IInv, Fresh, Inodes
<1>c. /\ quality'[k].ids # {}
      /\ \A j \in Inodes \ {k} : quality'[j] = quality[j]
      /\ dest'[d] = k /\ \A x \in Digests \ {d} : dest'[x] = dest[x]
      /\ \A t \in Promoters : fixture'[t] = fixture[t]
  BY <1>0, <1>a DEF IInv, TypeOK, Inodes
<1>1. edits' \in 0..MaxEdits
  BY <1>0, PromoteAssumption DEF IInv, TypeOK
<1>2. TypeOK'
  BY <1>0, <1>1, <1>a DEF IInv, TypeOK
<1>3. Owners'
  BY <1>0 DEF IInv, Owners
<1>4. Fresh'
  <2>1. \A t \in Promoters : pc'[t] \in Unpublished => quality'[t].ids = {}
    BY <1>0, <1>a, <1>c DEF IInv, Fresh, Inodes
  <2>2. ASSUME NEW x \in Digests, dest'[x] # None
        PROVE  quality'[dest'[x]].ids # {}
    <3>1. CASE x = d
      BY <1>c, <3>1
    <3>2. CASE x # d
      <4>1. dest'[x] = dest[x] /\ dest[x] \in Inodes \ {k}
        BY <1>b, <1>c, <2>2, <3>2 DEF IInv, TypeOK
      <4> QED BY <1>c, <2>2, <4>1 DEF IInv, Fresh
    <3> QED BY <3>1, <3>2
  <2>3. \A t \in Promoters : pc'[t] \in Opened \cup {"done"} =>
           inode'[t] \in Inodes /\ quality'[inode'[t]].ids # {}
    BY <1>0, <1>b, <1>c DEF IInv, Fresh
  <2> QED BY <2>1, <2>2, <2>3 DEF Fresh
<1>5. Placed'
  BY <1>0, <1>a, <1>b, <1>c DEF IInv, Placed
<1>6. Drafts'
  <2>1. \A t \in Promoters : pc[t] \in {"merged", "bound"} =>
           quality'[inode[t]] = quality[inode[t]]
    BY <1>b, <1>c DEF Opened
  <2> QED BY <1>0, <1>c, <2>1 DEF IInv, Drafts
<1>7. Counted'
  <2>1. \A t \in Promoters : pc[t] \in Recorded => quality'[inode[t]] = quality[inode[t]]
    BY <1>b, <1>c DEF Opened, Recorded
  <2> QED BY <1>0, <2>1 DEF IInv, Counted
<1> QED BY <1>2, <1>3, <1>4, <1>5, <1>6, <1>7 DEF IInv

\* Every step of a promotion keeps the invariant.
LEMMA PromoteHolds ==
  ASSUME IInv, NEW t \in Promoters, Promote(t)
  PROVE  IInv'
<1>1. CASE HashFixture(t) \/ LockLocal(t) \/ LockFile(t)
  BY <1>1, ApproachHolds
<1>2. CASE Anchor(t)
  BY <1>2, AnchorHolds
<1>3. CASE ReadSidecar(t) \/ (AssertBinding(t) /\ pc'[t] = "bound")
  BY <1>3, ReadHolds
<1>4. CASE RefuseMerge(t)
  BY <1>4, LeaveHolds DEF RefuseMerge, Fail, Critical, Finished
<1>5. CASE AssertBinding(t) /\ pc'[t] # "bound"
  <2>1. pc[t] = "merged" /\ Fail(t)
    BY <1>5 DEF AssertBinding, Goto, IInv, TypeOK
  <2> QED BY <2>1, LeaveHolds DEF Fail, Critical, Finished
<1>6. CASE ReplaceSidecar(t)
  BY <1>6, ReplaceHolds
<1>7. CASE ConfirmBinding(t)
  BY <1>7, LeaveHolds DEF ConfirmBinding, Fail, Goto, Critical, Finished
<1>8. CASE CopyFixture(t) \/ SealBundle(t)
  BY <1>8, BuildHolds
<1>9. CASE RefuseCopy(t)
  BY <1>9, DiscardHolds DEF RefuseCopy
<1>10. CASE PublishBundle(t) /\ pc'[t] = "published"
  BY <1>10, PublishHolds
<1>11. CASE PublishBundle(t) /\ pc'[t] # "published"
  <2>1. pc[t] = "sealed" /\ Discard(t)
    BY <1>11 DEF PublishBundle, Goto, IInv, TypeOK
  <2> QED BY <2>1, DiscardHolds
<1>12. CASE ReturnTask(t)
  BY <1>12, LeaveHolds DEF ReturnTask, Goto, Critical, Finished
<1>13. CASE IOFails(t)
  BY <1>13, LeaveHolds, DiscardHolds, FailToLockHolds DEF IOFails, Fail, Critical, Finished
<1> QED BY <1>1, <1>2, <1>3, <1>4, <1>5, <1>6, <1>7, <1>8, <1>9, <1>10, <1>11, <1>12, <1>13
        DEF Promote

\* ... and so does every step.
LEMMA StepHolds == IInv /\ [Next]_vars => IInv'
<1> SUFFICES ASSUME IInv, [Next]_vars PROVE IInv'
  OBVIOUS
<1>1. ASSUME NEW t \in Promoters, Promote(t) PROVE IInv'
  BY <1>1, PromoteHolds
<1>2. ASSUME NEW p \in Procs, Crash(p) PROVE IInv'
  BY <1>2, CrashHolds
<1>3. CASE User
  BY <1>3, EditHolds, PutCopyHolds DEF User
<1>4. CASE UNCHANGED vars
  BY <1>4 DEF vars, IInv, TypeOK, Owners, Fresh, Placed, Drafts, Counted
<1> QED BY <1>1, <1>2, <1>3, <1>4 DEF Next

\* The invariant holds in every state of every run.
THEOREM Invariance == Spec => []IInv
  BY InitHolds, StepHolds, PTL DEF Spec

(***************************************************************************)
(* The results                                                             *)
(***************************************************************************)

\* Every sidecar ever in a bundle satisfies _validate_candidate_bundle: its
\* support is the number of its distinct badcase ids, its window is in order.
THEOREM TypeCorrect == Spec => []TypeOK
<1>1. IInv => TypeOK
  BY DEF IInv
<1> QED BY <1>1, Invariance, PTL

\* A badcase whose promotion returned success stays counted in its bundle, for
\* any number of threads, processes, crashes and moves of bundles.
THEOREM AcknowledgedStaysCounted == Spec => []AcknowledgedIsCounted
<1>1. IInv => AcknowledgedIsCounted
  BY DEF IInv, Counted, Recorded, Includes, AcknowledgedIsCounted
<1> QED BY <1>1, Invariance, PTL

\* Of two promotions of one badcase at most one succeeds on a bundle.
THEOREM EachBadcaseOnce == Spec => []CountedOnce
<1>1. IInv => CountedOnce
  BY DEF IInv, Counted, Recorded, CountedOnce
<1> QED BY <1>1, Invariance, PTL

\* A promotion puts on the shelf only a bundle whose fixture hashes to the name
\* of its directory, however the source is edited meanwhile.
THEOREM PublicationMatches == Spec => PublishedFixtureMatches
<1> DEFINE Match == \A d \in Digests :
         (dest'[d] # dest[d] /\ dest'[d] \in Promoters) => fixture'[dest'[d]] = d
<1>1. ASSUME IInv, [Next]_vars PROVE Match
  <2>1. ASSUME NEW t \in Promoters, PublishBundle(t), dest' # dest PROVE Match
    <3>1. /\ pc[t] = "sealed" /\ dest' = [dest EXCEPT ![sha[t]] = t]
          /\ fixture' = fixture
      BY <2>1 DEF PublishBundle, Discard, Goto
    <3>2. fixture[t] = sha[t]
      BY <1>1, <3>1 DEF IInv, Drafts
    <3> QED BY <1>1, <3>1, <3>2 DEF IInv, TypeOK, Digests
  <2>2. ASSUME NEW t \in Promoters, Promote(t), ~PublishBundle(t) PROVE dest' = dest
    BY <2>2 DEF Promote, HashFixture, LockLocal, LockFile, Anchor, ReadSidecar, RefuseMerge,
       AssertBinding, ReplaceSidecar, ConfirmBinding, CopyFixture, SealBundle, RefuseCopy,
       ReturnTask, IOFails, FailToLock, Fail, Discard, bundles
  <2>3. ASSUME NEW d \in Digests, TakeAway(d) PROVE Match
    BY <1>1, <2>3, PromoteAssumption DEF TakeAway, IInv, TypeOK
  <2>4. ASSUME NEW d \in Digests, NEW e \in Digests, NEW k \in Copies, NEW c \in Contents,
               PutCopy(d, e, k, c)
        PROVE  Match
    BY <1>1, <2>4, PromoteAssumption DEF PutCopy, IInv, TypeOK
  <2>5. ASSUME NEW p \in Procs, Crash(p) PROVE dest' = dest
    BY <2>5 DEF Crash, bundles
  <2>6. ASSUME NEW c \in Contents, EditSource(c) PROVE dest' = dest
    BY <2>6 DEF EditSource, bundles
  <2> QED BY <1>1, <2>1, <2>2, <2>3, <2>4, <2>5, <2>6 DEF Next, User, vars
<1>2. Spec => [][Match]_vars
  <2>1. IInv /\ [Next]_vars => [Match]_vars
    BY <1>1
  <2> QED BY <2>1, Invariance, PTL DEF Spec
<1> QED BY <1>2 DEF PublishedFixtureMatches

(***************************************************************************)
(* Promotion implements the store                                          *)
(***************************************************************************)

\* Only the two renames and the user are steps of the shelf; all other steps of
\* a promotion leave it alone.
LEMMA RefinementStep == IInv /\ [Next]_vars => [Store!Next]_(Store!storeVars)
<1> SUFFICES ASSUME IInv, [Next]_vars
             PROVE  Store!Next \/ UNCHANGED <<dest, quality>>
  BY DEF Store!storeVars
<1> DEFINE counted == [i \in Inodes |-> quality[i].ids]
<1>1. ASSUME NEW t \in Promoters, ReplaceSidecar(t)
      PROVE  Store!Count(inode[t], CaseId[t])
  <2>1. /\ inode[t] \in Inodes /\ quality[inode[t]] \in Sidecar /\ merged[t] \in Sidecar
        /\ merged[t] = Accumulate(quality[inode[t]], t)
        /\ CaseId[t] \notin quality[inode[t]].ids /\ quality[inode[t]].ids # {}
        /\ quality' = [quality EXCEPT ![inode[t]] = merged[t]]
        /\ dest' = dest
    BY <1>1 DEF ReplaceSidecar, Goto, IInv, TypeOK, Fresh, Drafts, Opened
  <2>2. merged[t].ids = quality[inode[t]].ids \cup {CaseId[t]}
    BY <2>1, AccumulateFacts
  <2>3. counted' = [counted EXCEPT ![inode[t]] = @ \cup {CaseId[t]}]
    BY <2>1, <2>2 DEF IInv, TypeOK
  <2> QED BY <2>1, <2>3 DEF Store!Count
<1>2. ASSUME NEW t \in Promoters, PublishBundle(t), pc'[t] = "published"
      PROVE  Store!Open(sha[t], t, CaseId[t])
  <2>1. /\ pc[t] = "sealed" /\ t \in Inodes /\ dest[sha[t]] = None
        /\ dest' = [dest EXCEPT ![sha[t]] = t]
        /\ quality' = [quality EXCEPT ![t] = merged[t]]
        /\ merged[t] = FirstSidecar(t) /\ quality[t].ids = {}
    BY <1>2 DEF PublishBundle, Discard, Goto, IInv, TypeOK, Fresh, Drafts, Unpublished, Inodes
  <2>2. merged[t].ids = {CaseId[t]}
    BY <2>1, FirstSidecarFacts
  <2>3. counted' = [counted EXCEPT ![t] = {CaseId[t]}]
    BY <2>1, <2>2 DEF IInv, TypeOK
  <2> QED BY <2>1, <2>3 DEF Store!Open
<1>3. ASSUME NEW t \in Promoters, PublishBundle(t), pc'[t] # "published"
      PROVE  UNCHANGED <<dest, quality>>
  BY <1>3 DEF PublishBundle, Discard, Goto, IInv, TypeOK
<1>4. ASSUME NEW t \in Promoters, Promote(t), ~ReplaceSidecar(t), ~PublishBundle(t)
      PROVE  UNCHANGED <<dest, quality>>
  BY <1>4 DEF Promote, HashFixture, LockLocal, LockFile, Anchor, ReadSidecar, RefuseMerge,
     AssertBinding, ConfirmBinding, CopyFixture, SealBundle, RefuseCopy,
     ReturnTask, IOFails, FailToLock, Fail, Discard, bundles
<1>5. ASSUME NEW d \in Digests, TakeAway(d) PROVE Store!TakeAway(d)
  BY <1>5 DEF TakeAway, Store!TakeAway
<1>6. ASSUME NEW d \in Digests, NEW e \in Digests, NEW k \in Copies, NEW c \in Contents,
             PutCopy(d, e, k, c)
      PROVE  Store!PutCopy(d, dest[e], k)
  <2>1. /\ k \in Inodes /\ dest[e] \in Inodes /\ quality[k] = NoSidecar
        /\ dest' = [dest EXCEPT ![d] = k]
        /\ quality' = [quality EXCEPT ![k] = quality[dest[e]]]
    BY <1>6 DEF PutCopy, IInv, TypeOK, Inodes
  <2>2. counted' = [counted EXCEPT ![k] = counted[dest[e]]]
    BY <2>1 DEF IInv, TypeOK
  <2> QED BY <2>1, <2>2, NoSidecarType DEF Store!PutCopy
<1>7. ASSUME NEW p \in Procs, Crash(p) PROVE UNCHANGED <<dest, quality>>
  BY <1>7 DEF Crash, bundles
<1>8. ASSUME NEW c \in Contents, EditSource(c) PROVE UNCHANGED <<dest, quality>>
  BY <1>8 DEF EditSource, bundles
<1>9. CASE \E t \in Promoters : Promote(t)
  <2>1. PICK t \in Promoters : Promote(t)
    BY <1>9
  <2>2. CASE ReplaceSidecar(t)
    <3>1. inode[t] \in Inodes /\ CaseId[t] \in CaseIds
      BY <2>2, PromoteAssumption DEF ReplaceSidecar, Goto, IInv, Fresh, Opened
    <3> QED BY <1>1, <2>2, <3>1 DEF Store!Next
  <2>3. CASE PublishBundle(t)
    <3>1. t \in Inodes /\ CaseId[t] \in CaseIds
      BY PromoteAssumption DEF Inodes
    <3>2. sha[t] \in Digests
      BY <2>3 DEF PublishBundle, Goto, IInv, Owners, Running, Digests
    <3> QED BY <1>2, <1>3, <2>3, <3>1, <3>2 DEF Store!Next
  <2> QED BY <1>4, <2>1, <2>2, <2>3
<1>10. CASE User
  <2>1. CASE \E d, e \in Digests, k \in Copies, c \in Contents : PutCopy(d, e, k, c)
    <3>1. PICK d \in Digests, e \in Digests, k \in Copies, c \in Contents : PutCopy(d, e, k, c)
      BY <2>1
    <3>2. k \in Inodes /\ dest[e] \in Inodes
      BY <3>1 DEF PutCopy, IInv, TypeOK, Inodes
    <3> QED BY <1>6, <3>1, <3>2 DEF Store!Next
  <2> QED BY <1>5, <1>8, <1>10, <2>1 DEF User, Store!Next
<1> QED BY <1>7, <1>9, <1>10 DEF Next, vars

\* The locks, re-checks and renames of promote_regression implement a shelf on
\* which a promotion is one step and support only grows.
THEOREM PromotionImplementsStore == Spec => ImplementsStore
<1>1. Init => Store!Init
  BY NoSidecarType DEF Init, Store!Init
<1> QED BY <1>1, RefinementStep, Invariance, PTL DEF Spec, Store!Spec, ImplementsStore
=============================================================================
