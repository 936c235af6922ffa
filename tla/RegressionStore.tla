-------------------------- MODULE RegressionStore --------------------------
(***************************************************************************)
(* What `aet quality promote` promises: a shelf of regression bundles, one *)
(* per canonical case, whose support only ever grows, one badcase id at a  *)
(* time.  Promotion is a single step here; PromoteRegression shows how the *)
(* code gets the same effect from locks, renames and re-checks.            *)
(*                                                                         *)
(* A bundle is a directory and keeps its identity (its inode) while its    *)
(* sidecar is rewritten, so the shelf maps a digest to an inode and the    *)
(* ids are counted per inode.  Taking a bundle away and putting a copy of  *)
(* one back are the user's, and always change the inode.                   *)
(***************************************************************************)
EXTENDS Naturals, FiniteSets

CONSTANTS
    Digests,   \* canonical digests, the names of the bundle directories
    Inodes,    \* directory identities
    CaseIds,   \* badcase ids
    None

VARIABLES
    where,     \* where[d]: the inode on the shelf at d, or None
    counted    \* counted[i]: the badcase ids recorded in inode i

storeVars == <<where, counted>>

Init ==
    /\ where = [d \in Digests |-> None]
    /\ counted = [i \in Inodes |-> {}]

\* A first badcase opens a bundle nobody else has opened.
Open(d, i, id) ==
    /\ where[d] = None
    /\ counted[i] = {}
    /\ where' = [where EXCEPT ![d] = i]
    /\ counted' = [counted EXCEPT ![i] = {id}]

\* A later badcase is added to the ids already there, and is new.
Count(i, id) ==
    /\ counted[i] # {}
    /\ id \notin counted[i]
    /\ counted' = [counted EXCEPT ![i] = @ \cup {id}]
    /\ UNCHANGED where

\* The user removes a bundle, or puts a copy of one in its place.
TakeAway(d) ==
    /\ where' = [where EXCEPT ![d] = None]
    /\ UNCHANGED counted

PutCopy(d, i, k) ==
    /\ counted[k] = {}
    /\ where' = [where EXCEPT ![d] = k]
    /\ counted' = [counted EXCEPT ![k] = counted[i]]

Next ==
    \/ \E d \in Digests, i \in Inodes, id \in CaseIds : Open(d, i, id)
    \/ \E i \in Inodes, id \in CaseIds : Count(i, id)
    \/ \E d \in Digests : TakeAway(d)
    \/ \E d \in Digests, i \in Inodes, k \in Inodes : PutCopy(d, i, k)

Spec == Init /\ [][Next]_storeVars
=============================================================================
