------------------------ MODULE MC_PromoteRegression ------------------------
(* Two processes; the first runs two threads.  t1 and t3 are given the same *)
(* badcase.                                                                 *)
EXTENDS PromoteRegression, TLC

CONSTANTS t1, t2, t3, p1, p2, id1, id2

MCPromoters == {t1, t2, t3}
MCProcs == {p1, p2}
MCProcOf == t1 :> p1 @@ t2 :> p1 @@ t3 :> p2
MCCaseIds == {id1, id2}
MCCaseId == t1 :> id1 @@ t2 :> id2 @@ t3 :> id1
MCSeenAt == t1 :> 2 @@ t2 :> 1 @@ t3 :> 3
=============================================================================
