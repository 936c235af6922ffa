SPECIFICATION FairSpec
CONSTANTS
    t1 = t1  t2 = t2  t3 = t3
    p1 = p1  p2 = p2
    id1 = id1  id2 = id2
    Promoters <- MCPromoters
    Procs <- MCProcs
    ProcOf <- MCProcOf
    CaseIds <- MCCaseIds
    CaseId <- MCCaseId
    SeenAt <- MCSeenAt
    Contents = {fa, fb}
    Copies = {k1}
    MaxEdits = 2
    None = None
INVARIANTS
    AcknowledgedIsCounted
    CountedOnce
PROPERTIES
    PublishedFixtureMatches
    ImplementsStore
    EveryPromotionReturns
