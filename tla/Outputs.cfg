SPECIFICATION OutputsSpec
CONSTANTS
    None = None  NoCall = NoCall  NoId = NoId
    Drafts <- SourceRecords  Explicit = {TRUE, FALSE}  MaxLength <- SomeLengths
    Original = Original  Torn = Torn  Shared = Shared
    w1 = w1  w2 = w2
    Publishers <- Writers  Scenes <- WriterScenes  MaxAttempts = 2
    Nothing = Nothing  Text = Text  small = small  big = big  test = test
    Paths <- SomePaths  Contents <- SomeContents  Texts <- SomeContents  Size <- SomeSizes
    Lines <- SomeLines  Languages <- SomeLanguages  Fixtures = {}
    SuppliedBundles <- SomeBundles  Requests <- SomeRequests  Candidates <- SomeCandidates
    Workspaces <- SomeWorkspaces  Diffs <- SomeDiffs
    MaxEdits = 1  MaxRequests = 2  MaxUses = 1
    Parts = {"directories", "runs", "plans"}
    Removals = {Nothing, Text, 2}
INVARIANTS OutputIsKept NoRollback ImportsAreOne PlansAreGrounded
\* Publishers stop at MaxAttempts, plans at their bounds; a run that cannot be merged is
\* refused for good.
CHECK_DEADLOCK FALSE
