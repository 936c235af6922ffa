SPECIFICATION Evaluation
CONSTANTS
    Ids = {d1, d2, d3}
    Writers = {w1, w2}
    MaxOps = 7
    None = None
    Scenes <- RolloutScenes
    Artifacts <- SomeArtifacts
    InitialStores <- SomeStores
    ReasonCodes = {"SLOW"}
    MaxChanges = 4
    MaxHarvests = 2
    Null = Null
    ForbiddenWords = {"auto-adopt"}
    LengthOf <- WordLength
    MaxAdded = 8
    MaxDeleted = 4
    MaxOperations = 3
    Dirs = {"one", "two"}
    Forms <- SomeForms
    Statuses <- SomeStatuses
    FlaggedWords = {}
    InitialSkills <- TheSkill
    Additions = {}
    Answers <- SomeAnswers
    HandWritten <- ByHand
    Edits <- SomeEdits
    InitialSuites <- FirstSuites
    NewSuites <- LaterSuites
    MaxWordGrowth = 1
    Command = "aet"
    MaxTurns = 3
    MaxDrifts = 1
SYMMETRY Interchangeable
INVARIANTS ChainsEndAccepted HistoryAgrees  ExperienceIsKept PatchesAreReviewed GatesAreEarned
PROPERTY DecisionsEndure
\* The commands started are bounded.
CHECK_DEADLOCK FALSE
