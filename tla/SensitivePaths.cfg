SPECIFICATION Pipeline
CONSTANTS
    None = None
    a1 = a1  a2 = a2  b1 = b1  b2 = b2  c1 = c1  c2 = c2  c3 = c3  f1 = f1  f2 = f2
    o1 = o1  o2 = o2  s1 = s1  s2 = s2  t1 = t1  t2 = t2
    Ids <- AdoptedIds  Adopters = {a1, a2}  Assets = {s1, s2}  Originals = {o1, o2}
    BaseOf <- AdoptionBases  Scenes <- AdoptionScenes
    Suite <- ReplaySuite  FixtureTexts = {f1, f2}  MaxRollouts = 2  MaxCrashes = 3  MaxFixtureEdits = 2
    Setups <- PolicyScenes  MaxTurns = 2  MaxPolicyEdits = 2  NotThere = None
    NoValue = None  Unset = None  Bases = {b1, b2}  Revisions = {c1, c2}  Proposable <- Proposals
    AlphaNum = 1  AlphaDen = 5  McidNum = 1  McidDen = 20  Plans <- GatePlans  MaxLooks = 9
    NoPack = None  Packs <- RulePacks  FirstPack <- FirstRules  Additions <- RuleAdditions
    SuiteTasks <- RuleSuites  Workspaces <- AuditedWorkspaces  Days = {1, 2}
    MinRuns = 2  MinRepositories = 2  MinDates = 2  MaxReports = 2  MaxPackEdits = 2
    MaxCycles = 3  MaxEdits = 2  MaxKills = 1
INVARIANT ProfilesAreMonotonic
CHECK_DEADLOCK FALSE
