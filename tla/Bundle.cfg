SPECIFICATION Behaviour
CONSTANTS
    None = None  Absent = None
    RecordIds = {c1, c2, e1, e2, o1, s1, s2, k1, k2}  FilePaths = {f1, f2}
    p1 = p1  p2 = p2
    raw = raw  clean = clean
    c1 = c1  c2 = c2  e1 = e1  e2 = e2  o1 = o1  s1 = s1  s2 = s2
    k1 = k1  k2 = k2  f1 = f1  f2 = f2
    Torn = Torn  core = core  lib = lib  test = test  grader = grader  unit = unit  lint = lint
    Clean <- MCClean  CleanPath <- MCCleanPath  Size <- MCSize  SecretIds = {k2}
    Alter <- MCAlter
    Payloads <- MCPayloads
    Compilers = {p1, p2}
    Conclusions <- MCConclusions
    MaxDeaths = 1  MaxEdits = 2
    Bundles <- BundlesToImprove  Submissions <- Proposals  GivenProofs <- ProofsGiven
    Metrics <- Measured  Workspaces <- MCWorkspaces
    Protected = {grader}  Truth = {grader}  Tests = {test}
    MaxCommands = 4  MaxKills = 1
SYMMETRY Symmetry
INVARIANTS NothingHidden DerivedIsFaithful ReviewsRestOnRecords VerifiedIsProved
\* Every compiler has returned and the reviewers have nothing left to do; the bounds of
\* the improvements are reached.
CHECK_DEADLOCK FALSE
