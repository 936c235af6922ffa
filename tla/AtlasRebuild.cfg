SPECIFICATION MCSpec
CONSTANTS
    None = None  Absent = Absent
    raw = raw  c1 = c1  c2 = c2  c3 = c3  e1 = e1  e2 = e2  o1 = o1  s1 = s1  s2 = s2  s3 = s3
    k1 = k1  x1 = x1  f1 = 1  f2 = 2  g1 = g1
    RecordIds = {c1, c2, c3, e1, e2, o1, s1, s2, s3, k1, x1, g1}  FilePaths = {1, 2}
    Clean <- MCClean  CleanPath <- MCCleanPath  Size <- MCSize  SecretIds = {}
    Bundles <- MCBundles
    Diagnoses <- MCDiagnoses
    Policies <- TwoPolicies
    Selections <- MCSelections
    Versions = {1, 2}  Heads = {1, 2}  MaxEdits = 2  Declarations <- Declared
    Gits = {TRUE}  Redactions = {TRUE, FALSE}
INVARIANT BudgetsHold
