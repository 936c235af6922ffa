SPECIFICATION QuickSpec
CONSTANTS
    Versions = {1, 2}
    Heads = {1, 2}
    MaxEdits = 2
    Declarations = {{}, {"rel"}, {"out"}, {"rel", "out"}}
    Gits = {FALSE}
    Redactions = {FALSE}
INVARIANT ExactMatchIsExact
\* The check of freshness ends.
CHECK_DEADLOCK FALSE
