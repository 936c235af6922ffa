SPECIFICATION MCSpec
CONSTANTS
    Procs = {p1, p2}
    Scenes <- MCScenes
    Requests <- MCRequests
SYMMETRY Commands
INVARIANTS HistoryIsEarned BuiltIsValid AnswersAreEarned
PROPERTY RunsOnlyAdvance
