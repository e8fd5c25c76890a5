SPECIFICATION Spec
CONSTANTS
    Procs = {p1}
    NoProc = NoProc
    Recipes = {r1}
    Clips = 2
    Epochs = 4
    SaveEvery = 2
    CandEvery = 2
    LastCand = 4
    Shuffle <- MCShuffle
    MaxRuns = 2
SYMMETRY Symm
CHECK_DEADLOCK FALSE
INVARIANT CandidatesAreSaved
