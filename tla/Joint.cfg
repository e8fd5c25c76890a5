SPECIFICATION Spec
CONSTANTS
    Procs = {p1, p2}
    NoProc = NoProc
    Recipes = {r1, r2}
    Clips = 2
    Epochs = 4
    SaveEvery = 2
    CandEvery = 2
    LastCand = 4
    Shuffle <- MCShuffle
    MaxRuns = 3
SYMMETRY Symm
CHECK_DEADLOCK FALSE
INVARIANTS ResumeIsExact ServiceCanResume
PROPERTIES ProgressIsKept StopIsHonoured
