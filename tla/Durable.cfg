SPECIFICATION DurableSpec
CONSTANTS
    MaxUploads = 2
    MaxHistory = 2
    Clips = 2
    Recipes <- MCRecipes
    Releases = {"now", "legacy", "unknown"}
    Wide = {"wide"}
    MaxCrashes = 1
    Calls = {r1, r2}
    Service = Service
    MaxLines = 1
    PipeRoom = 1
    MaxDeaths = 1
    Stems = {"a", "b"}
    Sizes = {1, 2, 3, 4, 5, 6}
    MonoLimit = 3
    StereoLimit = 5
    StereoFrames = 3
    BatchLimit = 5
    Packet = 1
INVARIANTS MaterialIsWhole MarkedIsDurable ResultIsOwn ChildrenAreTrue
PROPERTIES CleanUpIsSafe FailureHasCause
