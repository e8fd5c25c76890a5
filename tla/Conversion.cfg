SPECIFICATION PartsSpec
CONSTANTS
    r1 = r1
    r2 = r2
    Procs = {p1, p2}
    NoProc = NoProc
    Recipes = {r1, r2}
    Need <- MCNeed
    Limit = 2
    MaxRuns = 3
    Clips <- MCClips
    Hop = 2
    F0Core = 8
    Context = 4
    ContentMax = 24
    Up = 5
    Down = 2
    MaxStops = 2
    Block = 3
    HpPad = 2
    HpMin = 5
    ReviewFrames = 6
    Jobs <- MCJobs
    InputFrames = 3
    Portion = 2
    Expected = 2
    MaxForeign = 2
    MaxCalls = 3
    Portions = 3
    Contents = {0, 1}
    MaxWrites = 3
    Queries = 5
    Workers = 3
    Cases <- MCCases
    Max32 = 60
    MaxSize = 67
    Full = 4
    MaxParts = 2
    MaxField = 2
    MaxFile = 4
    Dims <- MCDims
    Prime = 101
    ClipFrames = 3
    SampleRate = 400
    MaxIndex = 40
    MaxSteps = 2
    Shapes <- MCShapes
    Lanes = 2
    BlockLength = 4
    LargeInput = 4
    TileFrames = 4
    ColumnElements = 12
    MinChannels = 2
SYMMETRY Symm
INVARIANTS BlocksAreOwn StopsAndResumes
INVARIANTS StreamedAsWhole ReviewIsHeard FilesAreTrue SnapshotsAreWhole InputIsExact TrainedIsHeard KernelsAgree
PROPERTY ConversionIsWhole
