CONSTANTS
    LogStreams = {1, 2}
    FileStreams = {2}
    Subscribers = {s1}
    MAX_STREAMS = 1
    MaxTail = 2
    SUBSCRIBER_CHANNEL_CAP = 1
    MaxChunks = 3
    MaxBlocks = 1
    WatchFiles = {"flake.lock", "a.nix", "s1", "s2", "out", "t~", "fix"}
    WatchDirs = {".", "src", "nix"}
    TopDir = "."
    DirOf <- MCDirOf
    FlakeLock = "flake.lock"
    MetadataFiles = {"flake.lock", "a.nix"}
    OwnedFiles = {"out"}
    TempFiles = {"t~"}
    FixtureFiles = {"fix"}
    PlanNodes = {"build", "lint"}
    NodeRoots <- MCNodeRoots
    GlobNodes = {"lint"}
    NodeInput <- MCNodeInput
    FORMATTER_BURST_THRESHOLD = 2
    WatchEdits = 2
    Runs = {1, 2}
    Cpu <- TwoEqual
    Budget = 2
    Remote = {}
    MaxCrashes = 0
    Recycling = FALSE
    Faults = {}
    SpecOutput <- MCSpecOutput
    PipeRoom = 1
    ChannelRoom = 1
    MaxSpecRuns = 2
    MaxSpecFaults = 1
    PrepNodes = {1, 2, 3}
    PrepDependsOn <- MCPrepDependsOn
    Contexts <- MCContexts
    NoContext = "no"
    NoShell = "none"
    BasePolicy = "base"
    DevShells = {"dev"}
    Definitions <- MCDefinitions
    PrepRequests <- MCPrepRequests
    PrepJobs = 1
    MaxGenerations = 2
SPECIFICATION ServicesSpec
INVARIANTS
    FollowIsContiguous
    GenerationCurrent
    JournalMatchesRecord
    JournalTellsOutput
    PreparationSound
PROPERTIES
    AppendReleasesLock
    EditServed
    BudgetReleased
    SpecRunEnds
CHECK_DEADLOCK FALSE
