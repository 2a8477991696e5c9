SPECIFICATION DriverSpec
CONSTANTS
    Nodes <- GraphNodes
    Plans <- MCPlans
    Locks = {"x", "y"}
    NoNode = 0
    Jobs = 3
    MemoryPool = 3
    MaxU32 = 7
    MaxU64 = 7
    OtherHosts = {{}, {1}, {2}}
    Unrunnable = {3}
    AcFiles = {"spec", "gen", "out"}
    AcTracked = {"spec", "gen"}
    AcContents = {0, 1}
    AcNodes = {1, 2}
    AcItems <- MCItems
    AcInputs <- MCInputs
    AcSource <- MCSource
    AcOutput <- MCOutput
    AcBound = {2}
    AcUncachedSets = {{}, {1}}
    NoValue = none
    MaxAcRuns = 2
    MaxAcEdits = 2
    AffApps = {1}
    AffTasks = {2, 3, 4}
    AffEdges <- MCAffEdges
    NoStatus = none
    PlanTasks = {1, 2, 3}
    MissingTask = 4
    PlanDeclarations <- MCPlanDeclarations
    EnvVars = {"HOME", "X"}
    Allowlisted = {"HOME"}
    EnvRequests <- MCEnvRequests
    CapClients = {"a", "b"}
    CapBinaries = {"old", "mid"}
    CapBanner <- MCCapBanner
    CapEnvs = {{}}
    NoCapEntry = none
    MaxCapCommands = 2
    MaxCapChanges = 2
    TfFiles = {"flake", "lock", "wt"}
    FlakeNix = "flake"
    FlakeLock = "lock"
    TfTrees <- MCTfTrees
    TfArea <- MCTfArea
    TfGitignored = {"wt"}
    TfLinks = {}
    TfInputs = {"lock", "wt"}
    FlakeTexts = {"refers", "computed"}
    TfReferences <- MCTfReferences
    TfComputed = {"computed"}
    TfTexts = {"x", "y"}
    TfModes = {"Auto", "FullWalk", "Inputs"}
    NoTfFile = none
    NoIndex = noindex
    TfCommands = {1}
    MaxTfRuns = 2
    MaxTfEdits = 2
    MuxNodes = {1, 2}
    Streams <- MCStreams
    Writers <- MCWriters
    Keepers <- MCKeepers
    EarlyClosers <- MCEarlyClosers
    PipeUnits = 1
    READ_FAIRNESS_BUDGET = 2
    EventCapacity = 4
    MaxPipeWrites = 3
INVARIANTS
    SkippedExactly
    ExclusiveLocks
    NoResourceStall
    OperationsSettled
    BoundHitIsPure
    AffectedExact
    PlanOrReason
    SpawnGoverned
    CapabilitiesAgree
    FingerprintHonest
    OutputDelivered
PROPERTIES
    NoStartAfterFailure
    ImplementsTaskDag
