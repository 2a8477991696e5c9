CONSTANTS
    ArtProcs = {"p", "q"}
    ArtNames = {"m", "n"}
    ArtDigests = {"d", "e"}
    Absent = absent
    Damaged = damaged
    OldTree = old
    NoOne = nobody
    Quotas = {0, 1}
    MaxRot = 1
    CasRuns = {r1, r2, r3}
    CasOutputs = {o1, o2}
    OptionalOutputs = {o2}
    CasTrees = {o1}
    CasModes = {"Replace", "Merge", "VerifyOnly"}
    NoEntry = none
    Stale = stale
    MaxCasFaults = 1
    Trees = {t1, t2}
    FirstTree = t1
    WarmClients = {a, b}
    MAX_ENTRIES_PER_MAP = 1
    MaxEdits = 2
    MaxCommands = 2
    DiskWriters = {1, 2}
    MaxLen = 2
    MaxAttempts = 2
    Outcomes = {"Cancelled", "Failed"}
    Faults = {"crash", "write", "snapshot"}
    Readers = {"r1", "r2"}
    Daemons = {1, 2, 3}
    DaemonClients = {c1, c2}
    NoDaemon = none
    MaxDaemonCommands = 3
    MaxDaemonCrashes = 1
    Leaves = {1, 2}
    Unset = none
    Torn = torn
    ExitCodes = {0, 1}
    MaxTries = 2
    MaxLeafFaults = 1
    SnapPaths = {"a", "b"}
    SnapHeads <- MCSnapHeads
    SnapTexts = {"x", "y"}
    MaxSnapEdits = 2
    EvalIdentities = {n1, n2}
    EvalConfigs = {c0}
    EvalRoots = {r1, r2}
    EvalFingerprints = {f1, f2}
    EvalKinds = {tasks}
    EvalAttrs = {attr}
    EvalClients = {x, y}
    NoIdentity = none
    NoConfig = c0
    MAX_EVAL_ENTRIES = 1
    WorkerIds = {w1, w2}
    Attempts = {a, b}
    Capacities = {1, 2}
    TTLs = {0, 1, 2}
    MaxTime = 3
    StackProcs = {1, 2}
    StackGraphs <- MCStackGraphs
    Probed = {2}
    StackCommands = {up1, up2}
    MaxSpawns = 3
    MaxStackCommands = 3
SPECIFICATION StoreSpec
INVARIANTS
    ArtifactsVerify
    UndisturbedHit
    AnswerAgrees
    NoSecretRetained
    QuietEntryWhole
    JournalSound
    DaemonReachable
    LeafTruthful
    SnapshotFaithful
    EvalAnswerMatches
    WorkerExclusive
    NoneForgotten
CHECK_DEADLOCK FALSE
