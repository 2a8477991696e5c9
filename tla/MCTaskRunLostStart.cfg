SPECIFICATION RunFairSpec
CONSTANTS
    Nodes <- RunNodes
    Plans <- PlainPlans
    Locks = {"x"}
    NoNode = 0
    Jobs = 2
    MemoryPool = 0
    MaxU32 = 7
    MaxU64 = 7
    Conditions <- CachedConditions
INVARIANTS
    RunningAccounted
