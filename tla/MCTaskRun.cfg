SPECIFICATION MCRunSpec
CONSTANTS
    Nodes <- RunNodes
    Plans <- MCRunPlans
    Locks = {"x"}
    NoNode = 0
    Jobs = 2
    MemoryPool = 0
    MaxU32 = 7
    MaxU64 = 7
    Conditions <- MCConditions
INVARIANTS
    OutcomeReported
    NoOrphans
PROPERTIES
    RunEnds
    TimeoutEnforced
