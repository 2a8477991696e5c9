SPECIFICATION AcSpec
CONSTANTS
    AcFiles = {"spec", "gen", "out"}
    AcTracked = {"spec", "gen"}
    AcContents = {0, 1}
    AcNodes = {1, 2}
    AcItems <- MCItems
    AcInputs <- MCInputs
    AcSource <- MCSource
    AcOutput <- MCOutput
    AcBound = {}
    AcUncachedSets = {{}}
    NoValue = none
    MaxAcRuns = 2
    MaxAcEdits = 2
INVARIANT HitIsPure
CHECK_DEADLOCK FALSE
