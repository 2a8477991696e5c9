SPECIFICATION CapSpec
CONSTANTS
    CapClients = {"a", "b"}
    CapBinaries = {"old", "mid"}
    CapBanner <- MCCapBanner
    CapEnvs = {{}}
    NoCapEntry = none
    MaxCapCommands = 2
    MaxCapChanges = 2
INVARIANT CapabilitiesCurrent
CHECK_DEADLOCK FALSE
