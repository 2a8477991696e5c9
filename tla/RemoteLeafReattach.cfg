SPECIFICATION RemoteSpec
CONSTANTS
    Leaves = {x, y}
    Unset = none
    Torn = torn
    ExitCodes = {0, 1}
    MaxTries = 2
    MaxLeafFaults = 1
INVARIANT FinishedNotResubmitted
CHECK_DEADLOCK FALSE
