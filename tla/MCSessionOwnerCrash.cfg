SPECIFICATION Spec
CONSTANTS
    Runs = {1, 2}
    Cpu <- TwoEqual
    Budget = 1
    Remote = {2}
    MaxCrashes = 1
    Recycling = TRUE
    Faults = {"spawn", "store", "durable"}
INVARIANTS
    AdmissionBudget
PROPERTIES
    StatusFinal
