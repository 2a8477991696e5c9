SPECIFICATION Spec
CONSTANTS
    MaxAttempts = 1
    Outcomes = {"Succeeded"}
    Faults = {"crash"}
    Readers = {}
INVARIANTS
    JournalReadable
