SPECIFICATION TimedSpec
CONSTANTS
    Plan <- Plan1
    Budget <- Budget1
    Supplements = {}
    Impacts = {"research"}
    MaxEdits = 1
    MaxRepairs = 3
    Outcomes = {"met", "missing", "hopeless"}
    Faults = {}
    MaxCrashes = 0
INVARIANTS
    TypeOK
    FailsLast
PROPERTIES
    RunEnds
