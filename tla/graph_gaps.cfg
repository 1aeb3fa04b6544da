\* What the code does not keep, one line at a time: amendments its design wants applied,
\* which the validator of the state refuses; a granted repair the edge does not take.
SPECIFICATION Spec
CONSTANTS
    Plan <- Plan1
    Budget <- Budget1
    Supplements = {1}
    Impacts = {"composition", "projection"}
    MaxEdits = 0
    MaxRepairs = 3
    Outcomes = {"met", "loose", "missing", "hopeless"}
    Faults = {}
    MaxCrashes = 0
INVARIANTS
    AmendmentsGoOn
    ReleasedCompositionShips
