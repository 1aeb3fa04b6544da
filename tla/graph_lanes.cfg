\* Not a run of the project: graph_supplement.cfg, for two supplements at once.
SPECIFICATION Spec
CONSTANTS
    a1 = a1
    a2 = a2
    Plan <- Plan1
    Budget <- Budget1
    Supplements = {a1, a2}
    Impacts = {"research", "refused"}
    MaxEdits = 0
    MaxRepairs = 3
    Outcomes = {"met"}
    Faults = {}
    MaxCrashes = 0
SYMMETRY AlikeSupplements
INVARIANTS
    ResearchGoesOn
    RejectedStaysOut
