SPECIFICATION Spec
CONSTANTS
    Plan <- Plan1
    Budget <- Budget1
    Supplements = {1}
    Impacts = {"research", "composition", "projection", "refused"}
    MaxEdits = 0
    MaxRepairs = 3
    Outcomes = {"met"}
    Faults = {"persist"}
    MaxCrashes = 1
INVARIANTS
    NoObsoleteMaterial
    ApprovedWorkOnly
    SupplementsSettled
    ResearchGoesOn
