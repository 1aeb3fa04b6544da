\* A stream claims between the SELECT of the sweep and its write.
CONSTANTS
    k1 = k1
    k2 = k2
    k3 = k3
    p1 = p1
    p2 = p2
    Keepers = {k1, k2}
    NoKeeper = NoKeeper
    Processes = {p1, p2}
    ProcessOf <- TwoProcesses
    LeaseSeconds = 2
    HeartbeatSeconds = 1
    FailureThreshold = 2
    Faults <- Racing
SPECIFICATION LeaseSpec
SYMMETRY Symmetry
PROPERTIES
    SweepTakesOnlyUnownedRows
