\* RunControlConfig accepts this: 2 * 2 <= 4, but (3 + 1) * 2 > 4.
CONSTANTS
    k1 = k1
    k2 = k2
    k3 = k3
    p1 = p1
    p2 = p2
    Keepers = {k1, k2}
    NoKeeper = NoKeeper
    Processes = {p1, p2}
    ProcessOf <- TwoProcesses
    LeaseSeconds = 4
    HeartbeatSeconds = 2
    FailureThreshold = 3
    Faults <- Calm
SPECIFICATION LeaseSpec
SYMMETRY Symmetry
INVARIANTS
    OneExecutor
