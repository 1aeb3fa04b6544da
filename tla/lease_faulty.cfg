\* Everything may go wrong: what the token alone still guarantees, and what a
\* fair clock, heartbeat and sweep achieve.  No symmetry, for the liveness.
CONSTANTS
    k1 = k1
    k2 = k2
    k3 = k3
    p1 = p1
    p2 = p2
    Keepers = {k1, k2}
    NoKeeper = NoKeeper
    Processes = {p1, p2}
    ProcessOf <- TwoProcesses
    LeaseSeconds = 2
    HeartbeatSeconds = 1
    FailureThreshold = 2
    Faults <- FaultKinds
SPECIFICATION FairLeaseSpec
PROPERTIES
    Fenced
    SupersededKeeperStops
    DeadLeaseBecomesClaimable
