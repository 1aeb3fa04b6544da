CONSTANTS
    s1 = s1
    s2 = s2
    u1 = u1
    Streams = {s1, s2}
    First = s1
    NoStream = NoStream
    Callers = {u1}
    Supplements = {}
    Cancel = Cancel
    MaxRestarts = 0
    Faults <- Quiet
SPECIFICATION Spec
INVARIANTS
    StopReachesTheExecutor
CHECK_DEADLOCK FALSE
