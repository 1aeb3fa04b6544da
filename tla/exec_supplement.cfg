CONSTANTS
    s1 = s1
    s2 = s2
    s3 = s3
    a = a
    Streams = {s1, s2, s3}
    First = s1
    NoStream = NoStream
    Callers = {}
    Supplements = {a}
    Cancel = Cancel
    MaxRestarts = 1
    Faults <- Rough
SPECIFICATION Spec
INVARIANTS
    ExecutorIsReachable
PROPERTIES
    SupplementEntersOnce
CHECK_DEADLOCK FALSE
