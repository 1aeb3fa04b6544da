CONSTANTS
    s1 = s1
    s2 = s2
    Streams = {s1, s2}
    First = s1
    NoStream = NoStream
    Callers = {}
    Supplements = {}
    Cancel = Cancel
    MaxRestarts = 0
    Faults <- Asleep
SPECIFICATION Spec
INVARIANTS
    OneExecutor
CHECK_DEADLOCK FALSE
