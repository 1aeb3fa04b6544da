CONSTANTS
    s1 = s1
    s2 = s2
    a = a
    Streams = {s1, s2}
    First = s1
    NoStream = NoStream
    Callers = {}
    Supplements = {a}
    Cancel = Cancel
    MaxRestarts = 1
    Faults <- Superseding
SPECIFICATION Spec
PROPERTIES
    VerdictIsFinal
CHECK_DEADLOCK FALSE
