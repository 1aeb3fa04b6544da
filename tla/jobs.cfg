\* Two overlapping processes, a batch of two turns, one stop or late renewal or lost reply.
CONSTANTS
    p1 = p1
    p2 = p2
    t1 = t1
    t2 = t2
    f1 = f1
    NoProcess = NoProcess
    Processes = {p1, p2}
    Turns = {t1, t2}
    Sentences = {f1}
    Telling = {t1}
    Deletable = {t1}
    MaxAttempts = 2
    Batch = 2
    Faults = {"stop", "late", "db", "fact", "enqueue", "release"}
    MaxFaults = 1
SPECIFICATION FairSpec
CHECK_DEADLOCK FALSE
INVARIANTS
    TypeOK
PROPERTIES
    ConcludedByItsHolder
    JobsEnd
