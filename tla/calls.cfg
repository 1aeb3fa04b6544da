\* Two nodes and a guest share two slots; the second stream reads the baseline.
CONSTANTS
    w1 = w1
    w2 = w2
    g1 = g1
    Callers = {w1, w2, g1}
    Workers = {w1, w2}
    Guests = {g1}
    Flushers = {f1}
    Slots = 2
    MaxLLM = 1
    MaxTools = 2
    MaxRetries = 1
    Attempts = 2
    BufferMax = 2
    Faults = {"seed", "flush", "flush_cancelled", "crash"}
    MaxOps <- TwoOneOne
    MaxStreams = 2
SPECIFICATION Spec
CHECK_DEADLOCK FALSE
INVARIANTS
    TypeOK
    SlotsConserved
    BudgetHolds
    UsageAccounted
