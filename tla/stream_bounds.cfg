\* Not a run of the project: stream.cfg, for the size of the buffer and its puts.
CONSTANTS
    n1 = n1
    n2 = n2
    Nodes = {n1, n2}
    Workflow = Workflow
    CriticalLimit = 1
    ChunkLimit = 2
    TextLimit = 3
    MaxChars = 2
    MaxPuts <- ThreeAndTwo
SPECIFICATION Spec
CHECK_DEADLOCK FALSE
INVARIANTS
    MemoryBounded
PROPERTIES
    EveryPutReturns
