\* What the code does not keep, one line at a time: a turn of the second tab is lost; a
\* clear tears a load; a summary that failed replaces the anchor.
SPECIFICATION Spec
CONSTANTS
  a = a
  b = b
  m = m
  p1 = p1
  p2 = p2
  Chats = {a, b}
  Manuals = {m}
  Processes = {p1}
  ProcessOf <- OneProcess
  LoadBudget = 4
  Trigger = 3
  CompactBudget = 3
  PageSize = 2
  InitialLengths <- Lengths
  MaxTurns = 4
  MaxClears = 1
  MaxFaults = 1
CHECK_DEADLOCK FALSE
INVARIANTS
  EveryTurnIsSaved
  WholeInSpiteOfClear
PROPERTY
  FailedSummaryKeepsAnchor
