SPECIFICATION Spec
CONSTANTS
  a = a
  b = b
  m = m
  p1 = p1
  p2 = p2
  Chats = {a, b}
  Manuals = {m}
  Processes = {p1, p2}
  ProcessOf <- TwoProcesses
  LoadBudget = 4
  Trigger = 3
  CompactBudget = 3
  PageSize = 2
  InitialLengths <- Lengths
  MaxTurns = 3
  MaxClears = 1
  MaxFaults = 0
CHECK_DEADLOCK FALSE
INVARIANT
  AnchorCoversBoundary
