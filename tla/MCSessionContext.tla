-------------------------- MODULE MCSessionContext --------------------------
\* Two tabs and one request by hand in one process; and spread over two.
EXTENDS SessionContext, TLC

CONSTANTS a, b, m, p1, p2

OneProcess == [c \in {a, b, m} |-> p1]
TwoProcesses == [c \in {a, b, m} |-> IF c = a THEN p1 ELSE p2]
Lengths == {2}
Tabs == Permutations({a, b})
=============================================================================
