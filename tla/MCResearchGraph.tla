-------------------------- MODULE MCResearchGraph --------------------------
(* A small instance of ResearchGraph for TLC. *)
EXTENDS ResearchGraph

Plan1 == << {"destination", "transport"}, {"itinerary"} >>
Plan2 == << {"destination"}, {"itinerary"} >>
Budget1 == [w \in Workers |-> IF w = "destination" THEN 2 ELSE 1]

\* The supplements of a run are alike until classify_amendment has judged them.
AlikeSupplements == Permutations(Supplements)

=============================================================================
