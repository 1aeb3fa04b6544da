----------------------------- MODULE MCRunLease -----------------------------
(* RunLease for TLC: where the keepers live and which environments are      *)
(* explored.                                                                *)
EXTENDS RunLease, TLC

CONSTANTS k1, k2, k3, p1, p2   \* Keepers is a subset of {k1, k2, k3}

\* Two streams of one process, and one of another.
TwoProcesses == [k \in Keepers |-> IF k = k3 THEN p2 ELSE p1]

\* Every process keeps its schedule.
Calm == {"db_error", "crash", "abandon"}

\* Calm, and a claim may slip into the sweep's window.
Racing == Calm \cup {"sweep_race"}

\* The keepers of one process are interchangeable in every safety property.
Symmetry == Permutations({k1, k2})
=============================================================================
