--------------------------- MODULE MCRunExecution ---------------------------
(* RunExecution for TLC: the environments that are explored.                *)
EXTENDS RunExecution, TLC

\* The process may die and clients may go: what a stop must survive.
Leaving == {"crash", "disconnect"}

\* Everything that may happen while a lease stays with its keeper.
Rough == RunFaults \ {"lease_lost", "sweep_race"}

\* Live leases change hands: a late heartbeat, a claim in the sweep's window, a
\* new process.
Superseding == {"crash", "lease_lost", "sweep_race"}

\* Only what a traveller can do.
Quiet == {}

\* The traveller's tab is closed.
TabClosed == {"disconnect"}

\* The machine slept, or the database was away for longer than the lease.
Asleep == {"lease_lost"}
=============================================================================
