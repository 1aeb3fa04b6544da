----------------------------- MODULE RunCommands -----------------------------
(***************************************************************************)
(* The durable control commands of one TripRun: its rows in                *)
(* trip_run_commands and the statements that write them                    *)
(* (infrastructure/run_command_store.py).  There is one row per intent:    *)
(* stopping the run is one, each wording of a supplement another.          *)
(***************************************************************************)
EXTENDS Naturals

CONSTANTS Supplements,  \* the additional requests a traveller may word
          Cancel,       \* the one intent to stop the run
          MaxRestarts   \* bound on the restarts of the backend process

ASSUME CommandAssumption ==
    /\ Cancel \notin Supplements
    /\ MaxRestarts \in Nat

Commands == Supplements \cup {Cancel}

\* EXECUTOR_ID: a process is known by how many came before it; 0 is NULL.
Epochs == 1..(MaxRestarts + 1)

VARIABLE row   \* row[c]: status and claimed_by of the row of c

Conclusions == {"consumed", "rejected"}

RowType == [st : {"none", "pending", "claimed"} \cup Conclusions,
            by : Epochs \cup {0}]

NoCommands == [c \in Commands |-> [st |-> "none", by |-> 0]]

IsOpen(c) == row[c].st \in {"pending", "claimed"}

\* ON CONFLICT (run_id, request_digest) DO NOTHING: an intent that was ever
\* stated keeps its row, whatever has become of it.
Enqueue(c) ==
    row' = [row EXCEPT ![c] =
                IF @.st = "none" THEN [st |-> "pending", by |-> 0] ELSE @]

\* Pending rows, and those some other process has claimed: it is gone.
Claimable(e) ==
    {c \in Commands : \/ row[c].st = "pending"
                      \/ row[c].st = "claimed" /\ row[c].by # e}

ClaimPending(e) ==
    row' = [c \in Commands |->
                IF c \in Claimable(e) THEN [st |-> "claimed", by |-> e] ELSE row[c]]

\* Mutant of ReleaseClaims: no WHERE on the status.
ReleaseAnyRow(cs) ==
    row' = [c \in Commands |->
                IF c \in cs THEN [st |-> "pending", by |-> 0] ELSE row[c]]

ReleaseClaims(cs) ==
    row' = [c \in Commands |->
                IF c \in cs /\ row[c].st = "claimed"
                THEN [st |-> "pending", by |-> 0] ELSE row[c]]

\* Only open rows: a conclusion is never replaced by another.
Settle(cs, verdict) ==
    row' = [c \in Commands |->
                IF c \in cs /\ IsOpen(c) THEN [row[c] EXCEPT !.st = verdict] ELSE row[c]]

\* Mutant of SettleAll: an open cancel counts as carried out, however the run ended.
SettleAllAsAsked(cancelled) ==
    row' = [c \in Commands |->
                IF ~IsOpen(c) THEN row[c]
                ELSE [row[c] EXCEPT !.st = IF c = Cancel THEN "consumed" ELSE "rejected"]]

\* settle_run_terminal_commands: an open cancel is consumed if the run really
\* was cancelled, and every other open row is rejected.
SettleAll(cancelled) ==
    row' = [c \in Commands |->
                IF ~IsOpen(c) THEN row[c]
                ELSE [row[c] EXCEPT !.st =
                        IF c = Cancel /\ cancelled THEN "consumed" ELSE "rejected"]]

=============================================================================
