------------------------------ MODULE RunLease ------------------------------
(***************************************************************************)
(* The execution lease of one TripRun: the row of trip_run_executions      *)
(* (infrastructure/run_execution_store.py), the RunLeaseKeeper objects of  *)
(* the streams that compete for it (services/run_lease.py), and the two    *)
(* writes of the recovery sweep that ignore the token                      *)
(* (services/run_recovery.py).                                             *)
(*                                                                         *)
(* A keeper claims at most once, with a fresh random token, so the token   *)
(* in the row is modelled by the keeper that drew it.  Time is the         *)
(* database's NOW(), in seconds: the row holds how long the lease still    *)
(* lasts, which keeps the state space finite without bounding time.        *)
(***************************************************************************)
EXTENDS Integers

CONSTANTS
    Keepers,           \* the RunLeaseKeeper objects, one per stream that tries to run
    NoKeeper,          \* lease_token IS NULL, and an empty _active_keepers slot
    Processes,         \* the backend processes on this machine (two terminals, a restart)
    ProcessOf,         \* the process each keeper lives in
    LeaseSeconds,      \* run_control.lease_seconds
    HeartbeatSeconds,  \* run_control.lease_heartbeat_seconds
    FailureThreshold,  \* run_control.lease_heartbeat_failure_threshold
    Faults             \* what the environment may do, a subset of FaultKinds

\* db_error   a lease write raises, whether or not it was committed first
\* crash      the process of a keeper dies
\* abandon    the client leaves before the response generator ever runs
\* stall      the event loop of a keeper is late by any amount (a sleeping laptop)
\* sweep_race a claim lands between the sweep's SELECT and its write
\* shutdown   the process closes while a workflow still runs
FaultKinds == {"db_error", "crash", "abandon", "stall", "sweep_race", "shutdown"}

\* The three bounds of RunControlConfig and its validator.
ASSUME LeaseAssumption ==
    /\ NoKeeper \notin Keepers
    /\ ProcessOf \in [Keepers -> Processes]
    /\ LeaseSeconds \in Nat \ {0}
    /\ HeartbeatSeconds \in Nat \ {0}
    /\ FailureThreshold \in Nat \ {0}
    /\ HeartbeatSeconds * 2 <= LeaseSeconds
    /\ Faults \subseteq FaultKinds

VARIABLES
    token,     \* lease_token: the keeper that owns the row, or NoKeeper
    left,      \* lease_expires_at - NOW(), and -1 once past or NULL
    safeBy,    \* which keeper recorded last_safe_checkpoint_id
    phase,     \* phase[k]: where keeper k is in its life
    due,       \* due[k]: seconds until k must beat (or, when held, must start)
    failures,  \* failures[k]: consecutive heartbeats that raised
    work,      \* work[k]: the workflow task of k's stream
    stopped,   \* stopped[k]: request_stop was called on the handle of k's stream
    slot,      \* slot[p]: _active_keepers[run_id] in process p
    listed     \* the sweep has read this run as a candidate and not written yet

row == <<token, left, safeBy>>
leaseVars == <<token, left, safeBy, phase, due, failures, work, stopped, slot, listed>>

\* idle      no claim won yet           held   claimed, start() not yet called
\* beating   the heartbeat task runs    lost   gave the lease up, stop requested
\* released  the stream's own release   shut   released by the closing process
\* gone      the process or the response died with it
Phases == {"idle", "held", "beating", "lost", "released", "shut", "gone"}

LeaseInit ==
    /\ token = NoKeeper
    /\ left = -1
    /\ safeBy = NoKeeper
    /\ phase = [k \in Keepers |-> "idle"]
    /\ due = [k \in Keepers |-> 0]
    /\ failures = [k \in Keepers |-> 0]
    /\ work = [k \in Keepers |-> "none"]
    /\ stopped = [k \in Keepers |-> FALSE]
    /\ slot = [p \in Processes |-> NoKeeper]
    /\ listed = FALSE

-----------------------------------------------------------------------------
(* The row.                                                                *)

\* Mutant of Unowned: <= for <.
UnownedAtExpiry == left <= 0

\* lease_expires_at IS NULL OR lease_expires_at < NOW()
Unowned == left < 0

\* SET lease_token = NULL, lease_expires_at = NULL
ClearRow == token' = NoKeeper /\ left' = -1

\* Mutant of ReleaseRow: no WHERE on the token.
ReleaseRowBlindly(k) == ClearRow

\* Only where lease_token is the caller's: the fence of every keeper write.
ReleaseRow(k) ==
    IF token = k THEN ClearRow ELSE UNCHANGED <<token, left>>

\* Mutant of DropActiveKeeper: pops the slot whoever is in it.
DropAnyKeeper(k) == slot' = [slot EXCEPT ![ProcessOf[k]] = NoKeeper]

\* Only while the slot is still this keeper's own.
DropActiveKeeper(k) ==
    slot' = [slot EXCEPT ![ProcessOf[k]] = IF @ = k THEN NoKeeper ELSE @]

-----------------------------------------------------------------------------
(* The keeper.                                                             *)

\* A claim that finds a live lease changes nothing (the request gets a 409),
\* so only the one that wins is a step.
Claim(k) ==
    /\ phase[k] = "idle"
    /\ Unowned
    /\ listed => "sweep_race" \in Faults
    /\ token' = k
    /\ left' = LeaseSeconds
    /\ phase' = [phase EXCEPT ![k] = "held"]
    /\ due' = [due EXCEPT ![k] = HeartbeatSeconds]
    /\ UNCHANGED <<safeBy, failures, work, stopped, slot, listed>>

Start(k) ==
    /\ phase[k] = "held"
    /\ phase' = [phase EXCEPT ![k] = "beating"]
    /\ due' = [due EXCEPT ![k] = HeartbeatSeconds]
    /\ slot' = [slot EXCEPT ![ProcessOf[k]] = k]
    /\ UNCHANGED <<token, left, safeBy, failures, work, stopped, listed>>

\* StreamingResponse is returned but its generator is never entered: nobody
\* starts, stops or releases this keeper any more.
Abandon(k) ==
    /\ "abandon" \in Faults
    /\ phase[k] = "held"
    /\ phase' = [phase EXCEPT ![k] = "gone"]
    /\ UNCHANGED <<token, left, safeBy, due, failures, work, stopped, slot, listed>>

\* Mutant of LoseLease: the handle is not told to stop.
LoseLeaseSilently(k) ==
    /\ phase' = [phase EXCEPT ![k] = "lost"]
    /\ UNCHANGED stopped
    /\ DropActiveKeeper(k)

\* _lose_lease: the keeper stops beating, leaves the slot if it is still its
\* own, and stops the handle of its own stream.
LoseLease(k) ==
    /\ phase' = [phase EXCEPT ![k] = "lost"]
    /\ stopped' = [stopped EXCEPT ![k] = TRUE]
    /\ DropActiveKeeper(k)

\* Mutant of HeartbeatDue: release() leaves the heartbeat task running.
HeartbeatOutlivesRelease(k) ==
    \/ phase[k] = "beating" /\ due[k] = 0
    \/ phase[k] = "released"

HeartbeatDue(k) == phase[k] = "beating" /\ due[k] = 0

\* Mutant of Heartbeat: no WHERE on the token.
HeartbeatUnfenced(k) ==
    /\ HeartbeatDue(k)
    /\ left' = LeaseSeconds
    /\ failures' = [failures EXCEPT ![k] = 0]
    /\ due' = [due EXCEPT ![k] = HeartbeatSeconds]
    /\ UNCHANGED <<token, safeBy, phase, work, stopped, slot, listed>>

Heartbeat(k) ==
    /\ HeartbeatDue(k)
    /\ token = k
    /\ left' = LeaseSeconds
    /\ failures' = [failures EXCEPT ![k] = 0]
    /\ due' = [due EXCEPT ![k] = HeartbeatSeconds]
    /\ UNCHANGED <<token, safeBy, phase, work, stopped, slot, listed>>

HeartbeatFindsTakeover(k) ==
    /\ HeartbeatDue(k)
    /\ token # k
    /\ LoseLease(k)
    /\ UNCHANGED <<token, left, safeBy, due, failures, work, listed>>

HeartbeatRaises(k) ==
    /\ "db_error" \in Faults
    /\ HeartbeatDue(k)
    /\ \/ UNCHANGED left
       \/ token = k /\ left' = LeaseSeconds
    /\ failures' = [failures EXCEPT ![k] = @ + 1]
    /\ IF failures[k] + 1 < FailureThreshold
       THEN /\ due' = [due EXCEPT ![k] = HeartbeatSeconds]
            /\ UNCHANGED <<phase, stopped, slot>>
       ELSE /\ LoseLease(k)
            /\ UNCHANGED due
    /\ UNCHANGED <<token, safeBy, work, listed>>

MarkSafeCheckpoint(k) ==
    /\ phase[k] \in {"held", "beating"}
    /\ token = k
    /\ safeBy' = k
    /\ UNCHANGED <<token, left, phase, due, failures, work, stopped, slot, listed>>

\* run_workflow is spawned after start(), also when the keeper has been stopped
\* in between: a stop is only looked at inside the workflow.
BeginWork(k) ==
    /\ phase[k] \in {"beating", "lost", "shut"}
    /\ work[k] = "none"
    /\ work' = [work EXCEPT ![k] = "running"]
    /\ UNCHANGED <<token, left, safeBy, phase, due, failures, stopped, slot, listed>>

\* The stream asks its own workflow to stop (user cancel, stream exit).
RequestStop(k) ==
    /\ work[k] = "running"
    /\ ~stopped[k]
    /\ stopped' = [stopped EXCEPT ![k] = TRUE]
    /\ UNCHANGED <<token, left, safeBy, phase, due, failures, work, slot, listed>>

\* The workflow ends by itself, at a cooperative boundary, or when the detached
\* task finally stops.
EndWork(k) ==
    /\ work[k] = "running"
    /\ work' = [work EXCEPT ![k] = "ended"]
    /\ UNCHANGED <<token, left, safeBy, phase, due, failures, stopped, slot, listed>>

\* Mutant of Release: a detached workflow may still be running.
ReleaseWhileWorking(k) ==
    /\ phase[k] \in {"held", "beating", "lost", "shut"}
    /\ phase' = [phase EXCEPT ![k] = "released"]
    /\ DropActiveKeeper(k)
    /\ ReleaseRow(k)
    /\ UNCHANGED <<safeBy, due, failures, work, stopped, listed>>

\* release() by the stream: never while its workflow runs.  A raising write is
\* logged and forgotten; after a shutdown there is no token left to release.
Release(k) ==
    /\ phase[k] \in {"held", "beating", "lost", "shut"}
    /\ work[k] # "running"
    /\ phase' = [phase EXCEPT ![k] = "released"]
    /\ DropActiveKeeper(k)
    /\ \/ ReleaseRow(k)
       \/ "db_error" \in Faults /\ UNCHANGED <<token, left>>
    /\ UNCHANGED <<safeBy, due, failures, work, stopped, listed>>

\* release_all_leases at teardown: whoever is in the slot, working or not.
Shutdown(p) ==
    /\ "shutdown" \in Faults
    /\ slot[p] # NoKeeper
    /\ phase' = [phase EXCEPT ![slot[p]] = "shut"]
    /\ DropActiveKeeper(slot[p])
    /\ ReleaseRow(slot[p])
    /\ UNCHANGED <<safeBy, due, failures, work, stopped, listed>>

\* The process dies, or has closed.  A restart is another process.
Crash(p) ==
    LET dying == {k \in Keepers : ProcessOf[k] = p}
    IN  /\ \/ "crash" \in Faults /\ \E k \in dying : phase[k] # "gone"
           \/ \E k \in dying : phase[k] = "shut"
        /\ phase' = [k \in Keepers |-> IF k \in dying THEN "gone" ELSE phase[k]]
        /\ work' = [k \in Keepers |-> IF k \in dying THEN "ended" ELSE work[k]]
        /\ slot' = [slot EXCEPT ![p] = NoKeeper]
        /\ UNCHANGED <<token, left, safeBy, due, failures, stopped, listed>>

-----------------------------------------------------------------------------
(* The recovery sweep and the clock.                                       *)

\* list_recovery_candidates selects only rows whose lease is not live.  Which
\* of those the run's status then keeps is RunExecution's matter: a row it
\* drops has no token, and clearing it would change nothing here.
SweepList ==
    /\ ~listed
    /\ Unowned
    /\ listed' = TRUE
    /\ UNCHANGED <<token, left, safeBy, phase, due, failures, work, stopped, slot>>

\* record_recovery, or release(lease_token=None): no WHERE on the token.
SweepTakeOver ==
    /\ listed
    /\ listed' = FALSE
    /\ ClearRow
    /\ UNCHANGED <<safeBy, phase, due, failures, work, stopped, slot>>

\* A keeper on time beats, or starts, before its interval is over.
OnTime(k) == phase[k] \in {"held", "beating"} => due[k] > 0

Tick ==
    /\ "stall" \in Faults \/ \A k \in Keepers : OnTime(k)
    /\ left' = IF left < 0 THEN left ELSE left - 1
    /\ due' = [k \in Keepers |->
                IF phase[k] \in {"held", "beating"} /\ due[k] > 0
                THEN due[k] - 1 ELSE due[k]]
    /\ UNCHANGED <<token, safeBy, phase, failures, work, stopped, slot, listed>>

KeeperStep(k) ==
    \/ Claim(k) \/ Start(k) \/ Abandon(k)
    \/ Heartbeat(k) \/ HeartbeatFindsTakeover(k) \/ HeartbeatRaises(k)
    \/ MarkSafeCheckpoint(k)
    \/ BeginWork(k) \/ RequestStop(k) \/ EndWork(k)
    \/ Release(k)

LeaseNext ==
    \/ \E k \in Keepers : KeeperStep(k)
    \/ \E p \in Processes : Shutdown(p) \/ Crash(p)
    \/ SweepList
    \/ SweepTakeOver
    \/ Tick

LeaseSpec == LeaseInit /\ [][LeaseNext]_leaseVars

\* Time passes, a keeper that is up beats when its sleep ends, a response that
\* was accepted is either entered or abandoned, and the sweep finishes what it
\* read.  Nothing obliges a workflow to end or a stream to release.
Fairness ==
    /\ WF_leaseVars(Tick)
    /\ WF_leaseVars(SweepTakeOver)
    /\ \A k \in Keepers :
        /\ WF_leaseVars(Start(k) \/ Abandon(k))
        /\ WF_leaseVars(Heartbeat(k) \/ HeartbeatFindsTakeover(k) \/ HeartbeatRaises(k))

FairLeaseSpec == LeaseSpec /\ Fairness

-----------------------------------------------------------------------------
(* What must hold.                                                         *)

LeaseTypeOK ==
    /\ token \in Keepers \cup {NoKeeper}
    /\ left \in -1..LeaseSeconds
    /\ safeBy \in Keepers \cup {NoKeeper}
    /\ phase \in [Keepers -> Phases]
    /\ due \in [Keepers -> 0..HeartbeatSeconds]
    /\ failures \in [Keepers -> 0..FailureThreshold]
    /\ work \in [Keepers -> {"none", "running", "ended"}]
    /\ stopped \in [Keepers -> BOOLEAN]
    /\ slot \in [Processes -> Keepers \cup {NoKeeper}]
    /\ listed \in BOOLEAN

\* A workflow that runs and that nobody has told to stop.  Whether it will see
\* what its handle was told is a question of RunExecution: a node boundary looks
\* in the process-wide registry, not at its own handle (run_control.py:416-432).
Executing(k) == work[k] = "running" /\ ~stopped[k]

\* The environment in which every process keeps its schedule.  Database errors,
\* crashes and abandoned responses are all still possible.
CalmFaults == Faults \subseteq {"db_error", "crash", "abandon"}

\* A keeper that never reaches the database gives up before its lease runs out:
\* it may start HeartbeatSeconds after the claim, and fail FailureThreshold beats.
GivesUpInTime == (FailureThreshold + 1) * HeartbeatSeconds <= LeaseSeconds

\* The lease's share of INV-RUN-004, "two executors never run one Run": of two
\* workflows that run at the same time at least one has been told to stop.
OneExecutor ==
    \A j, k \in Keepers : Executing(j) /\ Executing(k) => j = k

\* INV-RUN-001, "every running Run has a valid lease": whoever executes owns the
\* row, and the row has not expired.
ExecutorHoldsLiveLease ==
    \A k \in Keepers : Executing(k) => token = k /\ left >= 0

\* The keeper that owns the row while it beats is the one teardown will find in
\* _active_keepers (services/run_lease.py:168-176): a superseded keeper that
\* leaves must not take the successor's place with it.
OwnerIsInSlot ==
    \A k \in Keepers : token = k /\ phase[k] = "beating" => slot[ProcessOf[k]] = k

\* A live lease leaves its owner only when the owner's workflow is not running.
HandsBackStopped ==
    \A k \in Keepers :
        token = k /\ left >= 0 /\ token' # k => work'[k] # "running"

\* INV-RUN-004, "the lease is handed back only after the workflow has stopped":
\* otherwise the next stream claims it and both execute.
ReleasedOnlyWhenStopped == [][HandsBackStopped]_leaseVars

TokenKept ==
    token # NoKeeper /\ left >= 0 /\ token' # token
        => \/ phase'[token] \in {"released", "shut"} /\ phase[token] # phase'[token]
           \/ listed /\ ~listed'

OnlyOwnerProlongs ==
    left' > left =>
        token' \in Keepers /\ phase'[token'] \in {"held", "beating", "lost"}

OnlyOwnerMarksSafe ==
    safeBy' # safeBy =>
        safeBy' = token /\ phase[token] \in {"held", "beating"}

\* The fence: a live lease changes hands only by its owner's release or by the
\* sweep, and a keeper that no longer owns the row can neither prolong the
\* lease nor overwrite the owner's safe checkpoint, whatever fails around it.
Fenced == [][TokenKept /\ OnlyOwnerProlongs /\ OnlyOwnerMarksSafe]_leaseVars

\* services/run_lease.py:139-143: a keeper whose row was taken over stops, also
\* when the database refuses some of its heartbeats meanwhile.
SupersededKeeperStops ==
    \A k \in Keepers :
        (phase[k] = "beating" /\ token # k) ~> (phase[k] # "beating")

\* A lease whose keeper is gone or has failed to release it does not block the
\* run for ever: it runs out, or the sweep takes it.
DeadLeaseBecomesClaimable ==
    \A k \in Keepers :
        (token = k /\ phase[k] \in {"gone", "released", "shut"}) ~> (token # k \/ Unowned)

\* infrastructure/run_execution_store.py:236, "release(lease_token=None) is used
\* by the recovery sweep: what it takes over is precisely a row without owner".
SweepTakesOnlyUnownedRows ==
    [][listed /\ ~listed' => Unowned]_leaseVars

=============================================================================
