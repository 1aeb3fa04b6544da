---------------------------- MODULE RunLifecycle ----------------------------
(***************************************************************************)
(* The durable lifecycle of one TripRun: its rows in trip_runs and         *)
(* trip_run_states and its delivery events, with every store operation     *)
(* that writes them (infrastructure/trip_run_store.py).                    *)
(*                                                                         *)
(* Each operation is one transaction under SELECT ... FOR UPDATE of the    *)
(* trip_runs row, hence one step.  Who calls is left open: streams, the    *)
(* finalizer, the control API and the recovery sweep hold snapshots of any *)
(* age, so every call a caller makes may come at any moment.  Only         *)
(* request_cancel spans several transactions, and is several steps.        *)
(***************************************************************************)
EXTENDS RunStatus, Naturals, Sequences

CONSTANTS Bundles,      \* Delivery Bundles the finalizer may have assembled
          NoBundle,     \* no Bundle
          Cancellers,   \* concurrent requests inside request_cancel
          MaxAttempts   \* bound on trip_runs.attempt

ASSUME LifecycleAssumption ==
    /\ NoBundle \notin Bundles
    /\ MaxAttempts \in Nat \ {0}

VARIABLES
    mode,      \* trip_runs.mode
    policy,    \* trip_runs.resume_policy
    status,    \* trip_runs.status
    attempt,   \* trip_runs.attempt
    mirror,    \* trip_run_states.status
    choice,    \* trip_run_states.pending_user_choice: none, open or cancelled
    flag,      \* latest_state_summary.pending_user_choice
    audit,     \* completion_audit
    events,    \* the delivery.ready and run.terminal events, in sequence order
    cancel     \* cancel[c]: request_cancel of c, between its transactions

runVars == <<mode, policy, status, attempt>>
stateVars == <<mirror, choice, flag, audit>>
vars == <<mode, policy, status, attempt, mirror, choice, flag, audit, events, cancel>>

\* A completion audit: whether there is a sealed Draft, the Bundle of
\* formal_delivery, and terminal_attribution's closure_status.
Audits ==
    [draft : {TRUE}, formal : Bundles \cup {NoBundle},
     closure : {"none", "completed", "failed", "cancelled"}]
NoAudit == [draft |-> FALSE, formal |-> NoBundle, closure |-> "none"]

Working == [draft |-> TRUE, formal |-> NoBundle, closure |-> "none"]
Delivered(b) == [draft |-> TRUE, formal |-> b, closure |-> "completed"]
Refused == [draft |-> TRUE, formal |-> NoBundle, closure |-> "failed"]

Ready(b) == [type |-> "delivery.ready", bundle |-> b]
Terminal(b) == [type |-> "run.terminal", bundle |-> b]

Init ==
    /\ mode \in {"deep", "fast"}
    /\ policy \in {"checkpoint", "clarify_only"}
    /\ policy = "checkpoint" => mode = "deep"
    /\ status = "created"
    /\ attempt = 1
    /\ mirror = "created"
    /\ choice = "none"
    /\ flag = FALSE
    /\ audit = NoAudit
    /\ events = <<>>
    /\ cancel = [c \in Cancellers |-> [pc |-> "idle", target |-> "none", tries |-> 0]]

-----------------------------------------------------------------------------
(* The operations.                                                         *)

\* Mutant of AuditFor: a run that works again keeps its old attribution.
AuditForStale(a, target) ==
    IF ~a.draft THEN NoAudit
    ELSE IF target \in {"cancelled", "failed", "completed"}
         THEN [a EXCEPT !.closure = target]
    ELSE a

\* _completion_audit_for_status
AuditFor(a, target) ==
    IF ~a.draft THEN NoAudit
    ELSE IF target = "running" THEN [a EXCEPT !.closure = "none"]
    ELSE IF target \in {"cancelled", "failed", "completed"}
         THEN [a EXCEPT !.closure = target]
    ELSE a

\* Mutant of PreserveTerminal: the formal delivery is not kept.
PreserveClosureOnly(old, new) ==
    IF old.closure = "none" THEN new
    ELSE IF ~new.draft THEN old
    ELSE [new EXCEPT !.closure = IF @ = "none" THEN old.closure ELSE @]

\* _preserve_terminal_attribution: a frame of the graph may be older than what
\* the run has already committed.
PreserveTerminal(old, new) ==
    IF old.closure = "none" THEN new
    ELSE IF ~new.draft THEN old
    ELSE [new EXCEPT
            !.closure = IF @ = "none" THEN old.closure ELSE @,
            !.formal = IF old.closure = "completed" THEN old.formal ELSE @]

\* mark_cancelled_pending_choice
MarkCancelled(ch) == IF ch = "none" THEN "none" ELSE "cancelled"

\* Mutant of Increment: an interrupted run goes on in the same attempt.
IncrementAfterFailure(target) ==
    IF target = "running" /\ status = "failed" THEN 1 ELSE 0

\* trip_runs.attempt grows when a failed or interrupted run starts again.
Increment(target) ==
    IF target = "running" /\ status \in {"failed", "interrupted"} THEN 1 ELSE 0

\* transition_status(target, pending_user_choice=given, completion_audit=arg),
\* past its three checks.
TransitionEffect(target, given, arg) ==
    LET resolved ==
            IF target # "cancelled" THEN given
            ELSE MarkCancelled(IF given = "none" THEN choice ELSE given)
    IN  /\ attempt + Increment(target) <= MaxAttempts
        /\ status' = target
        /\ mirror' = target
        /\ attempt' = attempt + Increment(target)
        /\ choice' = resolved
        /\ flag' = IF resolved # "none" \/ target # "awaiting_input"
                   THEN resolved # "none" /\ target = "awaiting_input"
                   ELSE flag
        /\ audit' = AuditFor(IF arg.draft THEN arg ELSE audit, target)
        /\ UNCHANGED <<mode, policy, events>>

TransitionStatus(target, given, arg) ==
    /\ MayBecome(status, target)
    /\ ~(target = "completed" /\ mode = "deep")
    /\ TransitionEffect(target, given, arg)

\* The calls the program makes: only the gate passes a choice, and only the
\* finalizer's failure passes an audit.
Call ==
    /\ \/ TransitionStatus("awaiting_input", "open", NoAudit)
       \/ TransitionStatus("failed", "none", Refused) /\ mode = "deep"
       \/ \E target \in {"running", "completed", "failed", "interrupted",
                         "cancel_requested", "cancelled"} :
            TransitionStatus(target, "none", NoAudit)
    /\ UNCHANGED cancel

\* Mutant of CompleteDelivery: run.terminal is appended first.
CompleteDeliveryTerminalFirst(b) ==
    /\ mode = "deep"
    /\ "completed" \in AllowedNext(status)
    /\ events = <<>>
    /\ status' = "completed"
    /\ mirror' = "completed"
    /\ choice' = "none"
    /\ flag' = FALSE
    /\ audit' = AuditFor(Delivered(b), "completed")
    /\ events' = <<Terminal(b), Ready(b)>>
    /\ UNCHANGED <<mode, policy, attempt, cancel>>

\* Mutant of CompleteDelivery: a completed run may be delivered anew.
CompleteDeliveryAgain(b) ==
    /\ mode = "deep"
    /\ MayBecome(status, "completed")
    /\ status' = "completed"
    /\ mirror' = "completed"
    /\ choice' = "none"
    /\ flag' = FALSE
    /\ audit' = AuditFor(Delivered(b), "completed")
    /\ events' = <<Ready(b), Terminal(b)>>
    /\ UNCHANGED <<mode, policy, attempt, cancel>>

\* complete_delivery, in one transaction with the Bundle commit.  Repeating it
\* for the same Bundle returns what is there; anything else raises and rolls
\* the whole transaction back.
CompleteDelivery(b) ==
    /\ mode = "deep"
    /\ "completed" \in AllowedNext(status)
    /\ events = <<>>
    /\ status' = "completed"
    /\ mirror' = "completed"
    /\ choice' = "none"
    /\ flag' = FALSE
    /\ audit' = AuditFor(Delivered(b), "completed")
    /\ events' = <<Ready(b), Terminal(b)>>
    /\ UNCHANGED <<mode, policy, attempt, cancel>>

\* claim_checkpoint_resume: a compare-and-swap on the status the caller saw.
ClaimResume(allowed) ==
    /\ policy = "checkpoint"
    /\ status \in allowed
    /\ attempt < MaxAttempts
    /\ status' = "running"
    /\ mirror' = "running"
    /\ attempt' = attempt + 1
    /\ choice' = "none"
    /\ flag' = FALSE
    /\ audit' = AuditFor(audit, "running")
    /\ UNCHANGED <<mode, policy, events, cancel>>

\* record_state_snapshot of a frame of the graph.  A frame carries a Bundle
\* only after the finalizer's commit returned; every other frame, of whatever
\* age, is still a working one.
Frames ==
    {NoAudit, Working} \cup
        {Delivered(b) : b \in {x \in Bundles : events # <<>> /\ events[1].bundle = x}}

RecordSnapshot(frame) ==
    /\ mode = "deep" \/ frame = NoAudit
    /\ audit' = AuditFor(PreserveTerminal(audit, frame), mirror)
    /\ flag' = (mirror = "awaiting_input" /\ choice # "none")
    /\ UNCHANGED <<mode, policy, status, attempt, mirror, choice, events, cancel>>

\* Mutant of RecordNodeUpdate: an update without a choice clears the gate's.
RecordNodeUpdateClearing ==
    /\ choice' = "none"
    /\ flag' = FALSE
    /\ UNCHANGED <<mode, policy, status, attempt, mirror, audit, events, cancel>>

\* record_node_update: it decides about the choice of a terminal run only.
RecordNodeUpdate ==
    LET kept == IF mirror \notin TerminalStatuses THEN choice
                ELSE IF mirror = "cancelled" THEN MarkCancelled(choice)
                ELSE "none"
    IN  /\ choice' = kept
        /\ flag' = (kept # "none" /\ mirror \notin TerminalStatuses)
        /\ UNCHANGED <<mode, policy, status, attempt, mirror, audit, events, cancel>>

-----------------------------------------------------------------------------
(* request_cancel: up to three rounds of reading, then transition_status.  *)

CancelRead(c) ==
    /\ cancel[c].pc \in {"idle", "again"}
    /\ cancel[c].tries < 3
    /\ cancel' = [cancel EXCEPT
                    ![c].target = CancelTarget(status),
                    ![c].pc = IF CancelTarget(status) = "none"
                              THEN "returned" ELSE "read"]
    /\ UNCHANGED <<runVars, stateVars, events>>

CancelWrite(c) ==
    /\ cancel[c].pc = "read"
    /\ IF MayBecome(status, cancel[c].target)
       THEN /\ TransitionEffect(cancel[c].target, "none", NoAudit)
            /\ cancel' = [cancel EXCEPT ![c].pc = "returned"]
       ELSE /\ cancel' = [cancel EXCEPT ![c].pc = "again", ![c].tries = @ + 1]
            /\ UNCHANGED <<runVars, stateVars, events>>

\* Three lost races: the last read decides between returning and raising.
CancelGiveUp(c) ==
    /\ cancel[c].pc = "again"
    /\ cancel[c].tries = 3
    /\ cancel' = [cancel EXCEPT
                    ![c].pc = IF status \in CancellableStatuses
                              THEN "raised" ELSE "returned"]
    /\ UNCHANGED <<runVars, stateVars, events>>

Next ==
    \/ Call
    \/ \E b \in Bundles : CompleteDelivery(b)
    \/ ClaimResume({"awaiting_input"})
    \/ ClaimResume({"failed", "interrupted"})
    \/ \E frame \in Frames : RecordSnapshot(frame)
    \/ RecordNodeUpdate
    \/ \E c \in Cancellers : CancelRead(c) \/ CancelWrite(c) \/ CancelGiveUp(c)

Spec == Init /\ [][Next]_vars

-----------------------------------------------------------------------------
(* What must hold.                                                         *)

TypeOK ==
    /\ mode \in {"deep", "fast"}
    /\ policy \in {"checkpoint", "clarify_only"}
    /\ status \in Statuses
    /\ attempt \in 1..MaxAttempts
    /\ mirror \in Statuses
    /\ choice \in {"none", "open", "cancelled"}
    /\ flag \in BOOLEAN
    /\ audit \in Audits \cup {NoAudit}
    /\ events \in {<<>>} \cup {<<Ready(b), Terminal(b)>> : b \in Bundles}
    /\ cancel \in [Cancellers ->
                      [pc : {"idle", "read", "again", "returned", "raised"},
                       target : {"none", "cancel_requested", "cancelled"},
                       tries : 0..3]]

\* A deep run is completed exactly when its one delivery.ready and its one
\* run.terminal are on record, and from then on its audit names that Bundle:
\* no lagging frame of the graph takes it back (trip_run_store.py:333-359).
FormalDelivery ==
    mode = "deep" =>
        /\ (status = "completed") <=> (events # <<>>)
        /\ events # <<>> => audit = Delivered(events[1].bundle)

\* A waiting run always shows the decision it waits for, and no other run
\* does: node updates and snapshots of any age neither null the gate's choice
\* nor bring it back (trip_run_store.py:1386-1393).
ChoiceMatchesStatus ==
    /\ (choice = "open") <=> (status = "awaiting_input")
    /\ choice = "cancelled" => status = "cancelled"
    /\ flag <=> (status = "awaiting_input")

\* The terminal attribution is that of the status the run is in: a resumed run
\* carries none, and a late frame of an earlier attempt restores none
\* (trip_run_store.py:281-289).
AttributionTellsStatus ==
    audit.draft =>
        audit.closure = IF status \in {"completed", "failed", "cancelled"}
                        THEN status ELSE "none"

SealIsKept ==
    status \in Sealed =>
        /\ UNCHANGED <<status, attempt, events>>
        /\ audit.draft => UNCHANGED audit

\* Nothing rewrites a sealed run, whoever still holds an old snapshot of it
\* (INV-CMD-003): not its status, its delivery, or what is attributed to it.
SealedStaysSealed == [][SealIsKept]_vars

\* request_cancel returns only when the run no longer works and no longer
\* waits, although every status it read may be out of date when it writes.
CancelReturnsStopped ==
    [][\A c \in Cancellers :
        cancel'[c].pc = "returned" /\ cancel[c].pc # "returned"
            => status' \notin {"created", "running", "awaiting_input"}]_vars

Phase ==
    CASE status = "created"                       -> "fresh"
      [] status = "running"                       -> "working"
      [] status = "awaiting_input"                -> "waiting"
      [] status \in {"failed", "interrupted"}     -> "paused"
      [] status = "cancel_requested"              -> "stopping"
      [] status = "completed"                     -> "delivered"
      [] status = "cancelled"                     -> "cancelled"

Contract == INSTANCE RunContract
    WITH Plans <- Bundles, NoPlan <- NoBundle,
         phase <- Phase, round <- attempt,
         shown <- IF events = <<>> THEN NoBundle ELSE events[1].bundle

\* The store keeps the promise of RunContract under every interleaving of its
\* callers: a new round after every failure, one delivery, no way back.
KeepsContract == Contract!ContractSpec

=============================================================================
