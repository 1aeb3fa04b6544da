---------------------------- MODULE RunExecution ----------------------------
(***************************************************************************)
(* One TripRun while it is executed: the response streams that start or    *)
(* resume it (api/routes/chat.py), the workflow task each of them spawns   *)
(* (workflows/run_control.py), the coordinator that carries durable        *)
(* commands to the workflow (services/run_commands.py), the control API    *)
(* (api/routes/trip_runs.py) and the recovery sweep                        *)
(* (services/run_recovery.py), in a backend that may crash and restart.    *)
(*                                                                         *)
(* RunLease is used through what it guarantees: a lease does not run out   *)
(* under a keeper that still beats.  RunLifecycle is used through the      *)
(* status table: its operations are the status writes here.                *)
(***************************************************************************)
EXTENDS RunStatus, RunCommands

CONSTANTS
    Streams,     \* the requests that may execute the run, in order of nothing
    First,       \* the request that created it
    NoStream,    \* no stream
    Callers,     \* requests of the control API that may overlap
    Faults       \* what the environment may do, a subset of RunFaults

\* crash      the process dies, and is started again
\* disconnect the client closes the response, or is too slow to read it
\* abandon    the client leaves before the response generator runs
\* lease_lost a keeper gives up: the database refuses its heartbeats
\* db_error   a write of the cleanup, or of a command's verdict, fails
\* sweep_race a claim lands between the sweep's SELECT and its write
RunFaults == {"crash", "disconnect", "abandon", "lease_lost", "db_error", "sweep_race"}

ASSUME ExecutionAssumption ==
    /\ NoStream \notin Streams
    /\ First \in Streams
    /\ Faults \subseteq RunFaults

VARIABLES
    status,    \* trip_runs.status
    lease,     \* the stream whose token is in the execution row, or NoStream
    expired,   \* that lease has run out
    graph,     \* the checkpoint of the workflow graph, as far as amendments go
    epoch,     \* which process this is
    registry,  \* run_control_registry: the stream whose handle is in the slot
    pc,        \* pc[s]: where the response of stream s is
    want,      \* want[s]: what s was asked to do
    seen,      \* seen[s]: the status s read for its verdict
    beat,      \* beat[s]: the keeper of s beats, or is about to
    carried,   \* carried[s]: rows the coordinator has claimed, not delivered
    sinks,     \* sinks[s]: the coordinator listens to the handle of s
    stop,      \* stop[s]: why the handle of s was told to stop
    ready,     \* ready[s]: the handle of s knows of a delivery
    held,      \* held[s]: the supplements in the handle of s
    work,      \* work[s]: where the workflow task of s is
    plan,      \* plan[s]: what the node that task is in will do
    result,    \* result[s]: how that task ended
    call,      \* call[u]: where a control request is
    asking,    \* supplement requests that found the run running
    sweep      \* the recovery sweep: what it does with this run

leaseVars == <<lease, expired>>
streamVars == <<pc, want, seen>>
coordinatorVars == <<carried, sinks>>
handleVars == <<stop, ready, held>>
taskVars == <<work, plan, result>>
apiVars == <<call, asking>>
vars == <<status, row, leaseVars, graph, epoch, registry, streamVars, beat,
          coordinatorVars, handleVars, taskVars, apiVars, sweep>>

\* idle, asked      the request has not claimed the lease
\* leased           a resume that must still win the status
\* admitted         the response is about to run its generator
\* primed           the handle is registered, the first poll is under way
\* starting         the coordinator and the keeper run
\* streaming        the workflow runs, the response forwards its events
\* exiting          the generator is over: cleanup_stream_exit begins
\* converging       the status is made terminal
\* settling         the commands get their verdict, from the status it reads
\* verdict          ... and writes it
\* detaching        the coordinator leaves the handle
\* unclaiming       ... and hands back what the handle still holds
\* draining         the workflow must end
\* detached         it did not in time
\* releasing        the lease is handed back
\* leaving          the handle leaves the registry
\* returning        a detached task ended: the lease is handed back last
\* closed, dead     over
StreamPcs ==
    {"idle", "asked", "leased", "admitted", "primed", "starting", "streaming",
     "exiting", "converging", "settling", "verdict", "detaching", "unclaiming",
     "draining", "detached", "releasing", "leaving", "returning", "closed"}

\* The amendments waiting in the checkpoint, those the request contract has
\* taken up, and which node comes next: the normalizer, or the ordinary flow.
NewGraph == [pending |-> {}, applied |-> {}, next |-> "normalizer"]

\* What the node a task is in will write into the checkpoint, which commands it
\* concludes, and the handle it found in the registry.
NoPlan == [handle |-> NoStream, graph |-> NewGraph, consume |-> {}, reject |-> {}]

NoCall == [at |-> "idle", seen |-> "none", live |-> FALSE]

Init ==
    /\ status = "created"
    /\ row = NoCommands
    /\ lease = NoStream /\ expired = FALSE
    /\ graph = NewGraph
    /\ epoch = 1
    /\ registry = NoStream
    /\ pc = [s \in Streams |-> IF s = First THEN "asked" ELSE "idle"]
    /\ want = [s \in Streams |-> "fresh"]
    /\ seen = [s \in Streams |-> "none"]
    /\ beat = [s \in Streams |-> FALSE]
    /\ carried = [s \in Streams |-> {}]
    /\ sinks = [s \in Streams |-> FALSE]
    /\ stop = [s \in Streams |-> "none"]
    /\ ready = [s \in Streams |-> FALSE]
    /\ held = [s \in Streams |-> {}]
    /\ work = [s \in Streams |-> "none"]
    /\ plan = [s \in Streams |-> NoPlan]
    /\ result = [s \in Streams |-> "none"]
    /\ call = [u \in Callers |-> NoCall]
    /\ asking = {}
    /\ sweep = [at |-> "none", seen |-> "none"]

-----------------------------------------------------------------------------
(* A request takes the run.                                                *)

Live == lease # NoStream /\ ~expired

\* The statuses a resume may be claimed from.
Resumable(w) ==
    CASE w = "gate"  -> {"awaiting_input"}
      [] w = "retry" -> {"failed", "interrupted"}
      [] OTHER       -> {}

Ask(s) ==
    /\ pc[s] = "idle"
    /\ \E w \in {"gate", "retry"} :
        /\ status \in Resumable(w)
        /\ want' = [want EXCEPT ![s] = w]
    /\ pc' = [pc EXCEPT ![s] = "asked"]
    /\ UNCHANGED <<status, row, leaseVars, graph, epoch, registry, seen, beat,
                   coordinatorVars, handleVars, taskVars, apiVars, sweep>>

\* A claim that finds a live lease is a 409 and changes nothing.
ClaimLease(s) ==
    /\ pc[s] = "asked"
    /\ ~Live
    /\ sweep.at \in {"listed", "inactive", "release"} => "sweep_race" \in Faults
    /\ lease' = s /\ expired' = FALSE
    /\ beat' = [beat EXCEPT ![s] = TRUE]
    /\ pc' = [pc EXCEPT ![s] = IF want[s] = "fresh" THEN "admitted" ELSE "leased"]
    /\ UNCHANGED <<status, row, graph, epoch, registry, want, seen,
                   coordinatorVars, handleVars, taskVars, apiVars, sweep>>

\* Only where the token is still the stream's own; a failing write is logged.
GiveLeaseBack(s) ==
    /\ beat' = [beat EXCEPT ![s] = FALSE]
    /\ IF lease = s
       THEN \/ lease' = NoStream /\ expired' = FALSE
            \/ "db_error" \in Faults /\ UNCHANGED leaseVars
       ELSE UNCHANGED leaseVars

\* claim_checkpoint_resume, after the lease; who loses it gives the lease back.
ClaimStatus(s) ==
    /\ pc[s] = "leased"
    /\ IF status \in Resumable(want[s])
       THEN /\ status' = "running"
            /\ pc' = [pc EXCEPT ![s] = "admitted"]
            /\ want' = [want EXCEPT ![s] = "resumed"]
            /\ UNCHANGED <<leaseVars, beat>>
       ELSE /\ GiveLeaseBack(s)
            /\ pc' = [pc EXCEPT ![s] = "closed"]
            /\ UNCHANGED <<status, want>>
    /\ UNCHANGED <<row, graph, epoch, registry, seen, coordinatorVars,
                   handleVars, taskVars, apiVars, sweep>>

Abandon(s) ==
    /\ "abandon" \in Faults
    /\ pc[s] = "admitted"
    /\ beat' = [beat EXCEPT ![s] = FALSE]
    /\ pc' = [pc EXCEPT ![s] = "closed"]
    /\ UNCHANGED <<status, row, leaseVars, graph, epoch, registry, want, seen,
                   coordinatorVars, handleVars, taskVars, apiVars, sweep>>

\* A new handle takes the slot, whoever is in it, and the coordinator is wired
\* to it.  The first poll begins.
Register(s) ==
    /\ pc[s] = "admitted"
    /\ registry' = s
    /\ sinks' = [sinks EXCEPT ![s] = TRUE]
    /\ pc' = [pc EXCEPT ![s] = "primed"]
    /\ UNCHANGED <<status, row, leaseVars, graph, epoch, want, seen, beat, carried,
                   handleVars, taskVars, apiVars, sweep>>

\* run.started, for a run that was not resumed, and the workflow task.
StartWorkflow(s) ==
    /\ pc[s] = "starting" /\ carried[s] = {}
    /\ pc' = [pc EXCEPT ![s] = "streaming"]
    /\ IF want[s] # "fresh" \/ MayBecome(status, "running")
       THEN /\ status' = IF want[s] = "fresh" THEN "running" ELSE status
            /\ work' = [work EXCEPT ![s] = "boundary"]
            /\ UNCHANGED result
       ELSE /\ work' = [work EXCEPT ![s] = "ended"]
            /\ result' = [result EXCEPT ![s] =
                            IF status \in {"cancel_requested", "cancelled"}
                            THEN "user_cancel" ELSE "failed"]
            /\ UNCHANGED status
    /\ UNCHANGED <<row, leaseVars, graph, epoch, registry, want, seen, beat,
                   coordinatorVars, handleVars, plan, apiVars, sweep>>

-----------------------------------------------------------------------------
(* The coordinator: poll_once, first awaited by the stream, then periodic. *)

\* The periodic poll runs from the start of the workflow until the coordinator
\* is stopped.
Polling(s) ==
    pc[s] \in {"streaming", "exiting", "converging", "settling", "verdict", "detaching"}

\* One claim_pending.  Its commit and the resumption of the coroutine are two
\* moments; the first poll is awaited before anything else starts.
PollClaim(s) ==
    /\ \/ pc[s] = "primed"
       \/ Polling(s) /\ Claimable(epoch) # {}
    /\ carried[s] = {}
    /\ ClaimPending(epoch)
    /\ carried' = [carried EXCEPT ![s] = Claimable(epoch)]
    /\ pc' = [pc EXCEPT ![s] = IF @ = "primed" THEN "starting" ELSE @]
    /\ UNCHANGED <<status, leaseVars, graph, epoch, registry, want, seen, beat,
                   sinks, handleVars, taskVars, apiVars, sweep>>

\* The cancel stops the handle, supplements go into it, or are rejected once
\* the plan is delivered.
PollDeliver(s) ==
    /\ pc[s] = "starting" \/ Polling(s)
    /\ carried[s] # {}
    /\ stop' = [stop EXCEPT ![s] = IF Cancel \in carried[s] THEN "user_cancel" ELSE @]
    /\ IF ready[s]
       THEN Settle(carried[s] \ {Cancel}, "rejected") /\ UNCHANGED held
       ELSE /\ held' = [held EXCEPT ![s] = @ \cup (carried[s] \ {Cancel})]
            /\ UNCHANGED row
    /\ carried' = [carried EXCEPT ![s] = {}]
    /\ UNCHANGED <<status, leaseVars, graph, epoch, registry, streamVars, beat,
                   sinks, ready, taskVars, apiVars, sweep>>

-----------------------------------------------------------------------------
(* The workflow task.  with_run_control wraps every node: it reads the      *)
(* handle in the registry, whoever registered it last.                      *)

Working(s) == work[s] \notin {"none", "ended"}

HeldBy(h) == IF h = NoStream THEN {} ELSE held[h]

\* check_cancel_requested
ToldToStop(s) == registry # NoStream /\ stop[registry] # "none"

\* A task ends with a result, for as long as a response reads its events.
End(s, how) ==
    /\ work' = [work EXCEPT ![s] = "ended"]
    /\ result' = [result EXCEPT ![s] = IF pc[s] = "streaming" THEN how ELSE @]
    /\ plan' = [plan EXCEPT ![s] = NoPlan]

\* RunCancelled, at a node boundary or at a tool boundary inside a node.
Obey(s) ==
    /\ work[s] \in {"boundary", "node"}
    /\ ToldToStop(s)
    /\ End(s, stop[registry])
    /\ UNCHANGED <<status, row, leaseVars, graph, epoch, registry, streamVars, beat,
                   coordinatorVars, handleVars, apiVars, sweep>>

\* The plans of the node a task may enter.  Commands in the handle join the
\* amendments in the checkpoint, each only once.
\*   normalizer  takes up everything; a command it took from the handle is consumed
\*   router      rejects some amendments and sends the rest to the normalizer
\*   any other   leaves its work to the router if a command is new to it
NodePlans(h) ==
    LET fresh == HeldBy(h) \ graph.pending
        input == HeldBy(h) \cup graph.pending
    IN  IF graph.next = "normalizer"
        THEN {[handle |-> h, consume |-> HeldBy(h) \cap input, reject |-> {},
               graph |-> [pending |-> {}, applied |-> graph.applied \cup input,
                          next |-> "flow"]]}
        ELSE IF graph.pending # {}
        THEN {[handle |-> h, consume |-> {}, reject |-> refused,
               graph |-> [pending |-> input \ refused, applied |-> graph.applied,
                          next |-> IF refused = input THEN "flow" ELSE "normalizer"]]
                : refused \in SUBSET input}
        ELSE {[handle |-> h, consume |-> {}, reject |-> {},
               graph |-> [graph EXCEPT !.pending = fresh]]}

EnterNode(s) ==
    /\ work[s] = "boundary"
    /\ ~ToldToStop(s)
    /\ \E p \in NodePlans(registry) : plan' = [plan EXCEPT ![s] = p]
    /\ work' = [work EXCEPT ![s] = "node"]
    /\ UNCHANGED <<status, row, leaseVars, graph, epoch, registry, streamVars, beat,
                   coordinatorVars, handleVars, result, apiVars, sweep>>

\* Before the checkpoint is written, the concluded commands leave the handle...
Concluded(s) == plan[s].consume \cup plan[s].reject

\* Mutant of HandleForgets: a command that was marked stays in the handle.
HandleKeeps(h, cs) == UNCHANGED held

HandleForgets(h, cs) == held' = [held EXCEPT ![h] = @ \ cs]

MarkTake(s) ==
    LET h == plan[s].handle
    IN  /\ work[s] = "node"
        /\ Concluded(s) # {}
        /\ h # NoStream
        /\ HandleForgets(h, Concluded(s))
        /\ work' = [work EXCEPT ![s] = IF sinks[h] THEN "marking" ELSE "marked"]
        /\ UNCHANGED <<status, row, leaseVars, graph, epoch, registry, streamVars,
                       beat, coordinatorVars, stop, ready, plan, result, apiVars, sweep>>

\* ... and their rows are settled, if a coordinator listens.  A failure is logged.
MarkSettle(s) ==
    /\ work[s] = "marking"
    /\ \/ IF plan[s].consume # {} THEN Settle(plan[s].consume, "consumed")
          ELSE Settle(plan[s].reject, "rejected")
       \/ "db_error" \in Faults /\ UNCHANGED row
    /\ work' = [work EXCEPT ![s] = "marked"]
    /\ UNCHANGED <<status, leaseVars, graph, epoch, registry, streamVars, beat,
                   coordinatorVars, handleVars, plan, result, apiVars, sweep>>

\* The checkpoint of a finished node.
Checkpoint(s) ==
    /\ \/ work[s] = "marked"
       \/ work[s] = "node" /\ (Concluded(s) = {} \/ plan[s].handle = NoStream)
    /\ graph' = plan[s].graph
    /\ work' = [work EXCEPT ![s] = "boundary"]
    /\ plan' = [plan EXCEPT ![s] = NoPlan]
    /\ UNCHANGED <<status, row, leaseVars, epoch, registry, streamVars, beat,
                   coordinatorVars, handleVars, result, apiVars, sweep>>

\* A node of the ordinary flow with nothing to pass on to the router.
JustWorks(s) == work[s] = "node" /\ plan[s].graph = graph /\ graph.next = "flow"

\* The finalizer commits the Bundle and completes the run, or fails.  The handle
\* it found learns that the plan is delivered.
Deliver(s) ==
    /\ JustWorks(s)
    /\ "completed" \in AllowedNext(status)
    /\ status' = "completed"
    /\ ready' = [t \in Streams |-> ready[t] \/ t = plan[s].handle]
    /\ End(s, "done")
    /\ UNCHANGED <<row, leaseVars, graph, epoch, registry, streamVars, beat,
                   coordinatorVars, stop, held, apiVars, sweep>>

\* The plan gate interrupts the graph to ask the traveller.
RaiseGate(s) ==
    /\ JustWorks(s)
    /\ End(s, "gate")
    /\ UNCHANGED <<status, row, leaseVars, graph, epoch, registry, streamVars, beat,
                   coordinatorVars, handleVars, apiVars, sweep>>

\* The finalizer cannot persist the Bundle and says so in the run itself.
FinalizerFails(s) ==
    /\ JustWorks(s)
    /\ status = "running"
    /\ status' = "failed"
    /\ End(s, "failed")
    /\ UNCHANGED <<row, leaseVars, graph, epoch, registry, streamVars, beat,
                   coordinatorVars, handleVars, apiVars, sweep>>

\* A node raises, a deadline or a budget is over, a delivery is refused.
Fail(s) ==
    /\ work[s] \in {"boundary", "node"}
    /\ End(s, "failed")
    /\ UNCHANGED <<status, row, leaseVars, graph, epoch, registry, streamVars, beat,
                   coordinatorVars, handleVars, apiVars, sweep>>

-----------------------------------------------------------------------------
(* The response: what it makes of the workflow's end, and how it ends.     *)

\* What RunCancelled makes of the status.  Only the user's own stop cancels.
StopStatus(why) ==
    IF why = "user_cancel"
    THEN IF status \in CancellableStatuses THEN "cancelled" ELSE status
    ELSE IF status = "running" THEN "interrupted" ELSE status

Answer(s) == pc[s] = "streaming" /\ work[s] = "ended"

\* The generator is over, and nobody reads the task's events any more.
Leave(s) ==
    /\ pc' = [pc EXCEPT ![s] = "exiting"]
    /\ result' = [result EXCEPT ![s] = "none"]

\* A cancel request that came too late for the workflow still counts.
AnswerStopped(s) ==
    /\ Answer(s)
    /\ LET why == IF result[s] = "gate" /\ status = "cancel_requested"
                  THEN "user_cancel" ELSE result[s]
       IN  /\ why \in {"user_cancel", "lease_lost", "stream_exit"}
           /\ status' = StopStatus(why)
    /\ Leave(s)
    /\ UNCHANGED <<row, leaseVars, graph, epoch, registry, want, seen, beat,
                   coordinatorVars, handleVars, work, plan, apiVars, sweep>>

AnswerGate(s) ==
    /\ Answer(s)
    /\ result[s] = "gate"
    /\ MayBecome(status, "awaiting_input")
    /\ status' = "awaiting_input"
    /\ Leave(s)
    /\ UNCHANGED <<row, leaseVars, graph, epoch, registry, want, seen, beat,
                   coordinatorVars, handleVars, work, plan, apiVars, sweep>>

AnswerDelivered(s) ==
    /\ Answer(s)
    /\ result[s] = "done"
    /\ Leave(s)
    /\ UNCHANGED <<status, row, leaseVars, graph, epoch, registry, want, seen, beat,
                   coordinatorVars, handleVars, work, plan, apiVars, sweep>>

\* A failure, or a gate that the run no longer accepts: FAILED where the status
\* table allows it.
AnswerFailed(s) ==
    /\ Answer(s)
    /\ \/ result[s] = "failed"
       \/ /\ result[s] = "gate"
          /\ ~MayBecome(status, "awaiting_input")
          /\ status # "cancel_requested"
    /\ status' = IF MayBecome(status, "failed") THEN "failed" ELSE status
    /\ Leave(s)
    /\ UNCHANGED <<row, leaseVars, graph, epoch, registry, want, seen, beat,
                   coordinatorVars, handleVars, work, plan, apiVars, sweep>>

\* The client leaves or stops reading.  A first poll that was awaited is lost
\* with whatever it had claimed.
Disconnect(s) ==
    /\ "disconnect" \in Faults
    /\ pc[s] \in {"primed", "starting", "streaming"}
    /\ Leave(s)
    /\ carried' = [carried EXCEPT ![s] = IF pc[s] = "starting" THEN {} ELSE @]
    /\ UNCHANGED <<status, row, leaseVars, graph, epoch, registry, want, seen, beat,
                   sinks, handleVars, work, plan, apiVars, sweep>>

\* cleanup_stream_exit.  First it stops the workflow, through the registry.
StopWorkflow(s) ==
    /\ pc[s] = "exiting"
    /\ stop' = IF Working(s) /\ registry # NoStream
               THEN [stop EXCEPT ![registry] = "stream_exit"] ELSE stop
    /\ pc' = [pc EXCEPT ![s] = "converging"]
    /\ UNCHANGED <<status, row, leaseVars, graph, epoch, registry, want, seen, beat,
                   coordinatorVars, ready, held, taskVars, apiVars, sweep>>

\* converge_stream_exit: no run is left active behind a response that is over.
Converge(s) ==
    /\ pc[s] = "converging"
    /\ \/ status' = CASE status = "running"          -> "interrupted"
                       [] status = "cancel_requested" -> "cancelled"
                       [] OTHER                       -> status
       \/ "db_error" \in Faults /\ UNCHANGED status
    /\ pc' = [pc EXCEPT ![s] = "settling"]
    /\ UNCHANGED <<row, leaseVars, graph, epoch, registry, want, seen, beat,
                   coordinatorVars, handleVars, taskVars, apiVars, sweep>>

\* settle_run_commands: a run that waits, or still runs, keeps its commands.
ReadVerdict(s) ==
    /\ pc[s] = "settling"
    /\ IF status \in {"running", "awaiting_input"}
       THEN pc' = [pc EXCEPT ![s] = "detaching"] /\ UNCHANGED seen
       ELSE /\ pc' = [pc EXCEPT ![s] = "verdict"]
            /\ seen' = [seen EXCEPT ![s] = status]
    /\ UNCHANGED <<status, row, leaseVars, graph, epoch, registry, want, beat,
                   coordinatorVars, handleVars, taskVars, apiVars, sweep>>

WriteVerdict(s) ==
    /\ pc[s] = "verdict"
    /\ \/ SettleAll(seen[s] = "cancelled")
       \/ "db_error" \in Faults /\ UNCHANGED row
    /\ seen' = [seen EXCEPT ![s] = "none"]
    /\ pc' = [pc EXCEPT ![s] = "detaching"]
    /\ UNCHANGED <<status, leaseVars, graph, epoch, registry, want, beat,
                   coordinatorVars, handleVars, taskVars, apiVars, sweep>>

\* RunCommandCoordinator.stop: off the handle, and the poll is cancelled with
\* whatever it had claimed but not delivered; then the rows of what the handle
\* still holds go back.
Detach(s) ==
    /\ pc[s] = "detaching"
    /\ sinks' = [sinks EXCEPT ![s] = FALSE]
    /\ carried' = [carried EXCEPT ![s] = {}]
    /\ pc' = [pc EXCEPT ![s] = "unclaiming"]
    /\ UNCHANGED <<status, row, leaseVars, graph, epoch, registry, want, seen, beat,
                   handleVars, taskVars, apiVars, sweep>>

Unclaim(s) ==
    /\ pc[s] = "unclaiming"
    /\ \/ ReleaseClaims(held[s])
       \/ "db_error" \in Faults /\ UNCHANGED row
    /\ pc' = [pc EXCEPT ![s] = "draining"]
    /\ UNCHANGED <<status, leaseVars, graph, epoch, registry, want, seen, beat,
                   coordinatorVars, handleVars, taskVars, apiVars, sweep>>

\* workflow_task.cancel(): the task is thrown out of whatever it awaits ...
Kill(s) ==
    /\ pc[s] \in {"draining", "detached"}
    /\ Working(s)
    /\ work' = [work EXCEPT ![s] = "ended"]
    /\ plan' = [plan EXCEPT ![s] = NoPlan]
    /\ UNCHANGED <<status, row, leaseVars, graph, epoch, registry, streamVars, beat,
                   coordinatorVars, handleVars, result, apiVars, sweep>>

\* Mutant of Drain: the lease goes back although the task is still there.
DrainAtOnce(s) ==
    /\ pc[s] = "draining"
    /\ pc' = [pc EXCEPT ![s] = "releasing"]
    /\ UNCHANGED <<status, row, leaseVars, graph, epoch, registry, want, seen, beat,
                   coordinatorVars, handleVars, taskVars, apiVars, sweep>>

\* ... unless it does not come back within the grace period.
Drain(s) ==
    /\ pc[s] = "draining"
    /\ pc' = [pc EXCEPT ![s] = IF Working(s) THEN "detached" ELSE "releasing"]
    /\ UNCHANGED <<status, row, leaseVars, graph, epoch, registry, want, seen, beat,
                   coordinatorVars, handleVars, taskVars, apiVars, sweep>>

ReleaseLease(s) ==
    /\ \/ pc[s] = "releasing" /\ pc' = [pc EXCEPT ![s] = "leaving"]
       \/ pc[s] = "returning" /\ pc' = [pc EXCEPT ![s] = "closed"]
    /\ GiveLeaseBack(s)
    /\ UNCHANGED <<status, row, graph, epoch, registry, want, seen, coordinatorVars,
                   handleVars, taskVars, apiVars, sweep>>

\* Mutant of LeaveRegistry: by run id, whoever is in the slot.
LeaveRegistryBlindly(s) == registry' = NoStream

\* Only while the slot is still the stream's own.
LeaveRegistry(s) == registry' = IF registry = s THEN NoStream ELSE registry

\* A detached task leaves the registry when it ends, before its lease goes back.
Unregister(s) ==
    /\ \/ pc[s] = "leaving" /\ pc' = [pc EXCEPT ![s] = "closed"]
       \/ pc[s] = "detached" /\ ~Working(s) /\ pc' = [pc EXCEPT ![s] = "returning"]
    /\ LeaveRegistry(s)
    /\ held' = [held EXCEPT ![s] = {}]
    /\ stop' = [stop EXCEPT ![s] = "none"]
    /\ ready' = [ready EXCEPT ![s] = FALSE]
    /\ UNCHANGED <<status, row, leaseVars, graph, epoch, want, seen, beat,
                   coordinatorVars, taskVars, apiVars, sweep>>

-----------------------------------------------------------------------------
(* The lease, as RunLease lets the others see it.                          *)

\* The keeper finds the row taken over, or gives up after failing heartbeats.
LoseLease(s) ==
    /\ beat[s]
    /\ pc[s] \notin {"leased", "admitted", "primed"}
    /\ lease # s \/ "lease_lost" \in Faults
    /\ beat' = [beat EXCEPT ![s] = FALSE]
    /\ stop' = [stop EXCEPT ![s] = "lease_lost"]
    /\ UNCHANGED <<status, row, leaseVars, graph, epoch, registry, streamVars,
                   coordinatorVars, ready, held, taskVars, apiVars, sweep>>

\* A lease runs out only when nobody beats for it.
Expire ==
    /\ Live
    /\ ~beat[lease]
    /\ expired' = TRUE
    /\ UNCHANGED <<status, row, lease, graph, epoch, registry, streamVars, beat,
                   coordinatorVars, handleVars, taskVars, apiVars, sweep>>

-----------------------------------------------------------------------------
(* The control API: "stop this run", in six transactions.                  *)

CallStep(u, from, to) ==
    /\ call[u].at = from
    /\ call' = [call EXCEPT ![u] = IF to = "idle" THEN NoCall ELSE [@ EXCEPT !.at = to]]
    /\ UNCHANGED <<leaseVars, graph, epoch, registry, streamVars, beat,
                   coordinatorVars, handleVars, taskVars, asking, sweep>>

\* Anything but a cancellable run is a 409.
CallRead(u) ==
    /\ call[u].at = "idle"
    /\ status \in CancellableStatuses
    /\ call' = [call EXCEPT ![u] = [at |-> "read", seen |-> status, live |-> FALSE]]
    /\ UNCHANGED <<status, row, leaseVars, graph, epoch, registry, streamVars, beat,
                   coordinatorVars, handleVars, taskVars, asking, sweep>>

\* Whether somebody executes the run is read before the status is written.
CallProbe(u) ==
    /\ call[u].at = "read"
    /\ call' = [call EXCEPT ![u] = [at |-> "probed", seen |-> @.seen, live |-> Live]]
    /\ UNCHANGED <<status, row, leaseVars, graph, epoch, registry, streamVars, beat,
                   coordinatorVars, handleVars, taskVars, asking, sweep>>

\* A repeated stop of a run that is stopping ends here.
CallEnqueue(u) ==
    /\ CallStep(u, "probed",
                IF call[u].seen = "cancel_requested" /\ call[u].live
                THEN "idle" ELSE "queued")
    /\ Enqueue(Cancel)
    /\ UNCHANGED status

\* Mutant of CancelledStatus: the target is written without a look whether there is one.
CancelledStatusUnchecked == CancelTarget(status)

\* Where request_cancel leaves the run, whatever was read before.
CancelledStatus ==
    IF CancelTarget(status) = "none" THEN status ELSE CancelTarget(status)

CallCancel(u) ==
    /\ CallStep(u, "queued",
            CASE CancelledStatus = "cancelled" -> "consume"
              [] CancelledStatus = "cancel_requested" ->
                    IF call[u].live THEN "idle" ELSE "finish"
              [] OTHER -> "refuse")
    /\ status' = CancelledStatus
    /\ UNCHANGED row

\* Nobody executed the run when the lease was read: cancel it on the spot.
CallFinish(u) ==
    /\ CallStep(u, "finish", IF MayBecome(status, "cancelled") THEN "consume" ELSE "idle")
    /\ status' = IF MayBecome(status, "cancelled") THEN "cancelled" ELSE status
    /\ UNCHANGED row

CallConsume(u) ==
    /\ CallStep(u, "consume", "idle")
    /\ Settle({Cancel}, "consumed")
    /\ UNCHANGED status

\* The run ended by itself before the request took effect.
CallRefuse(u) ==
    /\ CallStep(u, "refuse", "idle")
    /\ Settle({Cancel}, "rejected")
    /\ UNCHANGED status

(* A supplement: accepted for a running run, queued afterwards.            *)

AskSupplement(c) ==
    /\ c \notin asking
    /\ row[c].st = "none"
    /\ status = "running"
    /\ asking' = asking \cup {c}
    /\ UNCHANGED <<status, row, leaseVars, graph, epoch, registry, streamVars, beat,
                   coordinatorVars, handleVars, taskVars, call, sweep>>

QueueSupplement(c) ==
    /\ c \in asking
    /\ asking' = asking \ {c}
    /\ Enqueue(c)
    /\ UNCHANGED <<status, leaseVars, graph, epoch, registry, streamVars, beat,
                   coordinatorVars, handleVars, taskVars, call, sweep>>

-----------------------------------------------------------------------------
(* The recovery sweep: one candidate, judged by the status it was read with. *)

ActiveStatuses == {"running", "cancel_requested"}

\* Mutant of Candidate: a run that was to be cancelled is nobody's business.
CandidateRunning ==
    /\ ~Live
    /\ status = "running" \/ (lease # NoStream /\ status # "cancel_requested")

\* list_recovery_candidates: no live lease, and active or with a lease left behind.
Candidate == ~Live /\ (status \in ActiveStatuses \/ lease # NoStream)

SweepList ==
    /\ sweep.at = "none"
    /\ Candidate
    /\ sweep' = [at |-> IF status \in ActiveStatuses THEN "listed" ELSE "inactive",
                 seen |-> status]
    /\ UNCHANGED <<status, row, leaseVars, graph, epoch, registry, streamVars, beat,
                   coordinatorVars, handleVars, taskVars, apiVars>>

\* record_recovery takes the row over, whoever owns it by now.
SweepClear ==
    /\ sweep.at = "listed"
    /\ lease' = NoStream /\ expired' = FALSE
    /\ sweep' = [sweep EXCEPT !.at = "cleared"]
    /\ UNCHANGED <<status, row, graph, epoch, registry, streamVars, beat,
                   coordinatorVars, handleVars, taskVars, apiVars>>

\* An orphan is interrupted, an orphan that was to be cancelled is cancelled.
\* Where the status has moved meanwhile, the durable record wins.
SweepStatus ==
    LET target == IF sweep.seen = "running" THEN "interrupted" ELSE "cancelled"
        moves == MayBecome(status, target)
    IN  /\ sweep.at = "cleared"
        /\ status' = IF moves THEN target ELSE status
        /\ sweep' = IF moves \/ sweep.seen = "cancel_requested"
                    THEN [at |-> "settle", seen |-> IF moves THEN target ELSE "unchanged"]
                    ELSE [at |-> "none", seen |-> "none"]
        /\ UNCHANGED <<row, leaseVars, graph, epoch, registry, streamVars, beat,
                       coordinatorVars, handleVars, taskVars, apiVars>>

SweepSettle ==
    /\ sweep.at = "settle"
    /\ SettleAll(sweep.seen = "cancelled")
    /\ sweep' = [at |-> "none", seen |-> "none"]
    /\ UNCHANGED <<status, leaseVars, graph, epoch, registry, streamVars, beat,
                   coordinatorVars, handleVars, taskVars, apiVars>>

\* A lease left behind on a run that is over, or waits.
SweepInactive ==
    /\ sweep.at = "inactive"
    /\ IF sweep.seen \in TerminalStatuses
       THEN SettleAll(sweep.seen = "cancelled") ELSE UNCHANGED row
    /\ sweep' = [sweep EXCEPT !.at = "release"]
    /\ UNCHANGED <<status, leaseVars, graph, epoch, registry, streamVars, beat,
                   coordinatorVars, handleVars, taskVars, apiVars>>

SweepRelease ==
    /\ sweep.at = "release"
    /\ lease' = NoStream /\ expired' = FALSE
    /\ sweep' = [at |-> "none", seen |-> "none"]
    /\ UNCHANGED <<status, row, graph, epoch, registry, streamVars, beat,
                   coordinatorVars, handleVars, taskVars, apiVars>>

-----------------------------------------------------------------------------
\* The process dies with everything it held in memory, and is started again.
\* A request that had not claimed the lease is simply sent again.
Crash ==
    /\ "crash" \in Faults
    /\ epoch <= MaxRestarts
    /\ epoch' = epoch + 1
    /\ registry' = NoStream
    /\ pc' = [s \in Streams |-> IF pc[s] \in {"idle", "asked"} THEN pc[s] ELSE "closed"]
    /\ seen' = [s \in Streams |-> "none"]
    /\ beat' = [s \in Streams |-> FALSE]
    /\ carried' = [s \in Streams |-> {}]
    /\ sinks' = [s \in Streams |-> FALSE]
    /\ stop' = [s \in Streams |-> "none"]
    /\ ready' = [s \in Streams |-> FALSE]
    /\ held' = [s \in Streams |-> {}]
    /\ work' = [s \in Streams |-> IF work[s] = "none" THEN "none" ELSE "ended"]
    /\ plan' = [s \in Streams |-> NoPlan]
    /\ result' = [s \in Streams |-> "none"]
    /\ call' = [u \in Callers |-> NoCall]
    /\ asking' = {}
    /\ sweep' = [at |-> "none", seen |-> "none"]
    /\ UNCHANGED <<status, row, leaseVars, graph, want>>

\* What the event loop runs for a stream, once the traveller's request is there.
ResponseStep(s) ==
    \/ ClaimStatus(s) \/ Register(s) \/ Abandon(s) \/ StartWorkflow(s)
    \/ AnswerStopped(s) \/ AnswerGate(s) \/ AnswerDelivered(s) \/ AnswerFailed(s)
    \/ StopWorkflow(s) \/ Converge(s) \/ ReadVerdict(s) \/ WriteVerdict(s)
    \/ Detach(s) \/ Unclaim(s) \/ Drain(s) \/ ReleaseLease(s) \/ Unregister(s)
    \/ PollClaim(s) /\ pc[s] = "primed"

PollStep(s) == PollClaim(s) \/ PollDeliver(s)

NodeStep(s) ==
    \/ EnterNode(s) \/ MarkTake(s) \/ MarkSettle(s) \/ Checkpoint(s)
    \/ Obey(s) \/ Deliver(s) \/ RaiseGate(s) \/ FinalizerFails(s) \/ Fail(s)

CallAction(u) ==
    \/ CallRead(u) \/ CallProbe(u) \/ CallEnqueue(u) \/ CallCancel(u)
    \/ CallFinish(u) \/ CallConsume(u) \/ CallRefuse(u)

SweepStep ==
    \/ SweepList \/ SweepClear \/ SweepStatus \/ SweepSettle
    \/ SweepInactive \/ SweepRelease

Next ==
    \/ \E s \in Streams :
        \/ Ask(s) \/ ClaimLease(s) \/ ResponseStep(s) \/ PollStep(s) \/ NodeStep(s)
        \/ Kill(s) \/ Disconnect(s) \/ LoseLease(s)
    \/ \E u \in Callers : CallAction(u)
    \/ \E c \in Supplements : AskSupplement(c) \/ QueueSupplement(c)
    \/ SweepStep
    \/ Expire
    \/ Crash

Spec == Init /\ [][Next]_vars

\* The event loop runs every coroutine that can go on, time passes, and the sweep
\* comes round.  A workflow may go through nodes for ever as far as the graph is
\* concerned; what ends it is its deadline and its budget, hence the fairness of
\* Fail.  Nothing obliges a traveller to ask, to answer a gate or to stay.
Fairness ==
    /\ WF_vars(Expire)
    /\ WF_vars(SweepStep)
    /\ \A s \in Streams :
        /\ WF_vars(ResponseStep(s))
        /\ WF_vars(PollStep(s))
        /\ WF_vars(NodeStep(s))
        /\ WF_vars(Fail(s) \/ Obey(s))
    /\ \A u \in Callers :
        WF_vars(CallAction(u) /\ call[u].at # "idle")

FairSpec == Spec /\ Fairness

-----------------------------------------------------------------------------
(* What must hold.                                                         *)

TypeOK ==
    /\ status \in Statuses
    /\ row \in [Commands -> RowType]
    /\ lease \in Streams \cup {NoStream}
    /\ expired \in BOOLEAN
    /\ graph \in [pending : SUBSET Supplements, applied : SUBSET Supplements,
                  next : {"normalizer", "flow"}]
    /\ epoch \in Epochs
    /\ registry \in Streams \cup {NoStream}
    /\ pc \in [Streams -> StreamPcs]
    /\ want \in [Streams -> {"fresh", "gate", "retry", "resumed"}]
    /\ seen \in [Streams -> Statuses \cup {"none"}]
    /\ beat \in [Streams -> BOOLEAN]
    /\ carried \in [Streams -> SUBSET Commands]
    /\ sinks \in [Streams -> BOOLEAN]
    /\ stop \in [Streams -> {"none", "user_cancel", "lease_lost", "stream_exit"}]
    /\ ready \in [Streams -> BOOLEAN]
    /\ held \in [Streams -> SUBSET Supplements]
    /\ work \in [Streams -> {"none", "boundary", "node", "marking", "marked", "ended"}]
    /\ result \in [Streams -> {"none", "gate", "done", "failed", "user_cancel",
                               "lease_lost", "stream_exit"}]
    /\ asking \subseteq Supplements
    /\ sweep \in [at : {"none", "listed", "cleared", "settle", "inactive", "release"},
                  seen : Statuses \cup {"none", "unchanged"}]

\* A workflow that will go on past its next boundary, and spend on it.
WillGoOn(s) == Working(s) /\ ~ToldToStop(s)

\* INV-RUN-004, "no Run has two executors", with everything that decides about it
\* in the picture: the lease, the registry a boundary looks in, and the order in
\* which a response stops its workflow, hands the lease back and unregisters.
OneExecutor == \A s, t \in Streams : WillGoOn(s) /\ WillGoOn(t) => s = t

\* Whoever owns a live lease and works can be reached: a node boundary finds its
\* handle in the registry, also while the stream before it is still leaving
\* (run_control.py:299-310).
ExecutorIsReachable ==
    \A s \in Streams : Working(s) /\ lease = s => registry = s

\* INV-CMD-003, "a terminal status does not lie about a cancel": cancelled only
\* when the user asked for it, and a cancel counts as carried out only then.
CancelTellsTheTruth ==
    /\ status = "cancelled" => row[Cancel].st # "none"
    /\ row[Cancel].st = "consumed" => status = "cancelled"

\* A receipt that was concluded is never concluded otherwise or opened again,
\* whoever retries, releases or sweeps (run_command_store.py:241-245).
VerdictIsFinal ==
    [][\A c \in Commands : row[c].st \in Conclusions => UNCHANGED row[c]]_vars

\* INV-CMD-005, "a supplement enters the state once": what the request contract
\* has taken up, and whose receipt says so, never waits in the checkpoint again,
\* however often its command was claimed, released and claimed by the next process.
SupplementEntersOnce ==
    [][\A c \in graph.applied \ graph.pending :
        c \in graph'.applied /\ (c \in graph'.pending => row[c].st # "consumed")]_vars

\* INV-RUN-002 and the promise of a stop: no run stays running or stopping for
\* ever, whoever dies, disconnects or fails to write on the way.
ActiveRunsEnd == status \in ActiveStatuses ~> status \notin ActiveStatuses

\* docs/invariants.md:114, "durable first, then notify; the executor polls at its
\* boundaries": while a stop is requested of a workflow that goes on, the command
\* it will find is still open.
StopReachesTheExecutor ==
    status = "cancel_requested" /\ (\E s \in Streams : WillGoOn(s)) => IsOpen(Cancel)

\* entities/trip_run.py:112, rejected means "explicitly no longer takes effect".
RejectedTakesNoEffect ==
    \A c \in Supplements : row[c].st = "rejected" => c \notin graph.applied

\* INV-CMD-004, "no command stays claimed without a way out": behind a response
\* that is over, a run that waits at its gate has no command that this process
\* claimed, for only another process would claim it again.
ClaimsComeBack ==
    status = "awaiting_input" /\ (\A s \in Streams : pc[s] \in {"idle", "asked", "closed"})
        => \A c \in Commands : row[c].st = "claimed" => row[c].by # epoch

=============================================================================
