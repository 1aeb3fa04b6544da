------------------------- MODULE RunExecution_proofs -------------------------
(***************************************************************************)
(* Proofs about RunExecution, for any number of streams, callers,          *)
(* supplements and restarts, and whatever the environment does: its types, *)
(* the receipts of the durable commands, and that a cancel and the status  *)
(* tell the same story.  Then, as long as a lease stays with its keeper,   *)
(* that one workflow at most goes on, that its handle is in reach of it,   *)
(* and that a supplement enters the state once.                            *)
(***************************************************************************)
EXTENDS RunExecution, TLAPS

USE CommandAssumption DEF CommandAssumption

\* The statements of run_command_store.py, and nothing else, write the rows.
RowStep ==
    \/ \E c \in Commands : Enqueue(c)
    \/ ClaimPending(epoch)
    \/ \E cs : ReleaseClaims(cs)
    \/ \E cs : \E verdict \in Conclusions : Settle(cs, verdict)
    \/ \E cancelled \in BOOLEAN : SettleAll(cancelled)
    \/ UNCHANGED row

\* The part of TypeOK the receipts rest on.
RowsOK == row \in [Commands -> RowType] /\ epoch \in Epochs

\* What one statement may do with one row: leave it, open it anew while it is not
\* concluded, or conclude it once.
LEMMA StatementKeepsVerdicts ==
    ASSUME RowsOK, RowStep
    PROVE  /\ row' \in [Commands -> RowType]
           /\ \A c \in Commands : row[c].st \in Conclusions => row'[c] = row[c]
<1> USE DEF RowsOK, RowType, Conclusions
<1>1. CASE \E c \in Commands : Enqueue(c)
  BY <1>1 DEF Enqueue
<1>2. CASE ClaimPending(epoch)
  BY <1>2 DEF ClaimPending, Claimable
<1>3. CASE \E cs : ReleaseClaims(cs)
  BY <1>3 DEF ReleaseClaims
<1>4. CASE \E cs : \E verdict \in Conclusions : Settle(cs, verdict)
  BY <1>4 DEF Settle, IsOpen
<1>5. CASE \E cancelled \in BOOLEAN : SettleAll(cancelled)
  BY <1>5 DEF SettleAll, IsOpen
<1>6. CASE UNCHANGED row
  BY <1>6
<1> QED BY <1>1, <1>2, <1>3, <1>4, <1>5, <1>6 DEF RowStep

\* Every step of the system is one statement on the rows at most.
LEMMA StepIsOneStatement ==
    ASSUME [Next]_vars
    PROVE  RowStep
<1>1. CASE UNCHANGED vars
  BY <1>1 DEF vars, RowStep
<1>2. ASSUME NEW s \in Streams,
             Ask(s) \/ ClaimLease(s) \/ ClaimStatus(s) \/ Register(s) \/ Abandon(s)
               \/ StartWorkflow(s)
      PROVE  UNCHANGED row
  BY <1>2 DEF Ask, ClaimLease, ClaimStatus, Register, Abandon, StartWorkflow
<1>3. ASSUME NEW s \in Streams,
             AnswerStopped(s) \/ AnswerGate(s) \/ AnswerDelivered(s) \/ AnswerFailed(s)
               \/ Disconnect(s) \/ StopWorkflow(s) \/ Converge(s) \/ ReadVerdict(s)
               \/ Detach(s) \/ Kill(s) \/ Drain(s) \/ ReleaseLease(s) \/ Unregister(s)
               \/ LoseLease(s)
      PROVE  UNCHANGED row
  BY <1>3 DEF AnswerStopped, AnswerGate, AnswerDelivered, AnswerFailed, Disconnect,
       StopWorkflow, Converge, ReadVerdict, Detach, Kill, Drain, ReleaseLease,
       Unregister, LoseLease
<1>4. ASSUME NEW s \in Streams, WriteVerdict(s)
      PROVE  RowStep
  BY <1>4 DEF WriteVerdict, RowStep
<1>5. ASSUME NEW s \in Streams, Unclaim(s)
      PROVE  RowStep
  BY <1>5 DEF Unclaim, RowStep
<1>6. ASSUME NEW s \in Streams, PollStep(s) \/ PollClaim(s)
      PROVE  RowStep
  BY <1>6 DEF PollStep, PollClaim, PollDeliver, RowStep, Conclusions
<1>7. ASSUME NEW s \in Streams, NodeStep(s)
      PROVE  RowStep
  <2>1. CASE MarkSettle(s)
    BY <2>1 DEF MarkSettle, RowStep, Conclusions
  <2>2. CASE EnterNode(s) \/ MarkTake(s) \/ Checkpoint(s) \/ Obey(s) \/ Deliver(s)
               \/ RaiseGate(s) \/ FinalizerFails(s) \/ Fail(s)
    BY <2>2 DEF EnterNode, MarkTake, Checkpoint, Obey, Deliver, RaiseGate,
         FinalizerFails, Fail, RowStep
  <2> QED BY <1>7, <2>1, <2>2 DEF NodeStep
<1>8. ASSUME NEW u \in Callers, CallAction(u)
      PROVE  RowStep
  <2>1. CASE CallRead(u) \/ CallProbe(u) \/ CallCancel(u) \/ CallFinish(u)
    BY <2>1 DEF CallRead, CallProbe, CallCancel, CallFinish, RowStep
  <2>2. CASE CallEnqueue(u)
    BY <2>2 DEF CallEnqueue, RowStep, Commands
  <2>3. CASE CallConsume(u) \/ CallRefuse(u)
    BY <2>3 DEF CallConsume, CallRefuse, RowStep, Conclusions
  <2> QED BY <1>8, <2>1, <2>2, <2>3 DEF CallAction
<1>9. ASSUME NEW c \in Supplements, AskSupplement(c) \/ QueueSupplement(c)
      PROVE  RowStep
  BY <1>9 DEF AskSupplement, QueueSupplement, RowStep, Commands
<1>10. ASSUME SweepStep
       PROVE  RowStep
  <2>1. CASE SweepList \/ SweepClear \/ SweepStatus \/ SweepRelease
    BY <2>1 DEF SweepList, SweepClear, SweepStatus, SweepRelease, RowStep
  <2>2. CASE SweepSettle \/ SweepInactive
    BY <2>2 DEF SweepSettle, SweepInactive, RowStep
  <2> QED BY <1>10, <2>1, <2>2 DEF SweepStep
<1>11. ASSUME Expire \/ Crash
       PROVE  RowStep
  BY <1>11 DEF Expire, Crash, RowStep
<1>12. ASSUME NEW s \in Streams, ResponseStep(s)
       PROVE  RowStep
  BY <1>12, <1>2, <1>3, <1>4, <1>5, <1>6 DEF ResponseStep, RowStep
<1> QED
  BY <1>1, <1>2, <1>3, <1>6, <1>7, <1>8, <1>9, <1>10, <1>11, <1>12 DEF Next, RowStep

\* Only a restart gives the process another identity, and there are not more of
\* them than the bound says.
LEMMA StepKeepsEpochs ==
    ASSUME RowsOK, [Next]_vars
    PROVE  epoch' \in Epochs
<1>1. CASE Crash
  BY <1>1 DEF Crash, RowsOK, Epochs
<1>2. CASE UNCHANGED epoch
  BY <1>2 DEF RowsOK
<1>3. ASSUME ~Crash
      PROVE  UNCHANGED epoch
  <2>1. ASSUME NEW s \in Streams, ResponseStep(s)
        PROVE  UNCHANGED epoch
    BY <2>1 DEF ResponseStep, ClaimStatus, Register, Abandon, StartWorkflow,
         AnswerStopped, AnswerGate, AnswerDelivered, AnswerFailed, StopWorkflow, Converge,
         ReadVerdict, WriteVerdict, Detach, Unclaim, Drain, ReleaseLease, Unregister,
         PollClaim
  <2>2. ASSUME NEW s \in Streams,
               Ask(s) \/ ClaimLease(s) \/ PollStep(s) \/ NodeStep(s) \/ Kill(s)
                 \/ Disconnect(s) \/ LoseLease(s)
        PROVE  UNCHANGED epoch
    BY <2>2 DEF Ask, ClaimLease, PollStep, PollClaim, PollDeliver, NodeStep, EnterNode,
         MarkTake, MarkSettle, Checkpoint, Obey, Deliver, RaiseGate, FinalizerFails, Fail,
         Kill, Disconnect, LoseLease
  <2>3. ASSUME NEW u \in Callers, CallAction(u)
        PROVE  UNCHANGED epoch
    BY <2>3 DEF CallAction, CallRead, CallProbe, CallEnqueue, CallCancel, CallFinish,
         CallConsume, CallRefuse, CallStep
  <2>4. ASSUME NEW c \in Supplements, AskSupplement(c) \/ QueueSupplement(c)
        PROVE  UNCHANGED epoch
    BY <2>4 DEF AskSupplement, QueueSupplement
  <2>5. ASSUME SweepStep \/ Expire
        PROVE  UNCHANGED epoch
    BY <2>5 DEF SweepStep, SweepList, SweepClear, SweepStatus, SweepSettle,
         SweepInactive, SweepRelease, Expire
  <2> QED BY <1>3, <2>1, <2>2, <2>3, <2>4, <2>5 DEF Next, vars
<1> QED BY <1>1, <1>2, <1>3

\* Each receipt has a status of its own and belongs to a process that existed.
THEOREM ReceiptsAreWellFormed == Spec => []RowsOK
<1>1. Init => RowsOK
  BY DEF Init, RowsOK, NoCommands, RowType, Conclusions, Epochs
<1>2. RowsOK /\ [Next]_vars => RowsOK'
  BY StatementKeepsVerdicts, StepIsOneStatement, StepKeepsEpochs DEF RowsOK
<1> QED BY <1>1, <1>2, PTL DEF Spec

\* No receipt that was concluded is concluded otherwise or opened again, whoever
\* retries, releases, sweeps, restarts or fails to write: VerdictIsFinal.
THEOREM VerdictsAreFinal == Spec => VerdictIsFinal
<1>1. RowsOK /\ [Next]_vars
        => [\A c \in Commands : row[c].st \in Conclusions => UNCHANGED row[c]]_vars
  BY StatementKeepsVerdicts, StepIsOneStatement
<1> QED BY <1>1, ReceiptsAreWellFormed, PTL DEF Spec, VerdictIsFinal

-----------------------------------------------------------------------------
(* Type correctness of everything else.                                    *)

GraphType ==
    [pending : SUBSET Supplements, applied : SUBSET Supplements,
     next : {"normalizer", "flow"}]

PlanType ==
    [handle : Streams \cup {NoStream}, graph : GraphType,
     consume : SUBSET Supplements, reject : SUBSET Supplements]

CallType ==
    [at : {"idle", "read", "probed", "queued", "finish", "consume", "refuse"},
     seen : Statuses \cup {"none"}, live : BOOLEAN]

\* TypeOK says nothing of the plans and calls in flight, but rests on the plans:
\* what a node planned becomes the checkpoint.
TypeInvariant ==
    /\ TypeOK
    /\ plan \in [Streams -> PlanType]
    /\ call \in [Callers -> CallType]

LEMMA TypesInit == Init => TypeInvariant
<1> SUFFICES ASSUME Init PROVE TypeInvariant
  OBVIOUS
<1>1. row \in [Commands -> RowType] /\ epoch \in Epochs
  BY DEF Init, NoCommands, RowType, Conclusions, Epochs
<1>2. NewGraph \in GraphType /\ NoPlan \in PlanType /\ NoCall \in CallType
  BY DEF NewGraph, GraphType, NoPlan, PlanType, NoCall, CallType
<1>3. TypeOK
  BY <1>1, <1>2, ExecutionAssumption DEF Init, TypeOK, GraphType, StreamPcs, Statuses
<1> QED
  BY <1>2, <1>3 DEF Init, TypeInvariant

\* What a node at a boundary may plan.
LEMMA PlansAreTyped ==
    ASSUME TypeInvariant, NEW h \in Streams \cup {NoStream}, NEW p \in NodePlans(h)
    PROVE  p \in PlanType
<1>1. HeldBy(h) \subseteq Supplements
  BY DEF TypeInvariant, TypeOK, HeldBy
<1>2. graph \in GraphType
  BY DEF TypeInvariant, TypeOK, GraphType
<1>3. CASE graph.next = "normalizer"
  BY <1>1, <1>2, <1>3 DEF NodePlans, PlanType, GraphType
<1>4. CASE graph.next # "normalizer" /\ graph.pending # {}
  BY <1>1, <1>2, <1>4 DEF NodePlans, PlanType, GraphType
<1>5. CASE graph.next # "normalizer" /\ graph.pending = {}
  <2>1. [graph EXCEPT !.pending = HeldBy(h) \ graph.pending] \in GraphType
    BY <1>1, <1>2 DEF GraphType
  <2> QED
    BY <1>1, <1>2, <1>5, <2>1 DEF NodePlans, PlanType
<1> QED
  BY <1>3, <1>4, <1>5

LEMMA LeaseIsGivenBack ==
    ASSUME TypeInvariant, NEW s \in Streams, GiveLeaseBack(s)
    PROVE  /\ lease' \in Streams \cup {NoStream}
           /\ expired' \in BOOLEAN
           /\ beat' \in [Streams -> BOOLEAN]
<1>1. beat' \in [Streams -> BOOLEAN]
  BY DEF GiveLeaseBack, TypeInvariant, TypeOK
<1>2. \/ lease' = NoStream /\ expired' = FALSE
      \/ lease' = lease /\ expired' = expired
  BY Zenon DEF GiveLeaseBack, leaseVars
<1> QED
  BY <1>1, <1>2 DEF TypeInvariant, TypeOK

LEMMA ResponseKeepsTypes ==
    ASSUME TypeInvariant, RowsOK', NEW s \in Streams, ResponseStep(s)
    PROVE  TypeInvariant'
<1> USE DEF TypeInvariant, TypeOK, RowsOK, leaseVars, streamVars, coordinatorVars,
            handleVars, taskVars, apiVars
<1>1. CASE ClaimStatus(s)
  <2>1. CASE status \in Resumable(want[s])
    BY <1>1, <2>1 DEF ClaimStatus, StreamPcs, Statuses
  <2>2. CASE status \notin Resumable(want[s])
    <3>1. GiveLeaseBack(s)
      BY <1>1, <2>2 DEF ClaimStatus
    <3>2. /\ lease' \in Streams \cup {NoStream}
          /\ expired' \in BOOLEAN
          /\ beat' \in [Streams -> BOOLEAN]
      BY <3>1, LeaseIsGivenBack
    <3>3. /\ pc' = [pc EXCEPT ![s] = "closed"]
          /\ UNCHANGED <<status, want>>
          /\ UNCHANGED <<graph, epoch, registry, seen, coordinatorVars,
                         handleVars, taskVars, apiVars, sweep>>
      BY <1>1, <2>2 DEF ClaimStatus
    <3> QED
      BY <3>2, <3>3 DEF StreamPcs
  <2> QED
    BY <2>1, <2>2
<1>2. CASE Register(s)
  BY <1>2 DEF Register, StreamPcs
<1>3. CASE Abandon(s)
  BY <1>3 DEF Abandon, StreamPcs
<1>4. CASE StartWorkflow(s)
  BY <1>4 DEF StartWorkflow, StreamPcs, Statuses
<1>5. CASE AnswerStopped(s)
  BY <1>5 DEF AnswerStopped, StopStatus, Leave, StreamPcs, Statuses
<1>6. CASE AnswerGate(s)
  BY <1>6 DEF AnswerGate, Leave, StreamPcs, Statuses
<1>7. CASE AnswerDelivered(s)
  BY <1>7 DEF AnswerDelivered, Leave, StreamPcs
<1>8. CASE AnswerFailed(s)
  BY <1>8 DEF AnswerFailed, Leave, StreamPcs, Statuses
<1>9. CASE StopWorkflow(s)
  BY <1>9 DEF StopWorkflow, StreamPcs
<1>10. CASE Converge(s)
  BY <1>10 DEF Converge, StreamPcs, Statuses
<1>11. CASE ReadVerdict(s)
  BY SMTT(30), <1>11 DEF ReadVerdict, StreamPcs
<1>12. CASE WriteVerdict(s)
  BY <1>12 DEF WriteVerdict, StreamPcs
<1>13. CASE Detach(s)
  BY <1>13 DEF Detach, StreamPcs
<1>14. CASE Unclaim(s)
  BY <1>14 DEF Unclaim, StreamPcs
<1>15. CASE Drain(s)
  BY <1>15 DEF Drain, StreamPcs
<1>16. CASE ReleaseLease(s)
  <2>1. /\ lease' \in Streams \cup {NoStream}
        /\ expired' \in BOOLEAN
        /\ beat' \in [Streams -> BOOLEAN]
    BY <1>16, LeaseIsGivenBack DEF ReleaseLease
  <2> QED
    BY <1>16, <2>1 DEF ReleaseLease, StreamPcs
<1>17. CASE Unregister(s)
  BY <1>17 DEF Unregister, LeaveRegistry, StreamPcs
<1>18. CASE PollClaim(s)
  BY <1>18 DEF PollClaim, Claimable, StreamPcs
<1> QED
  BY <1>1, <1>2, <1>3, <1>4, <1>5, <1>6, <1>7, <1>8, <1>9, <1>10, <1>11, <1>12,
     <1>13, <1>14, <1>15, <1>16, <1>17, <1>18 DEF ResponseStep

LEMMA WorkflowKeepsTypes ==
    ASSUME TypeInvariant, RowsOK', NEW s \in Streams,
           PollStep(s) \/ NodeStep(s) \/ Kill(s)
    PROVE  TypeInvariant'
<1> USE DEF TypeInvariant, TypeOK, RowsOK, leaseVars, streamVars, coordinatorVars,
            handleVars, taskVars, apiVars
<1>1. NoPlan \in PlanType
  BY DEF NoPlan, NewGraph, PlanType, GraphType
<1>2. plan[s] \in PlanType
  OBVIOUS
<1>3. CASE PollClaim(s)
  BY <1>3 DEF PollClaim, Claimable, StreamPcs
<1>4. CASE PollDeliver(s)
  BY <1>4 DEF PollDeliver, Commands
<1>5. CASE EnterNode(s)
  <2>1. PICK p \in NodePlans(registry) : plan' = [plan EXCEPT ![s] = p]
    BY <1>5 DEF EnterNode
  <2>2. p \in PlanType
    BY <2>1, PlansAreTyped
  <2> QED
    BY <1>5, <2>1, <2>2 DEF EnterNode
<1>6. CASE MarkTake(s)
  BY <1>6 DEF MarkTake, HandleForgets
<1>7. CASE MarkSettle(s)
  BY <1>7 DEF MarkSettle
<1>8. CASE Checkpoint(s)
  BY <1>1, <1>2, <1>8 DEF Checkpoint, PlanType, GraphType
<1>9. CASE Obey(s)
  <2>1. registry \in Streams
    BY <1>9 DEF Obey, ToldToStop
  <2>2. stop[registry] \in {"user_cancel", "lease_lost", "stream_exit"}
    BY <1>9, <2>1 DEF Obey, ToldToStop
  <2> QED
    BY <1>1, <1>9, <2>2 DEF Obey, End
<1>10. CASE Deliver(s)
  BY <1>1, <1>10 DEF Deliver, End, Statuses
<1>11. CASE RaiseGate(s)
  BY <1>1, <1>11 DEF RaiseGate, End
<1>12. CASE FinalizerFails(s)
  BY <1>1, <1>12 DEF FinalizerFails, End, Statuses
<1>13. CASE Fail(s)
  BY <1>1, <1>13 DEF Fail, End
<1>14. CASE Kill(s)
  BY <1>1, <1>14 DEF Kill
<1> QED
  BY <1>3, <1>4, <1>5, <1>6, <1>7, <1>8, <1>9, <1>10, <1>11, <1>12, <1>13, <1>14
  DEF PollStep, NodeStep

LEMMA RequestKeepsTypes ==
    ASSUME TypeInvariant, RowsOK',
           \/ \E u \in Callers : CallAction(u)
           \/ \E c \in Supplements : AskSupplement(c) \/ QueueSupplement(c)
           \/ \E s \in Streams : Ask(s) \/ ClaimLease(s) \/ Disconnect(s) \/ LoseLease(s)
    PROVE  TypeInvariant'
<1> USE DEF TypeInvariant, TypeOK, RowsOK, leaseVars, streamVars, coordinatorVars,
            handleVars, taskVars, apiVars
<1>1. ASSUME NEW u \in Callers, CallAction(u)
      PROVE  TypeInvariant'
  <2>1. NoCall \in CallType
    BY DEF NoCall, CallType
  <2>2. ASSUME NEW from, NEW to \in {"idle", "queued", "finish", "consume", "refuse"},
               CallStep(u, from, to)
        PROVE  call' \in [Callers -> CallType]
    BY SMTT(30), <2>1, <2>2 DEF CallStep, CallType
  <2>3. CASE CallRead(u)
    BY <2>3 DEF CallRead, CallType
  <2>4. CASE CallProbe(u)
    <3>1. PICK b \in BOOLEAN : 
            call' = [call EXCEPT ![u] = [at |-> "probed", seen |-> call[u].seen, live |-> b]]
      BY <2>4, Zenon DEF CallProbe, Live
    <3>2. [at |-> "probed", seen |-> call[u].seen, live |-> b] \in CallType
      BY DEF CallType
    <3>3. call' \in [Callers -> CallType]
      BY <3>1, <3>2
    <3> QED
      BY <2>4, <3>3 DEF CallProbe
  <2>5. CASE CallEnqueue(u)
    <3>1. call' \in [Callers -> CallType]
      BY <2>2, <2>5 DEF CallEnqueue
    <3> QED
      BY <2>5, <3>1 DEF CallEnqueue, CallStep
  <2>6. CASE CallCancel(u)
    <3>1. CancelledStatus \in Statuses
      BY DEF CancelledStatus, CancelTarget, Statuses
    <3>2. call' \in [Callers -> CallType]
      BY <2>2, <2>6 DEF CallCancel
    <3> QED
      BY <2>6, <3>1, <3>2 DEF CallCancel, CallStep
  <2>7. CASE CallFinish(u)
    <3>1. call' \in [Callers -> CallType]
      BY <2>2, <2>7 DEF CallFinish
    <3>2. status' \in Statuses
      BY <2>7 DEF CallFinish, Statuses
    <3> QED
      BY <2>7, <3>1, <3>2 DEF CallFinish, CallStep
  <2>8. CASE CallConsume(u)
    <3>1. call' \in [Callers -> CallType]
      BY <2>2, <2>8 DEF CallConsume
    <3> QED
      BY <2>8, <3>1 DEF CallConsume, CallStep
  <2>9. CASE CallRefuse(u)
    <3>1. call' \in [Callers -> CallType]
      BY <2>2, <2>9 DEF CallRefuse
    <3> QED
      BY <2>9, <3>1 DEF CallRefuse, CallStep
  <2> QED
    BY <1>1, <2>3, <2>4, <2>5, <2>6, <2>7, <2>8, <2>9 DEF CallAction
<1>2. ASSUME NEW c \in Supplements, AskSupplement(c) \/ QueueSupplement(c)
      PROVE  TypeInvariant'
  BY <1>2 DEF AskSupplement, QueueSupplement
<1>3. ASSUME NEW s \in Streams, Ask(s)
      PROVE  TypeInvariant'
  BY <1>3 DEF Ask, StreamPcs
<1>4. ASSUME NEW s \in Streams, ClaimLease(s)
      PROVE  TypeInvariant'
  BY <1>4 DEF ClaimLease, StreamPcs
<1>5. ASSUME NEW s \in Streams, Disconnect(s)
      PROVE  TypeInvariant'
  BY <1>5 DEF Disconnect, Leave, StreamPcs
<1>6. ASSUME NEW s \in Streams, LoseLease(s)
      PROVE  TypeInvariant'
  BY <1>6 DEF LoseLease
<1> QED
  BY <1>1, <1>2, <1>3, <1>4, <1>5, <1>6

LEMMA SweepKeepsTypes ==
    ASSUME TypeInvariant, RowsOK', SweepStep \/ Expire \/ Crash
    PROVE  TypeInvariant'
<1> USE DEF TypeInvariant, TypeOK, RowsOK, leaseVars, streamVars, coordinatorVars,
            handleVars, taskVars, apiVars
<1>1. CASE SweepList
  BY <1>1 DEF SweepList
<1>2. CASE SweepClear
  BY <1>2 DEF SweepClear
<1>3. CASE SweepStatus
  BY <1>3 DEF SweepStatus, Statuses
<1>4. CASE SweepSettle
  BY <1>4 DEF SweepSettle
<1>5. CASE SweepInactive
  BY <1>5 DEF SweepInactive
<1>6. CASE SweepRelease
  BY <1>6 DEF SweepRelease
<1>7. CASE Expire
  BY <1>7 DEF Expire
<1>8. CASE Crash
  <2>1. NoPlan \in PlanType /\ NoCall \in CallType
    BY DEF NoPlan, NewGraph, PlanType, GraphType, NoCall, CallType
  <2> QED
    BY <1>8, <2>1 DEF Crash, StreamPcs
<1> QED
  BY <1>1, <1>2, <1>3, <1>4, <1>5, <1>6, <1>7, <1>8 DEF SweepStep

LEMMA TypesStep == TypeInvariant /\ [Next]_vars => TypeInvariant'
<1> SUFFICES ASSUME TypeInvariant, [Next]_vars
             PROVE  TypeInvariant'
  OBVIOUS
<1>1. RowsOK'
  BY StatementKeepsVerdicts, StepIsOneStatement, StepKeepsEpochs
  DEF RowsOK, TypeInvariant, TypeOK
<1>2. CASE Next
  BY <1>1, <1>2, ResponseKeepsTypes, WorkflowKeepsTypes, RequestKeepsTypes,
     SweepKeepsTypes DEF Next
<1>3. CASE UNCHANGED vars
  BY <1>3 DEF vars, TypeInvariant, TypeOK, leaseVars, streamVars, coordinatorVars,
     handleVars, taskVars, apiVars
<1> QED
  BY <1>2, <1>3

LEMMA TypesAlways == Spec => []TypeInvariant
BY TypesInit, TypesStep, PTL DEF Spec

\* A status is always one of the table, whatever races, and no handle, checkpoint
\* or receipt ever holds what was not asked for.
THEOREM ExecutionTypeCorrect == Spec => []TypeOK
<1>1. TypeInvariant => TypeOK
  BY DEF TypeInvariant
<1> QED BY <1>1, TypesAlways, PTL

-----------------------------------------------------------------------------
(* A cancel and the status tell the same story.                            *)

\* The user has asked for a stop, at some time.
Asked == row[Cancel].st # "none"

\* CancelTellsTheTruth is not inductive: it needs that whoever is about to make
\* the run cancelled acts for a user, and that whoever is about to conclude the
\* command as carried out has seen, or made, the run cancelled.
CancelInvariant ==
    /\ status \in {"cancel_requested", "cancelled"} => Asked
    /\ row[Cancel].st = "consumed" => status = "cancelled"
    /\ \A u \in Callers :
        /\ call[u].at \in {"queued", "finish", "consume", "refuse"} => Asked
        /\ call[u].at = "consume" => status = "cancelled"
    /\ \A s \in Streams :
        /\ Cancel \in carried[s] => Asked
        /\ stop[s] = "user_cancel" => Asked
        /\ result[s] = "user_cancel" => Asked
        /\ seen[s] = "cancelled" => status = "cancelled"
    /\ sweep.at \in {"listed", "cleared"} => sweep.seen \in ActiveStatuses
    /\ sweep.seen = "cancel_requested" => Asked
    /\ sweep.seen = "cancelled" => status = "cancelled"

LEMMA CancelInit == Init => CancelInvariant
BY DEF Init, NoCommands, NoCall, Commands, CancelInvariant, Asked

\* A cancelled run stays cancelled, in every program that holds an old status.
LEMMA CancelledIsSealed ==
    ASSUME [Next]_vars, status = "cancelled"
    PROVE  status' = "cancelled"
<1> USE DEF MayBecome, AllowedNext
<1>1. ASSUME NEW s \in Streams, ResponseStep(s)
      PROVE  status' = "cancelled"
  <2>1. CASE ClaimStatus(s)
    BY <2>1 DEF ClaimStatus, Resumable
  <2>2. CASE AnswerStopped(s)
    BY <2>2 DEF AnswerStopped, StopStatus
  <2>3. CASE StartWorkflow(s)
    BY <2>3 DEF StartWorkflow
  <2>4. CASE Converge(s)
    BY <2>4 DEF Converge
  <2>5. CASE AnswerGate(s) \/ AnswerFailed(s) \/ AnswerDelivered(s)
    BY <2>5 DEF AnswerGate, AnswerFailed, AnswerDelivered
  <2>6. CASE Register(s) \/ Abandon(s) \/ StopWorkflow(s) \/ ReadVerdict(s)
               \/ WriteVerdict(s) \/ Detach(s) \/ Unclaim(s) \/ Drain(s)
               \/ ReleaseLease(s) \/ Unregister(s) \/ PollClaim(s)
    BY <2>6 DEF Register, Abandon, StopWorkflow, ReadVerdict, WriteVerdict, Detach,
         Unclaim, Drain, ReleaseLease, Unregister, PollClaim
  <2> QED
    BY <1>1, <2>1, <2>2, <2>3, <2>4, <2>5, <2>6 DEF ResponseStep
<1>2. ASSUME NEW s \in Streams, NodeStep(s)
      PROVE  status' = "cancelled"
  BY <1>2 DEF NodeStep, EnterNode, MarkTake, MarkSettle, Checkpoint, Obey, Deliver,
       RaiseGate, FinalizerFails, Fail
<1>3. ASSUME NEW s \in Streams,
             Ask(s) \/ ClaimLease(s) \/ PollStep(s) \/ Kill(s) \/ Disconnect(s)
               \/ LoseLease(s)
      PROVE  status' = "cancelled"
  BY <1>3 DEF Ask, ClaimLease, PollStep, PollClaim, PollDeliver, Kill, Disconnect,
       LoseLease
<1>4. ASSUME NEW u \in Callers, CallAction(u)
      PROVE  status' = "cancelled"
  BY <1>4 DEF CallAction, CallRead, CallProbe, CallEnqueue, CallCancel, CallFinish,
       CallConsume, CallRefuse, CancelledStatus, CancelTarget, CancellableStatuses
<1>5. ASSUME NEW c \in Supplements, AskSupplement(c) \/ QueueSupplement(c)
      PROVE  status' = "cancelled"
  BY <1>5 DEF AskSupplement, QueueSupplement
<1>6. ASSUME SweepStep \/ Expire \/ Crash
      PROVE  status' = "cancelled"
  BY <1>6 DEF SweepStep, SweepList, SweepClear, SweepStatus, SweepSettle,
       SweepInactive, SweepRelease, Expire, Crash
<1> QED
  BY <1>1, <1>2, <1>3, <1>4, <1>5, <1>6 DEF Next, vars

\* A request that was written down once stays on record.
LEMMA AskedStays ==
    ASSUME RowsOK, RowStep, Asked
    PROVE  Asked'
<1> USE DEF RowsOK, RowType, Conclusions, Asked, Commands
<1>1. CASE \E c \in Commands : Enqueue(c)
  BY <1>1 DEF Enqueue
<1>2. CASE ClaimPending(epoch)
  BY <1>2 DEF ClaimPending, Claimable
<1>3. CASE \E cs : ReleaseClaims(cs)
  BY <1>3 DEF ReleaseClaims
<1>4. CASE \E cs : \E verdict \in Conclusions : Settle(cs, verdict)
  BY <1>4 DEF Settle, IsOpen
<1>5. CASE \E cancelled \in BOOLEAN : SettleAll(cancelled)
  BY <1>5 DEF SettleAll, IsOpen
<1>6. CASE UNCHANGED row
  BY <1>6
<1> QED
  BY <1>1, <1>2, <1>3, <1>4, <1>5, <1>6 DEF RowStep

\* Settling all rows concludes the cancel as carried out only when told so.
LEMMA SettleAllAsTold ==
    ASSUME RowsOK, NEW cancelled \in BOOLEAN, SettleAll(cancelled),
           row'[Cancel].st = "consumed", row[Cancel].st # "consumed"
    PROVE  cancelled
<1>1. SUFFICES ASSUME cancelled = FALSE PROVE FALSE
  OBVIOUS
<1>2. row'[Cancel] = row[Cancel] \/ row'[Cancel].st = "rejected"
  BY <1>1 DEF SettleAll, Commands, RowsOK, RowType, Conclusions
<1> QED
  BY <1>2

\* What the steps below may rely on besides their own action.
CancelContext ==
    /\ TypeInvariant
    /\ CancelInvariant
    /\ Asked => Asked'
    /\ status = "cancelled" => status' = "cancelled"

LEMMA ResponseTellsTheTruth ==
    ASSUME CancelContext, NEW s \in Streams, ResponseStep(s)
    PROVE  CancelInvariant'
<1> USE DEF CancelContext, TypeInvariant, TypeOK, CancelInvariant, leaseVars,
            streamVars, coordinatorVars, handleVars, taskVars, apiVars
<1>1. CASE ClaimStatus(s)
  BY <1>1 DEF ClaimStatus
<1>2. CASE Register(s) \/ Abandon(s)
  BY <1>2 DEF Register, Abandon
<1>3. CASE StartWorkflow(s)
  BY <1>3 DEF StartWorkflow
<1>4. CASE AnswerStopped(s)
  BY <1>4 DEF AnswerStopped, StopStatus, Leave
<1>5. CASE AnswerGate(s) \/ AnswerDelivered(s) \/ AnswerFailed(s)
  BY <1>5 DEF AnswerGate, AnswerDelivered, AnswerFailed, Leave
<1>6. CASE StopWorkflow(s)
  BY <1>6 DEF StopWorkflow
<1>7. CASE Converge(s)
  BY <1>7 DEF Converge
<1>8. CASE ReadVerdict(s)
  BY <1>8 DEF ReadVerdict
<1>9. CASE WriteVerdict(s)
  <2>1. row'[Cancel].st = "consumed" => status = "cancelled"
    <3>1. CASE UNCHANGED row
      BY <3>1
    <3>2. CASE SettleAll(seen[s] = "cancelled")
      BY <3>2, SettleAllAsTold DEF RowsOK
    <3> QED
      BY <1>9, <3>1, <3>2 DEF WriteVerdict
  <2> QED
    BY <1>9, <2>1 DEF WriteVerdict
<1>10. CASE Detach(s)
  BY <1>10 DEF Detach
<1>11. CASE Unclaim(s)
  BY <1>11 DEF Unclaim, ReleaseClaims, Commands
<1>12. CASE Drain(s) \/ ReleaseLease(s)
  BY <1>12 DEF Drain, ReleaseLease
<1>13. CASE Unregister(s)
  BY <1>13 DEF Unregister
<1>14. CASE PollClaim(s)
  BY <1>14 DEF PollClaim, ClaimPending, Claimable, Commands, Asked
<1> QED
  BY <1>1, <1>2, <1>3, <1>4, <1>5, <1>6, <1>7, <1>8, <1>9, <1>10, <1>11, <1>12,
     <1>13, <1>14 DEF ResponseStep

LEMMA WorkflowTellsTheTruth ==
    ASSUME CancelContext, NEW s \in Streams,
           PollStep(s) \/ NodeStep(s) \/ Kill(s) \/ Ask(s) \/ ClaimLease(s)
             \/ Disconnect(s) \/ LoseLease(s)
    PROVE  CancelInvariant'
<1> USE DEF CancelContext, TypeInvariant, TypeOK, CancelInvariant, leaseVars,
            streamVars, coordinatorVars, handleVars, taskVars, apiVars
<1>1. CASE PollClaim(s)
  BY <1>1 DEF PollClaim, ClaimPending, Claimable, Commands, Asked
<1>2. CASE PollDeliver(s)
  BY <1>2 DEF PollDeliver, Settle, Commands
<1>3. CASE EnterNode(s) \/ MarkTake(s) \/ Checkpoint(s)
  BY <1>3 DEF EnterNode, MarkTake, HandleForgets, Checkpoint
<1>4. CASE MarkSettle(s)
  BY <1>4 DEF MarkSettle, Settle, PlanType, Commands
<1>5. CASE Obey(s)
  BY <1>5 DEF Obey, ToldToStop, End
<1>6. CASE Deliver(s)
  BY <1>6 DEF Deliver, End
<1>7. CASE RaiseGate(s) \/ FinalizerFails(s) \/ Fail(s)
  BY <1>7 DEF RaiseGate, FinalizerFails, Fail, End
<1>8. CASE Kill(s) \/ Ask(s) \/ ClaimLease(s)
  BY <1>8 DEF Kill, Ask, ClaimLease
<1>9. CASE Disconnect(s)
  BY <1>9 DEF Disconnect, Leave
<1>10. CASE LoseLease(s)
  BY <1>10 DEF LoseLease
<1> QED
  BY <1>1, <1>2, <1>3, <1>4, <1>5, <1>6, <1>7, <1>8, <1>9, <1>10 DEF PollStep, NodeStep

LEMMA RequestTellsTheTruth ==
    ASSUME CancelContext,
           \/ \E u \in Callers : CallAction(u)
           \/ \E c \in Supplements : AskSupplement(c) \/ QueueSupplement(c)
    PROVE  CancelInvariant'
<1> USE DEF CancelContext, TypeInvariant, TypeOK, CancelInvariant, leaseVars,
            streamVars, coordinatorVars, handleVars, taskVars, apiVars
<1>1. ASSUME NEW u \in Callers, CallRead(u)
      PROVE  CancelInvariant'
  BY <1>1 DEF CallRead
<1>2. ASSUME NEW u \in Callers, CallProbe(u)
      PROVE  CancelInvariant'
  BY <1>2 DEF CallProbe
<1>3. ASSUME NEW u \in Callers, CallEnqueue(u)
      PROVE  CancelInvariant'
  BY <1>3 DEF CallEnqueue, CallStep, NoCall, Enqueue, Commands, CallType, Asked
<1>4. ASSUME NEW u \in Callers, CallCancel(u)
      PROVE  CancelInvariant'
  BY <1>4 DEF CallCancel, CallStep, NoCall, CallType, CancelledStatus, CancelTarget
<1>5. ASSUME NEW u \in Callers, CallFinish(u)
      PROVE  CancelInvariant'
  BY <1>5 DEF CallFinish, CallStep, NoCall, CallType
<1>6. ASSUME NEW u \in Callers, CallConsume(u)
      PROVE  CancelInvariant'
  BY <1>6 DEF CallConsume, CallStep, NoCall
<1>7. ASSUME NEW u \in Callers, CallRefuse(u)
      PROVE  CancelInvariant'
  BY <1>7 DEF CallRefuse, CallStep, NoCall, Settle, Commands
<1>8. ASSUME NEW c \in Supplements, AskSupplement(c) \/ QueueSupplement(c)
      PROVE  CancelInvariant'
  BY <1>8 DEF AskSupplement, QueueSupplement, Enqueue, Commands
<1> QED
  BY <1>1, <1>2, <1>3, <1>4, <1>5, <1>6, <1>7, <1>8 DEF CallAction

LEMMA SweepTellsTheTruth ==
    ASSUME CancelContext, SweepStep \/ Expire \/ Crash
    PROVE  CancelInvariant'
<1> USE DEF CancelContext, TypeInvariant, TypeOK, CancelInvariant, leaseVars,
            streamVars, coordinatorVars, handleVars, taskVars, apiVars
<1>1. CASE SweepList
  BY <1>1 DEF SweepList
<1>2. CASE SweepClear
  BY <1>2 DEF SweepClear
<1>3. CASE SweepStatus
  BY <1>3 DEF SweepStatus, ActiveStatuses
<1>4. CASE SweepSettle
  BY <1>4 DEF SweepSettle, SettleAll, Commands
<1>5. CASE SweepInactive
  <2>1. row'[Cancel].st = "consumed" => status = "cancelled"
    <3>1. CASE UNCHANGED row
      BY <3>1
    <3>2. CASE SettleAll(sweep.seen = "cancelled")
      BY <3>2, SettleAllAsTold DEF RowsOK
    <3> QED
      BY <1>5, <3>1, <3>2 DEF SweepInactive
  <2> QED
    BY <1>5, <2>1 DEF SweepInactive
<1>6. CASE SweepRelease \/ Expire
  BY <1>6 DEF SweepRelease, Expire
<1>7. CASE Crash
  BY <1>7 DEF Crash, NoCall
<1> QED
  BY <1>1, <1>2, <1>3, <1>4, <1>5, <1>6, <1>7 DEF SweepStep

LEMMA CancelStep == TypeInvariant /\ CancelInvariant /\ [Next]_vars => CancelInvariant'
<1> SUFFICES ASSUME TypeInvariant, CancelInvariant, [Next]_vars
             PROVE  CancelInvariant'
  OBVIOUS
<1>1. CancelContext
  BY StepIsOneStatement, AskedStays, CancelledIsSealed
  DEF CancelContext, TypeInvariant, TypeOK, RowsOK
<1>2. CASE Next
  BY <1>1, <1>2, ResponseTellsTheTruth, WorkflowTellsTheTruth, RequestTellsTheTruth,
     SweepTellsTheTruth DEF Next
<1>3. CASE UNCHANGED vars
  BY <1>3 DEF vars, CancelInvariant, Asked, leaseVars, streamVars, coordinatorVars,
     handleVars, taskVars, apiVars
<1> QED
  BY <1>2, <1>3

\* INV-CMD-003 for any number of streams, requests and restarts and any faults: a
\* run is cancelled only if its user asked, and a cancel counts as carried out only
\* if the run was cancelled: CancelTellsTheTruth.
THEOREM CancelIsTruthful == Spec => []CancelTellsTheTruth
<1>1. CancelInvariant => CancelTellsTheTruth
  BY DEF CancelInvariant, CancelTellsTheTruth, Asked
<1> QED BY <1>1, CancelInit, CancelStep, TypesAlways, PTL DEF Spec

-----------------------------------------------------------------------------
(* One executor, in reach of its stop, while a lease stays with its keeper. *)

\* The environment of these results: no keeper gives up a lease that is its own, and
\* no claim lands between the sweep's SELECT and its write.  Everything else may
\* happen.  Without it the database may hand the run to a second executor.
LeasesStay == Faults \cap {"lease_lost", "sweep_race"} = {}

\* Where a response stands while its workflow may be at work; while its handle is
\* in the registry; while the lease is its own.
AtWork ==
    {"streaming", "exiting", "converging", "settling", "verdict", "detaching",
     "unclaiming", "draining", "detached"}
Registered == AtWork \cup {"primed", "starting", "releasing"}
Engaged == Registered \cup {"leased", "admitted", "returning"}

\* A keeper owns a live lease as long as its response is engaged, and the order of the
\* exit (workflow, lease, registry) keeps every workflow inside that span.
KeeperInvariant ==
    /\ \A s \in Streams :
        /\ pc[s] \in Engaged => lease = s /\ ~expired /\ beat[s]
        /\ pc[s] \in Registered => registry = s
        /\ Working(s) => pc[s] \in AtWork
    /\ sweep.at \in {"listed", "inactive", "release"} => ~Live

LEMMA KeeperInit == Init => KeeperInvariant
BY DEF Init, KeeperInvariant, Engaged, Registered, AtWork, Working

\* The lease is of one stream, so one response is engaged at most.
LEMMA OneIsEngaged ==
    ASSUME KeeperInvariant, NEW s \in Streams, NEW t \in Streams,
           pc[s] \in Engaged, pc[t] \in Engaged
    PROVE  s = t
BY DEF KeeperInvariant

LEMMA ResponseKeepsLease ==
    ASSUME LeasesStay, TypeInvariant, KeeperInvariant, NEW s \in Streams, ResponseStep(s)
    PROVE  KeeperInvariant'
<1> USE ExecutionAssumption DEF TypeInvariant, TypeOK, KeeperInvariant, Live, Working,
        Engaged, Registered, AtWork,
        leaseVars, streamVars, coordinatorVars, handleVars, taskVars, apiVars
<1>1. CASE ClaimStatus(s)
  BY <1>1 DEF ClaimStatus, GiveLeaseBack
<1>2. CASE Register(s)
  BY <1>2 DEF Register
<1>3. CASE Abandon(s)
  BY <1>3 DEF Abandon
<1>4. CASE StartWorkflow(s)
  BY <1>4 DEF StartWorkflow
<1>5. CASE AnswerStopped(s) \/ AnswerGate(s) \/ AnswerDelivered(s) \/ AnswerFailed(s)
  BY <1>5 DEF AnswerStopped, AnswerGate, AnswerDelivered, AnswerFailed, Answer, Leave
<1>6. CASE StopWorkflow(s)
  BY <1>6 DEF StopWorkflow
<1>7. CASE Converge(s)
  BY <1>7 DEF Converge
<1>8. CASE ReadVerdict(s)
  BY <1>8 DEF ReadVerdict
<1>9. CASE WriteVerdict(s)
  BY <1>9 DEF WriteVerdict
<1>10. CASE Detach(s)
  BY <1>10 DEF Detach
<1>11. CASE Unclaim(s)
  BY <1>11 DEF Unclaim
<1>12. CASE Drain(s)
  BY <1>12 DEF Drain
<1>13. CASE ReleaseLease(s)
  BY <1>13 DEF ReleaseLease, GiveLeaseBack
<1>14. CASE Unregister(s)
  BY <1>14 DEF Unregister, LeaveRegistry
<1>15. CASE PollClaim(s)
  BY <1>15 DEF PollClaim, Polling
<1> QED
  BY <1>1, <1>2, <1>3, <1>4, <1>5, <1>6, <1>7, <1>8, <1>9, <1>10, <1>11, <1>12,
     <1>13, <1>14, <1>15 DEF ResponseStep

LEMMA WorkflowKeepsLease ==
    ASSUME LeasesStay, TypeInvariant, KeeperInvariant, NEW s \in Streams,
           \/ Ask(s) \/ ClaimLease(s) \/ PollStep(s) \/ NodeStep(s)
           \/ Kill(s) \/ Disconnect(s) \/ LoseLease(s)
    PROVE  KeeperInvariant'
<1> USE ExecutionAssumption DEF TypeInvariant, TypeOK, KeeperInvariant, Live, Working,
        Engaged, Registered, AtWork,
        leaseVars, streamVars, coordinatorVars, handleVars, taskVars, apiVars
<1>1. CASE Ask(s)
  BY <1>1 DEF Ask
<1>2. CASE ClaimLease(s)
  BY <1>2 DEF ClaimLease, LeasesStay
<1>3. CASE PollClaim(s) \/ PollDeliver(s)
  BY <1>3 DEF PollClaim, PollDeliver, Polling
<1>4. CASE EnterNode(s) \/ MarkTake(s) \/ MarkSettle(s) \/ Checkpoint(s)
  BY <1>4 DEF EnterNode, MarkTake, MarkSettle, Checkpoint
<1>5. CASE Obey(s) \/ Deliver(s) \/ RaiseGate(s) \/ FinalizerFails(s) \/ Fail(s)
  BY <1>5 DEF Obey, Deliver, RaiseGate, FinalizerFails, Fail, End
<1>6. CASE Kill(s)
  BY <1>6 DEF Kill
<1>7. CASE Disconnect(s)
  BY <1>7 DEF Disconnect, Leave
<1>8. CASE LoseLease(s)
  BY <1>8 DEF LoseLease, LeasesStay
<1> QED
  BY <1>1, <1>2, <1>3, <1>4, <1>5, <1>6, <1>7, <1>8 DEF PollStep, NodeStep

LEMMA OthersKeepLease ==
    ASSUME TypeInvariant, KeeperInvariant,
           \/ \E u \in Callers : CallAction(u)
           \/ \E c \in Supplements : AskSupplement(c) \/ QueueSupplement(c)
           \/ SweepStep \/ Expire \/ Crash
    PROVE  KeeperInvariant'
<1> USE ExecutionAssumption DEF TypeInvariant, TypeOK, KeeperInvariant, Live, Working,
        Engaged, Registered, AtWork,
        leaseVars, streamVars, coordinatorVars, handleVars, taskVars, apiVars
<1>1. ASSUME NEW u \in Callers, CallAction(u)
      PROVE  KeeperInvariant'
  BY <1>1 DEF CallAction, CallRead, CallProbe, CallEnqueue, CallCancel, CallFinish,
       CallConsume, CallRefuse, CallStep
<1>2. ASSUME NEW c \in Supplements, AskSupplement(c) \/ QueueSupplement(c)
      PROVE  KeeperInvariant'
  BY <1>2 DEF AskSupplement, QueueSupplement
<1>3. CASE SweepList
  BY <1>3 DEF SweepList, Candidate
<1>4. CASE SweepClear \/ SweepRelease
  BY <1>4 DEF SweepClear, SweepRelease
<1>5. CASE SweepStatus \/ SweepSettle \/ SweepInactive
  BY <1>5 DEF SweepStatus, SweepSettle, SweepInactive
<1>6. CASE Expire
  BY <1>6 DEF Expire
<1>7. CASE Crash
  BY <1>7 DEF Crash
<1> QED
  BY <1>1, <1>2, <1>3, <1>4, <1>5, <1>6, <1>7 DEF SweepStep

LEMMA KeeperStep ==
    ASSUME LeasesStay
    PROVE  TypeInvariant /\ KeeperInvariant /\ [Next]_vars => KeeperInvariant'
<1> SUFFICES ASSUME TypeInvariant, KeeperInvariant, [Next]_vars
             PROVE  KeeperInvariant'
  OBVIOUS
<1>1. CASE Next
  BY <1>1, ResponseKeepsLease, WorkflowKeepsLease, OthersKeepLease DEF Next
<1>2. CASE UNCHANGED vars
  BY <1>2 DEF vars, KeeperInvariant, Live, Working, leaseVars, streamVars, taskVars
<1> QED
  BY <1>1, <1>2

LEMMA KeeperAlways ==
    ASSUME LeasesStay
    PROVE  Spec => []KeeperInvariant
BY KeeperInit, KeeperStep, TypesAlways, PTL DEF Spec

\* INV-RUN-004 for any number of streams, requests and restarts, while a lease stays
\* with its keeper: one workflow at most goes on past its next boundary.
THEOREM OneExecutorAtMost ==
    ASSUME LeasesStay
    PROVE  Spec => []OneExecutor
<1>1. KeeperInvariant => OneExecutor
  BY OneIsEngaged DEF KeeperInvariant, OneExecutor, WillGoOn, Engaged, Registered
<1> QED
  BY <1>1, KeeperAlways, PTL

\* Under the same condition, the workflow whose stream owns the lease finds its own
\* handle at every boundary, also while an earlier stream is still leaving.
THEOREM TheExecutorIsReachable ==
    ASSUME LeasesStay
    PROVE  Spec => []ExecutorIsReachable
<1>1. KeeperInvariant => ExecutorIsReachable
  BY DEF KeeperInvariant, ExecutorIsReachable, Registered
<1> QED
  BY <1>1, KeeperAlways, PTL

-----------------------------------------------------------------------------
(* A supplement enters the state once.                                     *)

\* Where a response stands before its first poll, and while its coordinator may poll.
BeforePoll == {"idle", "asked", "leased", "admitted", "primed"}
Polled ==
    {"starting", "streaming", "exiting", "converging", "settling", "verdict", "detaching"}

InNode(s) == work[s] \in {"node", "marking", "marked"}

\* What the node of s takes up from the handle and has not yet marked.
Taking(s) == IF work[s] \in {"node", "marking"} THEN plan[s].consume ELSE {}

\* The supplements this stream holds in memory, wherever they are.
InHand(s) == (held[s] \cup carried[s] \cup Taking(s)) \ {Cancel}

\* No poll finds a row that is in hand: this process has claimed it, or it is concluded.
Claimed(c) == row[c].st \in Conclusions \/ (row[c].st = "claimed" /\ row[c].by = epoch)

\* A supplement whose receipt says "consumed" is in no hand that could bring it to the
\* checkpoint: neither in the handle, nor on its way there, nor in a node's plan.
SupplementOf(s) ==
    /\ pc[s] \in BeforePoll => held[s] = {} /\ carried[s] = {}
    /\ carried[s] \cap (held[s] \cup Taking(s)) = {}
    /\ pc[s] \in Polled => \A c \in InHand(s) : Claimed(c)
    /\ pc[s] \in Registered =>
        \A c \in (held[s] \cup carried[s]) \ {Cancel} : row[c].st # "consumed"
    /\ work[s] = "marking" => plan[s].consume \cap (held[s] \cup carried[s]) = {}
    /\ InNode(s) =>
        /\ plan[s].handle = s
        /\ graph.applied \subseteq plan[s].graph.applied
        /\ plan[s].consume # {} => plan[s].graph.pending = {}
        /\ \A c \in plan[s].graph.pending \ graph.pending : row[c].st # "consumed"

SupplementInvariant == \A s \in Streams : SupplementOf(s)

\* A step that neither concludes a supplement as consumed nor gives a claim back, and
\* leaves the hands of s and its plan alone, keeps what is said of s.
QuietStep ==
    /\ \A c \in Supplements : row'[c].st = "consumed" => row[c].st = "consumed"
    /\ \A c \in Commands : Claimed(c) => Claimed(c)'
    /\ graph' = graph

LEMMA QuietKeeps ==
    ASSUME TypeInvariant, QuietStep, NEW s \in Streams, SupplementOf(s),
           held'[s] = held[s], carried'[s] = carried[s], work'[s] = work[s],
           plan'[s] = plan[s],
           pc'[s] \in BeforePoll => pc[s] \in BeforePoll,
           pc'[s] \in Polled => pc[s] \in Polled \cup BeforePoll,
           pc'[s] \in Registered => pc[s] \in Registered \cup BeforePoll,
           pc[s] \in BeforePoll => ~Working(s)
    PROVE  SupplementOf(s)'
<1> USE DEF QuietStep, TypeInvariant, TypeOK, SupplementOf, InHand, Taking, InNode,
        Working
<1>1. (pc[s] \in BeforePoll => held[s] = {} /\ carried[s] = {})'
  OBVIOUS
<1>2. /\ (carried[s] \cap (held[s] \cup Taking(s)) = {})'
      /\ (pc[s] \in Polled => \A c \in InHand(s) : Claimed(c))'
  BY DEF Commands, PlanType
<1>3. (pc[s] \in Registered =>
         \A c \in (held[s] \cup carried[s]) \ {Cancel} : row[c].st # "consumed")'
  BY DEF Commands
<1>4. (work[s] = "marking" => plan[s].consume \cap (held[s] \cup carried[s]) = {})'
  OBVIOUS
<1>5. (InNode(s) =>
        /\ plan[s].handle = s
        /\ graph.applied \subseteq plan[s].graph.applied
        /\ plan[s].consume # {} => plan[s].graph.pending = {}
        /\ \A c \in plan[s].graph.pending \ graph.pending : row[c].st # "consumed")'
  BY DEF PlanType, GraphType
<1> QED
  BY <1>1, <1>2, <1>3, <1>4, <1>5

\* Whoever acts for an engaged response finds every other one out of the game.
LEMMA OthersAreIdle ==
    ASSUME KeeperInvariant, SupplementInvariant,
           NEW s \in Streams, pc[s] \in Engaged, NEW t \in Streams, t # s,
           pc'[t] = pc[t], work'[t] = work[t],
           held'[t] = held[t], carried'[t] = carried[t]
    PROVE  SupplementOf(t)'
<1>1. pc[t] \notin Engaged /\ ~Working(t)
  BY OneIsEngaged DEF KeeperInvariant, Engaged, Registered
<1>2. SupplementOf(t)
  BY DEF SupplementInvariant
<1> QED
  BY <1>1, <1>2 DEF SupplementOf, Taking, InNode, Working, Engaged, Registered, AtWork,
       Polled

\* What the steps below may rely on besides their own action.
SupplementContext ==
    /\ TypeInvariant /\ TypeInvariant'
    /\ KeeperInvariant
    /\ SupplementInvariant

LEMMA LeasingKeepsSupplements ==
    ASSUME SupplementContext, NEW s \in Streams,
           \/ Ask(s) \/ ClaimLease(s) \/ ClaimStatus(s) \/ Abandon(s) \/ Register(s)
           \/ LoseLease(s)
    PROVE  SupplementInvariant'
<1> USE DEF SupplementContext, TypeInvariant, TypeOK, leaseVars, streamVars,
            coordinatorVars, handleVars, taskVars, apiVars
<1>1. /\ UNCHANGED <<row, epoch, graph, held, carried, work, plan>>
      /\ \A t \in Streams :
           \/ pc'[t] = pc[t]
           \/ pc'[t] \in BeforePoll /\ pc[t] \in BeforePoll
           \/ pc'[t] = "closed" /\ pc[t] \in BeforePoll
  BY DEF Ask, ClaimLease, ClaimStatus, Abandon, Register, LoseLease, BeforePoll
<1>2. QuietStep
  BY <1>1 DEF QuietStep, Claimed
<1>3. ASSUME NEW t \in Streams
      PROVE  SupplementOf(t)'
  <2>1. pc[t] \in BeforePoll => ~Working(t)
    BY DEF KeeperInvariant, AtWork, BeforePoll
  <2>2. SupplementOf(t)
    BY DEF SupplementInvariant
  <2>3. CASE pc'[t] = pc[t]
    BY <1>1, <1>2, <2>1, <2>2, <2>3, QuietKeeps
  <2>4. CASE pc'[t] \in BeforePoll /\ pc[t] \in BeforePoll
    BY <1>1, <1>2, <2>1, <2>2, <2>4, QuietKeeps DEF BeforePoll, Polled, Registered, AtWork
  <2>5. CASE pc'[t] = "closed" /\ pc[t] \in BeforePoll
    BY <1>1, <1>2, <2>1, <2>2, <2>5, QuietKeeps DEF BeforePoll, Polled, Registered, AtWork
  <2> QED
    BY <1>1, <2>3, <2>4, <2>5
<1> QED
  BY <1>3 DEF SupplementInvariant

\* Statements that neither conclude a supplement as consumed nor release a claim.
VerdictStep ==
    \/ \E cancelled \in BOOLEAN : SettleAll(cancelled)
    \/ Settle({Cancel}, "consumed")
    \/ \E cs : Settle(cs, "rejected")
    \/ \E c \in Commands : Enqueue(c)
    \/ UNCHANGED row

LEMMA VerdictIsQuiet ==
    ASSUME TypeInvariant, UNCHANGED <<epoch, graph>>, VerdictStep
    PROVE  QuietStep
<1> USE CommandAssumption DEF Conclusions, IsOpen, TypeInvariant, TypeOK, RowType
<1> DEFINE Goal ==
      /\ \A c \in Supplements : row'[c].st = "consumed" => row[c].st = "consumed"
      /\ \A c \in Commands : Claimed(c) => Claimed(c)'
<1> SUFFICES Goal
  BY DEF QuietStep
<1>1. ASSUME NEW cancelled \in BOOLEAN, SettleAll(cancelled)
      PROVE  Goal
  <2>1. \A c \in Commands : ~IsOpen(c) => row'[c] = row[c]
    BY <1>1, Zenon DEF SettleAll
  <2>2. \A c \in Commands :
            IsOpen(c) /\ c # Cancel => row'[c] = [row[c] EXCEPT !.st = "rejected"]
    BY <1>1, Zenon DEF SettleAll
  <2>3. IsOpen(Cancel) => \/ row'[Cancel] = [row[Cancel] EXCEPT !.st = "rejected"]
                          \/ row'[Cancel] = [row[Cancel] EXCEPT !.st = "consumed"]
    BY <1>1, Zenon DEF SettleAll, Commands
  <2>4. ASSUME NEW c \in Commands
        PROVE  /\ ~IsOpen(c) => row'[c] = row[c]
               /\ IsOpen(c) => /\ row'[c].st \in Conclusions
                               /\ c # Cancel => row'[c].st = "rejected"
    <3>1. row[c] \in RowType
      OBVIOUS
    <3>2. [row[c] EXCEPT !.st = "rejected"].st = "rejected"
      BY <3>1
    <3>3. [row[c] EXCEPT !.st = "consumed"].st = "consumed"
      BY <3>1
    <3>4. CASE c = Cancel
      BY <2>1, <2>3, <3>2, <3>3, <3>4
    <3>5. CASE c # Cancel
      BY <2>1, <2>2, <3>2, <3>5
    <3> QED
      BY <3>4, <3>5
  <2>6. \A c \in Supplements : row'[c].st = "consumed" => row[c].st = "consumed"
    BY <2>4 DEF Commands
  <2>7. \A c \in Commands : Claimed(c) => Claimed(c)'
    BY <2>4 DEF Claimed
  <2> QED BY <2>6, <2>7
<1>2. CASE Settle({Cancel}, "consumed")
  <2>1. \A c \in Commands : c # Cancel \/ ~IsOpen(c) => row'[c] = row[c]
    BY <1>2 DEF Settle
  <2>2. IsOpen(Cancel) => row'[Cancel] = [row[Cancel] EXCEPT !.st = "consumed"]
    BY <1>2 DEF Settle, Commands
  <2>3. \A c \in Commands : Claimed(c) => Claimed(c)'
    BY <2>1, <2>2 DEF Claimed, Commands
  <2> QED BY <2>1, <2>3 DEF Commands
<1>3. ASSUME NEW cs, Settle(cs, "rejected")
      PROVE  Goal
  BY <1>3 DEF Settle, Claimed, Commands
<1>4. ASSUME NEW c \in Commands, Enqueue(c)
      PROVE  Goal
  BY <1>4 DEF Enqueue, Claimed, Commands
<1>5. CASE UNCHANGED row
  BY <1>5 DEF Claimed
<1> QED
  BY <1>1, <1>2, <1>3, <1>4, <1>5 DEF VerdictStep

\* The way out of a response, up to the drain, without its hands.
LEMMA LeavingKeepsSupplements ==
    ASSUME SupplementContext, NEW s \in Streams,
           \/ AnswerStopped(s) \/ AnswerGate(s) \/ AnswerDelivered(s) \/ AnswerFailed(s)
           \/ StopWorkflow(s) \/ Converge(s) \/ ReadVerdict(s) \/ WriteVerdict(s)
           \/ Drain(s) \/ ReleaseLease(s)
    PROVE  SupplementInvariant'
<1> USE DEF SupplementContext, TypeInvariant, TypeOK, leaseVars, streamVars,
            coordinatorVars, handleVars, taskVars, apiVars
<1>1. /\ UNCHANGED <<epoch, graph, held, carried, work, plan>>
      /\ UNCHANGED row \/ \E cancelled \in BOOLEAN : SettleAll(cancelled)
      /\ \A t \in Streams : t # s => pc'[t] = pc[t]
      /\ pc[s] \in Engaged /\ pc[s] \notin BeforePoll /\ pc'[s] \notin BeforePoll
      /\ pc'[s] \in Polled => pc[s] \in Polled
      /\ pc'[s] \in Registered => pc[s] \in Registered
  <2> USE DEF Engaged, Registered, AtWork, BeforePoll, Polled
  <2>1. CASE AnswerStopped(s) \/ AnswerGate(s) \/ AnswerDelivered(s) \/ AnswerFailed(s)
    BY <2>1 DEF AnswerStopped, AnswerGate, AnswerDelivered, AnswerFailed, Answer, Leave
  <2>2. CASE StopWorkflow(s) \/ Converge(s) \/ ReadVerdict(s)
    BY <2>2 DEF StopWorkflow, Converge, ReadVerdict
  <2>3. CASE WriteVerdict(s)
    <3>1. UNCHANGED row \/ \E cancelled \in BOOLEAN : SettleAll(cancelled)
      BY <2>3, Zenon DEF WriteVerdict
    <3> QED
      BY <2>3, <3>1 DEF WriteVerdict
  <2>4. CASE Drain(s) \/ ReleaseLease(s)
    BY <2>4 DEF Drain, ReleaseLease
  <2> QED
    BY <2>1, <2>2, <2>3, <2>4
<1>2. QuietStep
  BY <1>1, VerdictIsQuiet DEF VerdictStep
<1>3. SupplementOf(s)'
  <2>1. SupplementOf(s)
    BY DEF SupplementInvariant
  <2> QED
    BY <1>1, <1>2, <2>1, QuietKeeps
<1>4. ASSUME NEW t \in Streams, t # s
      PROVE  SupplementOf(t)'
  BY <1>1, <1>4, OthersAreIdle
<1> QED
  BY <1>3, <1>4 DEF SupplementInvariant

\* Steps that touch neither the streams nor their hands.
LEMMA OutsideKeepsSupplements ==
    ASSUME SupplementContext,
           \/ \E u \in Callers : CallAction(u)
           \/ \E c \in Supplements : AskSupplement(c) \/ QueueSupplement(c)
           \/ SweepStep \/ Expire \/ UNCHANGED vars
    PROVE  SupplementInvariant'
<1> USE DEF SupplementContext, leaseVars, streamVars,
            coordinatorVars, handleVars, taskVars, apiVars
<1>1. UNCHANGED <<epoch, graph, held, carried, work, plan, pc>> /\ VerdictStep
  <2> DEFINE Goal ==
               UNCHANGED <<epoch, graph, held, carried, work, plan, pc>> /\ VerdictStep
  <2>1. ASSUME NEW u \in Callers, CallAction(u)
        PROVE  Goal
    <3>1. CASE CallRead(u) \/ CallProbe(u) \/ CallCancel(u) \/ CallFinish(u)
      BY <3>1 DEF CallRead, CallProbe, CallCancel, CallFinish, CallStep, VerdictStep
    <3>2. CASE CallEnqueue(u)
      BY <3>2 DEF CallEnqueue, CallStep, Commands, VerdictStep
    <3>3. CASE CallConsume(u) \/ CallRefuse(u)
      BY <3>3 DEF CallConsume, CallRefuse, CallStep, VerdictStep
    <3> QED
      BY <2>1, <3>1, <3>2, <3>3 DEF CallAction
  <2>2. ASSUME NEW c \in Supplements, AskSupplement(c) \/ QueueSupplement(c)
        PROVE  Goal
    BY <2>2 DEF AskSupplement, QueueSupplement, Commands, VerdictStep
  <2>3. CASE SweepStep
    <3>1. CASE SweepList \/ SweepClear \/ SweepStatus \/ SweepRelease
      BY <3>1 DEF SweepList, SweepClear, SweepStatus, SweepRelease, VerdictStep
    <3>2. CASE SweepSettle \/ SweepInactive
      <4>1. VerdictStep
        BY <3>2, Zenon DEF SweepSettle, SweepInactive, VerdictStep
      <4> QED
        BY <3>2, <4>1 DEF SweepSettle, SweepInactive
    <3> QED
      BY <2>3, <3>1, <3>2 DEF SweepStep
  <2>4. CASE Expire
    BY <2>4 DEF Expire, VerdictStep
  <2>5. CASE UNCHANGED vars
    BY <2>5 DEF vars, VerdictStep
  <2> QED
    BY <2>1, <2>2, <2>3, <2>4, <2>5
<1>2. QuietStep
  BY <1>1, VerdictIsQuiet
<1>3. ASSUME NEW t \in Streams
      PROVE  SupplementOf(t)'
  <2>1. SupplementOf(t) /\ (pc[t] \in BeforePoll => ~Working(t))
    BY DEF SupplementInvariant, KeeperInvariant, AtWork, BeforePoll
  <2> QED
    BY <1>1, <1>2, <2>1, QuietKeeps
<1> QED
  BY <1>3 DEF SupplementInvariant

\* What an engaged response does to its own hands is all that has to be looked at.
LEMMA OwnStepKeepsSupplements ==
    ASSUME SupplementContext, NEW s \in Streams, pc[s] \in Engaged, SupplementOf(s)',
           \A t \in Streams \ {s} :
              /\ pc'[t] = pc[t] /\ work'[t] = work[t]
              /\ held'[t] = held[t] /\ carried'[t] = carried[t]
    PROVE  SupplementInvariant'
BY OthersAreIdle DEF SupplementContext, SupplementInvariant

\* The two halves of a poll.
LEMMA PollKeepsSupplements ==
    ASSUME SupplementContext, NEW s \in Streams, PollClaim(s) \/ PollDeliver(s)
    PROVE  SupplementInvariant'
<1> USE CommandAssumption
<1> USE DEF SupplementContext, TypeInvariant, TypeOK, leaseVars, streamVars,
            coordinatorVars, handleVars, taskVars, apiVars
<1>0. /\ pc[s] \in Polled \cup {"primed"}
      /\ pc[s] \in Engaged /\ pc[s] \in Registered
      /\ SupplementOf(s)
      /\ pc[s] = "primed" => ~Working(s)
  BY DEF PollClaim, PollDeliver, Polling, Polled, Engaged, Registered, AtWork,
         SupplementInvariant, KeeperInvariant
<1>1. CASE PollClaim(s)
  <2> USE <1>1
  <2>1. /\ held'[s] = held[s] /\ carried'[s] = Claimable(epoch) /\ work'[s] = work[s]
        /\ plan'[s] = plan[s] /\ graph' = graph /\ epoch' = epoch
        /\ pc'[s] \notin BeforePoll
    BY <1>0 DEF PollClaim, Polling, BeforePoll, Polled
  <2>2. ASSUME NEW c \in Commands
        PROVE  /\ c \in Claimable(epoch) <=> ~Claimed(c) /\ row[c].st # "none"
               /\ c \in Claimable(epoch) => row'[c].st = "claimed" /\ row'[c].by = epoch
               /\ c \notin Claimable(epoch) => row'[c] = row[c]
    BY DEF PollClaim, ClaimPending, Claimable, Claimed, RowType, Conclusions
  <2>3. \A c \in InHand(s) : Claimed(c)
    BY <1>0 DEF SupplementOf, InHand, Taking, BeforePoll, Working
  <2>4. InHand(s) \subseteq Commands /\ held[s] \cup Taking(s) \subseteq InHand(s)
    BY DEF InHand, Taking, Commands, PlanType
  <2>5. (carried[s] \cap (held[s] \cup Taking(s)) = {})'
    BY <2>1, <2>2, <2>3, <2>4 DEF Taking
  <2>6. (\A c \in InHand(s) : Claimed(c))'
    BY <2>1, <2>2, <2>3, <2>4 DEF InHand, Taking, Claimed
  <2>7. (\A c \in (held[s] \cup carried[s]) \ {Cancel} : row[c].st # "consumed")'
    BY <2>1, <2>2, <1>0 DEF SupplementOf, Commands
  <2>8. (work[s] = "marking" => plan[s].consume \cap (held[s] \cup carried[s]) = {})'
    BY <2>1, <2>5, <1>0 DEF SupplementOf, Taking
  <2>9. (InNode(s) =>
          /\ plan[s].handle = s
          /\ graph.applied \subseteq plan[s].graph.applied
          /\ plan[s].consume # {} => plan[s].graph.pending = {}
          /\ \A c \in plan[s].graph.pending \ graph.pending : row[c].st # "consumed")'
    BY <2>1, <2>2, <1>0 DEF SupplementOf, InNode, PlanType, GraphType, Commands
  <2>10. SupplementOf(s)'
    BY <2>1, <2>5, <2>6, <2>7, <2>8, <2>9 DEF SupplementOf
  <2> QED
    BY <1>0, <2>10, OwnStepKeepsSupplements DEF PollClaim
<1>2. CASE PollDeliver(s)
  <2> USE <1>2
  <2>1. /\ carried'[s] = {} /\ work'[s] = work[s] /\ pc' = pc
        /\ plan'[s] = plan[s] /\ graph' = graph /\ epoch' = epoch
        /\ pc[s] \in Polled /\ pc[s] \notin BeforePoll
        /\ held[s] \subseteq held'[s] /\ held'[s] \subseteq held[s] \cup carried[s]
        /\ Cancel \notin held'[s]
    BY <1>0 DEF PollDeliver, Polling, BeforePoll, Polled
  <2>2. \A c \in Commands :
            /\ row'[c].st = "consumed" => row[c].st = "consumed"
            /\ Claimed(c) => Claimed(c)'
    <3>1. CASE ready[s]
      BY <3>1 DEF PollDeliver, Settle, IsOpen, Claimed, RowType, Conclusions
    <3>2. CASE ~ready[s]
      BY <3>2 DEF PollDeliver, Claimed
    <3> QED
      BY <3>1, <3>2
  <2>3. (carried[s] \cap (held[s] \cup Taking(s)) = {})'
    BY <2>1
  <2>4. (\A c \in InHand(s) : Claimed(c))'
    BY <2>1, <2>2, <1>0 DEF SupplementOf, InHand, Taking, Commands, PlanType
  <2>5. (\A c \in (held[s] \cup carried[s]) \ {Cancel} : row[c].st # "consumed")'
    BY <2>1, <2>2, <1>0 DEF SupplementOf, Commands
  <2>6. (work[s] = "marking" => plan[s].consume \cap (held[s] \cup carried[s]) = {})'
    BY <2>1, <1>0 DEF SupplementOf, Taking
  <2>7. (InNode(s) =>
          /\ plan[s].handle = s
          /\ graph.applied \subseteq plan[s].graph.applied
          /\ plan[s].consume # {} => plan[s].graph.pending = {}
          /\ \A c \in plan[s].graph.pending \ graph.pending : row[c].st # "consumed")'
    BY <2>1, <2>2, <1>0 DEF SupplementOf, InNode, PlanType, GraphType, Commands
  <2>8. SupplementOf(s)'
    BY <2>1, <2>3, <2>4, <2>5, <2>6, <2>7 DEF SupplementOf
  <2> QED
    BY <1>0, <2>8, OwnStepKeepsSupplements DEF PollDeliver
<1> QED
  BY <1>1, <1>2

\* A node takes its plan from the handle of its own stream.
LEMMA EnteringKeepsSupplements ==
    ASSUME SupplementContext, NEW s \in Streams, EnterNode(s)
    PROVE  SupplementInvariant'
<1> USE CommandAssumption
<1> USE DEF SupplementContext, TypeInvariant, TypeOK, leaseVars, streamVars,
            coordinatorVars, handleVars, taskVars, apiVars
<1>1. /\ registry = s /\ pc[s] \in Engaged /\ pc[s] \in Registered
      /\ pc[s] \notin BeforePoll
      /\ SupplementOf(s)
  BY DEF EnterNode, Working, KeeperInvariant, Engaged, Registered, AtWork, BeforePoll,
         SupplementInvariant
<1>2. /\ UNCHANGED <<row, epoch, graph, pc, held, carried>>
      /\ work'[s] = "node"
  BY DEF EnterNode
<1>3. plan'[s] \in NodePlans(s)
  BY <1>1 DEF EnterNode
<1>4. /\ plan'[s].handle = s
      /\ plan'[s].consume \subseteq held[s]
      /\ graph.applied \subseteq plan'[s].graph.applied
      /\ plan'[s].consume # {} => plan'[s].graph.pending = {}
      /\ plan'[s].graph.pending \subseteq held[s] \cup graph.pending
  <2>1. HeldBy(s) = held[s]
    BY ExecutionAssumption DEF HeldBy
  <2> QED
    BY <1>3, <2>1 DEF NodePlans
<1>5. SupplementOf(s)'
  <2>1. (carried[s] \cap (held[s] \cup Taking(s)) = {})'
    BY <1>1, <1>2, <1>4 DEF SupplementOf, Taking
  <2>2. (pc[s] \in Polled => \A c \in InHand(s) : Claimed(c))'
    BY <1>1, <1>2, <1>4 DEF SupplementOf, InHand, Taking, Claimed
  <2>3. \A c \in held[s] : row[c].st # "consumed"
    BY <1>1 DEF SupplementOf
  <2>4. (\A c \in plan[s].graph.pending \ graph.pending : row[c].st # "consumed")'
    BY <1>2, <1>4, <2>3
  <2> QED
    BY <1>1, <1>2, <1>4, <2>1, <2>2, <2>4 DEF SupplementOf
<1> QED
  BY <1>1, <1>5, OwnStepKeepsSupplements DEF EnterNode

\* Marking: first the handle forgets what the node took, then its row is concluded.
LEMMA MarkingKeepsSupplements ==
    ASSUME SupplementContext, NEW s \in Streams, MarkTake(s) \/ MarkSettle(s)
    PROVE  SupplementInvariant'
<1> USE CommandAssumption
<1> USE DEF SupplementContext, TypeInvariant, TypeOK, leaseVars, streamVars,
            coordinatorVars, handleVars, taskVars, apiVars
<1>1. /\ pc[s] \in Engaged /\ pc[s] \in Registered /\ pc[s] \notin BeforePoll
      /\ SupplementOf(s) /\ InNode(s)
  BY DEF MarkTake, MarkSettle, Working, KeeperInvariant, Engaged, Registered, AtWork,
         BeforePoll, SupplementInvariant, InNode
<1>2. plan[s].handle = s /\ plan[s] \in PlanType
  BY <1>1 DEF SupplementOf
<1>3. CASE MarkTake(s)
  <2>1. /\ UNCHANGED <<row, epoch, graph, pc, plan, carried>>
        /\ held' = [held EXCEPT ![s] = @ \ Concluded(s)]
        /\ work' = [work EXCEPT ![s] = IF sinks[s] THEN "marking" ELSE "marked"]
        /\ work[s] = "node"
    BY <1>2, <1>3 DEF MarkTake, HandleForgets
  <2>2. plan[s].consume \subseteq Concluded(s)
    BY DEF Concluded
  <2>3. SupplementOf(s)'
    BY <1>1, <2>1, <2>2 DEF SupplementOf, Taking, InHand, InNode, Claimed
  <2> QED
    BY <1>1, <2>1, <2>3, OwnStepKeepsSupplements
<1>4. CASE MarkSettle(s)
  <2>1. /\ UNCHANGED <<epoch, graph, pc, plan, carried, held>>
        /\ work' = [work EXCEPT ![s] = "marked"]
        /\ work[s] = "marking"
    BY <1>4 DEF MarkSettle
  <2>2. \A c \in Commands :
            /\ row'[c].st = "consumed" => row[c].st = "consumed" \/ c \in plan[s].consume
            /\ Claimed(c) => Claimed(c)'
    BY <1>4 DEF MarkSettle, Settle, IsOpen, Claimed, RowType, Conclusions
  <2>3. SupplementOf(s)'
    <3>1. (carried[s] \cap (held[s] \cup Taking(s)) = {})'
      BY <1>1, <2>1 DEF SupplementOf, Taking
    <3>2. (pc[s] \in Polled => \A c \in InHand(s) : Claimed(c))'
      BY <1>1, <2>1, <2>2 DEF SupplementOf, InHand, Taking, Commands
    <3>3. (\A c \in (held[s] \cup carried[s]) \ {Cancel} : row[c].st # "consumed")'
      BY <1>1, <2>1, <2>2 DEF SupplementOf, Commands
    <3>4. (\A c \in plan[s].graph.pending \ graph.pending : row[c].st # "consumed")'
      BY <1>1, <1>2, <2>1, <2>2 DEF SupplementOf, Commands, PlanType, GraphType
    <3> QED
      BY <1>1, <2>1, <3>1, <3>2, <3>3, <3>4 DEF SupplementOf, InNode
  <2> QED
    BY <1>1, <2>1, <2>3, OwnStepKeepsSupplements
<1> QED
  BY <1>3, <1>4

\* The workflow leaves its node, with a checkpoint or for good.
LEMMA LeavingNodeKeepsSupplements ==
    ASSUME SupplementContext, NEW s \in Streams,
           \/ Checkpoint(s) \/ Kill(s)
           \/ Obey(s) \/ Deliver(s) \/ RaiseGate(s) \/ FinalizerFails(s) \/ Fail(s)
    PROVE  SupplementInvariant'
<1> USE DEF SupplementContext, TypeInvariant, TypeOK, leaseVars, streamVars,
            coordinatorVars, handleVars, taskVars, apiVars
<1>1. /\ UNCHANGED <<row, epoch, pc, held, carried>>
      /\ work'[s] \in {"boundary", "ended"}
      /\ \A t \in Streams \ {s} : work'[t] = work[t]
  BY DEF Checkpoint, Kill, Obey, Deliver, RaiseGate, FinalizerFails, Fail, End
<1>2. Working(s)
  BY DEF Checkpoint, Kill, Obey, Deliver, RaiseGate, FinalizerFails, Fail, JustWorks,
         Working
<1>3. pc[s] \in Engaged /\ SupplementOf(s)
  BY <1>2 DEF KeeperInvariant, Engaged, Registered, SupplementInvariant
<1>4. SupplementOf(s)'
  BY <1>1, <1>3 DEF SupplementOf, Taking, InHand, InNode, Claimed
<1> QED
  BY <1>1, <1>3, <1>4, OwnStepKeepsSupplements

\* The response starts its workflow, or is cut off; the coordinator is taken off the
\* handle and gives back what it holds.
LEMMA ResponseKeepsSupplements ==
    ASSUME SupplementContext, NEW s \in Streams,
           StartWorkflow(s) \/ Disconnect(s) \/ Detach(s) \/ Unclaim(s)
    PROVE  SupplementInvariant'
<1> USE DEF SupplementContext, TypeInvariant, TypeOK, leaseVars, streamVars,
            coordinatorVars, handleVars, taskVars, apiVars
<1>1. /\ pc[s] \in Engaged /\ pc[s] \in Registered
      /\ SupplementOf(s)
      /\ pc[s] \in {"primed", "starting"} => ~Working(s)
  BY DEF StartWorkflow, Disconnect, Detach, Unclaim, Engaged, Registered, AtWork,
         SupplementInvariant, KeeperInvariant
<1>2. CASE StartWorkflow(s)
  <2>1. /\ UNCHANGED <<row, epoch, graph, held, carried, plan>>
        /\ work'[s] \in {"boundary", "ended"}
        /\ pc'[s] = "streaming" /\ pc[s] = "starting"
        /\ \A t \in Streams \ {s} : pc'[t] = pc[t] /\ work'[t] = work[t]
    BY <1>2 DEF StartWorkflow
  <2>2. SupplementOf(s)'
    BY <1>1, <2>1 DEF SupplementOf, Taking, InHand, InNode, Claimed, BeforePoll, Polled,
                      Registered, AtWork
  <2> QED
    BY <1>1, <2>1, <2>2, OwnStepKeepsSupplements
<1>3. CASE Disconnect(s)
  <2>1. /\ UNCHANGED <<row, epoch, graph, held, work, plan>>
        /\ carried'[s] \subseteq carried[s]
        /\ pc'[s] = "exiting" /\ pc[s] \in {"primed", "starting", "streaming"}
        /\ \A t \in Streams \ {s} : pc'[t] = pc[t] /\ carried'[t] = carried[t]
    BY <1>3 DEF Disconnect, Leave
  <2>2. SupplementOf(s)'
    BY <1>1, <2>1 DEF SupplementOf, Taking, InHand, InNode, Claimed, BeforePoll, Polled,
                      Registered, AtWork, Working
  <2> QED
    BY <1>1, <2>1, <2>2, OwnStepKeepsSupplements
<1>4. CASE Detach(s)
  <2>1. /\ UNCHANGED <<row, epoch, graph, held, work, plan>>
        /\ carried'[s] = {} /\ pc'[s] = "unclaiming"
        /\ \A t \in Streams \ {s} : pc'[t] = pc[t] /\ carried'[t] = carried[t]
    BY <1>4 DEF Detach
  <2>2. SupplementOf(s)'
    BY <1>1, <2>1 DEF SupplementOf, InNode, BeforePoll, Polled, Registered, AtWork
  <2> QED
    BY <1>1, <2>1, <2>2, OwnStepKeepsSupplements
<1>5. CASE Unclaim(s)
  <2>1. /\ UNCHANGED <<epoch, graph, held, carried, work, plan>>
        /\ pc'[s] = "draining"
        /\ \A t \in Streams \ {s} : pc'[t] = pc[t]
    BY <1>5 DEF Unclaim
  <2>2. \A c \in Commands : row'[c].st = "consumed" => row[c].st = "consumed"
    BY <1>5 DEF Unclaim, ReleaseClaims, RowType
  <2>3. (\A c \in (held[s] \cup carried[s]) \ {Cancel} : row[c].st # "consumed")'
    BY <1>1, <2>1, <2>2 DEF SupplementOf, Commands
  <2>4. (InNode(s) =>
          /\ plan[s].handle = s
          /\ graph.applied \subseteq plan[s].graph.applied
          /\ plan[s].consume # {} => plan[s].graph.pending = {}
          /\ \A c \in plan[s].graph.pending \ graph.pending : row[c].st # "consumed")'
    <3>1. plan[s].graph.pending \subseteq Commands
      BY DEF PlanType, GraphType, Commands
    <3>2. InNode(s)' <=> InNode(s)
      BY <2>1 DEF InNode
    <3>3. InNode(s) =>
            \A c \in plan[s].graph.pending \ graph.pending : row'[c].st # "consumed"
      BY <1>1, <2>2, <3>1 DEF SupplementOf
    <3> QED
      BY <1>1, <2>1, <3>2, <3>3 DEF SupplementOf
  <2>5. SupplementOf(s)'
    <3>1. (carried[s] \cap (held[s] \cup Taking(s)) = {})'
      BY <1>1, <2>1 DEF SupplementOf, Taking
    <3>2. (work[s] = "marking" => plan[s].consume \cap (held[s] \cup carried[s]) = {})'
      BY <1>1, <2>1 DEF SupplementOf
    <3>3. pc'[s] \notin BeforePoll \cup Polled
      BY <2>1 DEF BeforePoll, Polled
    <3> QED
      BY <2>3, <2>4, <3>1, <3>2, <3>3 DEF SupplementOf
  <2> QED
    BY <1>1, <2>1, <2>5, OwnStepKeepsSupplements
<1> QED
  BY <1>2, <1>3, <1>4, <1>5

\* A stream that is over takes its handle with it; so does the process.
LEMMA GoingKeepsSupplements ==
    ASSUME SupplementContext, (\E s \in Streams : Unregister(s)) \/ Crash
    PROVE  SupplementInvariant'
<1> USE DEF SupplementContext, TypeInvariant, TypeOK, leaseVars, streamVars,
            coordinatorVars, handleVars, taskVars, apiVars
<1>1. ASSUME NEW s \in Streams, Unregister(s)
      PROVE  SupplementInvariant'
  <2>1. /\ UNCHANGED <<row, epoch, graph, carried, work, plan>>
        /\ held'[s] = {} /\ pc[s] \in {"leaving", "detached"}
        /\ pc'[s] \in {"closed", "returning"}
        /\ \A t \in Streams \ {s} : pc'[t] = pc[t] /\ held'[t] = held[t]
        /\ ~Working(s)
    BY SMTT(30), <1>1 DEF Unregister, KeeperInvariant, AtWork
  <2>2. QuietStep
    BY <2>1 DEF QuietStep, Claimed
  <2>3. SupplementOf(s)'
    BY <2>1 DEF SupplementInvariant, SupplementOf, BeforePoll, Polled, Registered, AtWork,
                Taking, InNode, Working
  <2>4. ASSUME NEW t \in Streams \ {s}
        PROVE  SupplementOf(t)'
    <3>1. SupplementOf(t) /\ (pc[t] \in BeforePoll => ~Working(t))
      BY DEF SupplementInvariant, KeeperInvariant, AtWork, BeforePoll
    <3> QED
      BY SMTT(30), <2>1, <2>2, <3>1, QuietKeeps
  <2> QED
    BY <2>3, <2>4 DEF SupplementInvariant
<1>2. CASE Crash
  BY <1>2 DEF Crash, SupplementInvariant, SupplementOf, BeforePoll, Polled, Registered,
              AtWork, Taking, InNode
<1> QED
  BY <1>1, <1>2

LEMMA SupplementStep ==
    TypeInvariant /\ TypeInvariant' /\ KeeperInvariant /\ SupplementInvariant /\ [Next]_vars
        => SupplementInvariant'
<1> SUFFICES ASSUME SupplementContext, [Next]_vars
             PROVE  SupplementInvariant'
  BY DEF SupplementContext
<1>1. ASSUME NEW s \in Streams, ResponseStep(s)
      PROVE  SupplementInvariant'
  BY <1>1, LeasingKeepsSupplements, LeavingKeepsSupplements, PollKeepsSupplements,
     ResponseKeepsSupplements, GoingKeepsSupplements DEF ResponseStep
<1>2. ASSUME NEW s \in Streams, NodeStep(s) \/ Kill(s)
      PROVE  SupplementInvariant'
  BY <1>2, EnteringKeepsSupplements, MarkingKeepsSupplements, LeavingNodeKeepsSupplements
     DEF NodeStep
<1>3. ASSUME NEW s \in Streams,
             Ask(s) \/ ClaimLease(s) \/ PollStep(s) \/ Disconnect(s) \/ LoseLease(s)
      PROVE  SupplementInvariant'
  BY <1>3, LeasingKeepsSupplements, PollKeepsSupplements, ResponseKeepsSupplements
     DEF PollStep
<1>4. CASE \/ \E u \in Callers : CallAction(u)
           \/ \E c \in Supplements : AskSupplement(c) \/ QueueSupplement(c)
           \/ SweepStep \/ Expire \/ UNCHANGED vars
  BY <1>4, OutsideKeepsSupplements
<1>5. CASE Crash
  BY <1>5, GoingKeepsSupplements
<1> QED
  BY <1>1, <1>2, <1>3, <1>4, <1>5 DEF Next

LEMMA SupplementInit == Init => SupplementInvariant
BY DEF Init, SupplementInvariant, SupplementOf, Polled, Registered, AtWork, Taking, InNode

\* Only a checkpoint changes what the graph knows of amendments.
LEMMA GraphChangesAtCheckpoints ==
    ASSUME [Next]_vars, ~\E s \in Streams : Checkpoint(s)
    PROVE  graph' = graph
<1>1. ASSUME NEW s \in Streams, ResponseStep(s)
      PROVE  graph' = graph
  BY <1>1 DEF ResponseStep, ClaimStatus, Register, Abandon, StartWorkflow, AnswerStopped,
       AnswerGate, AnswerDelivered, AnswerFailed, StopWorkflow, Converge, ReadVerdict,
       WriteVerdict, Detach, Unclaim, Drain, ReleaseLease, Unregister, PollClaim
<1>2. ASSUME NEW s \in Streams,
             \/ Ask(s) \/ ClaimLease(s) \/ PollStep(s) \/ NodeStep(s)
             \/ Kill(s) \/ Disconnect(s) \/ LoseLease(s)
      PROVE  graph' = graph
  BY <1>2 DEF Ask, ClaimLease, PollStep, PollClaim, PollDeliver, NodeStep, EnterNode,
       MarkTake, MarkSettle, Obey, Deliver, RaiseGate, FinalizerFails, Fail, Kill,
       Disconnect, LoseLease
<1>3. ASSUME NEW u \in Callers, CallAction(u)
      PROVE  graph' = graph
  BY <1>3 DEF CallAction, CallRead, CallProbe, CallEnqueue, CallCancel, CallFinish,
       CallConsume, CallRefuse, CallStep
<1>4. ASSUME NEW c \in Supplements, AskSupplement(c) \/ QueueSupplement(c)
      PROVE  graph' = graph
  BY <1>4 DEF AskSupplement, QueueSupplement
<1>5. CASE SweepStep \/ Expire \/ Crash \/ UNCHANGED vars
  BY <1>5 DEF SweepStep, SweepList, SweepClear, SweepStatus, SweepSettle, SweepInactive,
       SweepRelease, Expire, Crash, vars
<1> QED
  BY <1>1, <1>2, <1>3, <1>4, <1>5 DEF Next

\* INV-CMD-005 for any number of supplements, streams and restarts, while a lease stays
\* with its keeper: what the request contract has taken up stays taken up, and comes
\* back into the checkpoint at most as long as its receipt does not say "consumed".
THEOREM SupplementsEnterOnce ==
    ASSUME LeasesStay
    PROVE  Spec => SupplementEntersOnce
<1> DEFINE EntersOnce ==
      \A c \in graph.applied \ graph.pending :
        c \in graph'.applied /\ (c \in graph'.pending => row[c].st # "consumed")
<1>1. Spec => []SupplementInvariant
  BY SupplementInit, SupplementStep, TypesAlways, KeeperAlways, PTL DEF Spec
<1>2. SupplementInvariant /\ [Next]_vars => EntersOnce
  <2> SUFFICES ASSUME SupplementInvariant, [Next]_vars
               PROVE  EntersOnce
    OBVIOUS
  <2>1. ASSUME NEW s \in Streams, Checkpoint(s)
        PROVE  EntersOnce
    <3>1. InNode(s) /\ graph' = plan[s].graph
      BY <2>1 DEF Checkpoint, InNode
    <3> QED
      BY <3>1 DEF SupplementInvariant, SupplementOf
  <2>2. CASE graph' = graph
    BY <2>2
  <2> QED
    BY <2>1, <2>2, GraphChangesAtCheckpoints
<1> QED
  BY <1>1, <1>2, PTL DEF Spec, SupplementEntersOnce

=============================================================================
