----------------------------- MODULE ModelCalls -----------------------------
(***************************************************************************)
(* The model and tool calls of one run: the channel they queue in          *)
(* (ChannelGate), the budget they are counted against                      *)
(* (workflows/run_budget.py), the retries and the stand-in of a tool       *)
(* (agents/utils.py, execute_tool), and the way of a call's usage record   *)
(* through the recorder of the process into run_llm_calls.                 *)
(*                                                                         *)
(* The run's nodes execute in streams, one after the other; a stream may   *)
(* end early, and the process may crash.                                   *)
(***************************************************************************)
EXTENDS ChannelGate

CONSTANTS
    Workers,      \* nodes of the run that execute at the same time
    Guests,       \* other users of the channel: no budget, no window
    Flushers,     \* the responses that drain the recorder, of this run and of others
    MaxLLM,       \* run_budget.max_llm_calls
    MaxTools,     \* run_budget.max_tool_calls
    MaxRetries,   \* run_budget.max_tool_retries_per_target
    Attempts,     \* execute_tool: max_retries + 1
    BufferMax,    \* UsageRecorder's maxlen
    Faults,       \* what may go wrong: "seed", "flush", "flush_cancelled", "crash"
    MaxOps,       \* bound: MaxOps[c] is how many calls c starts
    MaxStreams    \* bound: the streams of the run

ASSUME CallsAssumption ==
    /\ Callers = Workers \union Guests
    /\ Workers \intersect Guests = {}
    /\ {MaxLLM, MaxTools, Attempts, BufferMax, MaxStreams} \subseteq Nat \ {0}
    /\ MaxRetries \in Nat
    /\ MaxOps \in [Callers -> Nat]
    /\ Faults \subseteq {"seed", "flush", "flush_cancelled", "crash"}

VARIABLES
    pc,          \* pc[c]: where a caller is
    ops,         \* ops[c]: calls started
    attempt,     \* attempt[w]: the attempt of the tool call in hand
    ledger,      \* the entry of the run in _LEDGERS
    baseline,    \* baseline[w]: the summary w has read and not applied yet
    closed,      \* the window of the run's calls is closed
    stop,        \* the stop signal of the stream's handle
    toCancel,    \* the nodes that still have to see their CancelledError
    stream,      \* the number of the current stream
    charged,     \* ghost: the model calls of the run so far; a call's id is its number
    recorder,    \* UsageRecorder._buffer
    dropped,     \* UsageRecorder._dropped
    batch,       \* batch[f]: what flusher f has drained and not handed on
    durable,     \* run_llm_calls
    lost,        \* ghost: ids that went with a crash or with a cancelled flush
    blind        \* ghost: a guard has passed a call while the ledger knew too little

nodeVars == <<pc, ops, attempt, baseline>>
usageVars == <<charged, recorder, dropped>>
flushVars == <<batch, durable, lost>>
runVars == <<closed, stop, toCancel, stream>>
vars == <<gateVars, nodeVars, ledger, runVars, usageVars, flushVars, blind>>

\* Where a caller is.  out, left: before and after its node.  seeding: awaiting the
\* baseline.  node: between calls.  queued, flight: a model call.  lookup,
\* provider, backoff, standin: the awaits of execute_tool.
Places == {"out", "seeding", "node", "queued", "flight", "lookup", "provider",
           "backoff", "standin", "left"}
Gone == {"out", "left"}
NoBaseline == -1
NoLedger == [open |-> FALSE, seeded |-> FALSE, calls |-> 0, tools |-> 0, retries |-> 0]
NewLedger == [NoLedger EXCEPT !.open = TRUE]

Init ==
    /\ GateInit
    /\ pc = [c \in Callers |-> "out"]
    /\ ops = [c \in Callers |-> 0]
    /\ attempt = [w \in Workers |-> 0]
    /\ ledger = NoLedger
    /\ baseline = [w \in Workers |-> NoBaseline]
    /\ closed = FALSE
    /\ stop = FALSE
    /\ toCancel = {}
    /\ stream = 1
    /\ charged = 0
    /\ recorder = <<>>
    /\ dropped = 0
    /\ batch = [f \in Flushers |-> <<>>]
    /\ durable = {}
    /\ lost = {}
    /\ blind = FALSE

Go(c, place) == pc' = [pc EXCEPT ![c] = place]

\* remaining_model_seconds: it raises after a stop, or once the window is closed.
Refused == stop \/ closed

\* Where the node is after a call was refused: a stop ends it, a closed window or an
\* exhausted budget is a partial result it goes on with.
AfterRefusal == IF stop THEN "left" ELSE "node"
-----------------------------------------------------------------------------
\* The budget.

\* exhausted_dimension for one more model call, and for one more tool call.
NoModelCallLeft == ledger.calls + 1 > MaxLLM \/ ledger.tools > MaxTools
NoToolCallLeft == ledger.tools + 1 > MaxTools \/ ledger.calls > MaxLLM

\* with_run_control up to the node's body: the first boundary of a process reads the
\* baseline.  The ledger counts as seeded before the summary is there.
Enter(w) ==
    /\ pc[w] = "out"
    /\ ~stop
    /\ IF closed
       THEN Go(w, "left") /\ ledger' = ledger
       ELSE /\ ledger' = [(IF ledger.open THEN ledger ELSE NewLedger) EXCEPT !.seeded = TRUE]
            /\ Go(w, IF ledger.seeded THEN "node" ELSE "seeding")
    /\ UNCHANGED <<gateVars, ops, attempt, baseline, runVars, usageVars, flushVars, blind>>

\* run_summary's SELECT.
ReadBaseline(w) ==
    /\ pc[w] = "seeding"
    /\ baseline[w] = NoBaseline
    /\ baseline' = [baseline EXCEPT ![w] = Cardinality(durable)]
    /\ UNCHANGED <<gateVars, pc, ops, attempt, ledger, runVars, usageVars, flushVars, blind>>

\* The summary replaces what the ledger has counted meanwhile.
ApplyBaseline(w) ==
    /\ baseline[w] # NoBaseline
    /\ ledger' = [ledger EXCEPT !.calls = baseline[w]]
    /\ baseline' = [baseline EXCEPT ![w] = NoBaseline]
    /\ Go(w, "node")
    /\ UNCHANGED <<gateVars, ops, attempt, runVars, usageVars, flushVars, blind>>

\* The ledger table cannot be read: the run starts from what the process knows.
SeedFails(w) ==
    /\ "seed" \in Faults
    /\ pc[w] = "seeding"
    /\ baseline' = [baseline EXCEPT ![w] = NoBaseline]
    /\ Go(w, "node")
    /\ UNCHANGED <<gateVars, ops, attempt, ledger, runVars, usageVars, flushVars, blind>>

LeaveNode(w) ==
    /\ pc[w] = "node"
    /\ Go(w, "left")
    /\ UNCHANGED <<gateVars, ops, attempt, baseline, ledger, runVars, usageVars, flushVars, blind>>
-----------------------------------------------------------------------------
\* A model call.

MayStart(w) ==
    /\ pc[w] = "node"
    /\ ops[w] < MaxOps[w]
    /\ ops' = [ops EXCEPT ![w] = @ + 1]

\* Mutant of Record: the recorder keeps them all.
RecordUnbounded ==
    /\ recorder' = Append(recorder, charged')
    /\ dropped' = dropped

\* UsageRecorder.record: the oldest record of a full buffer makes room.
Record ==
    /\ recorder' = LET all == Append(recorder, charged')
                   IN  IF Len(all) > BufferMax THEN Tail(all) ELSE all
    /\ dropped' = IF Len(recorder) >= BufferMax THEN dropped + 1 ELSE dropped

Charge == ledger' = [ledger EXCEPT !.calls = @ + 1]

\* _emit: the call is recorded and charged, whatever became of it.
Emit ==
    /\ charged' = charged + 1
    /\ Record
    /\ Charge

NoEmit == UNCHANGED <<usageVars, ledger>>

\* ainvoke up to its first await: the guard, the window, and a place in the channel.
StartModelCall(w) ==
    /\ MayStart(w)
    /\ IF NoModelCallLeft
       THEN Go(w, "node") /\ NoEmit /\ UNCHANGED <<gateVars, blind>>
       ELSE /\ blind' = (blind \/ ledger.calls < charged)
            /\ IF Refused
               THEN Emit /\ Go(w, AfterRefusal) /\ UNCHANGED gateVars
               ELSE /\ NoEmit
                    /\ \/ Admit(w) /\ Go(w, "flight")
                       \/ Enqueue(w) /\ Go(w, "queued")
    /\ UNCHANGED <<attempt, baseline, runVars, flushVars>>

\* The slot is there.  await_model_operation asks for the window once more; a
\* refusal gives the slot back, which is one turn of the event loop.
TakeSlot(w) ==
    /\ Proceed(w)
    /\ Go(w, "flight")
    /\ NoEmit
    /\ UNCHANGED <<ops, attempt, baseline, runVars, flushVars, blind>>

\* The answer, the provider's error, the end of the window, or its refusal.
EndModelCall(w) ==
    /\ pc[w] = "flight"
    /\ Release
    /\ Emit
    /\ Go(w, "node") \/ Go(w, AfterRefusal)
    /\ UNCHANGED <<ops, attempt, baseline, runVars, flushVars, blind>>

\* The queue wait is what the window leaves: ChannelBusy.
QueueTimesOut(w) ==
    /\ closed
    /\ w \in Queued
    /\ GiveUp(w)
    /\ Emit
    /\ Go(w, "node")
    /\ UNCHANGED <<ops, attempt, baseline, runVars, flushVars, blind>>
-----------------------------------------------------------------------------
\* A tool call.

\* Mutant of Reserve: the guard of the entry is enough.
ReserveUnguarded(w, place, n) ==
    /\ ledger' = [ledger EXCEPT !.tools = @ + 1, !.retries = @ + (IF n > 1 THEN 1 ELSE 0)]
    /\ attempt' = [attempt EXCEPT ![w] = n]
    /\ Go(w, place)

\* reserve_tool_call: judged and counted in one go, before every provider call.
Reserve(w, place, n) ==
    IF NoToolCallLeft
    THEN /\ attempt' = [attempt EXCEPT ![w] = 0]
         /\ Go(w, "node")
         /\ ledger' = ledger
    ELSE /\ ledger' = [ledger EXCEPT !.tools = @ + 1, !.retries = @ + (IF n > 1 THEN 1 ELSE 0)]
         /\ attempt' = [attempt EXCEPT ![w] = n]
         /\ Go(w, place)

\* Attempt n of the loop: the window first.
TryProvider(w, n) ==
    IF Refused
    THEN /\ attempt' = [attempt EXCEPT ![w] = 0]
         /\ Go(w, AfterRefusal)
         /\ ledger' = ledger
    ELSE Reserve(w, "provider", n)

ToolStep == UNCHANGED <<gateVars, baseline, runVars, usageVars, flushVars, blind>>

\* ToolGateway.before_call: the allowlist, the manifest or the dates stop the call.
GatewayBlocks(w) == Go(w, "node")

\* The entry of execute_tool: the gateway may block the call; window, budget and
\* the retries the tool has used up may refuse it; then the snapshot cache is asked.
StartToolCall(w) ==
    /\ MayStart(w)
    /\ \/ GatewayBlocks(w)
       \/ Refused /\ Go(w, AfterRefusal)
       \/ /\ ~Refused
          /\ ~NoToolCallLeft
          /\ ledger.retries < MaxRetries
          /\ Go(w, "lookup")
    /\ UNCHANGED <<attempt, ledger>>
    /\ ToolStep

\* A hit is the answer; a miss, or a cache that is away, means a live call.
LookUp(w) ==
    /\ pc[w] = "lookup"
    /\ \/ Go(w, "node") /\ UNCHANGED <<attempt, ledger>>
       \/ TryProvider(w, 1)
    /\ UNCHANGED ops
    /\ ToolStep

\* A call that has failed may have a stand-in, which is one more provider call.
StandIn(w) == Reserve(w, "standin", 0)

\* The provider answers, fails for good or for now; the window may end the wait.
EndAttempt(w) ==
    /\ pc[w] = "provider"
    /\ \/ /\ Go(w, "node")
          /\ attempt' = [attempt EXCEPT ![w] = 0]
          /\ ledger' = ledger
       \/ /\ attempt[w] < Attempts
          /\ Go(w, "backoff")
          /\ UNCHANGED <<attempt, ledger>>
       \/ StandIn(w)
    /\ UNCHANGED ops
    /\ ToolStep

Retry(w) ==
    /\ pc[w] = "backoff"
    /\ TryProvider(w, attempt[w] + 1)
    /\ UNCHANGED ops
    /\ ToolStep

EndStandIn(w) ==
    /\ pc[w] = "standin"
    /\ Go(w, "node")
    /\ UNCHANGED <<ops, attempt, ledger>>
    /\ ToolStep
-----------------------------------------------------------------------------
\* The other users of the channel: calls without a run, or before its window is open.

GuestStep == /\ UNCHANGED <<attempt, baseline, ledger, runVars, usageVars, flushVars, blind>>

GuestStarts(g) ==
    /\ pc[g] = "out"
    /\ ops[g] < MaxOps[g]
    /\ ops' = [ops EXCEPT ![g] = @ + 1]
    /\ \/ Admit(g) /\ Go(g, "flight")
       \/ Enqueue(g) /\ Go(g, "queued")
    /\ GuestStep

GuestTakesSlot(g) == Proceed(g) /\ Go(g, "flight") /\ UNCHANGED ops /\ GuestStep

\* max_queue_wait_seconds, or the guest's own cancellation.
GuestGivesUp(g) == GiveUp(g) /\ Go(g, "out") /\ UNCHANGED ops /\ GuestStep

GuestEnds(g) == pc[g] = "flight" /\ Release /\ Go(g, "out") /\ UNCHANGED ops /\ GuestStep
-----------------------------------------------------------------------------
\* The records.

FlushStep == UNCHANGED <<gateVars, nodeVars, ledger, runVars, charged, blind>>

\* flush_usage_updates or finalize_cost_summary: drain takes everything.
Drain(f) ==
    /\ batch[f] = <<>>
    /\ recorder # <<>>
    /\ batch' = [batch EXCEPT ![f] = recorder]
    /\ recorder' = <<>>
    /\ UNCHANGED <<dropped, durable, lost>>
    /\ FlushStep

\* record_calls: one transaction, an id that is there already is skipped.
FlushReturns(f) ==
    /\ batch[f] # <<>>
    /\ durable' = durable \union Range(batch[f])
    /\ batch' = [batch EXCEPT ![f] = <<>>]
    /\ UNCHANGED <<recorder, dropped, lost>>
    /\ FlushStep

\* A call of record_calls that does not return may have got through all the same.
MayHaveCommitted(f) == durable' \in {durable, durable \union Range(batch[f])}

\* Mutant of FlushFails: the failure is logged and the batch forgotten.
FlushFailsQuietly(f) ==
    /\ "flush" \in Faults
    /\ batch[f] # <<>>
    /\ MayHaveCommitted(f)
    /\ batch' = [batch EXCEPT ![f] = <<>>]
    /\ UNCHANGED <<lost, recorder, dropped>>
    /\ FlushStep

\* requeue puts the batch back in front, and the newest records make room.
FlushFails(f) ==
    /\ "flush" \in Faults
    /\ batch[f] # <<>>
    /\ MayHaveCommitted(f)
    /\ LET all == batch[f] \o recorder
       IN  /\ recorder' = SubSeq(all, 1, IF Len(all) > BufferMax THEN BufferMax ELSE Len(all))
           /\ dropped' = dropped + Len(all) - Len(recorder')
    /\ batch' = [batch EXCEPT ![f] = <<>>]
    /\ lost' = lost
    /\ FlushStep

\* The client goes away during the flush: CancelledError is no Exception.
FlushCancelled(f) ==
    /\ "flush_cancelled" \in Faults
    /\ batch[f] # <<>>
    /\ MayHaveCommitted(f)
    /\ lost' = lost \union (Range(batch[f]) \ durable')
    /\ batch' = [batch EXCEPT ![f] = <<>>]
    /\ UNCHANGED <<recorder, dropped>>
    /\ FlushStep
-----------------------------------------------------------------------------
\* The stream around the nodes.

\* The run's deadline passes the end of the window.
WindowCloses ==
    /\ ~closed
    /\ closed' = TRUE
    /\ UNCHANGED <<gateVars, nodeVars, ledger, stop, toCancel, stream, usageVars, flushVars, blind>>

\* The stream exits: the stop signal, and the task is cancelled.
ExitStream ==
    /\ ~stop
    /\ stop' = TRUE
    /\ toCancel' = {w \in Workers : pc[w] \notin Gone}
    /\ UNCHANGED <<gateVars, nodeVars, ledger, closed, stream, usageVars, flushVars, blind>>

\* The CancelledError arrives at the node's await.  A wait for a slot that is already
\* granted may swallow it: the call goes on.
CancelNode(w) ==
    /\ w \in toCancel
    /\ toCancel' = toCancel \ {w}
    /\ \/ w \in woken /\ UNCHANGED <<gateVars, pc>> /\ NoEmit
       \/ w \in Queued /\ GiveUp(w) /\ Emit /\ Go(w, "left")
       \/ pc[w] = "flight" /\ Release /\ Emit /\ Go(w, "left")
       \/ pc[w] \notin {"queued", "flight"} /\ Go(w, "left") /\ UNCHANGED gateVars /\ NoEmit
    /\ baseline' = [baseline EXCEPT ![w] = NoBaseline]
    /\ attempt' = [attempt EXCEPT ![w] = 0]
    /\ UNCHANGED <<ops, closed, stop, stream, flushVars, blind>>

\* The stream is over: release_ledger; the next stream starts its nodes anew.
NextStream ==
    /\ stream < MaxStreams
    /\ \A w \in Workers : pc[w] = "left" \/ (stop /\ pc[w] = "out")
    /\ stream' = stream + 1
    /\ pc' = [c \in Callers |-> IF c \in Workers THEN "out" ELSE pc[c]]
    /\ ledger' = NoLedger
    /\ stop' = FALSE
    /\ toCancel' = {}
    /\ UNCHANGED <<gateVars, ops, attempt, baseline, closed, usageVars, flushVars, blind>>

Crash ==
    /\ "crash" \in Faults
    /\ stream < MaxStreams
    /\ stream' = stream + 1
    /\ permits' = Slots /\ waiters' = <<>> /\ woken' = {} /\ active' = 0 /\ waiting' = 0
    /\ pc' = [c \in Callers |-> "out"]
    /\ attempt' = [w \in Workers |-> 0]
    /\ baseline' = [w \in Workers |-> NoBaseline]
    /\ ledger' = NoLedger
    /\ stop' = FALSE
    /\ toCancel' = {}
    /\ recorder' = <<>>
    /\ lost' = (1..charged) \ durable
    /\ batch' = [f \in Flushers |-> <<>>]
    /\ UNCHANGED <<ops, closed, charged, dropped, durable, blind>>
-----------------------------------------------------------------------------
NodeStep(w) ==
    \/ Enter(w) \/ ReadBaseline(w) \/ ApplyBaseline(w) \/ SeedFails(w) \/ LeaveNode(w)
    \/ StartModelCall(w) \/ TakeSlot(w) \/ EndModelCall(w) \/ QueueTimesOut(w)
    \/ StartToolCall(w) \/ LookUp(w) \/ EndAttempt(w) \/ Retry(w) \/ EndStandIn(w)
    \/ CancelNode(w)

GuestMoves(g) == GuestStarts(g) \/ GuestTakesSlot(g) \/ GuestGivesUp(g) \/ GuestEnds(g)

FlusherStep(f) ==
    Drain(f) \/ FlushReturns(f) \/ FlushFails(f) \/ FlushCancelled(f)

Next ==
    \/ \E w \in Workers : NodeStep(w)
    \/ \E g \in Guests : GuestMoves(g)
    \/ \E f \in Flushers : FlusherStep(f)
    \/ WindowCloses \/ ExitStream \/ NextStream \/ Crash

\* A request ends (the client library's timeout, or the window), and a task whose
\* future is resolved runs.
Fairness ==
    /\ \A w \in Workers : WF_vars(TakeSlot(w)) /\ WF_vars(EndModelCall(w))
    /\ \A g \in Guests : WF_vars(GuestTakesSlot(g)) /\ WF_vars(GuestEnds(g))

Spec == Init /\ [][Next]_vars /\ Fairness
-----------------------------------------------------------------------------
\* Properties.

TypeOK ==
    /\ GateTypeOK
    /\ pc \in [Callers -> Places]
    /\ \A c \in Callers : ops[c] \in 0..MaxOps[c]
    /\ attempt \in [Workers -> 0..Attempts]
    /\ ledger \in [open : BOOLEAN, seeded : BOOLEAN, calls : Nat, tools : Nat, retries : Nat]
    /\ baseline \in [Workers -> Nat \union {NoBaseline}]
    /\ closed \in BOOLEAN
    /\ stop \in BOOLEAN
    /\ toCancel \subseteq Workers
    /\ stream \in 1..MaxStreams
    /\ charged \in Nat
    /\ recorder \in Seq(1..charged) /\ Len(recorder) <= BufferMax
    /\ dropped \in Nat
    /\ \A f \in Flushers : batch[f] \in Seq(1..charged)
    /\ durable \union lost \subseteq 1..charged
    /\ blind \in BOOLEAN

\* However waits time out, calls are cancelled and windows close, a slot is free, on
\* its way to a waiter, or in use; the meters say which; and where somebody waits
\* beside a free slot, a woken waiter is about to run and to pass it on
\* (ChannelGate.hold around asyncio.Semaphore).
SlotsConserved ==
    /\ permits + Cardinality(woken) + active = Slots
    /\ active = Cardinality({c \in Callers : pc[c] = "flight"})
    /\ waiting = Cardinality({c \in Callers : pc[c] = "queued"})
    /\ Queued = {c \in Callers : pc[c] = "queued"}
    /\ permits > 0 /\ Queued # {} => woken # {}

InProgress == {w \in Workers : pc[w] \in {"queued", "flight"}}

\* The provider calls of tools never pass their limit, retries and stand-ins
\* included.  Model calls are counted when they end: what runs at the same time may
\* go over the limit, and nothing else may, unless the ledger knew too little.
BudgetHolds ==
    /\ ledger.tools <= MaxTools
    /\ ~blind => charged + Cardinality(InProgress) <= MaxLLM + Cardinality(Workers) - 1

\* Every model call is in the recorder, in a flush, or in run_llm_calls; a missing
\* one went with a crash or a cancelled flush, or is counted as dropped.
UsageAccounted ==
    LET held == Range(recorder) \union durable
                \union UNION {Range(batch[f]) : f \in Flushers}
    IN  Cardinality((1..charged) \ (held \union lost)) <= dropped

\* A call never waits for ever: every slot comes back, and goes to who waited first.
CallsEnd == \A c \in Callers : pc[c] = "queued" ~> pc[c] # "queued"

\* chat.py, flush_usage_updates: "绝不静默吞账（CB-02）", a flush that fails never
\* swallows a record.  Stated where no process crashes.
NoRecordSwallowed == lost = {}
=============================================================================
