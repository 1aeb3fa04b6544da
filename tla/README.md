# JourneyPilot in TLA+

JourneyPilot is a trip planner that runs on one machine: a FastAPI backend, a
LangGraph workflow on asyncio, PostgreSQL as the only durable truth, Redis, a
React client. A *TripRun* is one planning task. It takes minutes, spends model
and tool calls, is watched over a server-sent-event response, can be stopped
and amended while it works, and must survive closed tabs, failing writes and a
dying process. This directory specifies that machinery: who executes a run, what
its durable record says, what becomes of the commands sent to it, how the graph
of agents gets to an end, what its calls cost, how its events reach the browser,
and what may happen to the plan, the memory and the conversation afterwards.

The specifications are translated from the Python package
`src/src/travel_agent`. Paths below are relative to it; `docs/` is `src/docs/`.
`PROJECT.json` maps each definition to the lines it stands for.

## 1. The system

### Components, their state and their operations

| Component | State | Operations | Correct when |
| --- | --- | --- | --- |
| Execution lease: `infrastructure/run_execution_store.py`, `services/run_lease.py` | row of `trip_run_executions` (token, expiry, safe checkpoint); one keeper object per stream; one active-keeper slot per process | claim, start, heartbeat, safe checkpoint, lose, release, release all, sweep's takeover | one executor, which owns a live row; a dead executor's row becomes claimable |
| Run lifecycle: `infrastructure/trip_run_store.py`, `entities/trip_run.py` | `trip_runs.status`, `attempt`; mirror, pending choice, completion audit in `trip_run_states`; delivery events | create, transition, complete delivery, claim resume, snapshot, node update, request cancel | one delivery, sealed runs stay sealed, choice and attribution follow the status |
| Control commands: `infrastructure/run_command_store.py`, `services/run_commands.py` | rows of `trip_run_commands`; claims on their way to a handle | enqueue, claim, release, settle, settle all; coordinator start, poll, stop | one verdict per command, true to what happened; none stranded |
| Response stream: `api/routes/chat.py` | the coroutine of one response and its workflow task | resume, claim, register, start, answer, disconnect, converge, settle, stop, drain, release | whatever ends it, the run comes to rest and the lease goes back after the workflow ended |
| Cooperative control: `workflows/run_control.py`, `workflows/intent_amendments.py` | process-wide registry; handle (stop reason, supplements, delivery flag) | register, unregister, stop, node boundary, mark applied or rejected | the executor is reachable; a supplement enters the state once |
| Control API: `api/routes/trip_runs.py` | none of its own between transactions | stop a run (six transactions), add a supplement (two) | a stop reaches whoever executes, or cancels on the spot |
| Recovery sweep: `services/run_recovery.py` | the candidates it has read | list, take over, converge, settle, release | orphans never look active; live runs are left alone |
| Delivery finalizer and Bundle store: `workflows/delivery_finalizer.py`, `infrastructure/delivery_bundle_store.py` | Bundles, their head, commits by idempotency key | commit the first Bundle with the run's completion; later revisions, receipts, undo head | a replay delivers nothing new; one line of revisions |
| Workspace revisions: `services/workspace_v2_service.py`, `entities/workspace_v2_mutations.py`, `services/weather_bundle_refresh.py` | none of their own between reading, computing and committing | select, edit, dismiss, undo, weather refresh | no lost edit; undo is exact; a key has one answer; a refresh keeps the Bundle consistent |
| Background jobs: `services/background_jobs.py`, `infrastructure/background_job_store.py` | rows of `background_jobs` with lease, attempts, backoff; the batch of each worker | enqueue, claim, renew, complete, fail, retry, cancel | the latest claim's holder concludes; jobs end; a turn is learned from once |
| Session memory and compaction: `memory/chat_session.py`, `memory/compaction.py`, `memory/compressor.py`, `memory/context_builder.py` | timeline of events, anchor summary, compaction boundary; one lock per session and process | save a turn, load by pages, compact, clear | what is no longer read is in the anchor; a request's context has no gap |
| SSE buffer: `api/sse_buffer.py` | queue of critical frames and merged text, stall flag | put, get | bounded memory, no critical frame lost or reordered |
| Channels and gates: `utils/concurrency.py`, `utils/rate_gate.py`, `services/blocking_work.py` | semaphores and counters | hold, release | slots are never lost or exceeded |
| Budget, deadline, usage: `workflows/run_budget.py`, `workflows/run_deadline.py`, `models/usage.py` | in-process ledger and baseline, windows, buffer of usage records | reserve, count, seed after a restart, record, flush | spending stays in budget, resumed or not; no call is unaccounted for |
| Research graph: `workflows/travel_planning.py`, `agents/orchestrator`, `agents/scope`, the workers | the checkpointed state, the tasks of a superstep and their pending writes | planning and its approval, dispatch, research, gates and repairs, composition, delivery, supplements | ends; delivers nothing stale; fails last |

Not looked at further: the data inside candidates and compositions, retrieval,
tools and MCP servers, panels and presets, guardrails, model adapters, the
command line, database scripts, the frontend. They transform data around model
calls, or are clients of the above (see section 6 for two exceptions).

### How they interact

```
 request ──> lease.claim ──> status claim ──> registry.register ──> coordinator.poll ──> workflow task
                                                    ^                      |                  |
 control API ── enqueue ──> trip_run_commands <─────┼── claim / release ───┘   node boundary: reads the
      └──────── request_cancel ──> trip_runs.status │                          registry, checkpoint
                                        ^           └── deliver ──> handle ──> stop, supplements
 recovery sweep ── takeover ──> trip_run_executions ── interrupted / cancelled, verdicts
```

Everything durable is written in short transactions, so every `await` between
two of them is a place where another coroutine, another request or another
process may act. The hard behaviours are exactly those:

* **status read, then written** – the control request, the response's exit and
  the sweep each read the status in one transaction and act on it in another;
* **in-process state addressed by run id** – registry, active keeper; a late
  owner may meet its successor's entry;
* **time** – a lease expires while its owner believes in it, or stays while its
  owner is dead;
* **two stores, no common transaction** – command rows and the graph's
  checkpoint, status and verdict, claim and delivery to the handle;
* **counters, events and budgets kept by hand** – the two limits of the event
  buffer, a semaphore and its meter, seven rings of a graph, each with a counter;
* **optimistic commits** – computed on a copy, compared with a version, sent
  again under the same key;
* **crash and restart** at any of those points; heartbeats that raise although
  they committed; responses that are accepted but never entered.

## 2. The modules

| Module | Is about | Uses |
| --- | --- | --- |
| `RunLease` | the lease row, the keepers, the slots, the clock | – |
| `RunStatus` | the status vocabulary and transition table | – |
| `RunContract` | abstract: what a run promises its user | – |
| `RunLifecycle` | every store operation that writes a run | `RunStatus`, implements `RunContract` |
| `RunCommands` | the command rows and the statements over them | – |
| `RunExecution` | stream, workflow task, coordinator, control API and sweep together | `RunStatus`, `RunCommands` |
| `LosslessChannel` | abstract: an unbounded queue that may break | – |
| `SSEBuffer` | producers, the bounded buffer, the reading response | implements `LosslessChannel` |
| `ChannelGate` | a channel: semaphore, meter, waiters | – |
| `ModelCalls` | calls of one run through a channel: budget, retries, usage records, flushes, restarts | `ChannelGate` |
| `ResearchGraph` | the graph of a run in supersteps, with clock, supplements and restarts | – |
| `BackgroundJobs` | queue, workers and the memory extraction | – |
| `BundleRevisions` | edits, undo and weather refreshes of a delivered Bundle | – |
| `SessionContext` | timeline, anchor, boundary; loads, turns, compactions, clears | – |
| `MC…` | the constants TLC needs for each | |
| `…_proofs` | theorems and their proofs | `TLAPS` |

### RunLease

A keeper claims at most once with a fresh random token, so the token in the row
is the keeper itself. `left` is how long the lease still lasts by the database's
clock, `due[k]` how long until keeper `k` must act; `Tick` moves both, which
makes time unbounded and the state space finite. `HeartbeatRaises` covers a beat
that failed before and one that failed after its commit. `Faults` names what the
environment may do: failing writes, crashes, abandoned responses, a late event
loop (`stall`), a claim in the sweep's window (`sweep_race`), shutdown. A
restart is another process. The handle of a stream is here only the flag
`stopped[k]`.

### RunStatus, RunContract and RunLifecycle

Each operation of `TripRunStore` is one transaction under a row lock, hence one
action; `request_cancel` is the exception and is three rounds of read and write.
The module leaves open who calls what: the callers hold snapshots of any age, so
every call may come in every state. `Frames` are the snapshots a graph may
still write: a frame contains a Bundle only after that Bundle was committed.
Trace, lifecycle and cost events, intents, titles and listings are left out:
they never feed back into the status. `RunContract` is the story a user can
tell: working, waiting, paused, stopping, delivered or cancelled, rounds that go
up, one plan shown in the step that delivers it. `KeepsContract` is the
refinement: `Phase`, `attempt` and the Bundle of the first event are its mapping.

### RunCommands and RunExecution

`RunCommands` has one row per intent (a stop is one intent whatever the attempt:
`run_command_digest`), its status and the process that claimed it. `RunExecution`
puts it where it is used. `pc[s]` walks the generator of stream `s`
(`generate_sse` and `cleanup_stream_exit`), `work[s]` its workflow task,
`carried[s]` what its coordinator has claimed and not yet delivered, `held[s]`,
`stop[s]`, `ready[s]` its handle, `registry` the slot every node boundary looks
in; `call[u]` walks `control_trip_run`, `sweep` walks `RunRecoveryService.sweep`.

What the module abstracts, and why it may:

* *The lease* is used through what `RunLease` proves of it: it does not expire
  under a keeper that beats. `LoseLease` is the keeper that finds itself
  superseded, or (fault `lease_lost`) gives up.
* *The store* is used through the status table of `RunStatus`; `request_cancel`
  is one step, its rounds being the matter of `RunLifecycle`. `AnswerStopped`
  merges the two transactions running → cancel_requested → cancelled.
* *The graph* is the amendments waiting in the checkpoint, those the request
  contract has taken up, and whether the normalizer or the ordinary flow is
  next; a run executes one node at a time, and the nodes from START to the
  clarifier are one normalizer. Only deep runs are modelled, since only they
  have amendments, gates and checkpoints.
* *The periodic poll* begins with `streaming`; the first, awaited one is separate.
* *Results* of a task nobody listens to are dropped; a handle is forgotten when
  it leaves the registry.
* *The sweep's recovery status* is diagnostic and left out. A claim is held off
  while the sweep works, unless fault `sweep_race` lets it in.

### LosslessChannel and SSEBuffer

`SSEBuffer` has every producer of a response (`put[n]` is the put of node `n`
inside `_await_space`, its only await), the two asyncio events `arrived` and
`space`, the two counters and the reader in `generate_sse`. A text entry keeps
the numbers of the fragments merged into it, so that the refinement
`ImplementsChannel` can say of each fragment where it is: `Pieces` flattens the
entries to the queue of `LosslessChannel`, `stalled` is its `broken`, and after a
break only text may be dropped. The wire format is left out.

### ChannelGate and ModelCalls

`ChannelGate` is `ConcurrencyChannel.hold` over `asyncio.Semaphore` as CPython
implements it: a released permit resolves the future of the first waiter
(`woken`), who may be cancelled or time out before it runs. `ModelCalls` adds who
calls: the nodes of a run with their budget (`ledger` is the entry in `_LEDGERS`,
`baseline` what a restarted process read and has not applied), retries and
stand-ins of a tool, guests of the same channel, the recorder with its bounded
buffer, and the responses that flush it. `charged`, `lost` and `blind` are
history only. Prices and token counts are left out: a call is one unit.

### ResearchGraph

The nodes are those of `workflows/travel_planning.py`, by short names. LangGraph
works in supersteps: the tasks of one read the same state `s`; what they return
waits in `out`, the targets of their edges in `to`. When the last is done `Merge`
takes the writes field by field (`Reduce`, the reducers of `entities/state.py`) in the
order of the nodes' names (`Rank`). `sent` is the state a
`Send` carries. A crash keeps the writes of finished tasks, as the checkpointer
does; `CrashAfterSettling` dies between a receipt and the checkpoint. `clock` is
the phase of the deadline (research, composition, delivery, over), and node and
edge read it separately. A contract is `<<generation, revision>>`; draft, plan,
catalog, selection, workspace are named by the contract they were derived from,
which is all the gates ask of them. What a worker finds is one of four outcomes
for its whole domain, and a failure or a question instead of an answer. The
candidates, the composition and every text are left out.

`Coherent` is the validator of the state (`validate_completion_generation`,
`entities/state.py:525-666`): plan and selection belong to what they were made from,
a draft that another contract or another count of revisions overtook may be seen only
unsealed and without a deadline. LangGraph builds the state anew, and so validates it,
before the tasks of a superstep and before each conditional edge, which reads the
state with the writes of its own task; the argument of a `Send` and the two fixed
edges are not validated. A state that is not coherent ends the run as `refused`, a
failure of its own kind: `Verdict` at an edge, `NextStep` at a superstep. The receipts
of a node are written before its edge runs, so they may tell of a supplement that the
validator stops one step later.

### BackgroundJobs

A turn is a session of its own with one job. `claims[p]` is the batch of process
`p`, of which the first is executed; the lease is of the row, the fence is the
process (`EXECUTOR_ID`), not the claim. `at[p]` is the await of the handler.
`Renew` may revive an expired lease nobody took; `Expire` speaks of processes that
are gone, of rows that wait in a batch, and (fault `late`) of an event loop that
renews too late. Priorities and the lengths of delays are left out.

### BundleRevisions

A call walks the transactions of its service: replay by key, undo head, current
Bundle, provider, reread, commit or receipt. A Bundle is its place in the line of
revisions and a revision vector is named by the Bundle it identifies, since every
commit advances it. Of a trip it keeps what an inverse patch may touch: one slot,
one note, one entry with its frozen lineage, the decisions, and one day of
weather with the catalog computed for it. `stale` says which weather has expired.

### SessionContext

A message is its `event_order`; its tokens are one unit, so all budgets count
messages. An anchor is the set of messages it tells of. `request[r]` is what tab
`r` has read so far – boundary, pages by offset, anchor, each in a transaction of
its own – and `job[c]` what a compaction has read. History and selection are sets,
`ORDER BY … LIMIT` is `Newest` or `Oldest` of a set. A turn saved between two pages
shifts the offsets, and a message may be collected twice: `read` counts it twice, as
the code's token count does, and the set holds it once. `CompactAborted` is the
deadlock of a turn and a commit over the next order and the session's row. The
fields `upTo`, `clears`, `torn` are history only. `ContextAssumption` has
`Trigger <= LoadBudget`: `load_session_history` stops at the threshold with which
`build_context` compares the history and the prompt together.

## 3. What the runs check

| Run | Bounds | Asks |
| --- | --- | --- |
| `lease_faulty` | 2 keepers in 1 process; lease 2 s, beat 1 s; every fault | `Fenced`, and under fairness `SupersededKeeperStops`, `DeadLeaseBecomesClaimable` |
| `lifecycle` | 2 Bundles, 2 overlapping cancel requests, 3 attempts | `FormalDelivery`, `CancelReturnsStopped`, and the refinement `KeepsContract` |
| `exec_stop` | 2 streams, 1 control request at a time, 1 restart, clients that leave | `OneExecutor`, `CancelTellsTheTruth`, and under fairness `ActiveRunsEnd` |
| `exec_supplement` | 3 streams, 1 supplement, 1 restart; every fault by which a lease stays with its keeper | `ExecutorIsReachable`, `SupplementEntersOnce` |
| `exec_takeover` | 2 streams, 1 supplement, 1 restart; live leases change hands | `VerdictIsFinal` |
| `stream` | 2 nodes with 3 and 2 puts of up to 2 characters; limits 1 event, 3 characters, chunks of 2 | `NoLostWakeup`, the refinement `ImplementsChannel`, `ResponseEnds` |
| `calls` | 2 nodes and a guest, 2 slots, 1 model call and 2 tool calls allowed, buffer of 2 records, 2 streams, 1 crash | `SlotsConserved`, `BudgetHolds`, `UsageAccounted` |
| `graph` | 2 workers and the composer, budgets 2 and 1, 3 repairs, 1 edit of the plan; three of the outcomes, every window of the clock | `FailsLast`, and under fairness `RunEnds` |
| `graph_supplement` | 2 workers and the composer, 1 supplement of any impact, 1 crash, a delivery that fails to be written, 3 repairs; workers find what they should | `NoObsoleteMaterial`, `ApprovedWorkOnly`, `SupplementsSettled`, `ResearchGoesOn` |
| `jobs` | 2 overlapping processes, a batch of 2 turns, 1 fact, 2 attempts, 1 fault of any kind | `ConcludedByItsHolder`, and under fairness `JobsEnd` |
| `revisions` | 3 keys, 3 requests of every kind, 2 options, 2 notes, rain or fair | `LinearHistory`, `OneAnswer`, `UndoIsExact`, `SkyMayImprove` |
| `context` | 2 tabs, 1 compaction by hand at a time, 3 turns, 1 clear, 1 failing model; a session that grows from 2 to 8 messages, load budget 4, compaction budget 3, pages of 2 | `AnchorCoversBoundary`, `ContextIsWhole` |

Each module's `TypeOK` is checked by its first run; `LeaseTypeOK` of `RunLease`, which
only bounds its variables, is proved (`LeaseTypeCorrect`). The other configurations are
run by hand: `calls_end`, `stream_bounds` and `graph_lanes` (`CallsEnd`; `MemoryBounded`
and `EveryPutReturns`; `ResearchGoesOn` and `RejectedStaysOut`), and those of section 5,
which end in a counterexample on the smallest instance that shows it.

Why the bounds are enough. Two streams are what a superseded and a superseding
executor need; a third lets one that is leaving, one that is arriving and one
that executes meet, and in `RunLease` it is a competitor in a second process
that shares no memory. `exec_supplement` leaves out the two faults that take a
lease from a live keeper: with them exclusion fails (section 5), and with it
everything that rests on one executor (a second workflow writes its older
checkpoint over one that has taken a supplement up, so `SupplementEntersOnce`
fails with it). `exec_takeover` is about what must hold even then. The lease is
the shortest in which `FailureThreshold` beats may fail and the next comes in
time, or may not (`lease_threshold_gap`); the theorems have no
such bound. Two Bundles are needed for "another Bundle", two cancel requests to
let one lose its race to the other, three attempts for a resume of a resume. One
restart separates the process that claimed a command from the one that finds it;
the next restart would find the same situation. One supplement is enough since
commands of that kind never look at each other; which of several is refused by
the router is the subset choice of `NodePlans`. `exec_stop` has no supplement,
`exec_supplement` and `exec_takeover` no caller: the two meet only in the rows,
where `Settle`, `ReleaseClaims` and `ClaimPending` act on each row by itself.

`stream`: one event or three characters fill the buffer, so two nodes meet it full
by either limit; two characters of an entry of two show merging and its end.
`calls`: two slots and three callers give one who waits behind a waiter that was
woken and has not run (with one slot, `calls_end`, two may wait); the second stream
reads what the first spent, before and after a crash; two records fill the buffer.
`graph`: one worker may research a gap twice, the other once, so a budget is reached
with another still open; the three repairs (`MAXIMUM_COMPOSITION_REPAIR_ATTEMPTS`,
`workflows/composition_repair.py:33`) and the one edit of the plan
(`_MAX_PLAN_GATE_REVISIONS`) are those of the product, so several gates may each spend
a part of the repairs and an edited plan comes to its gate again; it leaves
out "loose", whose gap is one more of the kind "missing" has (with it there are 642,991
states, in which `TypeOK` and `FailsLast` hold as well). Findings and supplements are
apart in `graph` and `graph_supplement`, because their product is beyond a check by
TLC: a supplement only needs research to be repeated, not to fail; nor does it need an
edit of the plan, since a supplement that is accepted uses up the same count
(`plan_gate_revision_count`). `graph_lanes`, two supplements that
ask for research or are refused, is for one lane to take in and one to reject; the two are alike until they are judged, hence its symmetry. `jobs`: two
processes overlap as in a restart; one fault is enough to leave a batch with a live,
an expired and a closed row. `revisions`: three requests are a step, what comes
between, and its undo or its retry; one further day or entry would repeat the first.
`context`: two tabs and a request by hand are what can meet in one session; after
three turns it is longer than what a load and a compaction take, a page ends in the
middle of both. One process, as the product runs; what two would do is in section 5.

`CHECK_DEADLOCK FALSE` in the `exec_*` runs: a run that is delivered or
cancelled has nothing left to do, and a traveller need not resume a failed one.
In `stream`, `calls`, `jobs`, `revisions` and `context`: the clients have asked
everything the bounds let them ask, and nothing runs by itself.

### Fairness

`RunLease`: time passes; a keeper that is up beats when its sleep ends; an
accepted response is entered or abandoned; the sweep finishes what it read.
Nothing obliges a workflow to end or a stream to release. `RunExecution`: the
event loop resumes every coroutine that can go on (`ResponseStep`, `PollStep`,
`NodeStep`, a request that has begun), time passes (`Expire`), the sweep comes
round (`SweepStep`; it runs at start and periodically). A graph could visit
nodes for ever; what ends a workflow is its deadline and budget, hence the
fairness of `Fail(s) \/ Obey(s)`. `SSEBuffer`: timers fire, tasks that can run
do, and the graph ends; that the client reads is not assumed but the hypothesis of
`ResponseEnds`. `ModelCalls`: requests end by the timeout of the client library.
`ResearchGraph`: the event loop runs every task (`WF(Machine)`); in `TimedSpec` the
clock goes on too, but neither is needed to end at the plan gate, where the
traveller has all the time there is. `BackgroundJobs`: a worker that is up works
on, processes are started, delays and leases run out. `BundleRevisions` and
`SessionContext` state safety only. Faults, travellers and clients are never fair.

### Mutants

Every property of a passing run has a mutant in the module: a plausible bug in
one definition, defined just before it, that makes TLC violate it, such as a
heartbeat without its token, a sweep that overlooks runs being cancelled, a stream
that unregisters by run id, a reducer that replaces instead of adding, a wake-up
for events only, or a compaction without its compare-and-set.

## 4. What is proved

The theorems hold for any number of streams, keepers, processes, Bundles,
callers, attempts and restarts, and for any faults a statement does not exclude.
Where section 3 names no run, the theorem is all there is to say. They rest on
the named `ASSUME`s of the modules only: `LeaseAssumption` is the validator of `RunControlConfig`
(`config/models.py:234-258`) and nothing more; `ContextAssumption` is explained
in section 2; the others say that limits are numbers, that a plan is a sequence
of groups of agents, that placeholders differ from what they stand for, and that
the callers of a channel, the nodes of a graph and the turns are finitely many.

**RunStore_proofs**, the lease. `LeaseTypeCorrect` and `Fencing` (the token in each WHERE is
enough for: a live lease changes hands only by its owner's release, shutdown or
the sweep, and nobody else prolongs it) need no assumption on the environment.
`Exclusion`, `LeaseOfTheExecutor`, `TeardownFindsTheOwner` and
`LeaseOutlivesTheWorkflow` assume `CalmFaults` and
`GivesUpInTime == (FailureThreshold + 1) * HeartbeatSeconds <= LeaseSeconds`,
which the run `lease_threshold_gap` shows to be needed. That one executor works
at a time is not inductive. What carries it is the balance between failures and
time (`LeaseCovers`): a beating keeper owns the row, and
`left + (failures + 2) * HeartbeatSeconds >= LeaseSeconds + due`, so the beats it
may still fail fit in its lease; once they are used up it has already stopped
its handle. `KeeperOK` adds that a workflow runs only behind a keeper that beats
or has stopped it, and that the slot of a process holds its beating keeper.

**RunStore_proofs**, the status. `FormalDelivery` is not inductive: a completed run whose
audit had lost its attribution would let a lagging frame take the Bundle back.
`LifecycleInvariant` joins it to `AttributionTellsStatus` and
`ChoiceMatchesStatus`, to mirror = status, and to what a cancel request between
its transactions has counted and chosen. `UndeliveredHasNoBundle` is the extra
invariant the seal needs. From them follow the invariants, the action
properties, and step by step the simulation of `RunContract` (`Refinement`).

**RunExecution_proofs.** `StepIsOneStatement` shows that every step of the
module, whoever takes it, changes the rows by one statement of `RunCommands` or
not at all; `StatementKeepsVerdicts` shows that no statement touches a concluded
row. `VerdictsAreFinal` follows for every fault at once; `ReceiptsAreWellFormed`
needs besides only that the epoch grows. `ExecutionTypeCorrect` is `TypeOK`, for
which the plans of the nodes have to be typed too: they become the checkpoint.
`CancelIsTruthful` (INV-CMD-003) rests on `CancelInvariant`: every place that may
still make the run cancelled – a control request past its enqueue, a stop reason
in a handle, a claim on its way, a workflow's result, a sweep that read
`cancel_requested` – implies that a cancel is on record, and every place that may
still conclude the command as carried out – a response or a sweep with `cancelled`
as what it read, a request about to consume – implies that the run is cancelled,
which no step takes back (`CancelledIsSealed`). All four hold under every fault.

Three more assume `LeasesStay`: no keeper loses a live lease, and no claim falls
into the sweep's window; section 5 shows for both what happens otherwise. Then
`KeeperInvariant` is inductive: a response between its claim and its release holds
the live lease, from its registration on the registry holds its handle, and its
workflow is at work inside that span only, which is what the order of the exit is
for. `OneExecutorAtMost` and `TheExecutorIsReachable` follow. For
`SupplementsEnterOnce`, `SupplementOf` looks at every hand a supplement can be in
(a claim on its way, the handle, what a node takes up): it is in one of them at
most, no poll finds its row again while it is, and no row in hand says consumed.

**ModelCalls_proofs.** `CallsTypeCorrect`, `SlotsAreConserved`, `TheBudgetHolds`,
`EveryRecordIsAccountedFor`, from one `CallsInvariant`. Of the channel it says what
`asyncio.Semaphore` relies on: who waits stands in the queue once, who is woken
stands in it, free permits, promised ones and used ones are the slots, and a free
slot beside a sleeper means that a woken waiter has yet to run. The last part is
why `SlotsConserved` asks for a woken waiter and not for an empty queue: with two
slots one may be free while somebody sleeps, until the woken one runs and passes
it on. The budget compares, per run, what was spent with what the ledger counts,
what is under way and what a restart could not see.

**SSEBuffer_proofs.** `BufferTypeCorrect`, `NoWakeupIsLost`, and the refinement
`BufferImplementsChannel`: each step of the buffer is a step of `LosslessChannel`
under `Pieces` or leaves it alone. Counters and pieces are sums over a queue of any
length. The prover cannot instantiate the induction theorems of its library, so a
sum is stated by a witness, the function of its partial sums (`SumsTo`,
`Flattens`), and what a fold does at either end is proved by its least
counterexample (`LeastNumber`, from well-founded induction). The inductive
invariant is `QueueInvariant` (the counters are those sums, `arrived` and `space`
tell the truth), `Producers` (nobody waits while there is space) and `Progress`
(the workflow puts its last events after every node has returned).

**BackgroundJobs_proofs.** `JobsTypeCorrect` and `OnlyTheHolderConcludes`. `complete`
and `fail` compare the process, not the claim; that an older claim of the same
process cannot conclude a job is `ClaimsAreLatest`: a claim whose process still
holds the row is the last one made on it. It is inductive because a process claims
with an empty batch only; the proof uses nothing else about time.

**BundleRevisions_proofs.** `NoLastWriteWins`, `OneAnswerPerRequest`,
`UndoTakesBackOneStep`, `RefreshesNeverEnd`, and the types. The argument has three
parts. The store only grows (`Grows`), so what was true of a request when it read
stays true (`CallStays`). A transaction whose base is still the head writes what
was validated, and an undo still takes back the step before its refreshes
(`UndoReady`, `CallSound`). And a refresh keeps the trip, an edit or undo keeps the
data of the weather, which over the whole line says what an undo restores: stated
of all pairs of revisions (`TripStays`) it needs no induction over the line.

**SessionContext_proofs.** `ContextTypeCorrect` holds for any number of backend
processes. `AnchorIsComplete` and `NothingIsMissed` have the hypothesis `InOneProcess`
(the product runs one, and the lock of `memory/compaction.py` is per process);
`context_processes` shows what two do. Neither property is inductive, nor is one
provable without the other half of `ContextInvariant`. An anchor covers a boundary
(`Covers`) only if the anchor a compaction merged did, and that the boundary still
stands at the commit does not say so: `Merges` adds that during a compaction the
row's boundary is the one it read or, after a clear, 0. A request reads the boundary
first and the anchor last, which is safe in this order only: `Follows` says that
without a clear the boundary has moved on since, `Loads` that what was collected has
no holes down to the older boundary, whatever turns shifted the pages. And what the
request's own compaction takes up closes the rest of the gap, if it fits
(`Takes`, `Reaches`). Since the timeline grows at its end, each of these speaks of the
messages up to a position and survives every turn (`SoundAfter`).

**ResearchGraph_proofs** is about any plan, budgets, outcomes, faults, supplements and
number of crashes. Its first part says what `Merge` does to a field of the state, and
which fields each node writes; every other argument is about a few fields of one node's
update. Four invariants follow; the last rests on the third.

* `TypeInv` gives `GraphTypeCorrect` and with it the budgets: no gap is researched
  more often, and no composition repaired more often, than its limit.
* `SettledInv` says where a supplement with the receipt "applied" is: in the state, in
  the normalizer's waiting write, in what the normalizer is about to take up, or torn
  by a crash. It gives `GraphSettled`, with any number of lanes; the user who cancels at
  the plan gate is its one exception, and none while the run stays in one lane
  (`GraphSettledInLane`).
* `LaneInv` says of every node behind the plan gate that draft, plan and seal are of the
  contract in force when it is a task, and when it is where the router will resume, and
  that the workspace is of that contract if there is one; that no node of the planning
  chain has a workspace before it; that the state is coherent; that
  pending supplements have nothing but the router or the normalizer before them; and of
  each agent that waits for its siblings, that its write disturbs none of this. What
  carries it past the router is the validator: an accepted supplement leaves the sealed
  draft of a smaller count of revisions, which is refused, or no draft, and then
  neither plan nor workspace (`RouterWrites`, `LaneAmended`). It gives
  `GraphApproved` and `GraphFresh`: nothing stale is worked on, judged or delivered,
  because the run goes through the plan gate again or is refused.
* `CalmInv` (a run without supplements) follows the composition: there is none in the
  planning chain, past the quality gate there is one or the window is closed, a catalog
  comes with its selection, and a run that fails in time has used its repairs. It gives
  `GraphFailsLast`, for any number of repairs.

`LaneInv` assumes `OneLane`: the tasks of a superstep are one node, or agents of one
group. It is a hypothesis on the behaviour because several lanes are real: one worker of a
group may divert to the router while its sibling goes on to the dispatcher. `GraphQuietLane`
and `GraphSingleLane` prove it of every run without supplements and of every run whose
plan starts one agent at a time, and `GraphDelivers` states the outcome for those from
the constants alone. Several lanes are the part TLC answers for: `graph_supplement` checks
its properties on 1,205,526 states, more than 100,000 of them in several lanes, and
`graph_lanes`, by hand, has two supplements in 1,896,716.

`GraphFailsLast` excludes the faults `persist`, a delivery that fails to be written, and
`prohibition`, a composition in which the fidelity gate finds what was forbidden: both
fail a run that has a composition, which is what the code does.

**Model-checked only.** Liveness, whose proof needs ENABLED, which the prover
does not have: `SupersededKeeperStops`, `DeadLeaseBecomesClaimable`,
`ActiveRunsEnd`, `ResponseEnds`, `RunEnds`, `JobsEnd`. The graph in several lanes,
as said above. `MemoryBounded` and `EveryPutReturns` of
`SSEBuffer` and `CallsEnd` of `ModelCalls` are checked by hand only.

## 5. Where code and documents disagree

Each is a configuration whose one property states what the repository says, and
which TLC violates. To see one: `tlc -config <name>.cfg MC<module>`. The four whose
names end in `_gaps` state several; TLC stops at the first, without its line at the
next.

Leases, commands and runs:

* `lease_threshold_gap` – a configuration the validator accepts (lease 4, beat
  2, threshold 3) lets a keeper tolerate failing beats beyond its lease: two
  executors.
* `lease_sweep_race` – the sweep takes a row over one transaction after it read
  that nobody owns it; a claim in between loses a live lease.
* `exec_superseded` – a workflow that lost its lease is still in a node when the
  run is resumed in the same process. Its boundaries look in the registry by run
  id, find the successor's handle, and it goes on.
* `exec_cancel_again` – one cancel row per run for all its attempts. A stop that
  was once rejected is found rejected by the next stop, which then asks nobody.
  The run still ends as cancelled, but only when its workflow ends by itself.
* `exec_rejected_applied` – commands get their verdict before the workflow is
  stopped: a supplement may be rejected on its receipt and applied in the plan.
* `exec_stranded_claim` – a poll cancelled between its claim and its delivery
  leaves a claimed row in no handle; at a gate nobody settles it, and the same
  process never claims it again.
* `usage_lost` – `flush_usage_updates` (`api/routes/chat.py`) promises never to
  swallow a record; cancelled in its await it loses the batch it drained, uncounted.

The graph:

* `graph_gaps`, `ReleasedCompositionShips` – past the composition window "the current composition ships
  as-is" (`agents/orchestrator/delivery_quality_gate.py:690`). The node grants a
  repair without looking at the clock (`:655`); if the window closes then, the
  edge goes on to the projection, whose node refuses every route but `passed`
  (`workflows/delivery_projection.py:35`): a composed itinerary fails the run.
* `graph_gaps`, `AmendmentsGoOn` – the design
  (`src/JourneyPilot 问题解决方案（一）：用户意图合同与确定性编排控制面.md:1086-1087`) has an
  amendment that affects the composition applied, or composed again once research is
  closed, and one of the projection only applied before the projection. The router
  accepts them and raises `plan_gate_revision_count`
  (`workflows/intent_amendments.py:127`), but `invalidation_update`
  (`services/state_invalidation.py:11-39`) keeps the sealed draft and its deadline for
  these two: the next state is refused by its validator (`entities/state.py:629`),
  "completion state belongs to an obsolete minimum delivery draft", and the run fails.
  Before the seal the same happens from the planner on, whose plan belongs to the
  contract before. Research amendments clear draft and plan and go on
  (`ResearchGoesOn`). At the plan gate every edit of the projection only, the one with
  `projection_amendment_pending` included, is refused too: its plan belongs to the
  contract before.

Jobs and memory:

* `jobs_gaps`, `NothingMissed` – a fact that fails to be written is swallowed in
  `memory/memory_store.py`; the job completes, and is never tried again.
* `jobs_gaps`, `NothingLearnedOfDeleted` – a session is deleted while its
  extraction is between reading the message and writing the fact: the fact stays.
  `cancel_for_session` (`infrastructure/background_job_store.py:325`) relies on the
  worker to look again before it writes.
* `context_gaps`, `FailedSummaryKeepsAnchor` – `memory/compaction.py:66` and
  INV-SESSION-002 (`docs/invariants.md:385-392`): a failed compaction changes
  nothing. When the model fails, the compressor does not
  (`memory/compressor.py:283`): its makeshift replaces the anchor and the boundary
  moves, so what the old anchor told is gone.
* `context_gaps`, `WholeInSpiteOfClear` – a clear between the reading of the
  boundary and of the anchor gives a request neither summary nor messages;
  `memory/chat_session.py:1051` says they are read one by one again.
* `context_processes` – with two processes the lock of `memory/compaction.py` is
  of no use, as its comment says, and the compare-and-set suffers from ABA: clear
  and compact between reading and committing, and the boundary looks unmoved.
* `context_gaps`, `EveryTurnIsSaved` – two tabs save turns of one session; each
  reads the last order and inserts behind it, and the second is refused by the key
  and lost.

Revisions of a delivered plan:

* `revisions_gaps`, `UndoSurvivesRefresh` – a refresh must not erase the undo head
  (comment in `get_undo_head`, `infrastructure/delivery_bundle_store.py:352`); a step
  whose weather impact clears in a refresh is still offered and can no longer be
  undone.
* `revisions_gaps`, `SameOutcome` – `record_noop_receipt` keeps an answer for exact
  replay; of two copies of one refresh, one finds nothing to do and one commits.

Met while reading or modelling, without a configuration of their own:

* A supplement is marked consumed before the checkpoint that contains it is
  written: a crash between the two loses it (`torn` in `ResearchGraph`).
* A verdict that fails to be written leaves open rows behind a finished run; a
  late settle of the sweep rejects commands of the next attempt.
* Once leases change hands a superseded executor's checkpoint, which no token
  fences, undoes a supplement that was consumed.
* The ring artifact gate, candidate gate, dispatcher (`workflows/travel_planning.py:138`)
  has no counter of its own; the counters of its gaps end it.
* A missing long-distance leg fails the run although
  `agents/orchestrator/candidate_gate.py:2160` means to go on.
* The baseline of a restarted run is marked as read before it is
  (`workflows/run_budget.py:232`), against the docstring of that file.
* A job whose worker dies is claimed for ever: `claim` looks at no maximum
  (`infrastructure/background_job_store.py:165`, against INV-JOB-001,
  `docs/invariants.md:163-166`). `run_forever` does not pause after an exception.
* A session is compacted by itself once only; what overflows later is left out of
  the context silently. After a clear, the first compaction of a long session
  leaves a gap. A busy compaction answers 500 where INV-SESSION-004
  (`docs/invariants.md:377-380`) promises 409.
* The route of the undo head says `available` for inverses that will be refused. A
  client that lost a reply, reads again and repeats its edit under the same key is
  told that the key is taken.
* The profile is read, changed and written without a lock or version
  (`save_portrait_to_profile`, `clear_profile_memory`, `update_preferences`).

## 6. Not modelled, and the plan

* *MCP session leases* (`tools/mcp_manager.py`): concurrent opening, reuse and
  closing of sessions; a call cancelled while a session opens leaks it. A module
  `ToolCalls`, with the tool gateway and its snapshot cache, would be next.
* *Provider rate gate* (`utils/rate_gate.py`) and thread pools: timing only.
* *The data of candidates, packets and compositions* (`agents/research_packet_output.py`,
  `entities/delivery_bundle.py`, `entities/itinerary_composition_v2.py`, panels):
  by far most of the code. It is validation and rendering of rich records without
  state; a model would repeat it field by field.
* *Routing, briefs and the fast path* of a request, trace and cost events, titles,
  listings: they feed back into nothing that is modelled.
* *Moves of stops between days*: a further operation of the kind `BundleRevisions`
  has. The commit kind `fact_refresh` of the Bundle store is accepted there and
  committed by no code.
* *Revisions of an intent* (`services/intent_revision.py`): a pure function of the
  previous contract and the new draft, called while a request is scoped.
* *Database scripts, command line, frontend*: clients of the same services.

Details of what is modelled that are left out, because no property tells them apart or
because they only end a run:

* `RunExecution`: a CREATED run that is continued and a clarification resumed without a
  checkpoint (`api/routes/chat.py:354-381`, `:483-484`); FAILED written after a database
  error in the main loop while the workflow still works (`:1098-1104`); `request_cancel`
  giving up after three rounds with its command open (`api/routes/trip_runs.py:1076`); a
  settle that fails inside `poll_once`. `exec_stop` and its properties keep leases with
  their keepers: what a lost lease does to the executor is in `RunLease` and in
  `exec_superseded`.
* `RunCommands.SettleAll` is one step and two transactions in
  `services/run_commands.py:60-72`: a command that arrives between the two is rejected by
  the second, in the model it arrives before or after both.
* `SSEBuffer.Joins` has one kind of text (`api/sse_buffer.py:113` compares kinds): two
  kinds merge less often.
* `ResearchGraph`: the strengths "ranking" and "admission" of an invalidation
  (`services/state_invalidation.py:40-51`), which no supplement has; more than one round for
  the routes of a skeleton, whose budget is the number of route gaps
  (`agents/orchestrator/candidate_gate.py:1491-1501`), one `Route` in the model; the late
  update of a worker that is dropped after the delivery (`workflows/run_control.py:785-794`,
  `:848-860`), since no property looks at the workers of a delivered run; the recursion
  limit of LangGraph.
* `BackgroundJobs.Enqueue`: the conflict of two enqueues under one key
  (`infrastructure/background_job_store.py:104-131`) and a job without a handler
  (`services/background_jobs.py:84-92`).
* `BundleRevisions.Compute`: the intents are validated again for every changed mutation
  (`services/workspace_v2_service.py:296-357`), in the model for a changed entry and a
  refresh; a leg that was never realized is not picked again
  (`entities/workspace_v2_mutations.py:647-671`).
* `SessionContext.ContextIs`: an anchor longer than 2,000 tokens is cut
  (`memory/context_builder.py:260`), one that cannot be parsed is dropped
  (`memory/compaction.py:139`). What the properties call "in the anchor" is in its text.

Next, in this order:

1. `ToolCalls`, as above.
2. `ResearchGraph` in several lanes: an invariant for `ApprovedWorkOnly` without the
   hypothesis `OneLane`, and proofs of `ResearchGoesOn` and `RejectedStaysOut`.
