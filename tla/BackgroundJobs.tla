--------------------------- MODULE BackgroundJobs ---------------------------
(***************************************************************************)
(* The queue of background_jobs (infrastructure/background_job_store.py),  *)
(* the worker of each backend process (services/background_jobs.py) and    *)
(* the one handler there is, memory_extraction: it reads a turn back from  *)
(* the chat, asks the model what it says about the traveller, writes facts *)
(* and then the portrait, whose content is left out.                       *)
(*                                                                         *)
(* Every turn is a session of its own.  A row is leased to a process, not  *)
(* to a claim: its fence is EXECUTOR_ID.                                   *)
(***************************************************************************)
EXTENDS Naturals, Sequences, SequencesExt, FiniteSets

CONSTANTS
    Processes,    \* backend processes, each with an EXECUTOR_ID of its own
    NoProcess,
    Turns,        \* saved turns; a turn is the dedupe key of its job
    Sentences,    \* what the model may find in a turn
    Telling,      \* the turns that may tell anything about the traveller
    Deletable,    \* bound: the turns whose session may be deleted
    MaxAttempts,  \* max_attempts of enqueue
    Batch,        \* background_jobs.batch_size
    Faults,       \* what may happen beside the work: a "stop" of a process, a "late"
                  \* renewal, a lost reply of the "db", a "fact" or an "enqueue" that
                  \* fails, a "release" of a dead job by the operator
    MaxFaults     \* bound: how often

ASSUME JobsAssumption ==
    /\ NoProcess \notin Processes
    /\ IsFiniteSet(Turns)
    /\ Telling \subseteq Turns /\ Deletable \subseteq Turns
    /\ {MaxAttempts, Batch} \subseteq Nat \ {0}
    /\ MaxFaults \in Nat
    /\ Faults \subseteq {"stop", "late", "db", "fact", "enqueue", "release"}

VARIABLES
    job,        \* job[t]: the row of the turn's job
    turn,       \* turn[t]: how far the response that saves the turn is
    messages,   \* the turns whose messages are in chat_session_events
    deletion,   \* deletion[t]: how far delete_session is
    proc,       \* proc[p]: the process is "new", "up" or "gone"
    claims,     \* claims[p]: the rest of the batch of p, the executing claim first
    at,         \* at[p]: the await the execution of the first claim is in
    found,      \* found[p]: the sentences still to be saved
    missed,     \* ghost: missed[p], a fact of this execution was not written
    facts,      \* memory_facts: how many rows a (turn, sentence) has
    faults

queueVars == <<job, turn, messages, deletion>>
workVars == <<proc, claims, at, found, missed>>
vars == <<queueVars, workVars, facts, faults>>

Statuses == {"pending", "running", "retry_wait", "completed", "dead", "cancelled"}
Open == {"pending", "running", "retry_wait"}
NoJob == [status |-> "none", attempts |-> 0, owner |-> NoProcess, lease |-> "none",
          due |-> FALSE]
NewJob == [NoJob EXCEPT !.status = "pending", !.due = TRUE]
Removed == [NoJob EXCEPT !.status = "removed"]

\* The awaits of the handler, in their order, and those that may raise.  In the last one
\* the traits and the portrait are written and the revision is read;
\* the handler ends well when that returns.
Handling == {"ready", "read", "save", "portrait"}
Raising == Handling \ {"save"}
Ended == {"portrait", "gone", "failed"}
Nothing(p) == claims[p] = <<>>
Mine(p) == claims[p][1].turn

Init ==
    /\ job = [t \in Turns |-> NoJob]
    /\ turn = [t \in Turns |-> "open"]
    /\ messages = {}
    /\ deletion = [t \in Turns |-> "none"]
    /\ proc = [p \in Processes |-> "new"]
    /\ claims = [p \in Processes |-> <<>>]
    /\ at = [p \in Processes |-> "idle"]
    /\ found = [p \in Processes |-> {}]
    /\ missed = [p \in Processes |-> FALSE]
    /\ facts = [f \in Turns \X Sentences |-> 0]
    /\ faults = 0

Fault(kind) == kind \in Faults /\ faults < MaxFaults /\ faults' = faults + 1
-----------------------------------------------------------------------------
\* The statements of the store, on one row.

\* A bug: only what waits is claimable.
ClaimableWaiting(row) ==
    /\ row.status \in {"pending", "retry_wait"}
    /\ row.due

\* claim's WHERE: a running row whose lease ran out is claimable again.
Claimable(row) ==
    /\ row.status \in Open
    /\ row.due
    /\ row.lease # "live"

\* A bug: whoever runs it.
HoldsUnfenced(row, p) == row.status = "running"

\* The WHERE of renew_lease, complete and fail.
Holds(row, p) == row.status = "running" /\ row.owner = p

Claimed(row, p) ==
    [row EXCEPT !.status = "running", !.attempts = @ + 1, !.owner = p, !.lease = "live"]

Closed(row, status) ==
    [row EXCEPT !.status = status, !.owner = NoProcess, !.lease = "none"]

\* fail without a delay is final; with one, the last attempt is.
Failed(row, final) ==
    IF final \/ row.attempts >= MaxAttempts
    THEN Closed(row, "dead")
    ELSE [Closed(row, "retry_wait") EXCEPT !.due = FALSE]

Concluded(row, p, ending) ==
    IF ~Holds(row, p) THEN row
    ELSE IF ending = "portrait" THEN Closed(row, "completed")
         ELSE Failed(row, ending = "gone")

\* A bug: a row per call.
WithFactAgain(t, s) == [facts EXCEPT ![<<t, s>>] = @ + 1]

\* save_fact: the digest of user, source message and sentence is unique.
WithFact(t, s) == [facts EXCEPT ![<<t, s>>] = IF @ = 0 THEN 1 ELSE @]
-----------------------------------------------------------------------------
\* The chat: a turn is saved, its job is enqueued, its session may be deleted.

SaveTurn(t) ==
    /\ turn[t] = "open"
    /\ turn' = [turn EXCEPT ![t] = "saved"]
    /\ messages' = messages \union {t}
    /\ UNCHANGED <<job, deletion, workVars, facts, faults>>

\* enqueue_memory_extraction, after the transaction of the turn.
Enqueue(t) ==
    /\ turn[t] = "saved"
    /\ turn' = [turn EXCEPT ![t] = "queued"]
    /\ job' = [job EXCEPT ![t] = NewJob]
    /\ UNCHANGED <<messages, deletion, workVars, facts, faults>>

\* The INSERT fails, or the process ends first: the extraction is given up.
EnqueueFails(t) ==
    /\ turn[t] = "saved"
    /\ Fault("enqueue")
    /\ turn' = [turn EXCEPT ![t] = "unqueued"]
    /\ UNCHANGED <<job, messages, deletion, workVars, facts>>

\* delete_session: the rows go in one transaction, the jobs are cancelled in a second.
DeleteSession(t) ==
    /\ t \in messages \intersect Deletable
    /\ messages' = messages \ {t}
    /\ deletion' = [deletion EXCEPT ![t] = "deleted"]
    /\ UNCHANGED <<job, turn, workVars, facts, faults>>

CancelForSession(t) ==
    /\ deletion[t] = "deleted"
    /\ deletion' = [deletion EXCEPT ![t] = "over"]
    /\ job' = [job EXCEPT ![t] = IF @.status \in Open THEN Closed(@, "cancelled") ELSE @]
    /\ UNCHANGED <<turn, messages, workVars, facts, faults>>

\* The second transaction fails, or the process ends before it.
CancelFails(t) ==
    /\ deletion[t] = "deleted"
    /\ Fault("db")
    /\ deletion' = [deletion EXCEPT ![t] = "over"]
    /\ UNCHANGED <<job, turn, messages, workVars, facts>>
-----------------------------------------------------------------------------
\* The worker of a process.

\* poll_once: claim the first rows, whichever they are.
Claim(p) ==
    LET ready == {t \in Turns : Claimable(job[t])}
        size == IF Cardinality(ready) < Batch THEN Cardinality(ready) ELSE Batch
    IN  /\ proc[p] = "up"
        /\ Nothing(p)
        /\ ready # {}
        /\ \E batch \in {S \in SUBSET ready : Cardinality(S) = size} :
             /\ job' = [t \in Turns |-> IF t \in batch THEN Claimed(job[t], p) ELSE job[t]]
             /\ \E order \in SetToSeqs(batch) :
                  claims' = [claims EXCEPT ![p] =
                      [i \in 1 .. size |->
                         [turn |-> order[i], attempt |-> job[order[i]].attempts + 1]]]
        /\ at' = [at EXCEPT ![p] = "ready"]
        /\ UNCHANGED <<turn, messages, deletion, proc, found, missed, facts, faults>>

\* The execution of p stands at `place` next; `sentences` are still to be saved.
Goes(p, place) == at' = [at EXCEPT ![p] = place] /\ UNCHANGED <<proc, claims>>

\* _execute returns and poll_once goes on with the rest of the batch.
NextClaim(p) ==
    /\ claims' = [claims EXCEPT ![p] = Tail(@)]
    /\ at' = [at EXCEPT ![p] = IF Len(claims[p]) > 1 THEN "ready" ELSE "idle"]
    /\ found' = [found EXCEPT ![p] = {}]
    /\ missed' = [missed EXCEPT ![p] = FALSE]
    /\ UNCHANGED proc

\* The handler reads the source message; a deleted one is a permanent error.
Read(p) ==
    /\ at[p] = "ready"
    /\ Goes(p, IF Mine(p) \in messages THEN "read" ELSE "gone")
    /\ UNCHANGED <<queueVars, found, missed, facts, faults>>

\* The model answers, and the admission keeps some sentences and perhaps the trait.
Answer(p) ==
    /\ at[p] = "read"
    /\ \/ /\ Mine(p) \in Telling
          /\ \E some \in SUBSET Sentences : found' = [found EXCEPT ![p] = some]
          /\ Goes(p, "save")
       \/ Goes(p, "portrait") /\ UNCHANGED found
    /\ UNCHANGED <<queueVars, missed, facts, faults>>

\* All facts are through.
LeaveFacts(p) ==
    /\ at[p] = "save"
    /\ found[p] = {}
    /\ Goes(p, "portrait")
    /\ UNCHANGED <<queueVars, found, missed, facts, faults>>

\* save_fact for one sentence.  What it raises it swallows.
SaveFact(p) ==
    /\ at[p] = "save"
    /\ \E s \in found[p] :
         /\ found' = [found EXCEPT ![p] = @ \ {s}]
         /\ \/ facts' = WithFact(Mine(p), s) /\ UNCHANGED <<missed, faults>>
            \/ /\ Fault("fact")
               /\ missed' = [missed EXCEPT ![p] = TRUE]
               /\ UNCHANGED facts
    /\ UNCHANGED <<queueVars, proc, claims, at>>

\* The model or the database raises: to be tried again.
HandlerFails(p) ==
    /\ at[p] \in Raising
    /\ Goes(p, "failed")
    /\ UNCHANGED <<queueVars, found, missed, facts, faults>>

\* complete or fail.
Conclude(p) ==
    /\ at[p] \in Ended
    /\ job' = [job EXCEPT ![Mine(p)] = Concluded(@, p, at[p])]
    /\ NextClaim(p)
    /\ UNCHANGED <<turn, messages, deletion, facts, faults>>

\* complete or fail raises, committed or not: poll_once ends, and its batch with it.
ConcludeFails(p) ==
    /\ at[p] \in Ended
    /\ Fault("db")
    /\ \E row \in {job[Mine(p)], Concluded(job[Mine(p)], p, at[p])} :
         job' = [job EXCEPT ![Mine(p)] = row]
    /\ claims' = [claims EXCEPT ![p] = <<>>]
    /\ at' = [at EXCEPT ![p] = "idle"]
    /\ found' = [found EXCEPT ![p] = {}]
    /\ missed' = [missed EXCEPT ![p] = FALSE]
    /\ UNCHANGED <<turn, messages, deletion, proc, facts>>

\* _renew_lease, a third of the lease later: it revives an expired lease nobody took.
Renew(p) ==
    /\ at[p] \in Handling
    /\ Holds(job[Mine(p)], p)
    /\ job[Mine(p)].lease # "live"
    /\ job' = [job EXCEPT ![Mine(p)].lease = "live"]
    /\ UNCHANGED <<turn, messages, deletion, workVars, facts, faults>>

\* The row is someone else's, or closed: the handler is cancelled and nothing written.
LoseLease(p) ==
    /\ at[p] \in Handling
    /\ ~Holds(job[Mine(p)], p)
    /\ NextClaim(p)
    /\ UNCHANGED <<queueVars, facts, faults>>
-----------------------------------------------------------------------------
\* Time, processes and the operator.

\* A lease runs out: of a process that is gone, of a row that waits in its batch, or
\* while every renewal comes late.
Expire(t) ==
    LET p == job[t].owner
    IN  /\ job[t].lease = "live"
        /\ \/ proc[p] = "gone" /\ UNCHANGED faults
           \/ (\A i \in 1 .. Len(claims[p]) : claims[p][i].turn = t => i > 1) /\ UNCHANGED faults
           \/ Fault("late")
        /\ job' = [job EXCEPT ![t].lease = "expired"]
        /\ UNCHANGED <<turn, messages, deletion, workVars, facts>>

\* The delay of a retry is over.
BecomeDue(t) ==
    /\ job[t].status = "retry_wait"
    /\ ~job[t].due
    /\ job' = [job EXCEPT ![t].due = TRUE]
    /\ UNCHANGED <<turn, messages, deletion, workVars, facts, faults>>

\* cleanup_completed, and then the worker.
Start(p) ==
    /\ proc[p] = "new"
    /\ proc' = [proc EXCEPT ![p] = "up"]
    /\ \E old \in SUBSET {t \in Turns : job[t].status = "completed"} :
         job' = [t \in Turns |-> IF t \in old THEN Removed ELSE job[t]]
    /\ UNCHANGED <<turn, messages, deletion, claims, at, found, missed, facts, faults>>

\* A shutdown cancels the worker wherever it is; a crash does the same.
Stop(p) ==
    /\ proc[p] = "up"
    /\ \E q \in Processes \ {p} : proc[q] # "gone"
    /\ Fault("stop")
    /\ proc' = [proc EXCEPT ![p] = "gone"]
    /\ claims' = [claims EXCEPT ![p] = <<>>]
    /\ at' = [at EXCEPT ![p] = "idle"]
    /\ found' = [found EXCEPT ![p] = {}]
    /\ missed' = [missed EXCEPT ![p] = FALSE]
    /\ UNCHANGED <<queueVars, facts>>

\* retry_dead.
RetryDead(t) ==
    /\ job[t].status = "dead"
    /\ Fault("release")
    /\ job' = [job EXCEPT ![t] = NewJob]
    /\ UNCHANGED <<turn, messages, deletion, workVars, facts>>

-----------------------------------------------------------------------------
Work(p) ==
    \/ Claim(p)
    \/ Read(p)
    \/ Answer(p)
    \/ SaveFact(p)
    \/ LeaveFacts(p)
    \/ Conclude(p)

Next ==
    \/ \E t \in Turns :
         \/ SaveTurn(t)
         \/ Enqueue(t)
         \/ EnqueueFails(t)
         \/ DeleteSession(t)
         \/ CancelForSession(t)
         \/ CancelFails(t)
         \/ Expire(t)
         \/ BecomeDue(t)
         \/ RetryDead(t)
    \/ \E p \in Processes :
         \/ Work(p)
         \/ HandlerFails(p)
         \/ ConcludeFails(p)
         \/ Renew(p)
         \/ LoseLease(p)
         \/ Start(p)
         \/ Stop(p)

Spec == Init /\ [][Next]_vars

\* The event loop of a running process runs its worker, the clock of the database goes
\* on, and the application is started.
Fairness ==
    /\ \A p \in Processes : WF_vars(Work(p)) /\ WF_vars(Start(p))
    /\ \A t \in Turns : WF_vars(BecomeDue(t)) /\ WF_vars(Expire(t))

FairSpec == Spec /\ Fairness
-----------------------------------------------------------------------------
(***************************************************************************)
(* Properties.                                                             *)
(***************************************************************************)

TypeOK ==
    /\ job \in [Turns -> [status : Statuses \union {"none", "removed"}, attempts : Nat,
                          owner : Processes \union {NoProcess},
                          lease : {"none", "live", "expired"}, due : BOOLEAN]]
    /\ turn \in [Turns -> {"open", "saved", "queued", "unqueued"}]
    /\ messages \subseteq Turns
    /\ deletion \in [Turns -> {"none", "deleted", "over"}]
    /\ proc \in [Processes -> {"new", "up", "gone"}]
    /\ \A p \in Processes : \A i \in 1 .. Len(claims[p]) :
         claims[p][i] \in [turn : Turns, attempt : Nat]
    /\ at \in [Processes -> Handling \union Ended \union {"idle"}]
    /\ \A p \in Processes : Nothing(p) <=> at[p] = "idle"
    /\ found \in [Processes -> SUBSET Sentences]
    /\ missed \in [Processes -> BOOLEAN]
    \* A job may execute any number of times, and twice at once; what a turn says is
    \* in memory_facts once (save_fact, memory_fact_digest).
    /\ facts \in [Turns \X Sentences -> 0 .. 1]
    /\ faults \in Nat

\* INV-JOB-002 of docs/invariants.md: a job is concluded only by the execution that
\* claimed it last.  The store compares processes, not claims; it is enough because
\* a worker claims nothing while a batch of its own is unfinished.
ConcludedByItsHolder ==
    [][\A t \in Turns :
         job[t].status = "running" /\ job'[t].status \in {"completed", "dead", "retry_wait"}
           => \E p \in Processes :
                /\ at[p] \in Ended
                /\ claims[p][1] = [turn |-> t, attempt |-> job[t].attempts]]_vars

\* INV-JOB-001: whatever is enqueued is concluded, whoever stops on the way, and by
\* whatever is left of the leases.
JobsEnd ==
    \A t \in Turns : job[t].status \in Open ~> job[t].status \notin Open

\* The same promise for the failures the code passes over: a completed job has
\* written what it found (extract_from_turn: every failure is raised).
NothingMissed ==
    [][\A t \in Turns, p \in Processes :
         (/\ job[t].status = "running"
          /\ job'[t].status = "completed"
          /\ at[p] \in Ended
          /\ Mine(p) = t)
           => ~missed[p]]_vars

\* The comment of cancel_for_session: the worker looks again whether the source is
\* there before it writes.
NothingLearnedOfDeleted ==
    [][\A t \in Turns, s \in Sentences :
         facts'[<<t, s>>] > facts[<<t, s>>] => t \in messages]_vars
=============================================================================
