----------------------- MODULE BackgroundJobs_proofs -----------------------
(***************************************************************************)
(* What holds of the job queue for any processes, turns, batch, attempts   *)
(* and faults.                                                             *)
(*                                                                         *)
(* A row is leased to a process, and complete and fail compare nothing     *)
(* else.  That an older claim of the same process cannot conclude it is    *)
(* ClaimsAreLatest: a claim whose process still holds the row is the last  *)
(* one made on it.  Only Claim makes a row anybody's, and a process claims *)
(* with an empty batch only, so the older claims on the row are those of   *)
(* other processes; every other step gives no row to anybody (NoNews) and  *)
(* adds no claim (Leaves).                                                 *)
(***************************************************************************)
EXTENDS BackgroundJobs, FiniteSetTheorems, SequenceTheorems, TLAPS

-----------------------------------------------------------------------------
(* Rows and claims.                                                        *)

\* What a row can be, a claim, and a place of an execution.
Rows == [status : Statuses \union {"none", "removed"}, attempts : Nat,
         owner : Processes \union {NoProcess},
         lease : {"none", "live", "expired"}, due : BOOLEAN]

ClaimSet == [turn : Turns, attempt : Nat]

Places == Handling \union Ended \union {"idle"}

\* A claim whose process still holds the row is the last one made on it.
Latest(claim, p) == Holds(job[claim.turn], p) => claim.attempt = job[claim.turn].attempts

\* The inductive invariant: the types, and that the claims are the latest.
JobTypes ==
    /\ job \in [Turns -> Rows]
    /\ turn \in [Turns -> {"open", "saved", "queued", "unqueued"}]
    /\ messages \subseteq Turns
    /\ deletion \in [Turns -> {"none", "deleted", "over"}]

WorkTypes ==
    /\ proc \in [Processes -> {"new", "up", "gone"}]
    /\ claims \in [Processes -> Seq(ClaimSet)]
    /\ at \in [Processes -> Places]
    /\ \A p \in Processes : claims[p] = <<>> <=> at[p] = "idle"
    /\ found \in [Processes -> SUBSET Sentences]
    /\ missed \in [Processes -> BOOLEAN]

FactTypes ==
    /\ facts \in [Turns \X Sentences -> 0 .. 1]
    /\ faults \in Nat

ClaimsAreLatest ==
    \A p \in Processes : \A i \in 1 .. Len(claims[p]) : Latest(claims[p][i], p)

JobsInvariant == JobTypes /\ WorkTypes /\ FactTypes /\ ClaimsAreLatest

\* The rows that are written without a claim, and whose nobody is.
LEMMA NewRows ==
    /\ NoJob \in Rows /\ NewJob \in Rows /\ Removed \in Rows
    /\ \A p \in Processes : ~Holds(NoJob, p) /\ ~Holds(NewJob, p) /\ ~Holds(Removed, p)
    /\ NewJob.status = "pending" /\ Removed.status = "removed"
BY DEF Rows, NoJob, NewJob, Removed, Holds, Statuses

\* A claimed row is held by who claimed it, and by nobody else.
LEMMA ClaimedRow ==
    ASSUME NEW row \in Rows, NEW p \in Processes
    PROVE  /\ Claimed(row, p) \in Rows
           /\ Claimed(row, p).attempts = row.attempts + 1
           /\ Claimed(row, p).status = "running"
           /\ \A q \in Processes : Holds(Claimed(row, p), q) => q = p
<1>1. /\ "running" \in Statuses \union {"none", "removed"} /\ row.attempts + 1 \in Nat
      /\ p \in Processes \union {NoProcess}
  BY DEF Rows, Statuses
<1>2. /\ row.status \in Statuses \union {"none", "removed"} /\ row.due \in BOOLEAN
      /\ row = [status |-> row.status, attempts |-> row.attempts, owner |-> row.owner,
                lease |-> row.lease, due |-> row.due]
  BY DEF Rows
<1>3. Claimed(row, p) = [status |-> "running", attempts |-> row.attempts + 1, owner |-> p,
                         lease |-> "live", due |-> row.due]
  <2> DEFINE r1 == [row EXCEPT !.status = "running"]
             r2 == [r1 EXCEPT !.attempts = @ + 1]
             r3 == [r2 EXCEPT !.owner = p]
             r4 == [r3 EXCEPT !.lease = "live"]
  <2> HIDE DEF r1, r2, r3, r4
  <2>1. r1 = [row EXCEPT !.status = "running"]
    BY DEF r1
  <2>2. r1 = [status |-> "running", attempts |-> row.attempts, owner |-> row.owner,
              lease |-> row.lease, due |-> row.due]
    BY <1>2, <2>1
  <2>3. r2 = [r1 EXCEPT !.attempts = @ + 1]
    BY DEF r2
  <2>4. r2 = [status |-> "running", attempts |-> row.attempts + 1, owner |-> row.owner,
              lease |-> row.lease, due |-> row.due]
    BY <2>2, <2>3
  <2>5. r3 = [r2 EXCEPT !.owner = p]
    BY DEF r3
  <2>6. r3 = [status |-> "running", attempts |-> row.attempts + 1, owner |-> p,
              lease |-> row.lease, due |-> row.due]
    BY <2>4, <2>5
  <2>7. r4 = [r3 EXCEPT !.lease = "live"]
    BY DEF r4
  <2>8. r4 = [status |-> "running", attempts |-> row.attempts + 1, owner |-> p,
              lease |-> "live", due |-> row.due]
    BY <2>6, <2>7
  <2>9. Claimed(row, p) = r4
    BY DEF Claimed, r1, r2, r3, r4
  <2> QED
    BY <2>8, <2>9
<1> QED
  BY <1>1, <1>2, <1>3 DEF Rows, Holds

\* A closed row is nobody's.
LEMMA ClosedRow ==
    ASSUME NEW row \in Rows, NEW status \in Statuses \ {"running"}
    PROVE  /\ Closed(row, status) \in Rows
           /\ Closed(row, status).status = status
           /\ \A q : ~Holds(Closed(row, status), q)
<1> DEFINE closed == Closed(row, status)
<1>1. status \in Statuses \union {"none", "removed"} /\ status # "running"
  OBVIOUS
<1>2. closed \in Rows /\ closed.status = status
  <2>1. status \in Statuses \union {"none", "removed"}
    BY <1>1
  <2> QED
    BY <2>1 DEF Rows, Closed
<1> HIDE DEF closed
<1>3. \A q : ~Holds(closed, q)
  BY <1>1, <1>2 DEF Holds
<1> QED
  BY <1>2, <1>3 DEF closed

\* fail closes a row or hands it to a later attempt: nobody's either way.
LEMMA FailedRow ==
    ASSUME NEW row \in Rows, NEW final \in BOOLEAN
    PROVE  /\ Failed(row, final) \in Rows
           /\ \A q : ~Holds(Failed(row, final), q)
<1>1. /\ Closed(row, "dead") \in Rows /\ \A q : ~Holds(Closed(row, "dead"), q)
  BY ClosedRow DEF Statuses
<1>2. /\ Closed(row, "retry_wait") \in Rows /\ Closed(row, "retry_wait").status = "retry_wait"
  BY ClosedRow DEF Statuses
<1>3. /\ [Closed(row, "retry_wait") EXCEPT !.due = FALSE] \in Rows
      /\ \A q : ~Holds([Closed(row, "retry_wait") EXCEPT !.due = FALSE], q)
  <2> DEFINE closed == Closed(row, "retry_wait")
  <2> HIDE DEF closed
  <2>1. closed \in Rows /\ closed.status = "retry_wait"
    BY <1>2 DEF closed
  <2>2. /\ [closed EXCEPT !.due = FALSE] \in Rows
        /\ [closed EXCEPT !.due = FALSE].status = "retry_wait"
    BY <2>1 DEF Rows
  <2> QED
    BY <2>2 DEF Holds, closed
<1> QED
  BY <1>1, <1>3 DEF Failed

\* complete and fail write only a row their process holds.
LEMMA ConcludedRow ==
    ASSUME NEW row \in Rows, NEW p \in Processes, NEW ending
    PROVE  /\ Concluded(row, p, ending) \in Rows
           /\ \/ Concluded(row, p, ending) = row
              \/ Holds(row, p) /\ \A q : ~Holds(Concluded(row, p, ending), q)
<1>1. Closed(row, "completed") \in Rows /\ \A q : ~Holds(Closed(row, "completed"), q)
  BY ClosedRow DEF Statuses
<1>2. /\ Failed(row, ending = "gone") \in Rows
      /\ \A q : ~Holds(Failed(row, ending = "gone"), q)
  <2>1. (ending = "gone") \in BOOLEAN
    OBVIOUS
  <2> QED
    BY <2>1, FailedRow
<1> QED
  BY <1>1, <1>2 DEF Concluded

-----------------------------------------------------------------------------
(* What a step leaves of the claims.                                       *)

\* No row has a new holder, or another attempt of the same holder.
NoNews ==
    \A t \in Turns : \A p \in Processes :
        Holds(job'[t], p) => Holds(job[t], p) /\ job'[t].attempts = job[t].attempts

\* A process keeps its claims, leaves the first of them, or drops them all.
Leaves(p) ==
    \/ claims'[p] = claims[p]
    \/ claims[p] # <<>> /\ claims'[p] = Tail(claims[p])
    \/ claims'[p] = <<>>

\* The first claim of a process at work is there, and of a turn.
LEMMA ClaimType ==
    ASSUME WorkTypes, NEW p \in Processes
    PROVE  /\ claims[p] \in Seq(ClaimSet) /\ Len(claims[p]) \in Nat
           /\ \A i \in 1 .. Len(claims[p]) : claims[p][i] \in ClaimSet
           /\ at[p] # "idle" => 1 \in 1 .. Len(claims[p])
           /\ at[p] # "idle" => claims[p][1] \in ClaimSet /\ Mine(p) \in Turns
<1>1. claims[p] \in Seq(ClaimSet) /\ (claims[p] = <<>> <=> at[p] = "idle")
  BY DEF WorkTypes
<1>2. Len(claims[p]) \in Nat /\ \A i \in 1 .. Len(claims[p]) : claims[p][i] \in ClaimSet
  BY <1>1, LenProperties, ElementOfSeq
<1>3. at[p] # "idle" => 1 \in 1 .. Len(claims[p])
  BY <1>1, <1>2, EmptySeq
<1> QED
  BY <1>1, <1>2, <1>3 DEF Mine, ClaimSet

\* Where no row has a new holder and no process a new claim, the claims stay the latest.
LEMMA ClaimsStayLatest ==
    ASSUME JobsInvariant, NoNews, \A p \in Processes : Leaves(p)
    PROVE  ClaimsAreLatest' /\ \A p \in Processes : claims'[p] \in Seq(ClaimSet)
<1>1. ASSUME NEW p \in Processes
      PROVE  /\ claims'[p] \in Seq(ClaimSet)
             /\ \A i \in 1 .. Len(claims'[p]) :
                   \E j \in 1 .. Len(claims[p]) : claims'[p][i] = claims[p][j]
  <2>1. claims[p] \in Seq(ClaimSet) /\ Len(claims[p]) \in Nat
    BY ClaimType DEF JobsInvariant
  <2>2. CASE claims'[p] = claims[p]
    BY <2>1, <2>2
  <2>3. CASE claims[p] # <<>> /\ claims'[p] = Tail(claims[p])
    <3>1. /\ claims'[p] \in Seq(ClaimSet) /\ Len(claims'[p]) = Len(claims[p]) - 1
          /\ \A i \in 1 .. Len(claims'[p]) : claims'[p][i] = claims[p][i + 1]
      BY <2>1, <2>3, HeadTailProperties
    <3>2. \A i \in 1 .. Len(claims'[p]) : i + 1 \in 1 .. Len(claims[p])
      BY <2>1, <3>1
    <3> QED
      BY <3>1, <3>2
  <2>4. CASE claims'[p] = <<>>
    BY <2>4, EmptySeq
  <2> QED
    BY <2>2, <2>3, <2>4 DEF Leaves
<1>2. ASSUME NEW p \in Processes, NEW i \in 1 .. Len(claims'[p])
      PROVE  Latest(claims[p][i], p)'
  <2>1. PICK j \in 1 .. Len(claims[p]) : claims'[p][i] = claims[p][j]
    BY <1>1
  <2>2. claims[p][j] \in ClaimSet
    BY ClaimType DEF JobsInvariant
  <2> DEFINE c == claims[p][j]
  <2>3. c.turn \in Turns
    BY <2>2 DEF ClaimSet
  <2>4. Holds(job[c.turn], p) => c.attempt = job[c.turn].attempts
    BY DEF JobsInvariant, ClaimsAreLatest, Latest
  <2>5. Holds(job'[c.turn], p)
          => Holds(job[c.turn], p) /\ job'[c.turn].attempts = job[c.turn].attempts
    BY <2>3 DEF NoNews
  <2>6. Holds(job'[c.turn], p) => c.attempt = job'[c.turn].attempts
    BY <2>4, <2>5
  <2> QED
    BY <2>1, <2>6 DEF Latest, Holds
<1> QED
  BY <1>1, <1>2 DEF ClaimsAreLatest

-----------------------------------------------------------------------------
(* Every action keeps the invariant.                                       *)

\* The queue starts with the invariant.
LEMMA InitJobs == Init => JobsInvariant
<1> SUFFICES ASSUME Init PROVE JobsInvariant
  OBVIOUS
<1> USE JobsAssumption
<1>1. JobTypes
  BY NewRows DEF Init, JobTypes
<1>2. \A p \in Processes : claims[p] = <<>> /\ at[p] = "idle"
  BY DEF Init
<1>3. WorkTypes
  <2>1. claims \in [Processes -> Seq(ClaimSet)]
    BY EmptySeq DEF Init
  <2> QED
    BY <1>2, <2>1 DEF Init, WorkTypes, Places
<1>4. FactTypes
  BY DEF Init, FactTypes
<1>5. ClaimsAreLatest
  BY <1>2, EmptySeq DEF ClaimsAreLatest
<1> QED
  BY <1>1, <1>3, <1>4, <1>5 DEF JobsInvariant

\* Renew, Expire and BecomeDue write a lease or the end of a delay, and no holder.
LEMMA RowsStayHeld ==
    ASSUME NEW row \in Rows, NEW lease \in {"none", "live", "expired"}
    PROVE  /\ [row EXCEPT !.lease = lease] \in Rows
           /\ [row EXCEPT !.due = TRUE] \in Rows
           /\ \A q : Holds([row EXCEPT !.lease = lease], q) => Holds(row, q)
           /\ \A q : Holds([row EXCEPT !.due = TRUE], q) => Holds(row, q)
           /\ [row EXCEPT !.lease = lease].attempts = row.attempts
           /\ [row EXCEPT !.due = TRUE].attempts = row.attempts
           /\ [row EXCEPT !.lease = lease].status = row.status
           /\ [row EXCEPT !.due = TRUE].status = row.status
BY DEF Rows, Holds

\* A step that writes one row gives it to nobody new.
LEMMA OneRow ==
    ASSUME job \in [Turns -> Rows], NEW t \in Turns, NEW row \in Rows,
           job' = [job EXCEPT ![t] = row],
           \A q \in Processes : Holds(row, q) => Holds(job[t], q) /\ row.attempts = job[t].attempts
    PROVE  job' \in [Turns -> Rows] /\ NoNews
BY DEF NoNews

\* A step that leaves the workers alone.
LEMMA WorkStays ==
    ASSUME WorkTypes, UNCHANGED workVars
    PROVE  WorkTypes' /\ \A p \in Processes : Leaves(p)
BY DEF WorkTypes, Leaves, workVars

\* What is left to check of a step without a claim.
LEMMA StepKeeps ==
    ASSUME JobsInvariant, JobTypes', WorkTypes', FactTypes', NoNews,
           \A p \in Processes : Leaves(p)
    PROVE  JobsInvariant'
BY ClaimsStayLatest DEF JobsInvariant

\* A step that writes no row has no news.
LEMMA SameRows ==
    ASSUME UNCHANGED job
    PROVE  NoNews
BY DEF NoNews

\* The steps of the chat, of time and of the operator, on the row of one turn.
LEMMA TurnSteps ==
    ASSUME JobsInvariant, NEW t \in Turns,
           \/ SaveTurn(t) \/ Enqueue(t) \/ EnqueueFails(t) \/ DeleteSession(t)
           \/ CancelForSession(t) \/ CancelFails(t) \/ Expire(t) \/ BecomeDue(t)
           \/ RetryDead(t)
    PROVE  JobsInvariant'
<1>1. JobTypes /\ WorkTypes /\ FactTypes /\ job \in [Turns -> Rows] /\ job[t] \in Rows
  BY DEF JobsInvariant, JobTypes
<1>2. UNCHANGED workVars /\ UNCHANGED facts
  BY DEF SaveTurn, Enqueue, EnqueueFails, DeleteSession, CancelForSession, CancelFails,
     Expire, BecomeDue, RetryDead
<1>3. faults' \in Nat
  <2>1. UNCHANGED faults \/ faults' = faults + 1
    BY DEF SaveTurn, Enqueue, EnqueueFails, DeleteSession, CancelForSession, CancelFails,
       Expire, BecomeDue, RetryDead, Fault
  <2> QED
    BY <1>1, <2>1 DEF FactTypes
<1>4. FactTypes'
  BY <1>1, <1>2, <1>3 DEF FactTypes
<1>5. WorkTypes' /\ \A p \in Processes : Leaves(p)
  BY <1>1, <1>2, WorkStays
<1>6. UNCHANGED job \/ \E row \in Rows :
        /\ job' = [job EXCEPT ![t] = row]
        /\ \A q \in Processes : Holds(row, q) => Holds(job[t], q) /\ row.attempts = job[t].attempts
  <2>1. CASE UNCHANGED job
    BY <2>1
  <2>2. CASE Enqueue(t) \/ RetryDead(t)
    BY <2>2, NewRows DEF Enqueue, RetryDead
  <2>3. CASE CancelForSession(t)
    <3>1. /\ Closed(job[t], "cancelled") \in Rows
          /\ \A q : ~Holds(Closed(job[t], "cancelled"), q)
      BY <1>1, ClosedRow DEF Statuses
    <3>2. job' = [job EXCEPT ![t] =
                    IF job[t].status \in Open THEN Closed(job[t], "cancelled") ELSE job[t]]
      BY <2>3 DEF CancelForSession
    <3> QED
      BY <1>1, <3>1, <3>2
  <2>4. CASE Expire(t)
    <3>1. job' = [job EXCEPT ![t] = [job[t] EXCEPT !.lease = "expired"]]
      BY <2>4 DEF Expire
    <3>2. /\ [job[t] EXCEPT !.lease = "expired"] \in Rows
          /\ \A q : Holds([job[t] EXCEPT !.lease = "expired"], q) => Holds(job[t], q)
          /\ [job[t] EXCEPT !.lease = "expired"].attempts = job[t].attempts
      BY <1>1, RowsStayHeld
    <3> QED
      BY <3>1, <3>2
  <2>5. CASE BecomeDue(t)
    <3>1. job' = [job EXCEPT ![t] = [job[t] EXCEPT !.due = TRUE]]
      BY <2>5 DEF BecomeDue
    <3>2. /\ [job[t] EXCEPT !.due = TRUE] \in Rows
          /\ \A q : Holds([job[t] EXCEPT !.due = TRUE], q) => Holds(job[t], q)
          /\ [job[t] EXCEPT !.due = TRUE].attempts = job[t].attempts
      BY <1>1, RowsStayHeld
    <3> QED
      BY <3>1, <3>2
  <2> QED
    BY <2>1, <2>2, <2>3, <2>4, <2>5
    DEF SaveTurn, EnqueueFails, DeleteSession, CancelFails
<1>7. job' \in [Turns -> Rows] /\ NoNews
  BY <1>1, <1>6, OneRow, SameRows
<1>8. JobTypes'
  <2>1. turn' \in [Turns -> {"open", "saved", "queued", "unqueued"}]
    BY <1>1 DEF JobTypes, SaveTurn, Enqueue, EnqueueFails, DeleteSession, CancelForSession,
       CancelFails, Expire, BecomeDue, RetryDead
  <2>2. messages' \subseteq Turns
    BY <1>1 DEF JobTypes, SaveTurn, Enqueue, EnqueueFails, DeleteSession, CancelForSession,
       CancelFails, Expire, BecomeDue, RetryDead
  <2>3. deletion' \in [Turns -> {"none", "deleted", "over"}]
    BY <1>1 DEF JobTypes, SaveTurn, Enqueue, EnqueueFails, DeleteSession, CancelForSession,
       CancelFails, Expire, BecomeDue, RetryDead
  <2> QED
    BY <1>7, <2>1, <2>2, <2>3 DEF JobTypes
<1> QED
  BY <1>4, <1>5, <1>7, <1>8, StepKeeps

-----------------------------------------------------------------------------
(* The worker.                                                             *)

\* NextClaim and what drops a batch.
LEMMA NextClaimWork ==
    ASSUME WorkTypes, NEW p \in Processes, at[p] # "idle", NextClaim(p)
    PROVE  WorkTypes' /\ \A q \in Processes : Leaves(q)
<1>1. claims[p] \in Seq(ClaimSet) /\ Len(claims[p]) \in Nat /\ claims[p] # <<>>
  BY ClaimType DEF WorkTypes
<1>2. /\ Tail(claims[p]) \in Seq(ClaimSet)
      /\ Len(Tail(claims[p])) = Len(claims[p]) - 1
  BY <1>1, HeadTailProperties
<1>3. Tail(claims[p]) = <<>> <=> ~(Len(claims[p]) > 1)
  <2>1. Tail(claims[p]) = <<>> <=> Len(Tail(claims[p])) = 0
    BY <1>2, EmptySeq
  <2>2. Len(claims[p]) # 0
    BY <1>1, EmptySeq
  <2>3. \A m, n \in Nat : m = n - 1 /\ n # 0 => (m = 0 <=> ~(n > 1))
    OBVIOUS
  <2>4. Len(Tail(claims[p])) \in Nat
    BY <1>2, LenProperties
  <2> QED
    BY <1>1, <1>2, <2>1, <2>2, <2>3, <2>4
<1>4. /\ claims' = [claims EXCEPT ![p] = Tail(claims[p])]
      /\ at' = [at EXCEPT ![p] = IF Len(claims[p]) > 1 THEN "ready" ELSE "idle"]
      /\ found' = [found EXCEPT ![p] = {}]
      /\ missed' = [missed EXCEPT ![p] = FALSE]
      /\ UNCHANGED proc
  BY DEF NextClaim
<1>5. /\ claims' \in [Processes -> Seq(ClaimSet)]
      /\ claims'[p] = Tail(claims[p])
      /\ \A q \in Processes \ {p} : claims'[q] = claims[q] /\ at'[q] = at[q]
  BY <1>2, <1>4 DEF WorkTypes
<1>6. at' \in [Processes -> Places] /\ (at'[p] = "idle" <=> ~(Len(claims[p]) > 1))
  BY <1>4 DEF WorkTypes, Places, Handling
<1>7. \A q \in Processes : claims'[q] = <<>> <=> at'[q] = "idle"
  BY <1>3, <1>5, <1>6 DEF WorkTypes
<1>8. found' \in [Processes -> SUBSET Sentences] /\ missed' \in [Processes -> BOOLEAN]
      /\ proc' \in [Processes -> {"new", "up", "gone"}]
  BY <1>4 DEF WorkTypes
<1> QED
  BY <1>1, <1>5, <1>6, <1>7, <1>8 DEF WorkTypes, Leaves

\* ConcludeFails and Stop: the batch of a process is dropped.
LEMMA DropBatch ==
    ASSUME WorkTypes, NEW p \in Processes,
           claims' = [claims EXCEPT ![p] = <<>>],
           at' = [at EXCEPT ![p] = "idle"],
           found' = [found EXCEPT ![p] = {}],
           missed' = [missed EXCEPT ![p] = FALSE],
           proc' \in [Processes -> {"new", "up", "gone"}]
    PROVE  WorkTypes' /\ \A q \in Processes : Leaves(q)
<1>1. claims' \in [Processes -> Seq(ClaimSet)]
  BY EmptySeq DEF WorkTypes
<1>2. /\ claims'[p] = <<>>
      /\ \A q \in Processes \ {p} : claims'[q] = claims[q] /\ at'[q] = at[q]
      /\ at'[p] = "idle"
  BY DEF WorkTypes
<1>3. at' \in [Processes -> Places]
  BY DEF WorkTypes, Places
<1>4. found' \in [Processes -> SUBSET Sentences] /\ missed' \in [Processes -> BOOLEAN]
  BY DEF WorkTypes
<1> QED
  BY <1>1, <1>2, <1>3, <1>4 DEF WorkTypes, Leaves

\* A step inside the handler.
LEMMA HandlerWork ==
    ASSUME WorkTypes, NEW p \in Processes, at[p] # "idle",
           NEW place \in Places \ {"idle"}, at' = [at EXCEPT ![p] = place],
           UNCHANGED <<proc, claims>>,
           found' \in [Processes -> SUBSET Sentences], missed' \in [Processes -> BOOLEAN]
    PROVE  WorkTypes' /\ \A q \in Processes : Leaves(q)
<1>1. at' \in [Processes -> Places] /\ at'[p] # "idle" /\ \A q \in Processes \ {p} : at'[q] = at[q]
  BY DEF WorkTypes
<1>2. \A q \in Processes : claims'[q] = <<>> <=> at'[q] = "idle"
  BY <1>1 DEF WorkTypes
<1> QED
  BY <1>1, <1>2 DEF WorkTypes, Leaves

\* Read, Answer, LeaveFacts, SaveFact and HandlerFails: the handler goes on.
LEMMA HandlerSteps ==
    ASSUME JobsInvariant, NEW p \in Processes,
           Read(p) \/ Answer(p) \/ LeaveFacts(p) \/ SaveFact(p) \/ HandlerFails(p)
    PROVE  JobsInvariant'
<1>1. JobTypes /\ WorkTypes /\ FactTypes
  BY DEF JobsInvariant
<1>2. UNCHANGED queueVars /\ UNCHANGED <<proc, claims>>
  BY DEF Read, Answer, LeaveFacts, SaveFact, HandlerFails, Goes
<1>3. JobTypes' /\ NoNews
  BY <1>1, <1>2, SameRows DEF JobTypes, queueVars
<1>4. at[p] # "idle" /\ Mine(p) \in Turns
  <2>1. at[p] # "idle"
    BY DEF Read, Answer, LeaveFacts, SaveFact, HandlerFails, Raising, Handling
  <2> QED
    BY <1>1, <2>1, ClaimType
<1>5. found' \in [Processes -> SUBSET Sentences] /\ missed' \in [Processes -> BOOLEAN]
  <2>1. found \in [Processes -> SUBSET Sentences] /\ missed \in [Processes -> BOOLEAN]
    BY <1>1 DEF WorkTypes
  <2> QED
    BY <2>1 DEF Read, Answer, LeaveFacts, SaveFact, HandlerFails
<1>6. WorkTypes' /\ \A q \in Processes : Leaves(q)
  <2>1. \E place \in Places \ {"idle"} : at' = [at EXCEPT ![p] = place]
    <3>1. CASE Read(p)
      BY <3>1 DEF Read, Goes, Places, Handling, Ended
    <3>2. CASE Answer(p)
      BY <3>2 DEF Answer, Goes, Places, Handling, Ended
    <3>3. CASE LeaveFacts(p)
      BY <3>3 DEF LeaveFacts, Goes, Places, Handling, Ended
    <3>4. CASE SaveFact(p)
      <4>1. at' = at /\ at[p] = "save" /\ at' = [at EXCEPT ![p] = "save"]
        BY <1>1, <3>4 DEF SaveFact, WorkTypes
      <4> QED
        BY <4>1 DEF Places, Handling
    <3>5. CASE HandlerFails(p)
      BY <3>5 DEF HandlerFails, Goes, Places, Ended
    <3> QED
      BY <3>1, <3>2, <3>3, <3>4, <3>5
  <2> QED
    BY <1>1, <1>2, <1>4, <1>5, <2>1, HandlerWork
<1>7. FactTypes'
  <2>1. CASE SaveFact(p)
    <3>1. PICK s \in found[p] :
            \/ facts' = WithFact(Mine(p), s) /\ UNCHANGED faults
            \/ Fault("fact") /\ UNCHANGED facts
      BY <2>1 DEF SaveFact
    <3>2. s \in Sentences
      BY <1>1 DEF WorkTypes
    <3>3. <<Mine(p), s>> \in Turns \X Sentences
      BY <1>4, <3>2
    <3>4. WithFact(Mine(p), s) \in [Turns \X Sentences -> 0 .. 1]
      <4> DEFINE f == <<Mine(p), s>>
      <4>1. facts \in [Turns \X Sentences -> 0 .. 1] /\ facts[f] \in 0 .. 1
        BY <1>1, <3>3 DEF FactTypes
      <4>2. (IF facts[f] = 0 THEN 1 ELSE facts[f]) \in 0 .. 1
        BY <4>1
      <4>3. WithFact(Mine(p), s) = [facts EXCEPT ![f] = IF facts[f] = 0 THEN 1 ELSE facts[f]]
        BY DEF WithFact
      <4> HIDE DEF f
      <4> QED
        BY <4>1, <4>2, <4>3
    <3> QED
      BY <1>1, <3>1, <3>4 DEF FactTypes, Fault
  <2>2. CASE ~SaveFact(p)
    BY <1>1, <2>2 DEF FactTypes, Read, Answer, LeaveFacts, HandlerFails
  <2> QED
    BY <2>1, <2>2
<1> QED
  BY <1>3, <1>6, <1>7, StepKeeps

\* Conclude, ConcludeFails, Renew and LoseLease: a row is written back or given up.
LEMMA ClosingSteps ==
    ASSUME JobsInvariant, NEW p \in Processes,
           Conclude(p) \/ ConcludeFails(p) \/ Renew(p) \/ LoseLease(p)
    PROVE  JobsInvariant'
<1>1. JobTypes /\ WorkTypes /\ FactTypes /\ job \in [Turns -> Rows]
  BY DEF JobsInvariant, JobTypes
<1>2. at[p] # "idle" /\ Mine(p) \in Turns /\ job[Mine(p)] \in Rows
  <2>1. at[p] # "idle"
    BY DEF Conclude, ConcludeFails, Renew, LoseLease, Ended, Handling
  <2> QED
    BY <1>1, <2>1, ClaimType
<1>3. UNCHANGED job \/ \E row \in Rows :
        /\ job' = [job EXCEPT ![Mine(p)] = row]
        /\ \A q \in Processes :
             Holds(row, q) => Holds(job[Mine(p)], q) /\ row.attempts = job[Mine(p)].attempts
  <2> DEFINE row == Concluded(job[Mine(p)], p, at[p])
  <2>1. row \in Rows /\ (row = job[Mine(p)] \/ \A q : ~Holds(row, q))
    BY <1>2, ConcludedRow
  <2>2. CASE Conclude(p)
    <3>1. job' = [job EXCEPT ![Mine(p)] = row]
      BY <2>2 DEF Conclude
    <3> HIDE DEF row
    <3> QED
      BY <2>1, <3>1
  <2>3. CASE ConcludeFails(p)
    <3>1. job' = [job EXCEPT ![Mine(p)] = row] \/ job' = [job EXCEPT ![Mine(p)] = job[Mine(p)]]
      BY <2>3 DEF ConcludeFails
    <3> HIDE DEF row
    <3> QED
      BY <1>2, <2>1, <3>1
  <2>4. CASE Renew(p)
    <3>1. job' = [job EXCEPT ![Mine(p)] = [job[Mine(p)] EXCEPT !.lease = "live"]]
      BY <2>4 DEF Renew
    <3>2. /\ [job[Mine(p)] EXCEPT !.lease = "live"] \in Rows
          /\ \A q : Holds([job[Mine(p)] EXCEPT !.lease = "live"], q) => Holds(job[Mine(p)], q)
          /\ [job[Mine(p)] EXCEPT !.lease = "live"].attempts = job[Mine(p)].attempts
      BY <1>2, RowsStayHeld
    <3> QED
      BY <3>1, <3>2
  <2>5. CASE LoseLease(p)
    BY <2>5 DEF LoseLease, queueVars
  <2> QED
    BY <2>2, <2>3, <2>4, <2>5
<1>4. job' \in [Turns -> Rows] /\ NoNews
  BY <1>1, <1>2, <1>3, OneRow, SameRows
<1>5. JobTypes'
  <2>1. UNCHANGED <<turn, messages, deletion>>
    BY DEF Conclude, ConcludeFails, Renew, LoseLease, queueVars
  <2> QED
    BY <1>1, <1>4, <2>1 DEF JobTypes
<1>6. WorkTypes' /\ \A q \in Processes : Leaves(q)
  <2>1. CASE NextClaim(p)
    BY <1>1, <1>2, <2>1, NextClaimWork
  <2>2. CASE ConcludeFails(p)
    <3>1. /\ claims' = [claims EXCEPT ![p] = <<>>]
          /\ at' = [at EXCEPT ![p] = "idle"]
          /\ found' = [found EXCEPT ![p] = {}]
          /\ missed' = [missed EXCEPT ![p] = FALSE]
          /\ UNCHANGED proc
      BY <2>2 DEF ConcludeFails
    <3>2. proc' \in [Processes -> {"new", "up", "gone"}]
      BY <1>1, <3>1 DEF WorkTypes
    <3> QED
      BY <1>1, <3>1, <3>2, DropBatch
  <2>3. CASE Renew(p)
    <3>1. UNCHANGED workVars
      BY <2>3 DEF Renew
    <3> QED
      BY <1>1, <3>1, WorkStays
  <2> QED
    BY <2>1, <2>2, <2>3 DEF Conclude, LoseLease
<1>7. FactTypes'
  BY <1>1 DEF FactTypes, Conclude, ConcludeFails, Renew, LoseLease, Fault
<1> QED
  BY <1>4, <1>5, <1>6, <1>7, StepKeeps

\* Start and Stop: the cleanup removes completed rows, a stop drops the batch.
LEMMA ProcessSteps ==
    ASSUME JobsInvariant, NEW p \in Processes, Start(p) \/ Stop(p)
    PROVE  JobsInvariant'
<1>1. JobTypes /\ WorkTypes /\ FactTypes /\ job \in [Turns -> Rows]
  BY DEF JobsInvariant, JobTypes
<1>2. CASE Start(p)
  <2>1. PICK old \in SUBSET {t \in Turns : job[t].status = "completed"} :
          job' = [t \in Turns |-> IF t \in old THEN Removed ELSE job[t]]
    BY <1>2 DEF Start
  <2>2. job' \in [Turns -> Rows] /\ NoNews
    BY <1>1, <2>1, NewRows DEF NoNews
  <2>3. UNCHANGED <<turn, messages, deletion, claims, at, found, missed, facts, faults>>
    BY <1>2 DEF Start
  <2>4. JobTypes' /\ FactTypes'
    BY <1>1, <2>2, <2>3 DEF JobTypes, FactTypes
  <2>5. proc' \in [Processes -> {"new", "up", "gone"}]
    BY <1>1, <1>2 DEF Start, WorkTypes
  <2>6. WorkTypes' /\ \A q \in Processes : Leaves(q)
    BY <1>1, <2>3, <2>5 DEF WorkTypes, Leaves
  <2> QED
    BY <2>2, <2>4, <2>6, StepKeeps
<1>3. CASE Stop(p)
  <2>1. /\ claims' = [claims EXCEPT ![p] = <<>>]
        /\ at' = [at EXCEPT ![p] = "idle"]
        /\ found' = [found EXCEPT ![p] = {}]
        /\ missed' = [missed EXCEPT ![p] = FALSE]
        /\ proc' = [proc EXCEPT ![p] = "gone"]
        /\ UNCHANGED <<queueVars, facts>>
    BY <1>3 DEF Stop
  <2>2. proc' \in [Processes -> {"new", "up", "gone"}]
    BY <1>1, <2>1 DEF WorkTypes
  <2>3. WorkTypes' /\ \A q \in Processes : Leaves(q)
    BY <1>1, <2>1, <2>2, DropBatch
  <2>4. JobTypes' /\ NoNews
    BY <1>1, <2>1, SameRows DEF JobTypes, queueVars
  <2>5. FactTypes'
    BY <1>1, <1>3, <2>1 DEF FactTypes, Stop, Fault
  <2> QED
    BY <2>3, <2>4, <2>5, StepKeeps
<1> QED
  BY <1>2, <1>3

\* Claim: the rows of the batch change hands; every older claim on them loses its row.
LEMMA ClaimStep ==
    ASSUME JobsInvariant, NEW p \in Processes, Claim(p)
    PROVE  JobsInvariant'
<1> USE JobsAssumption
<1> DEFINE ready == {t \in Turns : Claimable(job[t])}
           size == IF Cardinality(ready) < Batch THEN Cardinality(ready) ELSE Batch
<1>1. JobTypes /\ WorkTypes /\ FactTypes /\ job \in [Turns -> Rows]
  BY DEF JobsInvariant, JobTypes
<1>2. PICK batch \in SUBSET ready :
        /\ Cardinality(batch) = size
        /\ job' = [t \in Turns |-> IF t \in batch THEN Claimed(job[t], p) ELSE job[t]]
        /\ \E order \in SetToSeqs(batch) :
             claims' = [claims EXCEPT ![p] =
                 [i \in 1 .. size |->
                    [turn |-> order[i], attempt |-> job[order[i]].attempts + 1]]]
  BY DEF Claim
<1>3. ready # {} /\ Nothing(p)
  BY DEF Claim
<1>4. /\ at' = [at EXCEPT ![p] = "ready"]
      /\ UNCHANGED <<turn, messages, deletion, proc, found, missed, facts, faults>>
  BY DEF Claim
<1>5. size \in Nat \ {0} /\ IsFiniteSet(batch)
  <2>1. IsFiniteSet(ready)
    BY FS_Subset
  <2>2. Cardinality(ready) \in Nat /\ Cardinality(ready) # 0
    BY <1>3, <2>1, FS_CardinalityType, FS_EmptySet
  <2>3. IsFiniteSet(batch)
    BY <2>1, FS_Subset
  <2> QED
    BY <2>2, <2>3
<1>6. PICK order \in [1 .. size -> batch] :
        claims' = [claims EXCEPT ![p] =
            [i \in 1 .. size |->
               [turn |-> order[i], attempt |-> job[order[i]].attempts + 1]]]
  BY <1>2 DEF SetToSeqs
<1> DEFINE new == [i \in 1 .. size |->
                     [turn |-> order[i], attempt |-> job[order[i]].attempts + 1]]
<1>7. batch \subseteq Turns
  BY <1>2
<1> HIDE DEF ready, size
<1>8. \A i \in 1 .. size : order[i] \in batch /\ order[i] \in Turns /\ job[order[i]] \in Rows
  BY <1>1, <1>6, <1>7
<1>9. \A i \in 1 .. size : new[i] \in ClaimSet
  BY <1>8 DEF ClaimSet, Rows
<1>10. new \in Seq(ClaimSet) /\ Len(new) = size /\ new # <<>>
  <2>1. new \in [1 .. size -> ClaimSet]
    BY <1>9
  <2>2. size \in Nat
    BY <1>5
  <2> HIDE DEF new
  <2>3. new \in Seq(ClaimSet)
    BY <2>1, <2>2, SeqDef
  <2>4. Len(new) = size
    BY <2>1, <2>2, <2>3, LenProperties
  <2> QED
    BY <1>5, <2>3, <2>4, EmptySeq
<1>11. job' \in [Turns -> Rows]
  BY <1>1, <1>2, ClaimedRow
<1>12. claims' = [claims EXCEPT ![p] = new]
  BY <1>6
<1>13. /\ claims'[p] = new /\ claims' \in [Processes -> Seq(ClaimSet)]
       /\ \A q \in Processes \ {p} : claims'[q] = claims[q]
  <2> HIDE DEF new
  <2> QED
    BY <1>1, <1>10, <1>12 DEF WorkTypes
<1>14. JobTypes' /\ FactTypes'
  BY <1>1, <1>4, <1>11 DEF JobTypes, FactTypes
<1>15. WorkTypes'
  <2>1. at' \in [Processes -> Places] /\ at'[p] = "ready"
        /\ \A q \in Processes \ {p} : at'[q] = at[q]
    BY <1>1, <1>4 DEF WorkTypes, Places, Handling
  <2>2. \A q \in Processes : claims'[q] = <<>> <=> at'[q] = "idle"
    <3> HIDE DEF new
    <3> QED
      BY <1>1, <1>10, <1>13, <2>1 DEF WorkTypes
  <2> QED
    BY <1>1, <1>4, <1>13, <2>1, <2>2 DEF WorkTypes
<1>16. ClaimsAreLatest'
  <2>1. ASSUME NEW i \in 1 .. size
        PROVE  Latest(claims[p][i], p)'
    <3>1. /\ claims'[p][i].turn = order[i]
          /\ claims'[p][i].attempt = job[order[i]].attempts + 1
      BY <1>13
    <3>2. job'[order[i]] = Claimed(job[order[i]], p)
      BY <1>2, <1>8
    <3>3. Claimed(job[order[i]], p).attempts = job[order[i]].attempts + 1
      BY <1>8, ClaimedRow
    <3> QED
      BY <3>1, <3>2, <3>3 DEF Latest
  <2>2. ASSUME NEW q \in Processes \ {p}, NEW i \in 1 .. Len(claims[q])
        PROVE  Latest(claims[q][i], q)'
    <3> DEFINE c == claims[q][i]
    <3>1. claims'[q] = claims[q] /\ c.turn \in Turns
      <4>1. c \in ClaimSet
        BY <1>1, ClaimType
      <4> QED
        BY <4>1, <1>13 DEF ClaimSet
    <3>2. Latest(c, q)
      BY DEF JobsInvariant, ClaimsAreLatest
    <3>3. CASE c.turn \in batch
      <4>1. job'[c.turn] = Claimed(job[c.turn], p)
        BY <1>2, <3>1, <3>3
      <4>2. ~Holds(job'[c.turn], q)
        BY <1>1, <3>1, <4>1, ClaimedRow
      <4> QED
        BY <3>1, <4>2 DEF Latest
    <3>4. CASE c.turn \notin batch
      <4>1. job'[c.turn] = job[c.turn]
        BY <1>2, <3>1, <3>4
      <4> QED
        BY <3>1, <3>2, <4>1 DEF Latest
    <3> QED
      BY <3>3, <3>4
  <2> HIDE DEF new
  <2>3. ASSUME NEW q \in Processes, NEW i \in 1 .. Len(claims'[q])
        PROVE  Latest(claims[q][i], q)'
    <3>1. CASE q = p
      <4>1. i \in 1 .. size
        BY <1>10, <1>13, <2>3, <3>1
      <4> QED
        BY <2>1, <3>1, <4>1
    <3>2. CASE q # p
      BY <1>13, <2>2, <3>2
    <3> QED
      BY <3>1, <3>2
  <2> QED
    BY <2>3 DEF ClaimsAreLatest
<1> QED
  BY <1>14, <1>15, <1>16 DEF JobsInvariant

\* The invariant is inductive.
LEMMA JobsStep == JobsInvariant /\ [Next]_vars => JobsInvariant'
<1> SUFFICES ASSUME JobsInvariant, [Next]_vars PROVE JobsInvariant'
  OBVIOUS
<1>1. CASE UNCHANGED vars
  BY <1>1 DEF vars, queueVars, workVars, JobsInvariant, JobTypes, WorkTypes, FactTypes,
     ClaimsAreLatest, Latest, Holds
<1>2. ASSUME NEW t \in Turns,
             \/ SaveTurn(t) \/ Enqueue(t) \/ EnqueueFails(t) \/ DeleteSession(t)
             \/ CancelForSession(t) \/ CancelFails(t) \/ Expire(t) \/ BecomeDue(t)
             \/ RetryDead(t)
      PROVE  JobsInvariant'
  BY <1>2, TurnSteps
<1>3. ASSUME NEW p \in Processes, Claim(p)
      PROVE  JobsInvariant'
  BY <1>3, ClaimStep
<1>4. ASSUME NEW p \in Processes,
             Read(p) \/ Answer(p) \/ LeaveFacts(p) \/ SaveFact(p) \/ HandlerFails(p)
      PROVE  JobsInvariant'
  BY <1>4, HandlerSteps
<1>5. ASSUME NEW p \in Processes,
             Conclude(p) \/ ConcludeFails(p) \/ Renew(p) \/ LoseLease(p)
      PROVE  JobsInvariant'
  BY <1>5, ClosingSteps
<1>6. ASSUME NEW p \in Processes, Start(p) \/ Stop(p)
      PROVE  JobsInvariant'
  BY <1>6, ProcessSteps
<1> QED
  BY <1>1, <1>2, <1>3, <1>4, <1>5, <1>6 DEF Next, Work

\* So it always holds.
LEMMA JobsInvariantHolds == Spec => []JobsInvariant
<1> QED
  BY InitJobs, JobsStep, PTL DEF Spec

-----------------------------------------------------------------------------
(* The theorems.                                                           *)

\* Every row, claim and place of the queue stays well formed, and a fact has one row at
\* most, for any processes, turns, batch, attempts and faults.
THEOREM JobsTypeCorrect == Spec => []TypeOK
<1>1. JobsInvariant => TypeOK
  <2> SUFFICES ASSUME JobsInvariant PROVE TypeOK
    OBVIOUS
  <2>1. JobTypes /\ WorkTypes /\ FactTypes
    BY DEF JobsInvariant
  <2>2. \A p \in Processes : \A i \in 1 .. Len(claims[p]) :
          claims[p][i] \in [turn : Turns, attempt : Nat]
    BY <2>1, ClaimType DEF ClaimSet
  <2>3. \A p \in Processes : Nothing(p) <=> at[p] = "idle"
    BY <2>1 DEF WorkTypes, Nothing
  <2> QED
    BY <2>1, <2>2, <2>3 DEF TypeOK, JobTypes, WorkTypes, FactTypes, Rows, Places
<1> QED
  BY <1>1, JobsInvariantHolds, PTL

\* complete and fail are the only statements that conclude a running row.
LEMMA OnlyAConclusion ==
    ASSUME JobsInvariant, [Next]_vars, NEW t \in Turns,
           job[t].status = "running", job'[t].status \in {"completed", "dead", "retry_wait"}
    PROVE  \E p \in Processes :
             at[p] \in Ended /\ at[p] # "idle" /\ Mine(p) = t /\ Holds(job[t], p)
<1>1. job \in [Turns -> Rows] /\ job[t] \in Rows /\ WorkTypes
  BY DEF JobsInvariant, JobTypes
<1>2. ~UNCHANGED job /\ job'[t] # job[t]
  OBVIOUS
<1>3. ASSUME NEW p \in Processes, Conclude(p) \/ ConcludeFails(p)
      PROVE  at[p] \in Ended /\ at[p] # "idle" /\ Mine(p) = t /\ Holds(job[t], p)
  <2>1. at[p] \in Ended /\ at[p] # "idle"
    BY <1>3 DEF Conclude, ConcludeFails, Ended
  <2>2. \E row \in {job[Mine(p)], Concluded(job[Mine(p)], p, at[p])} :
          job' = [job EXCEPT ![Mine(p)] = row]
    BY <1>3 DEF Conclude, ConcludeFails
  <2>3. Mine(p) \in Turns
    BY <1>1, <2>1, ClaimType
  <2>4. Mine(p) = t /\ Concluded(job[t], p, at[p]) # job[t]
    BY <1>1, <1>2, <2>2, <2>3
  <2>5. Holds(job[t], p)
    BY <2>4 DEF Concluded
  <2> QED
    BY <2>1, <2>4, <2>5
<1>4. ASSUME NEW u \in Turns,
             \/ SaveTurn(u) \/ Enqueue(u) \/ EnqueueFails(u) \/ DeleteSession(u)
             \/ CancelForSession(u) \/ CancelFails(u) \/ Expire(u) \/ BecomeDue(u)
             \/ RetryDead(u)
      PROVE  FALSE
  <2>1. CASE Enqueue(u) \/ RetryDead(u)
    BY <1>1, <1>2, <2>1, NewRows DEF Enqueue, RetryDead
  <2>2. CASE CancelForSession(u)
    <3>1. Closed(job[u], "cancelled").status = "cancelled"
      BY <1>1, ClosedRow DEF Statuses
    <3> QED
      BY <1>1, <1>2, <2>2, <3>1 DEF CancelForSession
  <2>3. CASE Expire(u)
    <3>1. job' = [job EXCEPT ![u] = [job[u] EXCEPT !.lease = "expired"]]
      BY <2>3 DEF Expire
    <3>2. [job[u] EXCEPT !.lease = "expired"].status = job[u].status
      BY <1>1, RowsStayHeld
    <3> QED
      BY <1>1, <3>1, <3>2
  <2>4. CASE BecomeDue(u)
    <3>1. job' = [job EXCEPT ![u] = [job[u] EXCEPT !.due = TRUE]]
      BY <2>4 DEF BecomeDue
    <3>2. [job[u] EXCEPT !.due = TRUE].status = job[u].status
      BY <1>1, RowsStayHeld
    <3> QED
      BY <1>1, <3>1, <3>2
  <2> QED
    BY <1>2, <1>4, <2>1, <2>2, <2>3, <2>4
    DEF SaveTurn, EnqueueFails, DeleteSession, CancelFails
<1>5. ASSUME NEW p \in Processes, Claim(p)
      PROVE  FALSE
  <2>1. job'[t] = Claimed(job[t], p) \/ job'[t] = job[t]
    BY <1>5 DEF Claim
  <2>2. Claimed(job[t], p).status = "running"
    BY <1>1, ClaimedRow
  <2> QED
    BY <2>1, <2>2
<1>6. ASSUME NEW p \in Processes, Renew(p)
      PROVE  FALSE
  <2>1. Mine(p) \in Turns
    BY <1>1, <1>6, ClaimType DEF Renew, Handling
  <2>2. job' = [job EXCEPT ![Mine(p)] = [job[Mine(p)] EXCEPT !.lease = "live"]]
    BY <1>6 DEF Renew
  <2>3. [job[Mine(p)] EXCEPT !.lease = "live"].status = job[Mine(p)].status
    BY <1>1, <2>1, RowsStayHeld
  <2> QED
    BY <1>1, <2>2, <2>3
<1>7. ASSUME NEW p \in Processes, Start(p)
      PROVE  FALSE
  BY <1>1, <1>7, NewRows DEF Start
<1>8. ASSUME NEW p \in Processes,
             \/ Read(p) \/ Answer(p) \/ LeaveFacts(p) \/ SaveFact(p) \/ HandlerFails(p)
             \/ LoseLease(p) \/ Stop(p)
      PROVE  FALSE
  BY <1>2, <1>8 DEF Read, Answer, LeaveFacts, SaveFact, HandlerFails, LoseLease, Stop, queueVars
<1>9. ~UNCHANGED vars
  BY <1>2 DEF vars, queueVars
<1> QED
  BY <1>3, <1>4, <1>5, <1>6, <1>7, <1>8, <1>9 DEF Next, Work

\* INV-JOB-002, whoever stops, whatever comes late and however the batches interleave: a
\* running job is concluded only by the execution of the claim that was made on it last.
THEOREM OnlyTheHolderConcludes == Spec => ConcludedByItsHolder
<1>1. ASSUME JobsInvariant, [Next]_vars, NEW t \in Turns,
             job[t].status = "running", job'[t].status \in {"completed", "dead", "retry_wait"}
      PROVE  \E p \in Processes :
               /\ at[p] \in Ended
               /\ claims[p][1] = [turn |-> t, attempt |-> job[t].attempts]
  <2>1. PICK p \in Processes :
          at[p] \in Ended /\ at[p] # "idle" /\ Mine(p) = t /\ Holds(job[t], p)
    BY <1>1, OnlyAConclusion
  <2>2. 1 \in 1 .. Len(claims[p]) /\ claims[p][1] \in ClaimSet
    BY <1>1, <2>1, ClaimType DEF JobsInvariant
  <2>3. Latest(claims[p][1], p)
    BY <1>1, <2>2 DEF JobsInvariant, ClaimsAreLatest
  <2>4. claims[p][1].turn = t /\ claims[p][1].attempt = job[t].attempts
    BY <2>1, <2>3 DEF Latest, Mine
  <2>5. claims[p][1] = [turn |-> t, attempt |-> job[t].attempts]
    BY <2>2, <2>4 DEF ClaimSet
  <2> QED
    BY <2>1, <2>5
<1>2. JobsInvariant /\ [Next]_vars =>
        [\A t \in Turns :
           job[t].status = "running" /\ job'[t].status \in {"completed", "dead", "retry_wait"}
             => \E p \in Processes :
                  /\ at[p] \in Ended
                  /\ claims[p][1] = [turn |-> t, attempt |-> job[t].attempts]]_vars
  BY <1>1
<1> QED
  BY <1>2, JobsInvariantHolds, PTL DEF Spec, ConcludedByItsHolder
=============================================================================
