----------------------------- MODULE ChannelGate -----------------------------
(***************************************************************************)
(* One channel of utils/concurrency.py: a semaphore with a queue and the   *)
(* meters around it.  asyncio.Semaphore and asyncio.wait_for are those of  *)
(* Python 3.11: a release hands its permit to the first waiter that still  *)
(* sleeps, which finds out a turn of the event loop later.                 *)
(***************************************************************************)
EXTENDS Integers, Sequences, FiniteSets, SequencesExt

CONSTANTS
    Callers,    \* the tasks that may hold a slot
    Slots       \* ChannelGate.limit

ASSUME GateAssumption == IsFiniteSet(Callers) /\ Slots \in Nat \ {0}

VARIABLES
    permits,    \* the semaphore's _value
    waiters,    \* its _waiters, first come first
    woken,      \* the waiters whose future is resolved: a permit is theirs
    active,     \* ChannelGate.active
    waiting     \* ChannelGate.waiting

gateVars == <<permits, waiters, woken, active, waiting>>

GateInit ==
    /\ permits = Slots
    /\ waiters = <<>>
    /\ woken = {}
    /\ active = 0
    /\ waiting = 0

Queued == Range(waiters)

\* deque.remove: c leaves its place in the queue.
Without(c) == RemoveAt(waiters, CHOOSE i \in DOMAIN waiters : waiters[i] = c)

\* _wake_up_next, given what is left of the queue and n permits to hand out.
HandOut(queue, awake, n) ==
    LET asleep == {i \in DOMAIN queue : queue[i] \notin awake}
        lucky  == IF n > 0 /\ asleep # {} THEN {queue[Min(asleep)]} ELSE {}
    IN  /\ waiters' = queue
        /\ woken' = awake \union lucky
        /\ permits' = n - Cardinality(lucky)

\* hold takes a slot that is free; nobody overtakes the queue.
Admit(c) ==
    /\ permits > 0
    /\ waiters = <<>>
    /\ permits' = permits - 1
    /\ active' = active + 1
    /\ UNCHANGED <<waiters, woken, waiting>>

Enqueue(c) ==
    /\ permits = 0 \/ waiters # <<>>
    /\ waiters' = Append(waiters, c)
    /\ waiting' = waiting + 1
    /\ UNCHANGED <<permits, woken, active>>

\* The woken waiter runs: it holds its slot, and passes on what is still free.
Proceed(c) ==
    /\ c \in woken
    /\ HandOut(Without(c), woken \ {c}, permits)
    /\ active' = active + 1
    /\ waiting' = waiting - 1

\* Mutant of GiveUp: the permit of a waiter that was just woken goes with it.
GiveUpWithPermit(c) ==
    /\ c \in Queued
    /\ HandOut(Without(c), woken \ {c}, permits)
    /\ waiting' = waiting - 1
    /\ active' = active

\* The wait ends by its timer (ChannelBusy) or by a cancellation: a permit that
\* already belongs to this waiter goes to the next one.
GiveUp(c) ==
    /\ c \in Queued
    /\ IF c \in woken
       THEN HandOut(Without(c), woken \ {c}, permits + 1)
       ELSE /\ waiters' = Without(c)
            /\ UNCHANGED <<permits, woken>>
    /\ waiting' = waiting - 1
    /\ active' = active

\* The finally of hold.
Release ==
    /\ HandOut(waiters, woken, permits + 1)
    /\ active' = active - 1
    /\ waiting' = waiting

GateTypeOK ==
    /\ permits \in 0..Slots
    /\ Queued \subseteq Callers
    /\ IsInjective(waiters)
    /\ woken \subseteq Queued
    /\ active \in 0..Slots
    /\ waiting \in 0..Cardinality(Callers)
=============================================================================
