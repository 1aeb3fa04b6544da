------------------------- MODULE RunStore_proofs -------------------------
(***************************************************************************)
(* What the two groups of columns of a run's row guarantee, checked by     *)
(* TLAPS: the lease (RunLease), for every number of keepers and processes  *)
(* and for every lease configuration; the status, its closure and its      *)
(* audit (RunLifecycle), with their refinement of RunContract, for any set *)
(* of Bundles, any number of cancel requests and any bound on the          *)
(* attempts.                                                               *)
(***************************************************************************)
EXTENDS RunLease, RunLifecycle, TLAPS

USE LeaseAssumption DEF LeaseAssumption

-----------------------------------------------------------------------------
(* Type correctness and the fence: every environment, every configuration. *)

\* A keeper that still beats has failed fewer beats than the threshold.
FailuresCounted ==
    \A k \in Keepers :
        /\ phase[k] \in {"idle", "held"} => failures[k] = 0
        /\ phase[k] = "beating" => failures[k] < FailureThreshold

TypeInvariant == LeaseTypeOK /\ FailuresCounted

LEMMA TypeInit == LeaseInit => TypeInvariant
<1> SUFFICES ASSUME LeaseInit PROVE TypeInvariant
    OBVIOUS
<1>1. left \in -1..LeaseSeconds
    BY DEF LeaseInit
<1>2. /\ due \in [Keepers -> 0..HeartbeatSeconds]
      /\ failures \in [Keepers -> 0..FailureThreshold]
    BY DEF LeaseInit
<1>3. LeaseTypeOK
    BY <1>1, <1>2 DEF LeaseInit, LeaseTypeOK, Phases
<1>4. FailuresCounted
    BY DEF LeaseInit, FailuresCounted
<1>5. QED
    BY <1>3, <1>4 DEF TypeInvariant

LEMMA TypeStep == TypeInvariant /\ [LeaseNext]_leaseVars => TypeInvariant'
<1> USE DEF TypeInvariant, LeaseTypeOK, FailuresCounted, Phases
<1> SUFFICES ASSUME TypeInvariant, [LeaseNext]_leaseVars
             PROVE  TypeInvariant'
    OBVIOUS
<1>1. ASSUME NEW k \in Keepers, Claim(k)
      PROVE  TypeInvariant'
    BY <1>1 DEF Claim
<1>2. ASSUME NEW k \in Keepers, Start(k)
      PROVE  TypeInvariant'
    BY <1>2 DEF Start
<1>3. ASSUME NEW k \in Keepers, Abandon(k)
      PROVE  TypeInvariant'
    BY <1>3 DEF Abandon
<1>4. ASSUME NEW k \in Keepers, Heartbeat(k)
      PROVE  TypeInvariant'
    BY <1>4 DEF Heartbeat, HeartbeatDue
<1>5. ASSUME NEW k \in Keepers, HeartbeatFindsTakeover(k)
      PROVE  TypeInvariant'
    BY <1>5 DEF HeartbeatFindsTakeover, HeartbeatDue, LoseLease, DropActiveKeeper
<1>6. ASSUME NEW k \in Keepers, HeartbeatRaises(k)
      PROVE  TypeInvariant'
  <2>1. left' = left \/ left' = LeaseSeconds
      BY <1>6 DEF HeartbeatRaises
  <2>2. left' \in -1..LeaseSeconds
      BY <2>1
  <2>3. CASE failures[k] + 1 < FailureThreshold
      BY <1>6, <2>2, <2>3 DEF HeartbeatRaises, HeartbeatDue
  <2>4. CASE ~(failures[k] + 1 < FailureThreshold)
    <3>1. failures[k] + 1 \in 0..FailureThreshold
        BY <1>6 DEF HeartbeatRaises, HeartbeatDue
    <3>2. /\ phase' = [phase EXCEPT ![k] = "lost"]
          /\ stopped' = [stopped EXCEPT ![k] = TRUE]
          /\ failures' = [failures EXCEPT ![k] = failures[k] + 1]
          /\ UNCHANGED <<token, safeBy, work, listed, due>>
        BY <1>6, <2>4 DEF HeartbeatRaises, LoseLease
    <3>3. slot' \in [Processes -> Keepers \cup {NoKeeper}]
        BY <1>6, <2>4 DEF HeartbeatRaises, LoseLease, DropActiveKeeper
    <3>4. LeaseTypeOK'
        BY <2>2, <3>1, <3>2, <3>3
    <3>5. FailuresCounted'
        BY <3>2
    <3>6. QED
        BY <3>4, <3>5
  <2>5. QED
      BY <2>3, <2>4
<1>7. ASSUME NEW k \in Keepers, MarkSafeCheckpoint(k)
      PROVE  TypeInvariant'
    BY <1>7 DEF MarkSafeCheckpoint
<1>8. ASSUME NEW k \in Keepers, BeginWork(k) \/ RequestStop(k) \/ EndWork(k)
      PROVE  TypeInvariant'
    BY <1>8 DEF BeginWork, RequestStop, EndWork
<1>9. ASSUME NEW k \in Keepers, Release(k)
      PROVE  TypeInvariant'
    BY <1>9 DEF Release, ReleaseRow, ClearRow, DropActiveKeeper
<1>10. ASSUME NEW p \in Processes, Shutdown(p)
       PROVE  TypeInvariant'
    BY <1>10 DEF Shutdown, ReleaseRow, ClearRow, DropActiveKeeper
<1>11. ASSUME NEW p \in Processes, Crash(p)
       PROVE  TypeInvariant'
  <2>1. /\ phase' \in [Keepers -> Phases]
        /\ work' \in [Keepers -> {"none", "running", "ended"}]
        /\ slot' \in [Processes -> Keepers \cup {NoKeeper}]
      BY <1>11 DEF Crash
  <2>2. UNCHANGED <<token, left, safeBy, due, failures, stopped, listed>>
      BY <1>11 DEF Crash
  <2>3. \A k \in Keepers : phase'[k] = phase[k] \/ phase'[k] = "gone"
      BY <1>11 DEF Crash
  <2>4. FailuresCounted'
      BY <2>2, <2>3
  <2>5. QED
      BY <2>1, <2>2, <2>4
<1>12. CASE SweepList
    BY <1>12 DEF SweepList
<1>13. CASE SweepTakeOver
  <2>1. left' \in -1..LeaseSeconds
      BY <1>13 DEF SweepTakeOver, ClearRow
  <2>2. QED
      BY <2>1, <1>13 DEF SweepTakeOver, ClearRow
<1>14. CASE Tick
    BY <1>14 DEF Tick
<1>15. CASE UNCHANGED leaseVars
    BY <1>15 DEF leaseVars
<1>16. QED
    BY <1>1, <1>2, <1>3, <1>4, <1>5, <1>6, <1>7, <1>8, <1>9, <1>10, <1>11,
       <1>12, <1>13, <1>14, <1>15 DEF LeaseNext, KeeperStep

\* Every variable keeps its type, in every environment: in particular a lease
\* never lasts longer than LeaseSeconds and a keeper never counts more failed
\* heartbeats than the threshold.
THEOREM LeaseTypeCorrect == LeaseSpec => []LeaseTypeOK
<1>1. LeaseSpec => []TypeInvariant
    BY TypeInit, TypeStep, PTL DEF LeaseSpec
<1>2. TypeInvariant => LeaseTypeOK
    BY DEF TypeInvariant
<1>3. QED
    BY <1>1, <1>2, PTL

\* Only a keeper that beats is in the slot of its process.
SlotBeats ==
    \A p \in Processes :
        slot[p] # NoKeeper => ProcessOf[slot[p]] = p /\ phase[slot[p]] = "beating"

LEMMA SlotStep == TypeInvariant /\ SlotBeats /\ [LeaseNext]_leaseVars => SlotBeats'
<1> USE DEF TypeInvariant, LeaseTypeOK, SlotBeats, Phases
<1> SUFFICES ASSUME TypeInvariant, SlotBeats, [LeaseNext]_leaseVars
             PROVE  SlotBeats'
    OBVIOUS
<1>1. ASSUME NEW k \in Keepers,
             \/ Claim(k) \/ Start(k) \/ Abandon(k)
             \/ BeginWork(k) \/ RequestStop(k) \/ EndWork(k)
             \/ MarkSafeCheckpoint(k) \/ Heartbeat(k)
      PROVE  SlotBeats'
    BY <1>1 DEF Claim, Start, Abandon, BeginWork, RequestStop, EndWork,
                MarkSafeCheckpoint, Heartbeat
<1>2. ASSUME NEW k \in Keepers,
             HeartbeatFindsTakeover(k) \/ HeartbeatRaises(k) \/ Release(k)
      PROVE  SlotBeats'
    BY <1>2 DEF HeartbeatFindsTakeover, HeartbeatRaises, Release,
                LoseLease, DropActiveKeeper
<1>3. ASSUME NEW p \in Processes, Shutdown(p)
      PROVE  SlotBeats'
  <2>1. slot[p] \in Keepers /\ ProcessOf[slot[p]] = p
      BY <1>3 DEF Shutdown
  <2>2. /\ slot' = [slot EXCEPT ![p] = NoKeeper]
        /\ phase' = [phase EXCEPT ![slot[p]] = "shut"]
      BY <1>3, <2>1 DEF Shutdown, DropActiveKeeper
  <2>3. QED
      BY <2>1, <2>2
<1>4. ASSUME NEW p \in Processes, Crash(p)
      PROVE  SlotBeats'
    BY <1>4 DEF Crash
<1>5. CASE SweepList \/ SweepTakeOver \/ Tick \/ UNCHANGED leaseVars
    BY <1>5 DEF SweepList, SweepTakeOver, Tick, leaseVars
<1>6. QED
    BY <1>1, <1>2, <1>3, <1>4, <1>5 DEF LeaseNext, KeeperStep

\* The lease token fences the row in every environment: stalled processes,
\* crashes, failing writes, the sweep's race and a shutdown included.
THEOREM Fencing == LeaseSpec => Fenced
<1>1. TypeInvariant /\ SlotBeats /\ [LeaseNext]_leaseVars
        => [TokenKept /\ OnlyOwnerProlongs /\ OnlyOwnerMarksSafe]_leaseVars
  <2> USE DEF TypeInvariant, LeaseTypeOK, SlotBeats, Phases
  <2> SUFFICES ASSUME TypeInvariant, SlotBeats, LeaseNext
               PROVE  TokenKept /\ OnlyOwnerProlongs /\ OnlyOwnerMarksSafe
      OBVIOUS
  <2> USE DEF TokenKept, OnlyOwnerProlongs, OnlyOwnerMarksSafe
  <2>1. ASSUME NEW k \in Keepers, Claim(k)
        PROVE  TokenKept /\ OnlyOwnerProlongs /\ OnlyOwnerMarksSafe
      BY <2>1 DEF Claim, Unowned
  <2>2. ASSUME NEW k \in Keepers,
               \/ Start(k) \/ Abandon(k) \/ BeginWork(k)
               \/ RequestStop(k) \/ EndWork(k) \/ MarkSafeCheckpoint(k)
        PROVE  TokenKept /\ OnlyOwnerProlongs /\ OnlyOwnerMarksSafe
      BY <2>2 DEF Start, Abandon, BeginWork, RequestStop, EndWork,
                  MarkSafeCheckpoint
  <2>3. ASSUME NEW k \in Keepers, Heartbeat(k) \/ HeartbeatFindsTakeover(k)
        PROVE  TokenKept /\ OnlyOwnerProlongs /\ OnlyOwnerMarksSafe
      BY <2>3 DEF Heartbeat, HeartbeatFindsTakeover, HeartbeatDue, LoseLease
  <2>4. ASSUME NEW k \in Keepers, HeartbeatRaises(k)
        PROVE  TokenKept /\ OnlyOwnerProlongs /\ OnlyOwnerMarksSafe
    <3>1. UNCHANGED <<token, safeBy>>
        BY <2>4 DEF HeartbeatRaises
    <3>2. left' > left => token = k
        BY <2>4 DEF HeartbeatRaises
    <3>3. phase'[k] \in {"beating", "lost"}
        BY <2>4 DEF HeartbeatRaises, HeartbeatDue, LoseLease
    <3>4. QED
        BY <3>1, <3>2, <3>3
  <2>5. ASSUME NEW k \in Keepers, Release(k)
        PROVE  TokenKept /\ OnlyOwnerProlongs /\ OnlyOwnerMarksSafe
      BY <2>5 DEF Release, ReleaseRow, ClearRow
  <2>6. ASSUME NEW p \in Processes, Shutdown(p)
        PROVE  TokenKept /\ OnlyOwnerProlongs /\ OnlyOwnerMarksSafe
    <3>1. /\ slot[p] \in Keepers /\ phase[slot[p]] = "beating"
          /\ phase'[slot[p]] = "shut"
          /\ UNCHANGED safeBy
        BY <2>6 DEF Shutdown
    <3>2. \/ token = slot[p] /\ token' = NoKeeper /\ left' = -1
          \/ UNCHANGED <<token, left>>
        BY <2>6 DEF Shutdown, ReleaseRow, ClearRow
    <3>3. ~(left' > left)
        BY <3>2
    <3>4. TokenKept
        BY <3>1, <3>2
    <3>5. QED
        BY <3>1, <3>3, <3>4
  <2>7. ASSUME NEW p \in Processes, Crash(p)
        PROVE  TokenKept /\ OnlyOwnerProlongs /\ OnlyOwnerMarksSafe
      BY <2>7 DEF Crash
  <2>8. ASSUME SweepList \/ SweepTakeOver \/ Tick
        PROVE  TokenKept /\ OnlyOwnerProlongs /\ OnlyOwnerMarksSafe
      BY <2>8 DEF SweepList, SweepTakeOver, ClearRow, Tick
  <2>9. QED
      BY <2>1, <2>2, <2>3, <2>4, <2>5, <2>6, <2>7, <2>8 DEF LeaseNext, KeeperStep
<1>2. LeaseInit => SlotBeats
    BY DEF LeaseInit, SlotBeats
<1>3. LeaseSpec => [](TypeInvariant /\ SlotBeats)
    BY <1>2, TypeInit, TypeStep, SlotStep, PTL DEF LeaseSpec
<1>4. QED
    BY <1>1, <1>3, PTL DEF LeaseSpec, Fenced

-----------------------------------------------------------------------------
(* One executor: every process keeps its schedule (CalmFaults), and the     *)
(* configuration lets a keeper give up before its lease ends                *)
(* (GivesUpInTime).                                                         *)

\* How long the lease of a keeper still entitled to it lasts: long enough for
\* the time until its next beat and for every beat it may still fail.
LeaseCovers(k) ==
    /\ phase[k] = "held" =>
        left + HeartbeatSeconds >= LeaseSeconds + due[k]
    /\ phase[k] = "beating" =>
        left + (failures[k] + 2) * HeartbeatSeconds >= LeaseSeconds + due[k]

KeeperOK(k) ==
    /\ phase[k] # "shut"
    /\ phase[k] \in {"held", "beating"} => token = k
    /\ phase[k] \in {"idle", "held"} => work[k] = "none"
    /\ phase[k] = "lost" => stopped[k]
    /\ work[k] = "running" => phase[k] \in {"beating", "lost"}
    /\ phase[k] = "beating" => slot[ProcessOf[k]] = k

\* OneExecutor alone is not inductive: it needs that a lease cannot run out
\* under a keeper that has not given it up.
LeaseInvariant ==
    /\ TypeInvariant
    /\ \A k \in Keepers : LeaseCovers(k) /\ KeeperOK(k)
    /\ listed => left < 0

\* One more failed beat costs one more heartbeat interval.
LEMMA OneMoreBeat ==
    ASSUME NEW f \in Nat, NEW b \in Nat
    PROVE  (f + 3) * b = (f + 2) * b + b
OBVIOUS

\* The beats a keeper may still fail fit in the lease.
LEMMA BeatsFit ==
    ASSUME NEW f \in Nat, f < FailureThreshold, GivesUpInTime
    PROVE  (f + 2) * HeartbeatSeconds <= LeaseSeconds
<1>1. PICK d \in Nat : FailureThreshold + 1 = (f + 2) + d
  <2>1. FailureThreshold - f - 1 \in Nat
      OBVIOUS
  <2>2. FailureThreshold + 1 = (f + 2) + (FailureThreshold - f - 1)
      OBVIOUS
  <2>3. QED
      BY <2>1, <2>2
<1>2. (FailureThreshold + 1) * HeartbeatSeconds
        = (f + 2) * HeartbeatSeconds + d * HeartbeatSeconds
    BY <1>1
<1>3. d * HeartbeatSeconds \in Nat
    OBVIOUS
<1>4. QED
    BY <1>2, <1>3 DEF GivesUpInTime

\* The lease of a keeper that has not given it up has not expired.
LEMMA LeaseIsLive ==
    ASSUME LeaseInvariant, GivesUpInTime,
           NEW k \in Keepers, phase[k] \in {"held", "beating"}
    PROVE  token = k /\ left >= due[k] /\ due[k] >= 0
<1> USE DEF LeaseInvariant, TypeInvariant, LeaseTypeOK, FailuresCounted
<1>1. token = k /\ due[k] \in Nat /\ left \in Int /\ failures[k] \in Nat
    BY DEF KeeperOK
<1>2. CASE phase[k] = "held"
  <2>1. left + HeartbeatSeconds >= LeaseSeconds + due[k]
      BY <1>2 DEF LeaseCovers
  <2>2. QED
      BY <1>1, <2>1
<1>3. CASE phase[k] = "beating"
  <2>1. left + (failures[k] + 2) * HeartbeatSeconds >= LeaseSeconds + due[k]
      BY <1>3 DEF LeaseCovers
  <2>2. (failures[k] + 2) * HeartbeatSeconds <= LeaseSeconds
      BY <1>1, <1>3, BeatsFit
  <2>3. (failures[k] + 2) * HeartbeatSeconds \in Int
      BY <1>1
  <2> HIDE DEF LeaseInvariant
  <2>4. QED
      BY <1>1, <2>1, <2>2, <2>3
<1>4. QED
    BY <1>2, <1>3

LEMMA LeaseHeldInit == LeaseInit => LeaseInvariant
BY TypeInit DEF LeaseInit, LeaseInvariant, LeaseCovers, KeeperOK

LEMMA LeaseStep ==
    ASSUME LeaseInvariant, CalmFaults, GivesUpInTime, [LeaseNext]_leaseVars
    PROVE  LeaseInvariant'
<1> USE DEF CalmFaults
<1>0. TypeInvariant /\ TypeInvariant'
    BY TypeStep DEF LeaseInvariant
<1> DEFINE Entitled(k) == phase[k] \in {"held", "beating"}
<1>l. \A k \in Keepers : Entitled(k) => token = k /\ left >= 0 /\ ~listed
  <2> TAKE k \in Keepers
  <2> HAVE Entitled(k)
  <2>1. token = k /\ left >= due[k] /\ due[k] >= 0
      BY LeaseIsLive
  <2>2. due[k] \in Int /\ left \in Int
      BY <1>0 DEF TypeInvariant, LeaseTypeOK
  <2>3. QED
      BY <2>1, <2>2 DEF LeaseInvariant
<1>s. SUFFICES /\ \A k \in Keepers : LeaseCovers(k)' /\ KeeperOK(k)'
               /\ listed' => left' < 0
    BY <1>0 DEF LeaseInvariant
<1> USE <1>0, <1>l
<1> USE DEF LeaseInvariant, TypeInvariant, LeaseTypeOK, FailuresCounted, Phases,
            LeaseCovers, KeeperOK
<1>1. ASSUME NEW j \in Keepers, Claim(j)
      PROVE  /\ \A k \in Keepers : LeaseCovers(k)' /\ KeeperOK(k)'
             /\ listed' => left' < 0
    BY <1>1 DEF Claim, Unowned
<1>2. ASSUME NEW j \in Keepers, Start(j)
      PROVE  /\ \A k \in Keepers : LeaseCovers(k)' /\ KeeperOK(k)'
             /\ listed' => left' < 0
    BY <1>2 DEF Start
<1>3. ASSUME NEW j \in Keepers,
             Abandon(j) \/ BeginWork(j) \/ RequestStop(j) \/ EndWork(j)
      PROVE  /\ \A k \in Keepers : LeaseCovers(k)' /\ KeeperOK(k)'
             /\ listed' => left' < 0
    BY <1>3 DEF Abandon, BeginWork, RequestStop, EndWork
<1>4. ASSUME NEW j \in Keepers, MarkSafeCheckpoint(j)
      PROVE  /\ \A k \in Keepers : LeaseCovers(k)' /\ KeeperOK(k)'
             /\ listed' => left' < 0
    BY <1>4 DEF MarkSafeCheckpoint
<1>5. ASSUME NEW j \in Keepers, Heartbeat(j)
      PROVE  /\ \A k \in Keepers : LeaseCovers(k)' /\ KeeperOK(k)'
             /\ listed' => left' < 0
    BY <1>5 DEF Heartbeat, HeartbeatDue
<1>6. ASSUME NEW j \in Keepers, HeartbeatFindsTakeover(j)
      PROVE  /\ \A k \in Keepers : LeaseCovers(k)' /\ KeeperOK(k)'
             /\ listed' => left' < 0
    BY <1>6 DEF HeartbeatFindsTakeover, HeartbeatDue
<1>7. ASSUME NEW j \in Keepers, HeartbeatRaises(j)
      PROVE  /\ \A k \in Keepers : LeaseCovers(k)' /\ KeeperOK(k)'
             /\ listed' => left' < 0
    BY <1>7, OneMoreBeat DEF HeartbeatRaises, HeartbeatDue, LoseLease, DropActiveKeeper
<1>8. ASSUME NEW j \in Keepers, Release(j)
      PROVE  /\ \A k \in Keepers : LeaseCovers(k)' /\ KeeperOK(k)'
             /\ listed' => left' < 0
    BY <1>8 DEF Release, ReleaseRow, ClearRow, DropActiveKeeper
<1>9. ASSUME NEW p \in Processes, Shutdown(p)
      PROVE  FALSE
    BY <1>9 DEF Shutdown
<1>10. ASSUME NEW p \in Processes, Crash(p)
       PROVE  /\ \A k \in Keepers : LeaseCovers(k)' /\ KeeperOK(k)'
              /\ listed' => left' < 0
    BY <1>10 DEF Crash
<1>11. CASE SweepList \/ SweepTakeOver \/ UNCHANGED leaseVars
    BY <1>11 DEF SweepList, SweepTakeOver, ClearRow, Unowned, leaseVars
<1>12. CASE Tick
    BY <1>12 DEF Tick, OnTime
<1>13. QED
    BY <1>1, <1>2, <1>3, <1>4, <1>5, <1>6, <1>7, <1>8, <1>9, <1>10, <1>11,
       <1>12 DEF LeaseNext, KeeperStep

LEMMA LeaseAlways ==
    ASSUME CalmFaults, GivesUpInTime
    PROVE  LeaseSpec => []LeaseInvariant
<1>1. LeaseInvariant /\ [LeaseNext]_leaseVars => LeaseInvariant'
    BY LeaseStep
<1>2. QED
    BY <1>1, LeaseHeldInit, PTL DEF LeaseSpec

\* INV-RUN-001 for the process that is alive: whoever may still start external
\* calls owns a lease that has not expired, however many heartbeats fail.
THEOREM LeaseOfTheExecutor ==
    ASSUME CalmFaults, GivesUpInTime
    PROVE  LeaseSpec => []ExecutorHoldsLiveLease
<1>1. LeaseInvariant => ExecutorHoldsLiveLease
  <2> SUFFICES ASSUME LeaseInvariant, NEW k \in Keepers, Executing(k)
               PROVE  token = k /\ left >= 0
      BY DEF ExecutorHoldsLiveLease
  <2>1. phase[k] = "beating"
      BY DEF LeaseInvariant, KeeperOK, Executing
  <2>2. token = k /\ left >= due[k] /\ due[k] >= 0
      BY <2>1, LeaseIsLive
  <2>3. left \in Int /\ due[k] \in Int
      BY DEF LeaseInvariant, TypeInvariant, LeaseTypeOK
  <2>4. QED
      BY <2>2, <2>3
<1>2. QED
    BY <1>1, LeaseAlways, PTL

\* INV-RUN-004: two workflows of one run never both keep going.
THEOREM Exclusion ==
    ASSUME CalmFaults, GivesUpInTime
    PROVE  LeaseSpec => []OneExecutor
<1>1. ExecutorHoldsLiveLease => OneExecutor
    BY DEF ExecutorHoldsLiveLease, OneExecutor
<1>2. QED
    BY <1>1, LeaseOfTheExecutor, PTL

\* Teardown finds every keeper that holds the lease and beats, although keepers
\* that lost or released theirs leave the slot at any moment.
THEOREM TeardownFindsTheOwner ==
    ASSUME CalmFaults, GivesUpInTime
    PROVE  LeaseSpec => []OwnerIsInSlot
<1>1. LeaseInvariant => OwnerIsInSlot
    BY DEF LeaseInvariant, KeeperOK, OwnerIsInSlot
<1>2. QED
    BY <1>1, LeaseAlways, PTL

\* INV-RUN-004, second half: a live lease leaves its owner only after the
\* owner's workflow has stopped.
THEOREM LeaseOutlivesTheWorkflow ==
    ASSUME CalmFaults, GivesUpInTime
    PROVE  LeaseSpec => ReleasedOnlyWhenStopped
<1>1. ASSUME LeaseInvariant, [LeaseNext]_leaseVars
      PROVE  [HandsBackStopped]_leaseVars
  <2> USE DEF HandsBackStopped
  <2> SUFFICES ASSUME LeaseNext, NEW k \in Keepers,
                      token = k, left >= 0, token' # k
               PROVE  work'[k] # "running"
      BY <1>1
  <2>0. left \in Int /\ k # NoKeeper /\ token' # token
      BY <1>1 DEF LeaseInvariant, TypeInvariant, LeaseTypeOK
  <2>1. ASSUME NEW j \in Keepers, Claim(j)
        PROVE  FALSE
      BY <2>0, <2>1 DEF Claim, Unowned
  <2>2. ASSUME NEW j \in Keepers, Release(j)
        PROVE  work'[k] # "running"
      BY <2>0, <2>2 DEF Release, ReleaseRow
  <2>3. ASSUME NEW p \in Processes, Shutdown(p)
        PROVE  FALSE
      BY <2>3 DEF Shutdown, CalmFaults
  <2>4. ASSUME SweepTakeOver
        PROVE  FALSE
      BY <1>1, <2>0, <2>4 DEF SweepTakeOver, LeaseInvariant
  <2>5. ASSUME NEW j \in Keepers, KeeperStep(j), ~Claim(j), ~Release(j)
        PROVE  FALSE
      BY <2>0, <2>5 DEF KeeperStep, Start, Abandon, Heartbeat,
           HeartbeatFindsTakeover, HeartbeatRaises, MarkSafeCheckpoint,
           BeginWork, RequestStop, EndWork
  <2>6. ASSUME \/ \E p \in Processes : Crash(p)
               \/ SweepList
               \/ Tick
        PROVE  FALSE
      BY <2>0, <2>6 DEF Crash, SweepList, Tick
  <2>7. QED
      BY <2>1, <2>2, <2>3, <2>4, <2>5, <2>6 DEF LeaseNext
<1>2. LeaseInvariant /\ [LeaseNext]_leaseVars => [HandsBackStopped]_leaseVars
    BY <1>1
<1>3. QED
    BY <1>2, LeaseAlways, PTL DEF LeaseSpec, ReleasedOnlyWhenStopped

-----------------------------------------------------------------------------
(* RunLifecycle. *)

HIDE LeaseAssumption DEF LeaseAssumption
USE LifecycleAssumption DEF LifecycleAssumption

\* request_cancel counts a round only after it wrote, and writes a real target.
CancelCounts ==
    \A c \in Cancellers :
        cancel[c].pc = "read" => cancel[c].tries < 3 /\ cancel[c].target # "none"

\* FormalDelivery is inductive only with the attribution of the run's status:
\* a completed run whose audit had lost it would let a lagging frame in.
LifecycleInvariant ==
    /\ TypeOK
    /\ mirror = status
    /\ mode = "fast" => events = <<>>
    /\ FormalDelivery
    /\ ChoiceMatchesStatus
    /\ AttributionTellsStatus
    /\ CancelCounts

LEMMA LifecycleInit == Init => LifecycleInvariant
<1> SUFFICES ASSUME Init PROVE LifecycleInvariant
    OBVIOUS
<1>1. TypeOK
  <2>1. attempt \in 1..MaxAttempts
      BY DEF Init
  <2>2. cancel \in [Cancellers ->
                      [pc : {"idle", "read", "again", "returned", "raised"},
                       target : {"none", "cancel_requested", "cancelled"},
                       tries : 0..3]]
      BY DEF Init
  <2>3. QED
      BY <2>1, <2>2 DEF Init, TypeOK, Statuses
<1>2. QED
    BY <1>1 DEF Init, LifecycleInvariant, FormalDelivery, ChoiceMatchesStatus,
       AttributionTellsStatus, CancelCounts, NoAudit

Closures == {"none", "completed", "failed", "cancelled"}

\* The audits are NoAudit and those with a Draft.
LEMMA AuditShapes ==
    /\ \A a \in Audits : a.draft /\ a.formal \in Bundles \cup {NoBundle} /\ a.closure \in Closures
    /\ ~NoAudit.draft
    /\ Working \in Audits /\ Refused \in Audits
    /\ \A b \in Bundles : Delivered(b) \in Audits
BY DEF Audits, NoAudit, Working, Refused, Delivered, Closures

LEMMA ClosureUpdate ==
    ASSUME NEW a \in Audits, NEW c \in Closures
    PROVE  /\ [a EXCEPT !.closure = c] \in Audits
           /\ [a EXCEPT !.closure = c].closure = c
           /\ [a EXCEPT !.closure = c].formal = a.formal
BY DEF Audits, Closures

\* What AuditFor makes of an audit is attributed to the status it is made for.
LEMMA AuditForAttributes ==
    ASSUME NEW a \in Audits \cup {NoAudit}, NEW target \in Statuses,
           a.draft /\ target \notin {"running", "completed", "failed", "cancelled"}
                => a.closure = "none"
    PROVE  /\ AuditFor(a, target) \in Audits \cup {NoAudit}
           /\ AuditFor(a, target).draft =>
                AuditFor(a, target).closure =
                    IF target \in {"completed", "failed", "cancelled"}
                    THEN target ELSE "none"
           /\ a.draft => AuditFor(a, target) \in Audits /\ AuditFor(a, target).formal = a.formal
<1>1. CASE a = NoAudit
    BY <1>1, AuditShapes DEF AuditFor
<1>2. CASE a \in Audits /\ target = "running"
  <2>1. AuditFor(a, target) = [a EXCEPT !.closure = "none"]
      BY <1>2, AuditShapes DEF AuditFor
  <2>2. "none" \in Closures
      BY DEF Closures
  <2>3. /\ AuditFor(a, target) \in Audits
        /\ AuditFor(a, target).closure = "none"
        /\ AuditFor(a, target).formal = a.formal
      BY ZenonT(60), <1>2, <2>1, <2>2, ClosureUpdate
  <2>4. target \notin {"completed", "failed", "cancelled"}
      BY <1>2
  <2>5. QED
      BY <2>3, <2>4
<1>3. CASE a \in Audits /\ target \in {"cancelled", "failed", "completed"}
  <2>1. AuditFor(a, target) = [a EXCEPT !.closure = target]
      BY <1>3, AuditShapes DEF AuditFor
  <2>2. target \in Closures
      BY <1>3 DEF Closures
  <2>3. QED
      BY <1>3, <2>1, <2>2, ClosureUpdate
<1>4. CASE a \in Audits /\ target \notin {"running", "cancelled", "failed", "completed"}
    BY <1>4, AuditShapes DEF AuditFor
<1>5. QED
    BY <1>1, <1>2, <1>3, <1>4

CancelType ==
    [Cancellers -> [pc : {"idle", "read", "again", "returned", "raised"},
                    target : {"none", "cancel_requested", "cancelled"},
                    tries : 0..3]]

LEMMA TransitionKeeps ==
    ASSUME LifecycleInvariant, NEW target \in Statuses,
           NEW given \in {"none", "open"}, NEW arg \in {NoAudit, Refused},
           MayBecome(status, target),
           ~(target = "completed" /\ mode = "deep"),
           TransitionEffect(target, given, arg),
           given = "open" <=> target = "awaiting_input",
           arg = NoAudit \/ target = "failed"
    PROVE  /\ cancel' \in CancelType => TypeOK'
           /\ mirror' = status'
           /\ mode' = "fast" => events' = <<>>
           /\ FormalDelivery'
           /\ ChoiceMatchesStatus'
           /\ AttributionTellsStatus'
<1> USE DEF LifecycleInvariant
<1>1. /\ status' = target /\ mirror' = target
      /\ attempt' \in 1..MaxAttempts
      /\ UNCHANGED <<mode, policy, events>>
    BY DEF TransitionEffect, TypeOK, Increment
<1>2. /\ choice' \in {"none", "open", "cancelled"}
      /\ flag' \in BOOLEAN
      /\ ChoiceMatchesStatus'
    BY <1>1 DEF TransitionEffect, MarkCancelled, ChoiceMatchesStatus, TypeOK
<1> DEFINE source == IF arg.draft THEN arg ELSE audit
<1>3. source \in Audits \cup {NoAudit}
    BY AuditShapes DEF TypeOK
<1>4. source.draft /\ target \notin {"running", "completed", "failed", "cancelled"}
        => source.closure = "none"
  <2> SUFFICES ASSUME source.draft,
                      target \notin {"running", "completed", "failed", "cancelled"}
               PROVE  source.closure = "none"
      OBVIOUS
  <2>1. source = audit
      BY AuditShapes
  <2>2. status \notin {"completed", "failed", "cancelled"}
      BY DEF MayBecome, AllowedNext
  <2>3. QED
      BY <2>1, <2>2 DEF AttributionTellsStatus
<1>5. audit' = AuditFor(source, target)
    BY DEF TransitionEffect
<1>6. /\ audit' \in Audits \cup {NoAudit}
      /\ AttributionTellsStatus'
    BY <1>1, <1>3, <1>4, <1>5, AuditForAttributes DEF AttributionTellsStatus
<1>7. FormalDelivery'
    BY <1>1 DEF FormalDelivery, MayBecome, AllowedNext
<1>8. cancel' \in CancelType => TypeOK'
    BY <1>1, <1>2, <1>6 DEF TypeOK, CancelType
<1>9. QED
    BY <1>1, <1>2, <1>6, <1>7, <1>8

\* Everything but request_cancel's bookkeeping.
RunInvariant ==
    /\ mirror = status
    /\ mode = "fast" => events = <<>>
    /\ FormalDelivery
    /\ ChoiceMatchesStatus
    /\ AttributionTellsStatus

LEMMA DeliveryKeeps ==
    ASSUME LifecycleInvariant, NEW b \in Bundles, CompleteDelivery(b)
    PROVE  TypeOK' /\ RunInvariant'
<1> USE DEF LifecycleInvariant
<1>1. audit' = Delivered(b)
    BY DEF CompleteDelivery, AuditFor, Delivered
<1>2. Delivered(b) \in Audits /\ Delivered(b).closure = "completed"
    BY AuditShapes DEF Delivered
<1>3. events' = <<Ready(b), Terminal(b)>> /\ events'[1].bundle = b
    BY DEF CompleteDelivery, Ready
<1>4. /\ mode = "deep" /\ status' = "completed" /\ mirror' = "completed"
      /\ choice' = "none" /\ flag' = FALSE
      /\ UNCHANGED <<mode, policy, attempt, cancel>>
    BY DEF CompleteDelivery
<1>5. TypeOK'
    BY <1>1, <1>2, <1>3, <1>4 DEF TypeOK, Statuses
<1>6. RunInvariant'
    BY <1>1, <1>2, <1>3, <1>4
    DEF RunInvariant, FormalDelivery, ChoiceMatchesStatus, AttributionTellsStatus
<1>7. QED
    BY <1>5, <1>6

LEMMA ResumeKeeps ==
    ASSUME LifecycleInvariant, NEW allowed,
           allowed \in {{"awaiting_input"}, {"failed", "interrupted"}},
           ClaimResume(allowed)
    PROVE  TypeOK' /\ RunInvariant'
<1> USE DEF LifecycleInvariant
<1>1. /\ audit' \in Audits \cup {NoAudit}
      /\ audit'.draft => audit'.closure = "none"
  <2>1. "running" \in Statuses /\ audit \in Audits \cup {NoAudit}
      BY DEF TypeOK, Statuses
  <2>2. audit' = AuditFor(audit, "running")
      BY DEF ClaimResume
  <2>3. QED
      BY <2>1, <2>2, AuditForAttributes
<1>2. /\ status' = "running" /\ mirror' = "running"
      /\ choice' = "none" /\ flag' = FALSE
      /\ attempt' \in 1..MaxAttempts
      /\ UNCHANGED <<mode, policy, events, cancel>>
    BY DEF ClaimResume, TypeOK
<1>3. status # "completed"
    BY DEF ClaimResume
<1>4. TypeOK'
    BY <1>1, <1>2 DEF TypeOK, Statuses
<1>5. RunInvariant'
    BY <1>1, <1>2, <1>3
    DEF RunInvariant, FormalDelivery, ChoiceMatchesStatus, AttributionTellsStatus
<1>6. QED
    BY <1>4, <1>5

\* A frame of any age leaves the audit of a completed run as it is, and gives
\* no other run an attribution it does not have.
LEMMA SnapshotKeeps ==
    ASSUME LifecycleInvariant, NEW frame \in Frames, RecordSnapshot(frame)
    PROVE  TypeOK' /\ RunInvariant'
<1> USE DEF LifecycleInvariant
<1> DEFINE merged == PreserveTerminal(audit, frame)
<1>1. /\ audit' = AuditFor(merged, status)
      /\ flag' = (status = "awaiting_input" /\ choice # "none")
      /\ UNCHANGED <<mode, policy, status, attempt, mirror, choice, events, cancel>>
    BY DEF RecordSnapshot
<1>2. audit \in Audits \cup {NoAudit} /\ status \in Statuses
    BY DEF TypeOK
<1>3. frame \in Audits \cup {NoAudit}
    BY AuditShapes DEF Frames
<1>4. /\ audit' \in Audits \cup {NoAudit}
      /\ AttributionTellsStatus'
      /\ FormalDelivery'
  <2>1. CASE mode = "deep" /\ status = "completed"
    <3>1. PICK b \in Bundles : events = <<Ready(b), Terminal(b)>>
        BY <2>1 DEF FormalDelivery, TypeOK
    <3>2. events[1].bundle = b /\ events # <<>>
        BY <3>1 DEF Ready
    <3>3. audit = Delivered(b)
        BY <2>1, <3>2 DEF FormalDelivery
    <3>4. frame \in {NoAudit, Working, Delivered(b)}
        BY <3>2 DEF Frames
    <3>5. merged = Delivered(b)
      <4>1. audit.closure = "completed" /\ audit.formal = b
          BY <3>3 DEF Delivered
      <4>2. CASE frame = NoAudit
          BY <3>3, <4>1, <4>2 DEF PreserveTerminal, NoAudit
      <4>3. CASE frame = Working
        <5>1. merged = [Working EXCEPT !.closure = "completed", !.formal = b]
            BY <4>1, <4>3 DEF PreserveTerminal, Working
        <5>2. QED
            BY <5>1 DEF Working, Delivered
      <4>4. CASE frame = Delivered(b)
        <5>1. merged = [Delivered(b) EXCEPT !.closure = "completed", !.formal = b]
            BY <4>1, <4>4 DEF PreserveTerminal, Delivered
        <5>2. QED
            BY <5>1 DEF Delivered
      <4>5. QED
          BY <3>4, <4>2, <4>3, <4>4
    <3>6. audit' = Delivered(b)
      <4>1. audit' = AuditFor(Delivered(b), "completed")
          BY <1>1, <2>1, <3>5
      <4>2. QED
          BY <4>1 DEF AuditFor, Delivered
    <3>7. Delivered(b) \in Audits /\ Delivered(b).closure = "completed"
        BY AuditShapes DEF Delivered
    <3>8. QED
        BY <1>1, <2>1, <3>2, <3>6, <3>7 DEF AttributionTellsStatus, FormalDelivery
  <2>2. CASE ~(mode = "deep" /\ status = "completed")
    <3>1. events = <<>>
        BY <2>2 DEF FormalDelivery, TypeOK
    <3>2. frame \in {NoAudit, Working}
        BY <3>1 DEF Frames
    <3>3. CASE audit.closure = "none"
      <4>1. merged = frame
          BY <3>3 DEF PreserveTerminal
      <4>2. merged.closure = "none"
          BY <3>2, <4>1 DEF NoAudit, Working
      <4>3. QED
          BY <1>1, <1>2, <1>3, <2>2, <3>1, <4>1, <4>2, AuditForAttributes
          DEF AttributionTellsStatus, FormalDelivery
    <3>4. CASE audit.closure # "none"
      <4>1. audit \in Audits /\ status \in {"completed", "failed", "cancelled"}
          BY <1>2, <3>4, AuditShapes DEF AttributionTellsStatus, NoAudit
      <4>2. merged \in Audits \cup {NoAudit}
        <5>1. CASE frame = NoAudit
            BY <3>4, <4>1, <5>1, AuditShapes DEF PreserveTerminal
        <5>2. CASE frame = Working
          <6>1. audit.closure \in Closures /\ audit.formal \in Bundles \cup {NoBundle}
              BY <4>1, AuditShapes
          <6>2. merged = [draft |-> TRUE,
                          formal |-> IF audit.closure = "completed"
                                     THEN audit.formal ELSE NoBundle,
                          closure |-> audit.closure]
              BY <3>4, <5>2 DEF PreserveTerminal, Working
          <6>3. QED
              BY <6>1, <6>2 DEF Audits, Closures
        <5>3. QED
            BY <3>2, <5>1, <5>2
      <4>3. QED
          BY <1>1, <1>2, <2>2, <3>1, <4>1, <4>2, AuditForAttributes
          DEF AttributionTellsStatus, FormalDelivery
    <3>5. QED
        BY <3>3, <3>4
  <2>3. QED
      BY <2>1, <2>2
<1>5. ChoiceMatchesStatus'
    BY <1>1 DEF ChoiceMatchesStatus
<1>6. TypeOK'
    BY <1>1, <1>4 DEF TypeOK
<1>7. QED
    BY <1>1, <1>4, <1>5, <1>6 DEF RunInvariant

LEMMA NodeUpdateKeeps ==
    ASSUME LifecycleInvariant, RecordNodeUpdate
    PROVE  TypeOK' /\ RunInvariant'
<1> USE DEF LifecycleInvariant
<1>1. UNCHANGED <<mode, policy, status, attempt, mirror, audit, events, cancel>>
    BY DEF RecordNodeUpdate
<1>2. choice' = choice /\ flag' = flag
    BY DEF RecordNodeUpdate, ChoiceMatchesStatus, TypeOK, MarkCancelled,
           TerminalStatuses, Statuses
<1>3. QED
    BY <1>1, <1>2 DEF RunInvariant, TypeOK, FormalDelivery, ChoiceMatchesStatus,
       AttributionTellsStatus

\* The steps of request_cancel: what they do to the run is a transition to
\* cancelled or cancel_requested, or nothing.
LEMMA CancelKeeps ==
    ASSUME LifecycleInvariant, NEW c \in Cancellers,
           CancelRead(c) \/ CancelWrite(c) \/ CancelGiveUp(c)
    PROVE  TypeOK' /\ RunInvariant' /\ CancelCounts'
<1> USE DEF LifecycleInvariant
<1>0. cancel \in CancelType
    BY DEF TypeOK, CancelType
<1>1. CASE CancelRead(c) \/ CancelGiveUp(c)
  <2>1. cancel' \in CancelType /\ CancelCounts'
      BY <1>0, <1>1 DEF CancelRead, CancelGiveUp, CancelTarget, CancelType, CancelCounts
  <2>2. UNCHANGED <<mode, policy, status, attempt, mirror, choice, flag, audit, events>>
      BY <1>1 DEF CancelRead, CancelGiveUp, runVars, stateVars
  <2>3. QED
      BY <2>1, <2>2 DEF RunInvariant, TypeOK, CancelType, FormalDelivery,
         ChoiceMatchesStatus, AttributionTellsStatus
<1>2. CASE CancelWrite(c)
  <2>1. cancel' \in CancelType /\ CancelCounts'
    <3>1. cancel[c].tries + 1 \in 0..3
        BY <1>0, <1>2 DEF CancelWrite, CancelCounts, CancelType
    <3>2. \/ cancel' = [cancel EXCEPT ![c].pc = "returned"]
          \/ cancel' = [cancel EXCEPT ![c].pc = "again", ![c].tries = cancel[c].tries + 1]
        BY <1>2 DEF CancelWrite
    <3>3. QED
        BY <1>0, <3>1, <3>2 DEF CancelType, CancelCounts
  <2>2. CASE MayBecome(status, cancel[c].target)
    <3>1. cancel[c].target \in {"cancel_requested", "cancelled"}
        BY <1>0, <1>2 DEF CancelWrite, CancelCounts, CancelType
    <3>2. TransitionEffect(cancel[c].target, "none", NoAudit)
        BY <1>2, <2>2 DEF CancelWrite
    <3>3. cancel[c].target \in Statuses
        BY <3>1 DEF Statuses
    <3>4. QED
        BY <2>1, <2>2, <3>1, <3>2, <3>3, TransitionKeeps DEF RunInvariant
  <2>3. CASE ~MayBecome(status, cancel[c].target)
    <3>1. UNCHANGED <<mode, policy, status, attempt, mirror, choice, flag, audit, events>>
        BY <1>2, <2>3 DEF CancelWrite, runVars, stateVars
    <3>2. QED
        BY <2>1, <3>1 DEF RunInvariant, TypeOK, CancelType, FormalDelivery,
           ChoiceMatchesStatus, AttributionTellsStatus
  <2>4. QED
      BY <2>2, <2>3
<1>3. QED
    BY <1>1, <1>2

LEMMA LifecycleStep == LifecycleInvariant /\ [Next]_vars => LifecycleInvariant'
<1> SUFFICES ASSUME LifecycleInvariant, [Next]_vars
             PROVE  TypeOK' /\ RunInvariant' /\ CancelCounts'
    BY DEF LifecycleInvariant, RunInvariant
<1>1. ASSUME UNCHANGED cancel PROVE CancelCounts'
    BY <1>1 DEF LifecycleInvariant, CancelCounts
<1>2. CASE Call
  <2>1. cancel' \in CancelType /\ UNCHANGED cancel
      BY <1>2 DEF Call, LifecycleInvariant, TypeOK, CancelType
  <2>2. PICK target \in Statuses, given \in {"none", "open"}, arg \in {NoAudit, Refused} :
          /\ TransitionStatus(target, given, arg)
          /\ given = "open" <=> target = "awaiting_input"
          /\ arg = NoAudit \/ target = "failed"
      BY <1>2 DEF Call, Statuses
  <2>3. QED
      BY <1>1, <2>1, <2>2, TransitionKeeps DEF TransitionStatus, RunInvariant
<1>3. CASE \E b \in Bundles : CompleteDelivery(b)
    BY <1>1, <1>3, DeliveryKeeps DEF CompleteDelivery
<1>4. CASE ClaimResume({"awaiting_input"}) \/ ClaimResume({"failed", "interrupted"})
    BY <1>1, <1>4, ResumeKeeps DEF ClaimResume
<1>5. CASE \E frame \in Frames : RecordSnapshot(frame)
    BY <1>1, <1>5, SnapshotKeeps DEF RecordSnapshot
<1>6. CASE RecordNodeUpdate
    BY <1>1, <1>6, NodeUpdateKeeps DEF RecordNodeUpdate
<1>7. CASE \E c \in Cancellers : CancelRead(c) \/ CancelWrite(c) \/ CancelGiveUp(c)
    BY <1>7, CancelKeeps
<1>8. CASE UNCHANGED vars
    BY <1>8 DEF vars, LifecycleInvariant, RunInvariant, TypeOK, FormalDelivery,
       ChoiceMatchesStatus, AttributionTellsStatus, CancelCounts
<1>9. QED
    BY <1>2, <1>3, <1>4, <1>5, <1>6, <1>7, <1>8 DEF Next

LEMMA LifecycleAlways == Spec => []LifecycleInvariant
BY LifecycleInit, LifecycleStep, PTL DEF Spec

\* The rows and events of a run keep their types: in particular the delivery
\* events are never more than one delivery.ready followed by one run.terminal
\* of the same Bundle.
THEOREM LifecycleTypeCorrect == Spec => []TypeOK
<1>1. LifecycleInvariant => TypeOK
    BY DEF LifecycleInvariant
<1>2. QED
    BY <1>1, LifecycleAlways, PTL

\* A deep run is completed exactly when its delivery is on record, and no
\* lagging frame takes the delivered Bundle out of its audit.
THEOREM DeliveryIsFormal == Spec => []FormalDelivery
<1>1. LifecycleInvariant => FormalDelivery
    BY DEF LifecycleInvariant
<1>2. QED
    BY <1>1, LifecycleAlways, PTL

\* The gate's durable choice is shown exactly while the run waits for it.
THEOREM ChoiceIsShownWhileAwaited == Spec => []ChoiceMatchesStatus
<1>1. LifecycleInvariant => ChoiceMatchesStatus
    BY DEF LifecycleInvariant
<1>2. QED
    BY <1>1, LifecycleAlways, PTL

\* What a run is attributed to is the status it is in, after any resume.
THEOREM AttributionIsCurrent == Spec => []AttributionTellsStatus
<1>1. LifecycleInvariant => AttributionTellsStatus
    BY DEF LifecycleInvariant
<1>2. QED
    BY <1>1, LifecycleAlways, PTL

-----------------------------------------------------------------------------
(* A sealed run.                                                           *)

\* Only a delivery gives an audit its Bundle.
UndeliveredHasNoBundle == events = <<>> => audit.formal = NoBundle

\* AuditFor decides about the attribution, never about the Bundle.
LEMMA AuditForKeepsFormal ==
    ASSUME NEW a \in Audits \cup {NoAudit}, NEW target \in Statuses
    PROVE  AuditFor(a, target).formal = IF a.draft THEN a.formal ELSE NoBundle
<1>1. CASE ~a.draft
    BY <1>1 DEF AuditFor, NoAudit
<1>2. CASE a.draft /\ target \in {"running", "cancelled", "failed", "completed"}
  <2>1. a \in Audits
      BY <1>2, AuditShapes
  <2>2. PICK c \in Closures : AuditFor(a, target) = [a EXCEPT !.closure = c]
      BY <1>2 DEF AuditFor, Closures
  <2>3. QED
      BY <1>2, <2>1, <2>2, ClosureUpdate
<1>3. CASE a.draft /\ target \notin {"running", "cancelled", "failed", "completed"}
    BY <1>3 DEF AuditFor
<1>4. QED
    BY <1>1, <1>2, <1>3

LEMMA MergeWithoutBundle ==
    ASSUME NEW frame \in {NoAudit, Working}, audit.formal = NoBundle
    PROVE  PreserveTerminal(audit, frame).formal = NoBundle
<1>1. CASE frame = NoAudit
    BY <1>1 DEF PreserveTerminal, NoAudit
<1>2. CASE frame = Working
  <2>1. PreserveTerminal(audit, frame) =
          [draft |-> TRUE, formal |-> NoBundle,
           closure |-> IF audit.closure = "none" THEN "none" ELSE audit.closure]
      BY <1>2 DEF PreserveTerminal, Working
  <2>2. QED
      BY <2>1
<1>3. QED
    BY <1>1, <1>2

LEMMA TransitionKeepsNoBundle ==
    ASSUME TypeOK, UndeliveredHasNoBundle, NEW target \in Statuses, NEW given,
           NEW arg \in {NoAudit, Refused}, TransitionEffect(target, given, arg)
    PROVE  UndeliveredHasNoBundle'
<1> DEFINE source == IF arg.draft THEN arg ELSE audit
<1>1. source \in Audits \cup {NoAudit}
    BY AuditShapes DEF TypeOK
<1>2. events = <<>> => source.formal = NoBundle
    BY DEF UndeliveredHasNoBundle, Refused, NoAudit
<1>3. audit' = AuditFor(source, target) /\ events' = events
    BY DEF TransitionEffect
<1>4. AuditFor(source, target).formal = IF source.draft THEN source.formal ELSE NoBundle
    BY <1>1, AuditForKeepsFormal
<1>5. QED
    BY <1>2, <1>3, <1>4 DEF UndeliveredHasNoBundle

LEMMA NoBundleStep ==
    LifecycleInvariant /\ UndeliveredHasNoBundle /\ [Next]_vars
        => UndeliveredHasNoBundle'
<1> SUFFICES ASSUME LifecycleInvariant, UndeliveredHasNoBundle, [Next]_vars
             PROVE  UndeliveredHasNoBundle'
    OBVIOUS
<1>0. TypeOK /\ audit \in Audits \cup {NoAudit} /\ status \in Statuses /\ mirror = status
    BY DEF LifecycleInvariant, TypeOK
<1>1. CASE Call
  <2>1. PICK target \in Statuses, given \in {"none", "open"}, arg \in {NoAudit, Refused} :
          TransitionEffect(target, given, arg)
      BY <1>1 DEF Call, Statuses, TransitionStatus
  <2>2. QED
      BY <1>0, <2>1, TransitionKeepsNoBundle
<1>2. CASE \E b \in Bundles : CompleteDelivery(b)
    BY <1>2 DEF CompleteDelivery, UndeliveredHasNoBundle
<1>3. CASE ClaimResume({"awaiting_input"}) \/ ClaimResume({"failed", "interrupted"})
  <2>1. audit' = AuditFor(audit, "running") /\ events' = events
      BY <1>3 DEF ClaimResume
  <2>2. "running" \in Statuses
      BY DEF Statuses
  <2>3. AuditFor(audit, "running").formal = IF audit.draft THEN audit.formal ELSE NoBundle
      BY <1>0, <2>2, AuditForKeepsFormal
  <2>4. QED
      BY <2>1, <2>3 DEF UndeliveredHasNoBundle
<1>4. CASE \E frame \in Frames : RecordSnapshot(frame)
  <2> SUFFICES ASSUME events = <<>> PROVE audit'.formal = NoBundle
      BY <1>4 DEF RecordSnapshot, UndeliveredHasNoBundle
  <2>1. PICK frame \in {NoAudit, Working} : RecordSnapshot(frame)
      BY <1>4 DEF Frames
  <2> DEFINE merged == PreserveTerminal(audit, frame)
  <2>2. audit' = AuditFor(merged, status)
      BY <1>0, <2>1 DEF RecordSnapshot
  <2>3. merged.formal = NoBundle
      BY MergeWithoutBundle DEF UndeliveredHasNoBundle
  <2>4. merged \in Audits \cup {NoAudit}
    <3>1. CASE audit.closure = "none" \/ frame = NoAudit
        BY <1>0, <3>1, AuditShapes DEF PreserveTerminal
    <3>2. CASE audit.closure # "none" /\ frame = Working
      <4>1. audit.closure \in Closures
          BY <1>0, AuditShapes DEF NoAudit, Closures
      <4>2. merged = [draft |-> TRUE, formal |-> NoBundle, closure |-> audit.closure]
          BY <3>2 DEF PreserveTerminal, Working, UndeliveredHasNoBundle
      <4>3. QED
          BY <4>1, <4>2 DEF Audits, Closures
    <3>3. QED
        BY <3>1, <3>2
  <2>5. AuditFor(merged, status).formal = IF merged.draft THEN merged.formal ELSE NoBundle
      BY <1>0, <2>4, AuditForKeepsFormal
  <2>6. QED
      BY <2>2, <2>3, <2>5
<1>5. CASE RecordNodeUpdate
    BY <1>5 DEF RecordNodeUpdate, UndeliveredHasNoBundle
<1>6. CASE \E c \in Cancellers : CancelRead(c) \/ CancelWrite(c) \/ CancelGiveUp(c)
  <2>1. PICK c \in Cancellers : CancelRead(c) \/ CancelWrite(c) \/ CancelGiveUp(c)
      BY <1>6
  <2>2. CASE UNCHANGED <<audit, events>>
      BY <2>2 DEF UndeliveredHasNoBundle
  <2>3. CASE CancelWrite(c) /\ MayBecome(status, cancel[c].target)
    <3>1. cancel[c].target \in {"cancel_requested", "cancelled"}
        BY <2>3 DEF LifecycleInvariant, CancelCounts, CancelWrite, TypeOK
    <3>2. TransitionEffect(cancel[c].target, "none", NoAudit)
        BY <2>3 DEF CancelWrite
    <3>3. cancel[c].target \in Statuses
        BY <3>1 DEF Statuses
    <3>4. QED
        BY <1>0, <3>2, <3>3, TransitionKeepsNoBundle
  <2>4. QED
      BY <2>1, <2>2, <2>3 DEF CancelRead, CancelWrite, CancelGiveUp, stateVars
<1>7. CASE UNCHANGED vars
    BY <1>7 DEF vars, UndeliveredHasNoBundle
<1>8. QED
    BY <1>1, <1>2, <1>3, <1>4, <1>5, <1>6, <1>7 DEF Next

\* Attributing a run anew to the sealed status it is in changes nothing.
LEMMA AuditForSealed ==
    ASSUME NEW a \in Audits, a.closure = status, status \in Sealed
    PROVE  AuditFor(a, status) = a
<1>1. status \in {"completed", "cancelled"}
    BY DEF Sealed, Statuses, AllowedNext
<1>2. AuditFor(a, status) = [a EXCEPT !.closure = status]
    BY <1>1, AuditShapes DEF AuditFor
<1>3. QED
    BY <1>2 DEF Audits

LEMMA SealStep ==
    LifecycleInvariant /\ UndeliveredHasNoBundle /\ [Next]_vars => SealIsKept
<1> SUFFICES ASSUME LifecycleInvariant, UndeliveredHasNoBundle, [Next]_vars,
                    status \in Sealed
             PROVE  /\ UNCHANGED <<status, attempt, events>>
                    /\ audit.draft => UNCHANGED audit
    BY DEF SealIsKept
<1>0. /\ status \in {"completed", "cancelled"}
      /\ AllowedNext(status) = {}
      /\ mirror = status
      /\ attempt \in 1..MaxAttempts
    BY DEF Sealed, Statuses, AllowedNext, LifecycleInvariant, TypeOK
<1>1. audit.draft => audit \in Audits /\ audit.closure = status
    BY <1>0, AuditShapes DEF LifecycleInvariant, TypeOK, AttributionTellsStatus
<1>2. ASSUME NEW target, TransitionEffect(target, "none", NoAudit), target = status
      PROVE  /\ UNCHANGED <<status, attempt, events>>
             /\ audit.draft => UNCHANGED audit
  <2>1. UNCHANGED <<status, attempt, events>>
      BY <1>0, <1>2 DEF TransitionEffect, Increment
  <2>2. audit' = AuditFor(audit, status)
      BY <1>2 DEF TransitionEffect, NoAudit
  <2>3. QED
      BY <1>1, <2>1, <2>2, AuditForSealed
<1>3. CASE Call
  <2>1. \E target \in Statuses : TransitionEffect(target, "none", NoAudit) /\ target = status
      BY <1>0, <1>3 DEF Call, TransitionStatus, MayBecome, Statuses
  <2>2. QED
      BY <1>2, <2>1
<1>4. CASE \E b \in Bundles : CompleteDelivery(b)
    BY <1>0, <1>4 DEF CompleteDelivery
<1>5. CASE ClaimResume({"awaiting_input"}) \/ ClaimResume({"failed", "interrupted"})
    BY <1>0, <1>5 DEF ClaimResume
<1>6. CASE \E frame \in Frames : RecordSnapshot(frame)
  <2>1. PICK frame \in Frames : RecordSnapshot(frame)
      BY <1>6
  <2>2. UNCHANGED <<status, attempt, events>>
      BY <2>1 DEF RecordSnapshot
  <2>3. ASSUME audit.draft PROVE PreserveTerminal(audit, frame) = audit
    <3>1. audit.closure = status /\ audit \in Audits
        BY <1>1, <2>3
    <3>2. CASE ~frame.draft
        BY <1>0, <3>1, <3>2 DEF PreserveTerminal
    <3>3. CASE frame.draft
      <4>1. mode = "deep"
          BY <2>1, <3>3, AuditShapes DEF RecordSnapshot
      <4>2. /\ status = "completed" => audit.formal # NoBundle /\ events # <<>>
            /\ events # <<>> => status = "completed" /\ audit = Delivered(events[1].bundle)
            /\ events # <<>> => events[1].bundle \in Bundles
          BY <4>1 DEF LifecycleInvariant, FormalDelivery, TypeOK, Delivered, Ready
      <4>3. \/ frame = Working
            \/ events # <<>> /\ frame = Delivered(events[1].bundle)
          BY <3>3, AuditShapes DEF Frames
      <4>4. CASE frame = Working
        <5>1. PreserveTerminal(audit, frame) =
                [draft |-> TRUE,
                 formal |-> IF audit.closure = "completed" THEN audit.formal ELSE NoBundle,
                 closure |-> audit.closure]
            BY <1>0, <3>1, <4>4 DEF PreserveTerminal, Working
        <5>2. audit.closure = "completed" \/ audit.formal = NoBundle
            BY <1>0, <3>1, <4>2 DEF UndeliveredHasNoBundle
        <5>3. audit = [draft |-> TRUE, formal |-> audit.formal, closure |-> audit.closure]
            BY <3>1 DEF Audits
        <5>4. QED
            BY <5>1, <5>2, <5>3
      <4>5. CASE events # <<>> /\ frame = Delivered(events[1].bundle)
        <5>1. frame = audit /\ audit.closure = "completed"
            BY <3>1, <4>2, <4>5
        <5>2. PreserveTerminal(audit, frame) = [audit EXCEPT !.closure = audit.closure,
                                                             !.formal = audit.formal]
            BY <3>3, <5>1 DEF PreserveTerminal
        <5>3. QED
            BY <3>1, <5>2 DEF Audits
      <4>6. QED
          BY <4>3, <4>4, <4>5
    <3>4. QED
        BY <3>2, <3>3
  <2>4. audit' = AuditFor(PreserveTerminal(audit, frame), status)
      BY <1>0, <2>1 DEF RecordSnapshot
  <2>5. QED
      BY <1>1, <2>2, <2>3, <2>4, AuditForSealed
<1>7. CASE RecordNodeUpdate
    BY <1>7 DEF RecordNodeUpdate
<1>8. CASE \E c \in Cancellers : CancelRead(c) \/ CancelWrite(c) \/ CancelGiveUp(c)
  <2>1. PICK c \in Cancellers : CancelRead(c) \/ CancelWrite(c) \/ CancelGiveUp(c)
      BY <1>8
  <2>2. CASE UNCHANGED <<status, attempt, audit, events>>
      BY <2>2
  <2>3. CASE CancelWrite(c) /\ MayBecome(status, cancel[c].target)
    <3>1. TransitionEffect(cancel[c].target, "none", NoAudit) /\ cancel[c].target = status
        BY <1>0, <2>3 DEF CancelWrite, MayBecome
    <3>2. QED
        BY <1>2, <3>1
  <2>4. QED
      BY <2>1, <2>2, <2>3 DEF CancelRead, CancelWrite, CancelGiveUp, runVars, stateVars
<1>9. CASE UNCHANGED vars
    BY <1>9 DEF vars
<1>10. QED
    BY <1>3, <1>4, <1>5, <1>6, <1>7, <1>8, <1>9 DEF Next

LEMMA NoBundleAlways == Spec => []UndeliveredHasNoBundle
<1>1. Init => UndeliveredHasNoBundle
    BY DEF Init, UndeliveredHasNoBundle, NoAudit
<1>2. QED
    BY <1>1, NoBundleStep, LifecycleAlways, PTL DEF Spec

\* INV-CMD-003: a completed or cancelled run keeps its status, its delivery and
\* its attribution, whichever old snapshot a caller writes from.
THEOREM SealHolds == Spec => SealedStaysSealed
BY SealStep, LifecycleAlways, NoBundleAlways, PTL DEF Spec, SealedStaysSealed

\* A request_cancel that returns leaves a run that neither works nor waits.
THEOREM CancelStops == Spec => CancelReturnsStopped
<1> DEFINE Returns(c) == cancel'[c].pc = "returned" /\ cancel[c].pc # "returned"
<1>1. ASSUME LifecycleInvariant, [Next]_vars, NEW c \in Cancellers, Returns(c)
      PROVE  status' \notin {"created", "running", "awaiting_input"}
  <2>1. cancel \in CancelType /\ CancelCounts
      BY <1>1 DEF LifecycleInvariant, TypeOK, CancelType
  <2>2. PICK d \in Cancellers : CancelRead(d) \/ CancelWrite(d) \/ CancelGiveUp(d)
      BY <1>1 DEF Next, Call, CompleteDelivery, ClaimResume, RecordSnapshot,
         RecordNodeUpdate, vars
  <2>3. c = d
      BY <1>1, <2>1, <2>2 DEF CancelRead, CancelWrite, CancelGiveUp, CancelType
  <2>4. CASE CancelRead(c) \/ CancelGiveUp(c)
      BY <1>1, <2>1, <2>4 DEF CancelRead, CancelGiveUp, CancelTarget, CancelType,
         CancellableStatuses, runVars
  <2>5. CASE CancelWrite(c)
    <3>1. cancel[c].target \in {"cancel_requested", "cancelled"}
        BY <2>1, <2>5 DEF CancelWrite, CancelCounts, CancelType
    <3>2. MayBecome(status, cancel[c].target)
        BY <1>1, <2>1, <2>5 DEF CancelWrite, CancelType
    <3>3. status' = cancel[c].target
        BY <2>5, <3>2 DEF CancelWrite, TransitionEffect
    <3>4. QED
        BY <3>1, <3>3
  <2>6. QED
      BY <2>2, <2>3, <2>4, <2>5
<1>2. LifecycleInvariant /\ [Next]_vars
        => \A c \in Cancellers :
             Returns(c) => status' \notin {"created", "running", "awaiting_input"}
    BY <1>1
<1>3. QED
    BY <1>2, LifecycleAlways, PTL DEF Spec, CancelReturnsStopped

-----------------------------------------------------------------------------
(* The refinement of RunContract.                                          *)

Shown == IF events = <<>> THEN NoBundle ELSE events[1].bundle

\* What the table allows is what the contract allows, and a round is opened
\* exactly when a paused run starts again.
LEMMA TransitionIsContractStep ==
    ASSUME LifecycleInvariant, NEW target \in Statuses, NEW given, NEW arg,
           MayBecome(status, target),
           ~(target = "completed" /\ mode = "deep"),
           TransitionEffect(target, given, arg)
    PROVE  [Contract!ContractNext]_<<Phase, attempt, Shown>>
<1>1. /\ status' = target /\ events' = events
      /\ attempt' = attempt + Increment(target)
      /\ attempt \in Nat /\ status \in Statuses
    BY DEF TransitionEffect, LifecycleInvariant, TypeOK
<1>2. UNCHANGED Shown
    BY <1>1 DEF Shown
<1>3. CASE target = status
    BY <1>1, <1>2, <1>3 DEF Phase, Increment
<1>4. CASE target = "running" /\ target # status
    BY <1>1, <1>2, <1>4
    DEF Phase, Increment, MayBecome, AllowedNext, Statuses, Shown,
        Contract!ContractNext, Contract!Work
<1>5. CASE target = "completed" /\ target # status
  <2>1. status = "running" /\ attempt' = attempt /\ events = <<>>
      BY <1>1, <1>5
      DEF MayBecome, AllowedNext, Increment, LifecycleInvariant, FormalDelivery,
          TypeOK, Statuses
  <2>2. Contract!Deliver
      BY <1>1, <1>5, <2>1 DEF Phase, Contract!Deliver
  <2>3. QED
      BY <2>2 DEF Contract!ContractNext
<1>6. CASE target \notin {"running", "completed"} /\ target # status
    BY <1>1, <1>2, <1>6
    DEF Phase, Increment, MayBecome, AllowedNext, Statuses, Shown,
        Contract!ContractNext, Contract!Ask, Contract!Pause, Contract!Stop,
        Contract!Cancel
<1>7. QED
    BY <1>3, <1>4, <1>5, <1>6

LEMMA ContractStep ==
    LifecycleInvariant /\ [Next]_vars
        => [Contract!ContractNext]_<<Phase, attempt, Shown>>
<1> SUFFICES ASSUME LifecycleInvariant, [Next]_vars
             PROVE  [Contract!ContractNext]_<<Phase, attempt, Shown>>
    OBVIOUS
<1>0. status \in Statuses /\ attempt \in Nat
    BY DEF LifecycleInvariant, TypeOK
<1>1. ASSUME UNCHANGED <<status, attempt, events>>
      PROVE  UNCHANGED <<Phase, attempt, Shown>>
    BY <1>1 DEF Phase, Shown
<1>2. CASE Call
  <2>1. PICK target \in Statuses, given \in {"none", "open"}, arg \in {NoAudit, Refused} :
          TransitionStatus(target, given, arg)
      BY <1>2 DEF Call, Statuses
  <2>2. QED
      BY <2>1, TransitionIsContractStep DEF TransitionStatus
<1>3. CASE \E b \in Bundles : CompleteDelivery(b)
  <2>1. PICK b \in Bundles : CompleteDelivery(b)
      BY <1>3
  <2>2. status = "running" /\ status' = "completed" /\ UNCHANGED attempt
      BY <1>0, <2>1 DEF CompleteDelivery, AllowedNext, Statuses
  <2>3. events' = <<Ready(b), Terminal(b)>> /\ Shown' = b
      BY <2>1 DEF CompleteDelivery, Shown, Ready
  <2>4. Contract!Deliver
      BY <2>2, <2>3 DEF Phase, Shown, Contract!Deliver
  <2>5. QED
      BY <2>4 DEF Contract!ContractNext
<1>4. CASE ClaimResume({"awaiting_input"}) \/ ClaimResume({"failed", "interrupted"})
  <2>1. /\ status \in {"awaiting_input", "failed", "interrupted"}
        /\ status' = "running" /\ attempt' = attempt + 1 /\ events' = events
      BY <1>4 DEF ClaimResume
  <2>2. Contract!Work
      BY <2>1 DEF Phase, Shown, Contract!Work
  <2>3. QED
      BY <2>2 DEF Contract!ContractNext
<1>5. CASE \E frame \in Frames : RecordSnapshot(frame)
    BY <1>1, <1>5 DEF RecordSnapshot
<1>6. CASE RecordNodeUpdate
    BY <1>1, <1>6 DEF RecordNodeUpdate
<1>7. CASE \E c \in Cancellers : CancelRead(c) \/ CancelWrite(c) \/ CancelGiveUp(c)
  <2>1. PICK c \in Cancellers : CancelRead(c) \/ CancelWrite(c) \/ CancelGiveUp(c)
      BY <1>7
  <2>2. CASE UNCHANGED <<status, attempt, events>>
      BY <1>1, <2>2
  <2>3. CASE CancelWrite(c) /\ MayBecome(status, cancel[c].target)
    <3>1. cancel[c].target \in {"cancel_requested", "cancelled"}
        BY <2>3 DEF LifecycleInvariant, CancelCounts, CancelWrite, TypeOK
    <3>2. TransitionEffect(cancel[c].target, "none", NoAudit)
        BY <2>3 DEF CancelWrite
    <3>3. cancel[c].target \in Statuses
        BY <3>1 DEF Statuses
    <3>4. QED
        BY <2>3, <3>1, <3>2, <3>3, TransitionIsContractStep
  <2>4. QED
      BY <2>1, <2>2, <2>3 DEF CancelRead, CancelWrite, CancelGiveUp, runVars
<1>8. CASE UNCHANGED vars
    BY <1>1, <1>8 DEF vars
<1>9. QED
    BY <1>2, <1>3, <1>4, <1>5, <1>6, <1>7, <1>8 DEF Next

\* The rows of a run implement RunContract, under every interleaving of streams,
\* finalizer, control API and sweep: it delivers once, and never goes back.
THEOREM Refinement == Spec => KeepsContract
<1>1. Init => Contract!ContractInit
    BY DEF Init, Phase, Contract!ContractInit
<1>2. LifecycleInvariant /\ [Next]_vars => [Contract!ContractNext]_(Contract!contractVars)
    BY ContractStep DEF Contract!contractVars, Shown
<1>3. QED
    BY <1>1, <1>2, LifecycleAlways, PTL DEF Spec, KeepsContract, Contract!ContractSpec

=============================================================================
