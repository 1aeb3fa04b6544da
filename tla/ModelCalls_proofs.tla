------------------------- MODULE ModelCalls_proofs -------------------------
(***************************************************************************)
(* Proofs about ModelCalls and the channel under it, for any number of     *)
(* nodes, guests, slots and flushers, any limits and any faults: the types *)
(* (CallsTypeCorrect), that no slot is lost and the meters count the       *)
(* callers (SlotsAreConserved), that the budget holds (TheBudgetHolds),    *)
(* and that every usage record is accounted for                            *)
(* (EveryRecordIsAccountedFor).                                            *)
(*                                                                         *)
(* CallsInvariant is inductive.  It says of the channel what the semaphore *)
(* relies on: who waits stands in the queue once, who is woken stands in   *)
(* it, and a free slot beside somebody who sleeps means that a woken       *)
(* waiter has yet to run.  The meters are compared with the places of the  *)
(* callers, and the usage records that are missing with the counter of     *)
(* what the recorder has dropped, step by step.                            *)
(***************************************************************************)
EXTENDS ModelCalls, FiniteSetTheorems, SequenceTheorems, TLAPS

-----------------------------------------------------------------------------
(* The channel: its queue and its permits.                                 *)

\* What every operation of the channel leaves behind, whoever calls it: nobody is
\* queued twice, no slot is forgotten, and a free one is on its way to who waits.
GateInvariant ==
    /\ waiters \in Seq(Callers)
    /\ IsInjective(waiters)
    /\ woken \subseteq Queued
    /\ permits \in Nat
    /\ active \in Nat
    /\ permits + Cardinality(woken) + active = Slots
    /\ permits > 0 /\ Queued # {} => woken # {}

\* The queue holds finitely many callers.
LEMMA QueueIsFinite ==
    ASSUME NEW s \in Seq(Callers), NEW T \in SUBSET Range(s)
    PROVE  /\ T \subseteq Callers
           /\ IsFiniteSet(T)
           /\ Cardinality(T) \in Nat
<1>1. T \subseteq Callers
  BY RangeOfSeq
<1> QED
  BY <1>1, GateAssumption, FS_Subset, FS_CardinalityType

\* deque.remove: c is gone, and nobody else.
LEMMA WithoutLeavesTheOthers ==
    ASSUME waiters \in Seq(Callers), IsInjective(waiters), NEW c \in Queued
    PROVE  /\ Without(c) \in Seq(Callers)
           /\ IsInjective(Without(c))
           /\ Range(Without(c)) = Queued \ {c}
<1> DEFINE i == CHOOSE j \in DOMAIN waiters : waiters[j] = c
           n == Len(waiters)
           front == SubSeq(waiters, 1, i - 1)
           back == SubSeq(waiters, i + 1, n)
<1>1. /\ n \in Nat /\ DOMAIN waiters = 1..n
      /\ \A j \in 1..n : waiters[j] \in Callers
  BY LenProperties, ElementOfSeq
<1>2. i \in 1..n /\ waiters[i] = c
  <2>1. \E j \in DOMAIN waiters : waiters[j] = c
    BY DEF Queued, Range
  <2> QED
    BY <1>1, <2>1
<1> HIDE DEF i
<1>3. /\ front \in Seq(Callers) /\ Len(front) = i - 1
      /\ \A j \in 1..(i - 1) : front[j] = waiters[j]
  <2>1. \A j \in 1..(i - 1) : waiters[j] \in Callers
    BY <1>1, <1>2
  <2> HIDE DEF n
  <2> QED
    BY <1>2, <2>1, SubSeqProperties, 1 \in Int, i - 1 \in Int, <1>1
<1>4. /\ back \in Seq(Callers) /\ Len(back) = n - i
      /\ \A j \in 1..(n - i) : back[j] = waiters[i + j]
  <2>1. \A j \in (i + 1)..n : waiters[j] \in Callers
    BY <1>1, <1>2
  <2> HIDE DEF n
  <2>2. i + 1 \in Int /\ n \in Int
    BY <1>1, <1>2
  <2> QED
    BY <1>1, <1>2, <2>1, <2>2, SubSeqProperties
<1> HIDE DEF front, back
<1>5. Without(c) = front \o back
  BY DEF Without, RemoveAt, front, back, i, n
<1>6. /\ Without(c) \in Seq(Callers) /\ Len(Without(c)) = n - 1
      /\ \A j \in 1..(n - 1) :
            Without(c)[j] = IF j < i THEN waiters[j] ELSE waiters[j + 1]
  <2>1. /\ front \o back \in Seq(Callers)
        /\ Len(front \o back) = Len(front) + Len(back)
        /\ \A j \in 1..Len(front) + Len(back) :
              (front \o back)[j] = IF j <= Len(front) THEN front[j] ELSE back[j - Len(front)]
    BY <1>3, <1>4, ConcatProperties
  <2> HIDE DEF n
  <2>2. Len(front) + Len(back) = n - 1
    BY <1>1, <1>2, <1>3, <1>4
  <2>3. ASSUME NEW j \in 1..(n - 1)
        PROVE  (front \o back)[j] = IF j < i THEN waiters[j] ELSE waiters[j + 1]
    <3>1. CASE j < i
      BY <1>1, <1>2, <1>3, <2>1, <2>2, <3>1
    <3>2. CASE ~(j < i)
      <4>1. (front \o back)[j] = back[j - (i - 1)]
        BY <1>1, <1>2, <1>3, <2>1, <2>2, <3>2
      <4>2. j - (i - 1) \in 1..(n - i) /\ i + (j - (i - 1)) = j + 1
        BY <1>1, <1>2, <3>2
      <4> QED
        BY <1>4, <3>2, <4>1, <4>2
    <3> QED
      BY <3>1, <3>2
  <2> QED
    BY <1>5, <2>1, <2>2, <2>3
<1> HIDE DEF n
<1>7. DOMAIN Without(c) = 1..(n - 1)
  BY <1>6, LenProperties
<1>8. IsInjective(Without(c))
  <2> SUFFICES ASSUME NEW j \in 1..(n - 1), NEW k \in 1..(n - 1),
                      Without(c)[j] = Without(c)[k]
               PROVE  j = k
    BY <1>7 DEF IsInjective
  <2> DEFINE Place(m) == IF m < i THEN m ELSE m + 1
  <2>1. Place(j) \in 1..n /\ Place(k) \in 1..n
    BY <1>1, <1>2
  <2>2. waiters[Place(j)] = waiters[Place(k)]
    BY <1>6
  <2>3. Place(j) = Place(k)
    BY <1>1, <2>1, <2>2 DEF IsInjective
  <2> QED
    BY <1>1, <1>2, <2>3
<1>9. ASSUME NEW x \in Range(Without(c))
      PROVE  x \in Queued \ {c}
  <2>1. PICK j \in 1..(n - 1) : x = Without(c)[j]
    BY <1>7 DEF Range
  <2> DEFINE place == IF j < i THEN j ELSE j + 1
  <2>a. place \in 1..n /\ place # i
    BY <1>1, <1>2
  <2>b. x = waiters[place]
    BY <1>6, <2>1
  <2> HIDE DEF place
  <2>2. PICK k \in 1..n : k # i /\ x = waiters[k]
    BY <2>a, <2>b
  <2>3. k \in DOMAIN waiters /\ i \in DOMAIN waiters
    BY <1>1, <1>2, <2>2
  <2>4. waiters[k] \in Queued
    BY <2>3, Zenon DEF Queued, Range
  <2>5. waiters[k] # waiters[i]
    BY <2>2, <2>3, Zenon DEF IsInjective
  <2> QED
    BY <1>2, <2>2, <2>4, <2>5, Zenon
<1>10. ASSUME NEW x \in Queued \ {c}
       PROVE  x \in Range(Without(c))
  <2>1. PICK k \in 1..n : x = waiters[k]
    BY <1>1 DEF Queued, Range
  <2>2. k # i
    BY <1>2, <2>1
  <2>3. CASE k < i
    <3>1. k \in 1..(n - 1) /\ Without(c)[k] = x
      BY <1>1, <1>2, <1>6, <2>1, <2>3
    <3> QED
      BY <1>7, <3>1 DEF Range
  <2>4. CASE k > i
    <3>1. k - 1 \in 1..(n - 1) /\ Without(c)[k - 1] = x
      BY <1>1, <1>2, <1>6, <2>1, <2>4
    <3> QED
      BY <1>7, <3>1 DEF Range
  <2> QED
    BY <1>1, <1>2, <2>2, <2>3, <2>4
<1> QED
  BY <1>6, <1>8, <1>9, <1>10

\* A set of naturals with an element has a least one.
LEMMA LeastIsAnElement ==
    ASSUME NEW T, T \subseteq Nat, T # {}
    PROVE  Min(T) \in T
<1> DEFINE less == OpToRel(<, Nat)
<1>1. /\ \A j, k \in Nat : <<j, k>> \in less <=> j < k
      /\ IsWellFoundedOn(less, Nat)
  BY NatLessThanWellFounded DEF OpToRel
<1> HIDE DEF less
<1>2. PICK i \in T : \A j \in T : ~(<<j, i>> \in less)
  <2>1. IsWellFoundedOn(less, Nat)
    BY <1>1
  <2> QED
    BY ONLY <2>1, T \subseteq Nat, T # {}, WFMin
<1>3. ASSUME NEW j \in T
      PROVE  i <= j
  <2>1. i \in Nat /\ j \in Nat
    OBVIOUS
  <2>2. ~(j < i)
    BY <1>1, <1>2, <2>1
  <2> QED
    BY <2>1, <2>2
<1> QED
  BY <1>3 DEF Min

\* _wake_up_next: a permit in hand goes to one sleeper, or stays.
LEMMA HandOutConserves ==
    ASSUME NEW queue \in Seq(Callers), NEW awake \in SUBSET Range(queue),
           NEW n \in Nat, HandOut(queue, awake, n)
    PROVE  /\ waiters' = queue
           /\ woken' \subseteq Range(queue)
           /\ permits' \in Nat
           /\ permits' + Cardinality(woken') = n + Cardinality(awake)
           /\ permits' > 0 /\ Range(queue) # {} => woken' # {}
<1> DEFINE asleep == {i \in DOMAIN queue : queue[i] \notin awake}
           lucky == IF n > 0 /\ asleep # {} THEN {queue[Min(asleep)]} ELSE {}
<1>1. waiters' = queue /\ woken' = awake \union lucky /\ permits' = n - Cardinality(lucky)
  BY DEF HandOut
<1>2. asleep # {} => Min(asleep) \in asleep
  <2>1. asleep \subseteq Nat
    BY LenProperties
  <2> HIDE DEF asleep
  <2> QED
    BY <2>1, LeastIsAnElement
<1>3. IsFiniteSet(awake) /\ Cardinality(awake) \in Nat
  BY QueueIsFinite
<1>4. CASE n > 0 /\ asleep # {}
  <2> DEFINE x == queue[Min(asleep)]
  <2>1. lucky = {x} /\ x \in Range(queue) /\ x \notin awake
    BY <1>2, <1>4 DEF Range
  <2> HIDE DEF x, lucky, asleep
  <2>2. Cardinality(woken') = Cardinality(awake) + 1 /\ Cardinality(lucky) = 1
    BY <1>1, <1>3, <2>1, FS_AddElement, FS_Singleton
  <2> QED
    BY <1>1, <1>3, <1>4, <2>1, <2>2
<1>5. CASE ~(n > 0 /\ asleep # {})
  <2>1. lucky = {}
    BY <1>5
  <2>2. n > 0 => Range(queue) \subseteq awake
    BY <1>5 DEF Range
  <2> HIDE DEF lucky, asleep
  <2> QED
    BY <1>1, <1>3, <2>1, <2>2, FS_EmptySet
<1> QED
  BY <1>4, <1>5

\* A task that finds a free slot and nobody before it.
LEMMA AdmitKeepsGate ==
    ASSUME GateInvariant, NEW c \in Callers, Admit(c)
    PROVE  GateInvariant' /\ Queued' = Queued /\ active' = active + 1 /\ waiting' = waiting
<1>1. Queued = {} /\ woken = {}
  BY EmptySeq DEF Admit, GateInvariant, Queued, Range
<1> QED
  BY <1>1, FS_EmptySet DEF Admit, GateInvariant, Queued

\* A task that has to wait.
LEMMA EnqueueKeepsGate ==
    ASSUME GateInvariant, NEW c \in Callers, c \notin Queued, Enqueue(c)
    PROVE  /\ GateInvariant' /\ Queued' = Queued \cup {c}
           /\ active' = active /\ waiting' = waiting + 1
<1>1. /\ waiters \in Seq(Callers) /\ waiters' = Append(waiters, c)
      /\ UNCHANGED <<permits, woken, active>> /\ waiting' = waiting + 1
  BY DEF Enqueue, GateInvariant
<1>2. /\ waiters' \in Seq(Callers) /\ Len(waiters') = Len(waiters) + 1
      /\ \A i \in 1..Len(waiters) : waiters'[i] = waiters[i]
      /\ waiters'[Len(waiters) + 1] = c
      /\ Len(waiters) \in Nat
      /\ DOMAIN waiters = 1..Len(waiters) /\ DOMAIN waiters' = 1..(Len(waiters) + 1)
  BY <1>1, AppendProperties, LenProperties
<1>3. Queued' = Queued \cup {c}
  BY <1>2 DEF Queued, Range
<1>4. IsInjective(waiters)'
  <2>1. \A i \in 1..Len(waiters) : waiters[i] # c
    BY <1>2 DEF Queued, Range
  <2> SUFFICES ASSUME NEW i \in 1..(Len(waiters) + 1), NEW j \in 1..(Len(waiters) + 1),
                      waiters'[i] = waiters'[j]
               PROVE  i = j
    BY <1>2 DEF IsInjective
  <2>2. i = Len(waiters) + 1 <=> j = Len(waiters) + 1
    BY <1>2, <2>1
  <2> QED
    BY <1>2, <2>2 DEF GateInvariant, IsInjective
<1>5. (permits > 0 /\ Queued # {} => woken # {})'
  <2>1. permits = 0 \/ Queued # {}
    <3>1. waiters # <<>> => 1 \in DOMAIN waiters
      BY <1>1, <1>2, EmptySeq
    <3> QED
      BY <3>1 DEF Enqueue, Queued, Range
  <2> QED
    BY <1>1, <2>1 DEF GateInvariant
<1> QED
  BY <1>1, <1>2, <1>3, <1>4, <1>5 DEF GateInvariant

\* So does the part of it that is woken.
LEMMA WokenAreFinite ==
    ASSUME GateInvariant
    PROVE  IsFiniteSet(woken) /\ Cardinality(woken) \in Nat
BY QueueIsFinite DEF GateInvariant, Queued

\* The count of the slots, apart from the queue.
LEMMA TheSum ==
    ASSUME GateInvariant
    PROVE  permits \in Nat /\ active \in Nat /\ permits + Cardinality(woken) + active = Slots
BY Zenon DEF GateInvariant

\* A woken waiter that runs holds its slot.
LEMMA ProceedKeepsGate ==
    ASSUME GateInvariant, NEW c, Proceed(c)
    PROVE  /\ GateInvariant' /\ c \in Queued /\ Queued' = Queued \ {c}
           /\ active' = active + 1 /\ waiting' = waiting - 1
<1> DEFINE rest == Without(c)
           awake == woken \ {c}
<1>1. c \in woken /\ c \in Queued
  BY DEF Proceed, GateInvariant
<1>2. rest \in Seq(Callers) /\ IsInjective(rest) /\ Range(rest) = Queued \ {c}
  BY <1>1, WithoutLeavesTheOthers DEF GateInvariant
<1>3. Cardinality(awake) = Cardinality(woken) - 1 /\ Cardinality(woken) \in Nat
  BY <1>1, WokenAreFinite, FS_RemoveElement
<1>4. HandOut(rest, awake, permits) /\ permits \in Nat /\ awake \in SUBSET Range(rest)
  BY <1>2 DEF Proceed, GateInvariant
<1> HIDE DEF rest, awake
<1>5. /\ waiters' = rest /\ woken' \subseteq Range(rest) /\ permits' \in Nat
      /\ permits' + Cardinality(woken') = permits + Cardinality(awake)
      /\ permits' > 0 /\ Range(rest) # {} => woken' # {}
  BY <1>2, <1>4, HandOutConserves
<1>6. Queued' = Queued \ {c}
  BY <1>2, <1>5 DEF Queued
<1>7. active' = active + 1 /\ waiting' = waiting - 1
  BY DEF Proceed
<1>8. Cardinality(woken') \in Nat
  BY <1>2, <1>5, QueueIsFinite
<1>9. permits' + Cardinality(woken') + active' = Slots
  <2>1. permits' \in Nat /\ permits' + Cardinality(woken') = permits + Cardinality(awake)
    BY <1>5
  <2> QED
    BY <1>3, <1>7, <1>8, <2>1, TheSum
<1> QED
  BY <1>1, <1>2, <1>5, <1>6, <1>7, <1>9 DEF GateInvariant, Queued

\* A wait that ends without a slot passes on the permit it may already own.
LEMMA GiveUpKeepsGate ==
    ASSUME GateInvariant, NEW c, GiveUp(c)
    PROVE  /\ GateInvariant' /\ c \in Queued /\ Queued' = Queued \ {c}
           /\ active' = active /\ waiting' = waiting - 1
<1> DEFINE rest == Without(c)
           awake == woken \ {c}
<1>1. c \in Queued /\ active' = active /\ waiting' = waiting - 1
  BY DEF GiveUp
<1>2. rest \in Seq(Callers) /\ IsInjective(rest) /\ Range(rest) = Queued \ {c}
  BY <1>1, WithoutLeavesTheOthers DEF GateInvariant
<1>3. CASE c \in woken
  <2>1. Cardinality(awake) = Cardinality(woken) - 1 /\ Cardinality(woken) \in Nat
    BY <1>3, WokenAreFinite, FS_RemoveElement
  <2>2. /\ HandOut(rest, awake, permits + 1) /\ permits + 1 \in Nat
        /\ awake \in SUBSET Range(rest)
    BY <1>2, <1>3 DEF GiveUp, GateInvariant
  <2> HIDE DEF rest, awake
  <2>3. /\ waiters' = rest /\ woken' \subseteq Range(rest) /\ permits' \in Nat
        /\ permits' + Cardinality(woken') = permits + 1 + Cardinality(awake)
        /\ permits' > 0 /\ Range(rest) # {} => woken' # {}
    BY <1>2, <2>2, HandOutConserves
  <2>4. Cardinality(woken') \in Nat
    BY <1>2, <2>3, QueueIsFinite
  <2>5. permits' + Cardinality(woken') + active' = Slots
    <3>1. permits' \in Nat /\ permits' + Cardinality(woken') = permits + 1 + Cardinality(awake)
      BY <2>3
    <3> QED
      BY <1>1, <2>1, <2>4, <3>1, TheSum
  <2> QED
    BY <1>1, <1>2, <2>3, <2>5 DEF GateInvariant, Queued
<1>4. CASE c \notin woken
  <2>1. waiters' = rest /\ UNCHANGED <<permits, woken>>
    BY <1>4 DEF GiveUp
  <2> HIDE DEF rest
  <2> QED
    BY <1>1, <1>2, <1>4, <2>1 DEF GateInvariant, Queued
<1> QED
  BY <1>3, <1>4

\* The end of a call hands its slot on.
LEMMA ReleaseKeepsGate ==
    ASSUME GateInvariant, active > 0, Release
    PROVE  /\ GateInvariant' /\ Queued' = Queued
           /\ active' = active - 1 /\ waiting' = waiting
<1>1. /\ HandOut(waiters, woken, permits + 1) /\ permits + 1 \in Nat
      /\ waiters \in Seq(Callers) /\ woken \in SUBSET Range(waiters)
  BY DEF Release, GateInvariant, Queued
<1>2. active' = active - 1 /\ waiting' = waiting
  BY DEF Release
<1>3. /\ waiters' = waiters /\ woken' \subseteq Range(waiters) /\ permits' \in Nat
      /\ permits' + Cardinality(woken') = permits + 1 + Cardinality(woken)
      /\ permits' > 0 /\ Range(waiters) # {} => woken' # {}
  BY <1>1, HandOutConserves
<1>4. Cardinality(woken') \in Nat /\ Cardinality(woken) \in Nat
  BY <1>1, <1>3, QueueIsFinite
<1>5. permits' + Cardinality(woken') + active' = Slots
  <2>1. permits' \in Nat /\ permits' + Cardinality(woken') = permits + 1 + Cardinality(woken)
    BY <1>3
  <2> QED
    BY <1>2, <1>4, <2>1, TheSum
<1> QED
  BY <1>2, <1>3, <1>5 DEF GateInvariant, Queued

-----------------------------------------------------------------------------
(* The usage records.                                                      *)

Held == Range(recorder) \union durable \union UNION {Range(batch[f]) : f \in Flushers}

\* The calls whose record is nowhere, and went with no crash and no cancelled flush.
Missing == (1..charged) \ (Held \union lost)

UsageTypes ==
    /\ charged \in Nat
    /\ recorder \in Seq(1..charged) /\ Len(recorder) <= BufferMax
    /\ dropped \in Nat
    /\ batch \in [Flushers -> Seq(1..charged)]
    /\ durable \union lost \subseteq 1..charged

UsageInvariant == UsageTypes /\ Cardinality(Missing) <= dropped

\* No call is charged yet, so none is missing.
LEMMA UsageInit == Init => UsageInvariant
<1> SUFFICES ASSUME Init
             PROVE  UsageInvariant
  OBVIOUS
<1>1. UsageTypes
  BY CallsAssumption, EmptySeq DEF Init, UsageTypes
<1>2. Missing = {} /\ dropped = 0
  BY DEF Init, Missing
<1> QED
  BY <1>1, <1>2, FS_EmptySet DEF UsageInvariant

\* The missing calls can be counted.
LEMMA MissingIsFinite ==
    ASSUME UsageTypes
    PROVE  IsFiniteSet(Missing) /\ Cardinality(Missing) \in Nat
<1>1. IsFiniteSet(1..charged)
  BY FS_Interval DEF UsageTypes
<1> QED
  BY <1>1, FS_Subset, FS_CardinalityType DEF Missing

\* What is missing after a step was missing before, or is one of k dropped records.
LEMMA DroppedIsCounted ==
    ASSUME UsageInvariant, UsageTypes', NEW E, IsFiniteSet(E), NEW k \in Nat,
           Cardinality(E) <= k, Missing' \subseteq Missing \union E,
           dropped' = dropped + k
    PROVE  UsageInvariant'
<1>1. IsFiniteSet(Missing) /\ Cardinality(Missing) \in Nat /\ Cardinality(E) \in Nat
  BY MissingIsFinite, FS_CardinalityType DEF UsageInvariant
<1>2. /\ IsFiniteSet(Missing \union E)
      /\ Cardinality(Missing \union E) =
            Cardinality(Missing) + Cardinality(E) - Cardinality(Missing \cap E)
  BY <1>1, FS_Union
<1>3. Cardinality(Missing \cap E) \in Nat
  BY <1>1, FS_Subset, FS_CardinalityType
<1>4. /\ Cardinality(Missing') <= Cardinality(Missing \union E)
      /\ Cardinality(Missing') \in Nat
  BY <1>2, FS_Subset, FS_CardinalityType
<1>5. dropped \in Nat /\ Cardinality(Missing) <= dropped
  BY DEF UsageInvariant, UsageTypes
<1>6. Cardinality(Missing') <= dropped'
  BY <1>1, <1>2, <1>3, <1>4, <1>5
<1> QED
  BY <1>6 DEF UsageInvariant

\* In particular where nothing is dropped.
LEMMA NothingIsDropped ==
    ASSUME UsageInvariant, UsageTypes', Missing' \subseteq Missing, dropped' = dropped
    PROVE  UsageInvariant'
<1>1. IsFiniteSet({}) /\ Cardinality({}) <= 0 /\ Missing' \subseteq Missing \union {}
  BY FS_EmptySet
<1>2. dropped' = dropped + 0
  BY DEF UsageInvariant, UsageTypes
<1> QED
  BY <1>1, <1>2, DroppedIsCounted

\* UsageRecorder.record: the new record is in, and the oldest may be out.
LEMMA EmitIsAccounted ==
    ASSUME UsageInvariant, Emit, UNCHANGED flushVars
    PROVE  UsageInvariant'
<1> USE CallsAssumption
<1> DEFINE all == Append(recorder, charged + 1)
           n == Len(recorder)
<1>1. /\ charged \in Nat /\ charged' = charged + 1
      /\ UNCHANGED <<batch, durable, lost>>
      /\ recorder' = IF Len(all) > BufferMax THEN Tail(all) ELSE all
      /\ dropped' = IF n >= BufferMax THEN dropped + 1 ELSE dropped
  BY DEF Emit, Record, UsageInvariant, UsageTypes, flushVars
<1>2. 1..charged \subseteq 1..charged' /\ Seq(1..charged) \subseteq Seq(1..charged')
  <2>1. 1..charged \subseteq 1..charged'
    BY <1>1
  <2> QED
    BY <2>1, SeqMonotonic
<1>3. recorder \in Seq(1..charged') /\ n \in Nat /\ n <= BufferMax /\ DOMAIN recorder = 1..n
  BY <1>2, LenProperties DEF UsageInvariant, UsageTypes
<1>4. /\ all \in Seq(1..charged') /\ Len(all) = n + 1 /\ all # <<>>
      /\ \A i \in 1..n : all[i] = recorder[i]
      /\ all[n + 1] = charged'
  <2>1. charged + 1 \in 1..charged' /\ charged + 1 = charged'
    BY <1>1
  <2> HIDE DEF n
  <2>2. /\ all \in Seq(1..charged') /\ Len(all) = Len(recorder) + 1 /\ all # <<>>
        /\ \A i \in 1..Len(recorder) : all[i] = recorder[i]
        /\ all[Len(recorder) + 1] = charged + 1
    <3> DEFINE S == 1..charged'
               id == charged + 1
    <3>1. recorder \in Seq(S) /\ id \in S
      BY <1>3, <2>1
    <3> HIDE DEF S, id
    <3>2. /\ Append(recorder, id) \in Seq(S) /\ Append(recorder, id) # <<>>
          /\ Len(Append(recorder, id)) = Len(recorder) + 1
          /\ \A i \in 1..Len(recorder) : Append(recorder, id)[i] = recorder[i]
          /\ Append(recorder, id)[Len(recorder) + 1] = id
      BY <3>1, AppendProperties
    <3> QED
      BY <3>2 DEF S, id
  <2> QED
    BY <2>1, <2>2 DEF n
<1> HIDE DEF all
<1>5. /\ Tail(all) \in Seq(1..charged') /\ Len(Tail(all)) = n
      /\ \A i \in 1..n : Tail(all)[i] = all[i + 1]
  BY <1>3, <1>4, HeadTailProperties
<1>6. UsageTypes'
  <2>1. batch' \in [Flushers -> Seq(1..charged')]
    BY <1>1, <1>2 DEF UsageInvariant, UsageTypes
  <2>2. recorder' \in Seq(1..charged') /\ Len(recorder') <= BufferMax
    <3>1. BufferMax \in Nat /\ n <= BufferMax /\ n \in Nat
      BY <1>3
    <3> HIDE DEF n
    <3>2. CASE n + 1 > BufferMax
      BY <1>1, <1>4, <1>5, <3>1, <3>2
    <3>3. CASE ~(n + 1 > BufferMax)
      BY <1>1, <1>4, <3>1, <3>3
    <3> QED
      BY <3>2, <3>3
  <2>3. charged' \in Nat /\ dropped' \in Nat /\ (durable \union lost)' \subseteq 1..charged'
    BY <1>1, <1>2 DEF UsageInvariant, UsageTypes
  <2> QED
    BY <2>1, <2>2, <2>3 DEF UsageTypes
<1> DEFINE rest == durable \union lost \union UNION {Range(batch[f]) : f \in Flushers}
           before == 1..charged
<1>7. /\ Missing = before \ (Range(recorder) \union rest)
      /\ Missing' = (before \union {charged'}) \ (Range(recorder') \union rest)
  <2>1. Held' = Range(recorder') \union durable \union UNION {Range(batch[f]) : f \in Flushers}
    BY <1>1 DEF Held
  <2>2. Missing' = (1..charged') \ (Held' \union lost)
    BY <1>1 DEF Missing
  <2>3. 1..charged' = before \union {charged'}
    BY <1>1
  <2>4. Missing = before \ (Range(recorder) \union rest)
    BY DEF Missing, Held
  <2> HIDE DEF before
  <2>5. Missing' = (before \union {charged'}) \ (Range(recorder') \union rest)
    BY <2>1, <2>2, <2>3
  <2> QED
    BY <2>4, <2>5
<1> HIDE DEF rest, before
<1>8. CASE n + 1 > BufferMax
  <2>1. recorder' = Tail(all) /\ dropped' = dropped + 1
    BY <1>1, <1>3, <1>4, <1>8
  <2>2. DOMAIN recorder' = 1..n
    BY <1>5, <2>1, LenProperties
  <2>3. Range(recorder) \subseteq Range(recorder') \union {all[1]}
    <3> SUFFICES ASSUME NEW i \in 1..n, i # 1
                 PROVE  recorder[i] \in Range(recorder')
      BY <1>3, <1>4 DEF Range
    <3>1. i - 1 \in 1..n /\ recorder'[i - 1] = recorder[i]
      BY <1>3, <1>4, <1>5, <2>1
    <3> QED
      BY <2>2, <3>1 DEF Range
  <2>4. charged' \in Range(recorder')
    <3>1. n \in 1..n
      BY <1>3, <1>8
    <3> QED
      BY <1>4, <1>5, <2>1, <2>2, <3>1 DEF Range
  <2>5. Missing' \subseteq Missing \union {all[1]}
    BY <1>7, <2>3, <2>4
  <2>6. IsFiniteSet({all[1]}) /\ Cardinality({all[1]}) <= 1
    <3> DEFINE oldest == all[1]
    <3> HIDE DEF oldest
    <3>1. IsFiniteSet({oldest}) /\ Cardinality({oldest}) = 1
      BY FS_Singleton
    <3> QED
      BY <3>1 DEF oldest
  <2> QED
    BY <1>6, <2>1, <2>5, <2>6, DroppedIsCounted
<1>9. CASE ~(n + 1 > BufferMax)
  <2>1. recorder' = all /\ dropped' = dropped
    BY <1>1, <1>3, <1>4, <1>9
  <2>2. Range(recorder') = Range(recorder) \union {charged'}
    <3>1. DOMAIN all = 1..(n + 1)
      BY <1>4, LenProperties
    <3> QED
      BY <1>3, <1>4, <2>1, <3>1 DEF Range
  <2>3. Missing' \subseteq Missing
    BY <1>7, <2>2
  <2> QED
    BY <1>6, <2>1, <2>3, NothingIsDropped
<1> QED
  BY <1>8, <1>9

\* drain and record_calls: the records change hands, or become durable.
LEMMA FlushIsAccounted ==
    ASSUME UsageInvariant, NEW f \in Flushers, Drain(f) \/ FlushReturns(f) \/ FlushCancelled(f)
    PROVE  UsageInvariant'
<1> USE CallsAssumption
<1>0. <<>> \in Seq(1..charged) /\ Len(<<>>) = 0 /\ Range(<<>>) = {}
  BY EmptySeq DEF Range
<1>1. Range(batch[f]) \subseteq 1..charged
  BY RangeOfSeq DEF UsageInvariant, UsageTypes
<1>2. CASE Drain(f)
  <2>1. /\ UNCHANGED <<charged, dropped, durable, lost>>
        /\ batch' = [batch EXCEPT ![f] = recorder] /\ recorder' = <<>> /\ batch[f] = <<>>
    BY <1>2 DEF Drain, FlushStep
  <2>2. UsageTypes'
    BY <1>0, <2>1 DEF UsageInvariant, UsageTypes
  <2>3. Missing' \subseteq Missing
    BY ZenonT(60), <1>0, <2>1 DEF Missing, Held, UsageInvariant, UsageTypes
  <2> QED
    BY <2>1, <2>2, <2>3, NothingIsDropped
<1>3. CASE FlushReturns(f)
  <2>1. /\ UNCHANGED <<charged, dropped, recorder, lost>>
        /\ batch' = [batch EXCEPT ![f] = <<>>]
        /\ durable' = durable \union Range(batch[f])
    BY <1>3 DEF FlushReturns, FlushStep
  <2>2. UsageTypes'
    BY <1>0, <1>1, <2>1 DEF UsageInvariant, UsageTypes
  <2>3. Missing' \subseteq Missing
    BY ZenonT(60), <1>0, <2>1 DEF Missing, Held, UsageInvariant, UsageTypes
  <2> QED
    BY <2>1, <2>2, <2>3, NothingIsDropped
<1>4. CASE FlushCancelled(f)
  <2>1. /\ UNCHANGED <<charged, dropped, recorder>>
        /\ batch' = [batch EXCEPT ![f] = <<>>]
        /\ durable' \in {durable, durable \union Range(batch[f])}
        /\ lost' = lost \union (Range(batch[f]) \ durable')
    BY <1>4 DEF FlushCancelled, FlushStep, MayHaveCommitted
  <2>2. UsageTypes'
    BY <1>0, <1>1, <2>1 DEF UsageInvariant, UsageTypes
  <2>3. Missing' \subseteq Missing
    BY ZenonT(60), <1>0, <2>1 DEF Missing, Held, UsageInvariant, UsageTypes
  <2> QED
    BY <2>1, <2>2, <2>3, NothingIsDropped
<1> QED
  BY <1>2, <1>3, <1>4

\* requeue: the batch is back in front, and what finds no room is counted.
LEMMA RequeueIsAccounted ==
    ASSUME UsageInvariant, NEW f \in Flushers, FlushFails(f)
    PROVE  UsageInvariant'
<1> USE CallsAssumption
<1> DEFINE all == batch[f] \o recorder
           n == Len(all)
           keep == IF n > BufferMax THEN BufferMax ELSE n
           E == {all[i] : i \in (keep + 1)..n}
<1>1. /\ UNCHANGED <<charged, lost>>
      /\ batch' = [batch EXCEPT ![f] = <<>>]
      /\ durable' \in {durable, durable \union Range(batch[f])}
      /\ recorder' = SubSeq(all, 1, keep)
      /\ dropped' = dropped + n - Len(recorder')
  BY DEF FlushFails, FlushStep, MayHaveCommitted
<1>2. /\ batch[f] \in Seq(1..charged) /\ recorder \in Seq(1..charged)
      /\ Range(batch[f]) \subseteq 1..charged
      /\ dropped \in Nat
  BY RangeOfSeq DEF UsageInvariant, UsageTypes
<1>3. /\ all \in Seq(1..charged) /\ n \in Nat /\ DOMAIN all = 1..n
      /\ Range(all) = Range(batch[f]) \union Range(recorder)
      /\ \A i \in 1..n : all[i] \in 1..charged
  <2>1. all \in Seq(1..charged) /\ Range(all) = Range(batch[f]) \union Range(recorder)
    BY <1>2, ConcatProperties, RangeConcatenation
  <2> HIDE DEF all
  <2> QED
    BY <2>1, LenProperties, ElementOfSeq
<1> HIDE DEF all
<1>4. keep \in 0..n /\ keep <= BufferMax
  BY <1>3
<1>5. /\ recorder' \in Seq(1..charged) /\ Len(recorder') = keep
      /\ \A i \in 1..keep : recorder'[i] = all[i]
  <2>1. \A i \in 1..keep : all[i] \in 1..charged
    BY <1>3, <1>4
  <2> HIDE DEF keep, n
  <2>2. /\ SubSeq(all, 1, keep) \in Seq(1..charged)
        /\ Len(SubSeq(all, 1, keep)) = IF 1 <= keep THEN keep - 1 + 1 ELSE 0
        /\ \A i \in 1..(keep - 1 + 1) : SubSeq(all, 1, keep)[i] = all[1 + i - 1]
    BY <1>3, <1>4, <2>1, SubSeqProperties
  <2> QED
    BY <1>1, <1>3, <1>4, <2>2
<1>6. UsageTypes'
  <2>1. dropped' \in Nat
    BY <1>1, <1>2, <1>3, <1>4, <1>5
  <2>2. <<>> \in Seq(1..charged)
    BY EmptySeq
  <2> QED
    BY <1>1, <1>2, <1>4, <1>5, <2>1, <2>2 DEF UsageInvariant, UsageTypes
<1>7. IsFiniteSet(E) /\ Cardinality(E) <= n - keep
  <2> DEFINE D == (keep + 1)..n
             g == [i \in D |-> all[i]]
  <2> HIDE DEF n, keep
  <2>1. IsFiniteSet(D) /\ Cardinality(D) = n - keep
    <3>1. /\ keep + 1 \in Int /\ n \in Int
          /\ IF keep + 1 > n THEN 0 = n - keep ELSE n - (keep + 1) + 1 = n - keep
      BY <1>3, <1>4
    <3> QED
      BY <3>1, FS_Interval
  <2>2. g \in Surjection(D, E)
    BY DEF Surjection
  <2> HIDE DEF D, E, g
  <2> QED
    BY <2>1, <2>2, FS_Surjection
<1>8. Range(all) \subseteq Range(recorder') \union E
  <2>1. DOMAIN recorder' = 1..keep
    BY <1>5, LenProperties
  <2> SUFFICES ASSUME NEW i \in 1..n, ~(i \in (keep + 1)..n)
               PROVE  all[i] \in Range(recorder')
    BY <1>3 DEF Range
  <2>2. i \in 1..keep
    BY <1>3, <1>4
  <2> QED
    BY <1>5, <2>1, <2>2 DEF Range
<1>9. Missing' \subseteq Missing \union E
  <2> HIDE DEF E, n, keep
  <2> QED
    BY ZenonT(60), <1>1, <1>3, <1>8 DEF Missing, Held, UsageInvariant, UsageTypes
<1> HIDE DEF E, n, keep
<1>10. dropped' = dropped + (n - keep) /\ n - keep \in Nat
  <2>1. dropped' = dropped + n - Len(recorder') /\ Len(recorder') = keep
    BY <1>1, <1>5
  <2>2. dropped \in Nat /\ n \in Nat /\ keep \in 0..n
    BY <1>2, <1>3, <1>4
  <2> QED
    BY <2>1, <2>2
<1> QED
  BY <1>6, <1>7, <1>9, <1>10, DroppedIsCounted

\* What a crash takes away is known to be lost.
LEMMA CrashIsAccounted ==
    ASSUME UsageInvariant, Crash
    PROVE  UsageInvariant'
<1>1. /\ UNCHANGED <<charged, dropped, durable>>
      /\ recorder' = <<>> /\ batch' = [f \in Flushers |-> <<>>]
      /\ lost' = (1..charged) \ durable
  BY DEF Crash
<1>2. UsageTypes'
  BY <1>1, EmptySeq, CallsAssumption DEF UsageInvariant, UsageTypes
<1>3. Missing' \subseteq Missing
  BY <1>1 DEF Missing, Held
<1> QED
  BY <1>1, <1>2, <1>3, NothingIsDropped

-----------------------------------------------------------------------------
(* The nodes and their slots.                                              *)

At(place) == {c \in Callers : pc[c] = place}

\* The types of what the nodes keep, and two things they rest on: a backoff leaves an
\* attempt, and whoever has read the baseline is still on its way into its node.
NodeTypes ==
    /\ pc \in [Callers -> Places]
    /\ ops \in [Callers -> Nat] /\ \A c \in Callers : ops[c] <= MaxOps[c]
    /\ attempt \in [Workers -> 0..Attempts]
    /\ ledger \in [open : BOOLEAN, seeded : BOOLEAN, calls : Nat, tools : Nat, retries : Nat]
    /\ baseline \in [Workers -> Nat \union {NoBaseline}]
    /\ closed \in BOOLEAN /\ stop \in BOOLEAN /\ blind \in BOOLEAN
    /\ toCancel \subseteq Workers
    /\ stream \in 1..MaxStreams
    /\ \A w \in Workers :
        /\ pc[w] = "backoff" => attempt[w] < Attempts
        /\ baseline[w] # NoBaseline => pc[w] = "seeding"

\* The meters count the callers, and the queue holds those that wait.
SlotsInvariant ==
    /\ GateInvariant
    /\ active = Cardinality(At("flight"))
    /\ waiting = Cardinality(At("queued"))
    /\ Queued = At("queued")

\* Nodes and guests are callers, and nobody is both.
LEMMA Members ==
    /\ Workers \subseteq Callers /\ Guests \subseteq Callers /\ Workers \cap Guests = {}
    /\ IsFiniteSet(Workers)
BY CallsAssumption, GateAssumption, FS_Subset

\* The callers at a place can be counted.
LEMMA AtIsFinite ==
    ASSUME NEW p
    PROVE  IsFiniteSet(At(p)) /\ Cardinality(At(p)) \in Nat
<1>1. At(p) \subseteq Callers
  BY DEF At
<1> QED
  BY <1>1, GateAssumption, FS_Subset, FS_CardinalityType

\* When one caller goes to q, q gains it and every other place loses it.
LEMMA OneMoves ==
    ASSUME pc \in [Callers -> Places], NEW c \in Callers, NEW q, Go(c, q), NEW p
    PROVE  At(p)' = IF q = p THEN At(p) \union {c} ELSE At(p) \ {c}
BY DEF Go, At

\* A caller that is neither in the queue nor in a call, before and after.
Elsewhere == Places \ {"queued", "flight"}

\* Every move of a caller goes with the operation of the channel that fits it: into a
\* call with a slot taken, into the queue with a place, out of a call with a release.
LEMMA MoveKeepsSlots ==
    ASSUME SlotsInvariant, pc \in [Callers -> Places], NEW c \in Callers, NEW q, Go(c, q),
           \/ UNCHANGED gateVars /\ pc[c] \in Elsewhere /\ q \in Elsewhere
           \/ Admit(c) /\ pc[c] \in Elsewhere /\ q = "flight"
           \/ Enqueue(c) /\ pc[c] \in Elsewhere /\ q = "queued"
           \/ Proceed(c) /\ q = "flight"
           \/ GiveUp(c) /\ q \in Elsewhere
           \/ Release /\ pc[c] = "flight" /\ q \in Elsewhere
    PROVE  SlotsInvariant'
<1> DEFINE inFlight == At("flight")
           inQueue == At("queued")
<1>1. /\ IsFiniteSet(inFlight) /\ Cardinality(inFlight) \in Nat
      /\ IsFiniteSet(inQueue) /\ Cardinality(inQueue) \in Nat
  BY AtIsFinite
<1>2. /\ inFlight' = IF q = "flight" THEN inFlight \union {c} ELSE inFlight \ {c}
      /\ inQueue' = IF q = "queued" THEN inQueue \union {c} ELSE inQueue \ {c}
  BY OneMoves
<1>3. /\ c \in inFlight <=> pc[c] = "flight"
      /\ c \in inQueue <=> pc[c] = "queued"
  BY DEF At
<1>4. /\ Queued = inQueue /\ active = Cardinality(inFlight)
      /\ waiting = Cardinality(inQueue) /\ GateInvariant
  BY DEF SlotsInvariant
<1> HIDE DEF inFlight, inQueue
<1>5. /\ Cardinality(inFlight \union {c}) =
            IF c \in inFlight THEN Cardinality(inFlight) ELSE Cardinality(inFlight) + 1
      /\ Cardinality(inFlight \ {c}) =
            IF c \in inFlight THEN Cardinality(inFlight) - 1 ELSE Cardinality(inFlight)
      /\ Cardinality(inQueue \union {c}) =
            IF c \in inQueue THEN Cardinality(inQueue) ELSE Cardinality(inQueue) + 1
      /\ Cardinality(inQueue \ {c}) =
            IF c \in inQueue THEN Cardinality(inQueue) - 1 ELSE Cardinality(inQueue)
  BY <1>1, FS_AddElement, FS_RemoveElement
<1>6. /\ GateInvariant'
      /\ active' = Cardinality(inFlight')
      /\ waiting' = Cardinality(inQueue')
      /\ Queued' = inQueue'
  <2>1. CASE UNCHANGED gateVars /\ pc[c] \in Elsewhere /\ q \in Elsewhere
    <3>1. c \notin inFlight /\ c \notin inQueue /\ q # "flight" /\ q # "queued"
      BY <1>3, <2>1 DEF Elsewhere
    <3>2. inFlight' = inFlight /\ inQueue' = inQueue
      BY <1>2, <3>1
    <3>3. UNCHANGED <<permits, waiters, woken, active, waiting>>
      BY <2>1 DEF gateVars
    <3>4. GateInvariant' /\ Queued' = Queued
      BY <1>4, <3>3 DEF GateInvariant, Queued
    <3> QED
      BY <1>4, <3>2, <3>3, <3>4
  <2>2. CASE Admit(c) /\ pc[c] \in Elsewhere /\ q = "flight"
    <3>1. c \notin inFlight /\ c \notin inQueue
      BY <1>3, <2>2 DEF Elsewhere
    <3>2. /\ GateInvariant' /\ Queued' = Queued
          /\ active' = active + 1 /\ waiting' = waiting
      BY <1>4, <2>2, AdmitKeepsGate
    <3>3. inFlight' = inFlight \union {c} /\ inQueue' = inQueue
      BY <1>2, <2>2, <3>1
    <3> QED
      BY <1>4, <1>5, <3>1, <3>2, <3>3
  <2>3. CASE Enqueue(c) /\ pc[c] \in Elsewhere /\ q = "queued"
    <3>1. c \notin inFlight /\ c \notin inQueue
      BY <1>3, <2>3 DEF Elsewhere
    <3>2. /\ GateInvariant' /\ Queued' = Queued \union {c}
          /\ active' = active /\ waiting' = waiting + 1
      BY <1>4, <2>3, <3>1, EnqueueKeepsGate
    <3>3. inFlight' = inFlight /\ inQueue' = inQueue \union {c}
      BY <1>2, <2>3, <3>1
    <3> QED
      BY <1>4, <1>5, <3>1, <3>2, <3>3
  <2>4. CASE Proceed(c) /\ q = "flight"
    <3>1. /\ GateInvariant' /\ c \in Queued /\ Queued' = Queued \ {c}
          /\ active' = active + 1 /\ waiting' = waiting - 1
      BY <1>4, <2>4, ProceedKeepsGate
    <3>2. c \notin inFlight /\ c \in inQueue
      BY <1>3, <1>4, <3>1
    <3>3. inFlight' = inFlight \union {c} /\ inQueue' = inQueue \ {c}
      BY <1>2, <2>4
    <3> QED
      BY <1>4, <1>5, <3>1, <3>2, <3>3
  <2>5. CASE GiveUp(c) /\ q \in Elsewhere
    <3>1. /\ GateInvariant' /\ c \in Queued /\ Queued' = Queued \ {c}
          /\ active' = active /\ waiting' = waiting - 1
      BY <1>4, <2>5, GiveUpKeepsGate
    <3>2. c \notin inFlight /\ c \in inQueue /\ q # "flight" /\ q # "queued"
      BY <1>3, <1>4, <2>5, <3>1 DEF Elsewhere
    <3>3. inFlight' = inFlight /\ inQueue' = inQueue \ {c}
      BY <1>2, <3>2
    <3> QED
      BY <1>4, <1>5, <3>1, <3>2, <3>3
  <2>6. CASE Release /\ pc[c] = "flight" /\ q \in Elsewhere
    <3>1. c \in inFlight /\ c \notin inQueue /\ q # "flight" /\ q # "queued"
      BY <1>3, <2>6 DEF Elsewhere
    <3>2. active > 0
      BY <1>1, <1>4, <3>1, FS_EmptySet
    <3>3. /\ GateInvariant' /\ Queued' = Queued
          /\ active' = active - 1 /\ waiting' = waiting
      BY <1>4, <2>6, <3>2, ReleaseKeepsGate
    <3>4. inFlight' = inFlight \ {c} /\ inQueue' = inQueue
      BY <1>2, <3>1
    <3> QED
      BY <1>4, <1>5, <3>1, <3>3, <3>4
  <2> QED
    BY <2>1, <2>2, <2>3, <2>4, <2>5, <2>6
<1> QED
  BY <1>6 DEF SlotsInvariant, inFlight, inQueue

\* A step that leaves the channel and the places in it alone.
LEMMA QuietKeepsSlots ==
    ASSUME SlotsInvariant, UNCHANGED gateVars,
           At("flight")' = At("flight"), At("queued")' = At("queued")
    PROVE  SlotsInvariant'
BY DEF SlotsInvariant, gateVars, GateInvariant, Queued

\* All slots are free, and everybody is outside.
LEMMA SlotsInit == Init => SlotsInvariant /\ NodeTypes
<1> SUFFICES ASSUME Init
             PROVE  SlotsInvariant /\ NodeTypes
  OBVIOUS
<1>1. /\ waiters = <<>> /\ woken = {} /\ permits = Slots /\ active = 0 /\ waiting = 0
      /\ pc = [c \in Callers |-> "out"]
  BY DEF Init, GateInit
<1>2. At("flight") = {} /\ At("queued") = {} /\ Queued = {}
  BY <1>1, EmptySeq DEF At, Queued, Range
<1>3. SlotsInvariant
  <2>1. waiters \in Seq(Callers) /\ IsInjective(waiters)
    BY <1>1, EmptySeq DEF IsInjective
  <2>2. /\ Cardinality(woken) = 0 /\ Cardinality(At("flight")) = 0
        /\ Cardinality(At("queued")) = 0 /\ Slots \in Nat
    BY <1>1, <1>2, FS_EmptySet, GateAssumption
  <2> QED
    BY <1>1, <1>2, <2>1, <2>2 DEF SlotsInvariant, GateInvariant
<1>4. NodeTypes
  <2>1. /\ pc = [c \in Callers |-> "out"] /\ ops = [c \in Callers |-> 0]
        /\ attempt = [w \in Workers |-> 0]
        /\ baseline = [w \in Workers |-> NoBaseline]
        /\ ledger = NoLedger /\ closed = FALSE /\ stop = FALSE /\ blind = FALSE
        /\ toCancel = {} /\ stream = 1
    BY DEF Init
  <2>2. 0 \in 0..Attempts /\ 1 \in 1..MaxStreams /\ \A c \in Callers : 0 <= MaxOps[c]
    BY CallsAssumption
  <2> QED
    BY <2>1, <2>2, Members DEF NodeTypes, Places, NoLedger
<1> QED
  BY <1>3, <1>4

\* Where the callers stand decides about the slots: one action after the other.
LEMMA NodeStepKeepsSlots ==
    ASSUME SlotsInvariant, NodeTypes, NEW w \in Workers, NodeStep(w)
    PROVE  SlotsInvariant'
<1> USE Members DEF NodeTypes
<1> DEFINE Moves(q) ==
      /\ Go(w, q)
      /\ \/ UNCHANGED gateVars /\ pc[w] \in Elsewhere /\ q \in Elsewhere
         \/ Admit(w) /\ pc[w] \in Elsewhere /\ q = "flight"
         \/ Enqueue(w) /\ pc[w] \in Elsewhere /\ q = "queued"
         \/ Proceed(w) /\ q = "flight"
         \/ GiveUp(w) /\ q \in Elsewhere
         \/ Release /\ pc[w] = "flight" /\ q \in Elsewhere
<1>move. ASSUME NEW q, Moves(q)
      PROVE  SlotsInvariant'
  BY <1>move, MoveKeepsSlots
<1>still. ASSUME UNCHANGED gateVars, UNCHANGED pc
      PROVE  SlotsInvariant'
  BY <1>still, QuietKeepsSlots DEF At
<1>refusal. AfterRefusal \in {"node", "left"}
  BY DEF AfterRefusal
<1> HIDE DEF AfterRefusal
<1> USE DEF Elsewhere, Places
<1>1. CASE Enter(w)
  BY <1>move, <1>1 DEF Enter
<1>2. CASE ReadBaseline(w)
  BY <1>still, <1>2 DEF ReadBaseline
<1>3. CASE ApplyBaseline(w)
  <2>1. Moves("node")
    BY <1>3 DEF ApplyBaseline
  <2> QED
    BY <1>move, <2>1
<1>4. CASE SeedFails(w) \/ LeaveNode(w)
  BY <1>move, <1>4 DEF SeedFails, LeaveNode
<1>5. CASE StartModelCall(w)
  BY <1>move, <1>5, <1>refusal DEF StartModelCall, MayStart
<1>6. CASE TakeSlot(w)
  BY <1>move, <1>6 DEF TakeSlot
<1>7. CASE EndModelCall(w)
  BY <1>move, <1>7, <1>refusal DEF EndModelCall
<1>8. CASE QueueTimesOut(w)
  BY <1>move, <1>8 DEF QueueTimesOut
<1>9. CASE StartToolCall(w)
  BY <1>move, <1>9, <1>refusal DEF StartToolCall, MayStart, ToolStep, GatewayBlocks
<1>10. CASE LookUp(w)
  BY <1>move, <1>10, <1>refusal DEF LookUp, TryProvider, Reserve, ToolStep
<1>11. CASE EndAttempt(w)
  BY <1>move, <1>11 DEF EndAttempt, StandIn, Reserve, ToolStep
<1>12. CASE Retry(w)
  BY <1>move, <1>12, <1>refusal DEF Retry, TryProvider, Reserve, ToolStep
<1>13. CASE EndStandIn(w)
  BY <1>move, <1>13 DEF EndStandIn, ToolStep
<1>14. CASE CancelNode(w)
  BY <1>move, <1>still, <1>14 DEF CancelNode
<1> QED
  BY <1>1, <1>2, <1>3, <1>4, <1>5, <1>6, <1>7, <1>8, <1>9, <1>10, <1>11, <1>12, <1>13,
     <1>14 DEF NodeStep

\* A guest of the channel (GuestMoves).
LEMMA GuestKeepsSlots ==
    ASSUME SlotsInvariant, NodeTypes, NEW g \in Guests, GuestMoves(g)
    PROVE  SlotsInvariant'
<1> USE Members DEF NodeTypes, Elsewhere, Places
<1>1. CASE GuestStarts(g)
  BY <1>1, MoveKeepsSlots DEF GuestStarts
<1>2. CASE GuestTakesSlot(g)
  BY <1>2, MoveKeepsSlots DEF GuestTakesSlot
<1>3. CASE GuestGivesUp(g)
  BY <1>3, MoveKeepsSlots DEF GuestGivesUp
<1>4. CASE GuestEnds(g)
  BY <1>4, MoveKeepsSlots DEF GuestEnds
<1> QED
  BY <1>1, <1>2, <1>3, <1>4 DEF GuestMoves

\* The flushers and the stream do not touch the channel; a crash makes a new one.
LEMMA OthersKeepSlots ==
    ASSUME SlotsInvariant, NodeTypes,
           \/ \E f \in Flushers : FlusherStep(f)
           \/ WindowCloses \/ ExitStream \/ NextStream \/ Crash \/ UNCHANGED vars
    PROVE  SlotsInvariant'
<1>1. CASE \/ \E f \in Flushers : FlusherStep(f)
           \/ WindowCloses \/ ExitStream \/ UNCHANGED vars
  <2>1. UNCHANGED gateVars /\ UNCHANGED pc
    BY <1>1 DEF FlusherStep, Drain, FlushReturns, FlushFails, FlushCancelled, FlushStep,
         WindowCloses, ExitStream, nodeVars, vars
  <2> QED
    BY <2>1, QuietKeepsSlots DEF At
<1>2. CASE NextStream
  <2>1. /\ UNCHANGED gateVars
        /\ pc' = [c \in Callers |-> IF c \in Workers THEN "out" ELSE pc[c]]
        /\ \A w \in Workers : pc[w] \in {"left", "out"}
    BY <1>2 DEF NextStream
  <2>2. At("flight")' = At("flight") /\ At("queued")' = At("queued")
    BY <2>1 DEF At
  <2> QED
    BY <2>1, <2>2, QuietKeepsSlots
<1>3. CASE Crash
  <2>1. /\ waiters' = <<>> /\ woken' = {} /\ permits' = Slots
        /\ active' = 0 /\ waiting' = 0
        /\ pc' = [c \in Callers |-> "out"]
    BY <1>3 DEF Crash
  <2>2. At("flight")' = {} /\ At("queued")' = {} /\ Queued' = {}
    BY <2>1, EmptySeq DEF At, Queued, Range
  <2>3. waiters' \in Seq(Callers) /\ IsInjective(waiters')
    BY <2>1, EmptySeq DEF IsInjective
  <2>4. /\ Cardinality(woken') = 0 /\ Cardinality(At("flight")') = 0
        /\ Cardinality(At("queued")') = 0 /\ Slots \in Nat
    BY <2>1, <2>2, FS_EmptySet, GateAssumption
  <2> QED
    BY <2>1, <2>2, <2>3, <2>4 DEF SlotsInvariant, GateInvariant
<1> QED
  BY <1>1, <1>2, <1>3

\* What an action finds: a caller that holds or awaits a slot is nowhere else.
CallsContext == NodeTypes /\ SlotsInvariant /\ UsageTypes

\* Who is woken stands in the queue, and who stands in it is nowhere else.
LEMMA QueuedArePlaced ==
    ASSUME SlotsInvariant
    PROVE  /\ \A c \in woken : c \in Queued
           /\ \A c \in Queued : c \in Callers /\ pc[c] = "queued"
BY DEF SlotsInvariant, GateInvariant, At

\* The entries of _LEDGERS, and what a step makes of one.
Ledgers == [open : BOOLEAN, seeded : BOOLEAN, calls : Nat, tools : Nat, retries : Nat]

\* What seed, charge and reserve make of an entry of _LEDGERS is an entry.
LEMMA LedgersAreClosed ==
    /\ NoLedger \in Ledgers /\ NewLedger \in Ledgers
    /\ \A l \in Ledgers, b \in BOOLEAN, n \in Nat :
         /\ [l EXCEPT !.seeded = b] \in Ledgers
         /\ [l EXCEPT !.calls = n] \in Ledgers
         /\ l.calls + 1 \in Nat
    /\ \A l \in Ledgers, k \in 0..1 :
         [l EXCEPT !.tools = @ + 1, !.retries = @ + k] \in Ledgers
<1>1. NoLedger \in Ledgers
  BY DEF NoLedger, Ledgers
<1>2. ASSUME NEW l \in Ledgers, NEW b \in BOOLEAN, NEW n \in Nat
      PROVE  /\ [l EXCEPT !.seeded = b] \in Ledgers
             /\ [l EXCEPT !.open = b] \in Ledgers
             /\ [l EXCEPT !.calls = n] \in Ledgers
             /\ l.calls + 1 \in Nat
  BY DEF Ledgers
<1>3. NewLedger \in Ledgers
  BY <1>1, <1>2 DEF NewLedger
<1>4. ASSUME NEW l \in Ledgers, NEW k \in 0..1
      PROVE  [l EXCEPT !.tools = @ + 1, !.retries = @ + k] \in Ledgers
  <2>1. l.tools + 1 \in Nat /\ l.retries + k \in Nat
    BY DEF Ledgers
  <2>2. ASSUME NEW a \in Nat, NEW b \in Nat
        PROVE  [l EXCEPT !.tools = a, !.retries = b] \in Ledgers
    BY DEF Ledgers
  <2> QED
    BY <2>1, <2>2
<1> QED
  BY <1>1, <1>2, <1>3, <1>4

\* Around the body of a node: the boundary and the baseline of the ledger.
LEMMA BudgetStepKeepsTypes ==
    ASSUME CallsContext, NEW w \in Workers,
           Enter(w) \/ ReadBaseline(w) \/ ApplyBaseline(w) \/ SeedFails(w) \/ LeaveNode(w)
    PROVE  NodeTypes'
<1> USE Members DEF CallsContext, NodeTypes, Go, Places, runVars
<1>1. CASE Enter(w)
  <2>1. ledger' \in Ledgers
    <3>1. ledger \in Ledgers
      BY DEF Ledgers
    <3> QED
      BY ZenonT(60), <1>1, <3>1, LedgersAreClosed DEF Enter
  <2>2. /\ pc[w] = "out"
        /\ UNCHANGED <<ops, attempt, baseline, closed, stop, toCancel, stream, blind>>
    BY <1>1 DEF Enter
  <2>3. \E q \in {"left", "node", "seeding"} : pc' = [pc EXCEPT ![w] = q]
    BY <1>1 DEF Enter
  <2> QED
    BY <2>1, <2>2, <2>3 DEF Ledgers
<1>2. CASE ReadBaseline(w)
  <2>1. Cardinality(durable) \in Nat
    <3>1. IsFiniteSet(1..charged) /\ durable \subseteq 1..charged
      BY FS_Interval DEF UsageTypes
    <3> QED
      BY <3>1, FS_Subset, FS_CardinalityType
  <2> QED
    BY <1>2, <2>1 DEF ReadBaseline
<1>3. CASE ApplyBaseline(w)
  BY <1>3 DEF ApplyBaseline
<1>4. CASE SeedFails(w)
  BY <1>4 DEF SeedFails
<1>5. CASE LeaveNode(w)
  BY <1>5 DEF LeaveNode
<1> QED
  BY <1>1, <1>2, <1>3, <1>4, <1>5

\* The bound on the calls of a node is kept.
LEMMA MayStartIsTyped ==
    ASSUME NodeTypes, NEW w \in Workers, MayStart(w)
    PROVE  ops' \in [Callers -> Nat] /\ \A c \in Callers : ops'[c] <= MaxOps[c]
<1>1. MaxOps \in [Callers -> Nat] /\ w \in Callers
  BY CallsAssumption
<1>2. /\ ops' = [ops EXCEPT ![w] = @ + 1] /\ ops[w] < MaxOps[w]
      /\ ops \in [Callers -> Nat] /\ \A c \in Callers : ops[c] <= MaxOps[c]
  BY DEF NodeTypes, MayStart
<1> QED
  BY <1>1, <1>2

\* The steps of a model call.
LEMMA ModelCallKeepsTypes ==
    ASSUME CallsContext, NEW w \in Workers,
           StartModelCall(w) \/ TakeSlot(w) \/ EndModelCall(w) \/ QueueTimesOut(w)
    PROVE  NodeTypes'
<1> USE Members DEF CallsContext, NodeTypes, Go, Places, runVars, AfterRefusal
<1>1. (Emit => ledger' = [ledger EXCEPT !.calls = @ + 1]) /\ (NoEmit => ledger' = ledger)
  BY DEF Emit, Charge, NoEmit
<1>2. CASE StartModelCall(w)
  <2>1. pc[w] = "node" /\ UNCHANGED <<attempt, baseline, closed, stop, toCancel, stream>>
    BY <1>2 DEF StartModelCall, MayStart
  <2>2. ops' \in [Callers -> Nat] /\ \A c \in Callers : ops'[c] <= MaxOps[c]
    BY <1>2, MayStartIsTyped DEF StartModelCall
  <2>3. blind' \in BOOLEAN
    BY <1>2 DEF StartModelCall
  <2>4. ledger' \in [open : BOOLEAN, seeded : BOOLEAN, calls : Nat, tools : Nat, retries : Nat]
    BY <1>1, <1>2 DEF StartModelCall
  <2>5. \E q \in {"node", "left", "flight", "queued"} : pc' = [pc EXCEPT ![w] = q]
    BY <1>2 DEF StartModelCall
  <2> QED
    BY <2>1, <2>2, <2>3, <2>4, <2>5
<1>3. CASE TakeSlot(w)
  <2>1. pc[w] = "queued"
    BY <1>3, QueuedArePlaced DEF TakeSlot, Proceed
  <2> QED
    BY <1>1, <1>3, <2>1 DEF TakeSlot
<1>4. CASE EndModelCall(w)
  BY <1>1, <1>4 DEF EndModelCall
<1>5. CASE QueueTimesOut(w)
  <2>1. pc[w] = "queued"
    BY <1>5, QueuedArePlaced DEF QueueTimesOut
  <2> QED
    BY <1>1, <1>5, <2>1 DEF QueueTimesOut
<1> QED
  BY <1>2, <1>3, <1>4, <1>5

\* What reserve_tool_call, and the loop of execute_tool around it, may write.
LEMMA ProviderIsTyped ==
    ASSUME NodeTypes, NEW w \in Workers, NEW n \in 0..Attempts, NEW p \in {"provider", "standin"},
           Reserve(w, p, n) \/ (p = "provider" /\ TryProvider(w, n))
    PROVE  /\ ledger' \in Ledgers
           /\ \E m \in 0..Attempts : attempt' = [attempt EXCEPT ![w] = m]
           /\ \E q \in {"node", "left", "provider", "standin"} : pc' = [pc EXCEPT ![w] = q]
<1>1. ASSUME Reserve(w, p, n)
      PROVE  /\ ledger' \in Ledgers
             /\ \E m \in 0..Attempts : attempt' = [attempt EXCEPT ![w] = m]
             /\ \E q \in {"node", "left", "provider", "standin"} : pc' = [pc EXCEPT ![w] = q]
  <2>1. 0 \in 0..Attempts /\ ledger \in Ledgers
    BY CallsAssumption DEF NodeTypes, Ledgers
  <2>2. CASE NoToolCallLeft
    BY <1>1, <2>1, <2>2 DEF Reserve, Go
  <2>3. CASE ~NoToolCallLeft
    <3> DEFINE k == IF n > 1 THEN 1 ELSE 0
    <3>1. /\ ledger' = [ledger EXCEPT !.tools = @ + 1, !.retries = @ + k]
          /\ attempt' = [attempt EXCEPT ![w] = n]
          /\ pc' = [pc EXCEPT ![w] = p]
      BY <1>1, <2>3 DEF Reserve, Go
    <3>2. k \in 0..1
      OBVIOUS
    <3> HIDE DEF k
    <3>3. ledger' \in Ledgers
      BY <2>1, <3>1, <3>2, LedgersAreClosed
    <3> QED
      BY <3>1, <3>3
  <2> QED
    BY <2>2, <2>3
<1>2. ASSUME p = "provider", TryProvider(w, n)
      PROVE  /\ ledger' \in Ledgers
             /\ \E m \in 0..Attempts : attempt' = [attempt EXCEPT ![w] = m]
             /\ \E q \in {"node", "left", "provider", "standin"} : pc' = [pc EXCEPT ![w] = q]
  <2>1. 0 \in 0..Attempts /\ ledger \in Ledgers
    BY CallsAssumption DEF NodeTypes, Ledgers
  <2>2. CASE Refused
    BY <1>2, <2>1, <2>2 DEF TryProvider, Go, AfterRefusal
  <2>3. CASE ~Refused
    BY <1>1, <1>2, <2>3 DEF TryProvider
  <2> QED
    BY <2>2, <2>3
<1> QED
  BY <1>1, <1>2

\* And such a step leaves the node typed.
LEMMA ProviderMoves ==
    ASSUME CallsContext, NEW w \in Workers, pc[w] # "seeding", UNCHANGED ops, ToolStep,
           ledger' \in Ledgers,
           NEW m \in 0..Attempts, attempt' = [attempt EXCEPT ![w] = m],
           NEW q \in {"node", "left", "provider", "standin"}, pc' = [pc EXCEPT ![w] = q]
    PROVE  NodeTypes'
<1> USE Members DEF NodeTypes, Places, runVars, ToolStep, Ledgers
<1> QED
  BY DEF CallsContext

\* The steps of a tool call.
LEMMA ToolCallKeepsTypes ==
    ASSUME CallsContext, NEW w \in Workers,
           StartToolCall(w) \/ LookUp(w) \/ EndAttempt(w) \/ Retry(w) \/ EndStandIn(w)
    PROVE  NodeTypes'
<1> USE Members DEF CallsContext, NodeTypes, Go, Places, runVars, AfterRefusal, ToolStep
<1>0. Attempts \in Nat /\ Attempts > 0
  BY CallsAssumption
<1>1. CASE StartToolCall(w)
  <2>1. ops' \in [Callers -> Nat] /\ \A c \in Callers : ops'[c] <= MaxOps[c]
    BY <1>1, MayStartIsTyped DEF StartToolCall
  <2>2. /\ pc[w] = "node"
        /\ UNCHANGED <<attempt, ledger, baseline, closed, stop, toCancel, stream, blind>>
    BY <1>1 DEF StartToolCall, MayStart
  <2>3. \E q \in {"node", "left", "lookup"} : pc' = [pc EXCEPT ![w] = q]
    BY <1>1 DEF StartToolCall, GatewayBlocks
  <2> QED
    BY <2>1, <2>2, <2>3
<1>2. CASE LookUp(w)
  <2>1. CASE Go(w, "node") /\ UNCHANGED <<attempt, ledger>>
    BY <1>2, <2>1 DEF LookUp
  <2>2. CASE TryProvider(w, 1)
    BY <1>0, <1>2, <2>2, ProviderIsTyped, ProviderMoves DEF LookUp
  <2> QED
    BY <1>2, <2>1, <2>2 DEF LookUp
<1>3. CASE EndAttempt(w)
  <2>1. CASE Go(w, "node") /\ attempt' = [attempt EXCEPT ![w] = 0] /\ ledger' = ledger
    BY <1>0, <1>3, <2>1 DEF EndAttempt
  <2>2. CASE attempt[w] < Attempts /\ Go(w, "backoff") /\ UNCHANGED <<attempt, ledger>>
    BY <1>3, <2>2 DEF EndAttempt
  <2>3. CASE StandIn(w)
    BY <1>0, <1>3, <2>3, ProviderIsTyped, ProviderMoves DEF EndAttempt, StandIn
  <2> QED
    BY <1>3, <2>1, <2>2, <2>3 DEF EndAttempt
<1>4. CASE Retry(w)
  <2>1. attempt[w] + 1 \in 0..Attempts
    BY <1>0, <1>4 DEF Retry
  <2> QED
    BY <1>4, <2>1, ProviderIsTyped, ProviderMoves DEF Retry
<1>5. CASE EndStandIn(w)
  BY <1>5 DEF EndStandIn
<1> QED
  BY <1>1, <1>2, <1>3, <1>4, <1>5

\* The CancelledError of a node.
LEMMA CancelKeepsTypes ==
    ASSUME CallsContext, NEW w \in Workers, CancelNode(w)
    PROVE  NodeTypes'
<1> USE Members DEF CallsContext, NodeTypes, Places
<1>1. /\ toCancel' = toCancel \ {w}
      /\ baseline' = [baseline EXCEPT ![w] = NoBaseline]
      /\ attempt' = [attempt EXCEPT ![w] = 0]
      /\ UNCHANGED <<ops, closed, stop, stream, blind>>
      /\ ledger' = ledger \/ ledger' = [ledger EXCEPT !.calls = @ + 1]
  BY DEF CancelNode, Emit, Charge, NoEmit
<1>2. pc' = [pc EXCEPT ![w] = "left"] \/ (pc' = pc /\ pc[w] = "queued")
  BY QueuedArePlaced DEF CancelNode, Go
<1>3. 0 \in 0..Attempts
  BY CallsAssumption
<1> QED
  BY <1>1, <1>2, <1>3

\* The steps of a guest.
LEMMA GuestKeepsTypes ==
    ASSUME CallsContext, NEW g \in Guests, GuestMoves(g)
    PROVE  NodeTypes'
<1> USE Members DEF CallsContext, NodeTypes, Places
<1>1. UNCHANGED <<attempt, baseline, ledger, closed, stop, toCancel, stream, blind>>
  BY DEF GuestMoves, GuestStarts, GuestTakesSlot, GuestGivesUp, GuestEnds, GuestStep, runVars
<1>2. ops' \in [Callers -> Nat] /\ \A c \in Callers : ops'[c] <= MaxOps[c]
  <2>1. MaxOps \in [Callers -> Nat] /\ g \in Callers
    BY CallsAssumption
  <2> QED
    BY <2>1 DEF GuestMoves, GuestStarts, GuestTakesSlot, GuestGivesUp, GuestEnds
<1>3. \E q \in Places : pc' = [pc EXCEPT ![g] = q]
  BY DEF GuestMoves, GuestStarts, GuestTakesSlot, GuestGivesUp, GuestEnds, Go
<1> QED
  BY <1>1, <1>2, <1>3

\* Flushers, the window, the end of a stream, and the crash.
LEMMA OthersKeepTypes ==
    ASSUME CallsContext,
           \/ \E f \in Flushers : FlusherStep(f)
           \/ WindowCloses \/ ExitStream \/ NextStream \/ Crash \/ UNCHANGED vars
    PROVE  NodeTypes'
<1> USE Members DEF CallsContext, NodeTypes, Places
<1>1. CASE \/ \E f \in Flushers : FlusherStep(f)
           \/ UNCHANGED vars
  <2>1. /\ UNCHANGED <<pc, ops, attempt, baseline, ledger, closed, stop>>
        /\ UNCHANGED <<toCancel, stream, blind>>
    BY <1>1 DEF FlusherStep, Drain, FlushReturns, FlushFails, FlushCancelled, FlushStep,
         nodeVars, runVars, vars
  <2> QED
    BY <2>1
<1>2. CASE WindowCloses
  BY <1>2 DEF WindowCloses, nodeVars
<1>3. CASE ExitStream
  BY <1>3 DEF ExitStream, nodeVars
<1>4. MaxStreams \in Nat /\ 0 \in 0..Attempts
  BY SMTT(30), CallsAssumption
<1>7. NoLedger \in Ledgers
  BY LedgersAreClosed
<1>5. CASE NextStream
  <2>0. /\ stream < MaxStreams /\ stream' = stream + 1 /\ ledger' = NoLedger
        /\ stop' = FALSE /\ toCancel' = {}
        /\ UNCHANGED <<ops, attempt, baseline, closed, blind>>
    BY <1>5 DEF NextStream
  <2>1. stream' \in 1..MaxStreams /\ ledger' \in Ledgers
    BY <1>4, <1>7, <2>0 DEF CallsContext
  <2>2. /\ pc' = [c \in Callers |-> IF c \in Workers THEN "out" ELSE pc[c]]
        /\ \A w \in Workers : pc[w] \in {"left", "out"}
    BY <1>5 DEF NextStream
  <2>3. pc' \in [Callers -> Places] /\ \A w \in Workers : pc'[w] = "out"
    BY <2>2
  <2>4. \A w \in Workers : baseline'[w] = NoBaseline
    BY <2>0, <2>2
  <2> QED
    BY <2>0, <2>1, <2>3, <2>4 DEF Ledgers
<1>6. CASE Crash
  <2>0. /\ stream < MaxStreams /\ stream' = stream + 1 /\ ledger' = NoLedger
        /\ stop' = FALSE /\ toCancel' = {}
        /\ UNCHANGED <<ops, closed, blind>>
    BY <1>6 DEF Crash
  <2>1. stream' \in 1..MaxStreams /\ ledger' \in Ledgers
    BY <1>4, <1>7, <2>0 DEF CallsContext
  <2>2. /\ pc' = [c \in Callers |-> "out"]
        /\ attempt' = [w \in Workers |-> 0]
        /\ baseline' = [w \in Workers |-> NoBaseline]
    BY <1>6 DEF Crash
  <2> QED
    BY <1>4, <2>0, <2>1, <2>2 DEF Ledgers
<1> QED
  BY <1>1, <1>2, <1>3, <1>5, <1>6

\* Every step of a node, put together.
LEMMA NodeStepKeepsTypes ==
    ASSUME CallsContext, NEW w \in Workers, NodeStep(w)
    PROVE  NodeTypes'
<1>1. CASE Enter(w) \/ ReadBaseline(w) \/ ApplyBaseline(w) \/ SeedFails(w) \/ LeaveNode(w)
  BY <1>1, BudgetStepKeepsTypes
<1>2. CASE StartModelCall(w) \/ TakeSlot(w) \/ EndModelCall(w) \/ QueueTimesOut(w)
  BY <1>2, ModelCallKeepsTypes
<1>3. CASE StartToolCall(w) \/ LookUp(w) \/ EndAttempt(w) \/ Retry(w) \/ EndStandIn(w)
  BY <1>3, ToolCallKeepsTypes
<1>4. CASE CancelNode(w)
  BY <1>4, CancelKeepsTypes
<1> QED
  BY <1>1, <1>2, <1>3, <1>4 DEF NodeStep

-----------------------------------------------------------------------------
(* The budget.                                                             *)

\* Most calls that may be charged or still on their way.
Most == MaxLLM + Cardinality(Workers) - 1

\* The limits are numbers, and there are finitely many nodes.
LEMMA MostIsANumber ==
    /\ IsFiniteSet(Workers) /\ Cardinality(Workers) \in Nat
    /\ MaxLLM \in Nat /\ MaxLLM > 0 /\ MaxTools \in Nat /\ MaxTools > 0
    /\ Most \in Int
<1>1. IsFiniteSet(Workers)
  BY Members
<1> QED
  BY <1>1, FS_CardinalityType, CallsAssumption DEF Most

\* A node has one model call on its way at most.
LEMMA InProgressIsFinite ==
    /\ IsFiniteSet(InProgress) /\ Cardinality(InProgress) \in Nat
    /\ Cardinality(InProgress) <= Cardinality(Workers)
BY MostIsANumber, FS_Subset, FS_CardinalityType DEF InProgress

\* A step that lets no call pass the guard: calls end, and are charged at most then.
LEMMA NoCallPasses ==
    ASSUME BudgetHolds, CallsContext, CallsContext', blind' = blind, ledger'.tools <= MaxTools,
           \/ charged' = charged /\ InProgress' \subseteq InProgress
           \/ /\ charged' = charged + 1
              /\ \E w \in InProgress : InProgress' \subseteq InProgress \ {w}
    PROVE  BudgetHolds'
<1>1. charged \in Nat /\ charged' \in Nat
  BY DEF CallsContext, UsageTypes
<1>2. IsFiniteSet(InProgress) /\ Cardinality(InProgress) \in Nat
  BY InProgressIsFinite
<1>3. CASE charged' = charged /\ InProgress' \subseteq InProgress
  <2>1. Cardinality(InProgress') <= Cardinality(InProgress) /\ Cardinality(InProgress') \in Nat
    BY <1>2, <1>3, FS_Subset, FS_CardinalityType
  <2> QED
    BY <1>1, <1>2, <1>3, <2>1, MostIsANumber DEF BudgetHolds, Most
<1>4. CASE /\ charged' = charged + 1
           /\ \E w \in InProgress : InProgress' \subseteq InProgress \ {w}
  <2>1. PICK w \in InProgress : InProgress' \subseteq InProgress \ {w}
    BY <1>4
  <2>2. /\ IsFiniteSet(InProgress \ {w})
        /\ Cardinality(InProgress \ {w}) = Cardinality(InProgress) - 1
    BY <1>2, FS_RemoveElement
  <2>3. /\ Cardinality(InProgress') <= Cardinality(InProgress \ {w})
        /\ Cardinality(InProgress') \in Nat
    BY <2>1, <2>2, FS_Subset, FS_CardinalityType
  <2> QED
    BY <1>1, <1>2, <1>4, <2>2, <2>3, MostIsANumber DEF BudgetHolds, Most
<1> QED
  BY <1>3, <1>4

\* A call that passes the guard: fewer are charged than the limit, and at most every
\* other node has a call of its own on its way.
LEMMA StartHolds ==
    ASSUME BudgetHolds, CallsContext, CallsContext', NEW w \in Workers, StartModelCall(w)
    PROVE  BudgetHolds'
<1>0. charged \in Nat /\ charged' \in Nat /\ ledger.calls \in Nat
  BY DEF CallsContext, UsageTypes, NodeTypes
<1>1. ledger'.tools = ledger.tools
  BY DEF StartModelCall, Emit, Charge, NoEmit, CallsContext, NodeTypes
<1>2. pc[w] = "node" /\ pc \in [Callers -> Places] /\ w \in Callers /\ Workers \subseteq Callers
  BY Members DEF StartModelCall, MayStart, CallsContext, NodeTypes
<1>3. w \notin InProgress
  BY <1>2 DEF InProgress
<1>4. CASE NoModelCallLeft
  <2>1. charged' = charged /\ blind' = blind /\ pc' = [pc EXCEPT ![w] = "node"]
    BY <1>4 DEF StartModelCall, NoEmit, usageVars, Go
  <2>2. InProgress' \subseteq InProgress
    BY <1>2, <2>1 DEF InProgress
  <2> QED
    BY <1>1, <2>1, <2>2, NoCallPasses DEF BudgetHolds
<1>5. CASE ~NoModelCallLeft
  <2>1. blind' = (blind \/ ledger.calls < charged)
    BY <1>5 DEF StartModelCall
  <2>2. CASE blind'
    <3>1. ledger'.tools <= MaxTools
      BY <1>1 DEF BudgetHolds
    <3> QED
      BY <2>2, <3>1, Zenon DEF BudgetHolds
  <2>3. CASE ~blind'
    <3>1. charged + 1 <= MaxLLM
      <4>1. ~(ledger.calls < charged)
        BY <2>1, <2>3, Zenon
      <4>2. ~(ledger.calls + 1 > MaxLLM)
        BY <1>5, Zenon DEF NoModelCallLeft
      <4> QED
        BY <1>0, <4>1, <4>2, MostIsANumber
    <3>2. /\ IsFiniteSet(InProgress) /\ Cardinality(InProgress) \in Nat
          /\ Cardinality(InProgress) <= Cardinality(Workers) - 1
      <4>1. /\ IsFiniteSet(Workers \ {w})
            /\ Cardinality(Workers \ {w}) = Cardinality(Workers) - 1
        BY MostIsANumber, FS_RemoveElement
      <4>2. InProgress \subseteq Workers \ {w}
        BY <1>3 DEF InProgress
      <4> QED
        BY <4>1, <4>2, FS_Subset, FS_CardinalityType
    <3>3. CASE Refused
      <4>1. charged' = charged + 1 /\ \E q \in {"left", "node"} : pc' = [pc EXCEPT ![w] = q]
        BY <1>5, <3>3 DEF StartModelCall, Emit, Go, AfterRefusal
      <4>2. InProgress' = InProgress
        BY <1>2, <4>1 DEF InProgress
      <4> QED
        BY <1>0, <1>1, <3>1, <3>2, <4>1, <4>2, MostIsANumber DEF BudgetHolds
    <3>4. CASE ~Refused
      <4>1. charged' = charged /\ \E q \in {"flight", "queued"} : pc' = [pc EXCEPT ![w] = q]
        BY <1>5, <3>4 DEF StartModelCall, NoEmit, usageVars, Go
      <4>2. InProgress' = InProgress \union {w}
        BY <1>2, <4>1 DEF InProgress
      <4>3. Cardinality(InProgress') = Cardinality(InProgress) + 1
        BY <1>3, <3>2, <4>2, FS_AddElement
      <4> QED
        BY <1>0, <1>1, <3>1, <3>2, <4>1, <4>3, MostIsANumber DEF BudgetHolds
    <3> QED
      BY <3>3, <3>4
  <2> QED
    BY <2>2, <2>3
<1> QED
  BY <1>4, <1>5

\* No guard but the one of StartModelCall passes a model call.
LEMMA ToolsStayInBudget ==
    ASSUME CallsContext, BudgetHolds, NEW w \in Workers, NodeStep(w)
    PROVE  ledger'.tools <= MaxTools
<1> USE DEF CallsContext, NodeTypes
<1>0. ledger.tools <= MaxTools /\ MaxTools \in Nat /\ MaxTools > 0
  BY MostIsANumber DEF BudgetHolds
<1>1. ASSUME Emit \/ NoEmit
      PROVE  ledger'.tools = ledger.tools
  BY <1>1 DEF Emit, Charge, NoEmit
<1>2. ASSUME NEW n, NEW p, Reserve(w, p, n)
      PROVE  ledger'.tools <= MaxTools
  <2>1. CASE NoToolCallLeft
    BY <1>0, <1>2, <2>1 DEF Reserve
  <2>2. CASE ~NoToolCallLeft
    <3>1. ledger'.tools = ledger.tools + 1
      BY <1>2, <2>2 DEF Reserve
    <3>2. ledger.tools + 1 <= MaxTools
      BY <1>0, <2>2 DEF NoToolCallLeft
    <3> QED
      BY <3>1, <3>2
  <2> QED
    BY <2>1, <2>2
<1>3. ASSUME NEW n, TryProvider(w, n)
      PROVE  ledger'.tools <= MaxTools
  BY <1>0, <1>2, <1>3 DEF TryProvider
<1>4. CASE Enter(w)
  BY <1>0, <1>4 DEF Enter, NewLedger, NoLedger
<1>5. CASE ApplyBaseline(w)
  BY <1>0, <1>5 DEF ApplyBaseline
<1>6. CASE ReadBaseline(w) \/ SeedFails(w) \/ LeaveNode(w)
  BY <1>0, <1>6 DEF ReadBaseline, SeedFails, LeaveNode
<1>7. CASE StartModelCall(w) \/ TakeSlot(w) \/ EndModelCall(w) \/ QueueTimesOut(w)
  <2>1. Emit \/ NoEmit
    BY <1>7 DEF StartModelCall, TakeSlot, EndModelCall, QueueTimesOut, NoEmit
  <2> QED
    BY <1>0, <1>1, <2>1
<1>8. CASE StartToolCall(w) \/ EndStandIn(w)
  BY <1>0, <1>8 DEF StartToolCall, EndStandIn
<1>9. CASE LookUp(w)
  BY <1>0, <1>3, <1>9 DEF LookUp
<1>10. CASE EndAttempt(w)
  BY <1>0, <1>2, <1>10 DEF EndAttempt, StandIn
<1>11. CASE Retry(w)
  BY <1>3, <1>11 DEF Retry
<1>12. CASE CancelNode(w)
  <2>1. Emit \/ NoEmit
    BY <1>12 DEF CancelNode
  <2> QED
    BY <1>0, <1>1, <2>1
<1> QED
  BY <1>4, <1>5, <1>6, <1>7, <1>8, <1>9, <1>10, <1>11, <1>12 DEF NodeStep

\* What a node's step leaves alone.
LEMMA NodeStepIsQuiet ==
    ASSUME NEW w \in Workers, NodeStep(w)
    PROVE  UNCHANGED flushVars /\ (Emit \/ UNCHANGED usageVars)
<1>1. CASE \/ Enter(w) \/ ReadBaseline(w) \/ ApplyBaseline(w) \/ SeedFails(w) \/ LeaveNode(w)
           \/ StartToolCall(w) \/ LookUp(w) \/ EndAttempt(w) \/ Retry(w) \/ EndStandIn(w)
  BY <1>1 DEF Enter, ReadBaseline, ApplyBaseline, SeedFails, LeaveNode,
       StartToolCall, LookUp, EndAttempt, Retry, EndStandIn, ToolStep
<1>2. CASE StartModelCall(w) \/ TakeSlot(w) \/ EndModelCall(w) \/ QueueTimesOut(w) \/ CancelNode(w)
  BY <1>2 DEF StartModelCall, TakeSlot, EndModelCall, QueueTimesOut, CancelNode, NoEmit
<1> QED
  BY <1>1, <1>2 DEF NodeStep

\* A step that leaves the recorder, the flushes and the table alone.
LEMMA NoRecordMoves ==
    ASSUME UsageInvariant, UNCHANGED <<usageVars, flushVars>>
    PROVE  UsageInvariant'
<1>1. UNCHANGED <<charged, recorder, dropped, batch, durable, lost>>
  BY DEF usageVars, flushVars
<1> QED
  BY <1>1 DEF UsageInvariant, UsageTypes, Missing, Held

\* Every step of a node keeps the budget.
LEMMA NodeStepHolds ==
    ASSUME BudgetHolds, CallsContext, CallsContext', NEW w \in Workers, NodeStep(w)
    PROVE  BudgetHolds'
<1>0. /\ ledger'.tools <= MaxTools /\ w \in Callers /\ Workers \subseteq Callers
      /\ pc \in [Callers -> Places]
  BY ToolsStayInBudget, Members DEF CallsContext, NodeTypes
<1>1. CASE StartModelCall(w)
  BY <1>1, StartHolds
<1>2. CASE \/ Enter(w) \/ ReadBaseline(w) \/ ApplyBaseline(w) \/ SeedFails(w) \/ LeaveNode(w)
           \/ StartToolCall(w) \/ LookUp(w) \/ EndAttempt(w) \/ Retry(w) \/ EndStandIn(w)
  <2>1. charged' = charged /\ blind' = blind
    BY <1>2 DEF Enter, ReadBaseline, ApplyBaseline, SeedFails, LeaveNode,
         StartToolCall, LookUp, EndAttempt, Retry, EndStandIn, ToolStep, usageVars
  <2>2. pc' = pc \/ \E q : Go(w, q) /\ q \notin {"queued", "flight"}
    BY <1>2 DEF Enter, ReadBaseline, ApplyBaseline, SeedFails, LeaveNode, Go,
         StartToolCall, GatewayBlocks, LookUp, EndAttempt, StandIn, Retry, EndStandIn,
         TryProvider, Reserve, AfterRefusal
  <2>3. InProgress' \subseteq InProgress
    BY <1>0, <2>2 DEF InProgress, Go
  <2> QED
    BY <1>0, <2>1, <2>3, NoCallPasses
<1>3. CASE TakeSlot(w)
  <2>1. charged' = charged /\ blind' = blind /\ Go(w, "flight") /\ w \in woken
    BY <1>3 DEF TakeSlot, NoEmit, usageVars, Proceed
  <2>2. pc[w] = "queued"
    BY <2>1, QueuedArePlaced DEF CallsContext
  <2>3. InProgress' \subseteq InProgress
    BY <1>0, <2>1, <2>2 DEF InProgress, Go
  <2> QED
    BY <1>0, <2>1, <2>3, NoCallPasses
<1>4. ASSUME Emit, blind' = blind, w \in InProgress,
             NEW q \in Places \ {"queued", "flight"}, Go(w, q)
      PROVE  BudgetHolds'
  <2>1. charged' = charged + 1
    BY <1>4 DEF Emit
  <2>2. InProgress' \subseteq InProgress \ {w}
    BY <1>0, <1>4 DEF InProgress, Go
  <2> QED
    BY <1>0, <1>4, <2>1, <2>2, NoCallPasses
<1>5. CASE EndModelCall(w)
  <2>1. w \in InProgress /\ Emit /\ blind' = blind
    BY <1>5 DEF EndModelCall, InProgress
  <2>2. \E q \in Places \ {"queued", "flight"} : Go(w, q)
    BY <1>5 DEF EndModelCall, AfterRefusal, Places
  <2> QED
    BY <1>4, <2>1, <2>2
<1>6. CASE QueueTimesOut(w)
  <2>1. w \in Queued /\ Emit /\ blind' = blind /\ Go(w, "node")
    BY <1>6 DEF QueueTimesOut
  <2>2. w \in InProgress
    BY <2>1, QueuedArePlaced DEF CallsContext, InProgress
  <2> QED
    BY <1>4, <2>1, <2>2 DEF Places
<1>7. CASE CancelNode(w)
  <2>1. blind' = blind
    BY <1>7 DEF CancelNode
  <2>2. CASE NoEmit /\ (pc' = pc \/ Go(w, "left"))
    <3>1. charged' = charged
      BY <2>2 DEF NoEmit, usageVars
    <3>2. InProgress' \subseteq InProgress
      BY <1>0, <2>2 DEF InProgress, Go
    <3> QED
      BY <1>0, <2>1, <3>1, <3>2, NoCallPasses
  <2>3. CASE Emit /\ (w \in Queued \/ pc[w] = "flight") /\ Go(w, "left")
    <3>1. w \in InProgress
      BY <2>3, QueuedArePlaced DEF CallsContext, InProgress
    <3> QED
      BY <1>4, <2>1, <2>3, <3>1 DEF Places
  <2> QED
    BY <1>7, <2>2, <2>3 DEF CancelNode
<1> QED
  BY <1>1, <1>2, <1>3, <1>5, <1>6, <1>7 DEF NodeStep

\* A guest has no budget and no record.
LEMMA GuestKeepsTheRest ==
    ASSUME NEW g \in Guests, GuestMoves(g)
    PROVE  UNCHANGED <<ledger, usageVars, flushVars, blind>>
BY DEF GuestMoves, GuestStarts, GuestTakesSlot, GuestGivesUp, GuestEnds, GuestStep

\* Nothing outside the nodes passes a call.
LEMMA OthersHold ==
    ASSUME BudgetHolds, CallsContext, CallsContext',
           \/ \E g \in Guests : GuestMoves(g)
           \/ \E f \in Flushers : FlusherStep(f)
           \/ WindowCloses \/ ExitStream \/ NextStream \/ Crash \/ UNCHANGED vars
    PROVE  BudgetHolds'
<1>0. ledger.tools <= MaxTools
  BY DEF BudgetHolds
<1>1. charged' = charged /\ blind' = blind
  BY GuestKeepsTheRest DEF FlusherStep, Drain, FlushReturns, FlushFails, FlushCancelled,
       FlushStep, WindowCloses, ExitStream, NextStream, Crash, usageVars, vars
<1>2. ledger'.tools <= MaxTools
  <2>1. CASE NextStream \/ Crash
    BY <2>1, MostIsANumber DEF NextStream, Crash, NoLedger
  <2>2. CASE ~(NextStream \/ Crash)
    BY <1>0, <2>2, GuestKeepsTheRest DEF FlusherStep, Drain, FlushReturns, FlushFails,
         FlushCancelled, FlushStep, WindowCloses, ExitStream, vars
  <2> QED
    BY <2>1, <2>2
<1>3. InProgress' \subseteq InProgress
  <2>1. pc \in [Callers -> Places]
    BY DEF CallsContext, NodeTypes
  <2>2. CASE \E g \in Guests : GuestMoves(g)
    <3>1. PICK g \in Guests : GuestMoves(g)
      BY <2>2
    <3>2. \E q : pc' = [pc EXCEPT ![g] = q]
      BY <3>1 DEF GuestMoves, GuestStarts, GuestTakesSlot, GuestGivesUp, GuestEnds, Go
    <3>3. g \notin Workers
      BY Members
    <3> QED
      BY <2>1, <3>2, <3>3, Members DEF InProgress
  <2>3. CASE NextStream \/ Crash
    BY <2>1, <2>3, Members DEF InProgress, NextStream, Crash
  <2>4. CASE \/ \E f \in Flushers : FlusherStep(f)
             \/ WindowCloses \/ ExitStream \/ UNCHANGED vars
    <3>1. pc' = pc
      BY <2>4 DEF FlusherStep, Drain, FlushReturns, FlushFails, FlushCancelled,
           FlushStep, WindowCloses, ExitStream, nodeVars, vars
    <3> QED
      BY <3>1 DEF InProgress
  <2> QED
    BY <2>2, <2>3, <2>4
<1> QED
  BY <1>1, <1>2, <1>3, NoCallPasses

-----------------------------------------------------------------------------
(* The invariant, and what it gives.                                       *)

CallsInvariant == NodeTypes /\ SlotsInvariant /\ UsageInvariant /\ BudgetHolds

\* The invariant holds at the start.
LEMMA CallsInit == Init => CallsInvariant
<1> SUFFICES ASSUME Init
             PROVE  CallsInvariant
  OBVIOUS
<1>1. NodeTypes /\ SlotsInvariant /\ UsageInvariant
  BY SlotsInit, UsageInit
<1>2. InProgress = {} /\ ledger.tools = 0 /\ charged = 0
  BY Members DEF Init, InProgress, NoLedger
<1>3. Cardinality(InProgress) = 0
  BY <1>2, FS_EmptySet
<1>4. BudgetHolds
  BY <1>2, <1>3, MostIsANumber DEF BudgetHolds
<1> QED
  BY <1>1, <1>4 DEF CallsInvariant

\* Every step keeps the invariant.
LEMMA CallsStep == CallsInvariant /\ [Next]_vars => CallsInvariant'
<1> SUFFICES ASSUME CallsInvariant, [Next]_vars
             PROVE  CallsInvariant'
  OBVIOUS
<1>0. /\ CallsContext /\ NodeTypes /\ SlotsInvariant /\ UsageInvariant /\ BudgetHolds
  BY DEF CallsInvariant, CallsContext, UsageInvariant
<1>1. CASE \E w \in Workers : NodeStep(w)
  <2>1. PICK w \in Workers : NodeStep(w)
    BY <1>1
  <2>2. SlotsInvariant' /\ NodeTypes'
    BY <1>0, <2>1, NodeStepKeepsSlots, NodeStepKeepsTypes
  <2>3. UsageInvariant'
    <3>1. UNCHANGED flushVars /\ (Emit \/ UNCHANGED usageVars)
      BY <2>1, NodeStepIsQuiet
    <3> QED
      BY <1>0, <3>1, EmitIsAccounted, NoRecordMoves
  <2>4. BudgetHolds'
    BY <1>0, <2>1, <2>2, <2>3, NodeStepHolds DEF CallsContext, UsageInvariant
  <2> QED
    BY <2>2, <2>3, <2>4 DEF CallsInvariant
<1>2. CASE \/ \E g \in Guests : GuestMoves(g)
           \/ \E f \in Flushers : FlusherStep(f)
           \/ WindowCloses \/ ExitStream \/ NextStream \/ Crash \/ UNCHANGED vars
  <2>1. SlotsInvariant' /\ NodeTypes'
    BY <1>0, <1>2, GuestKeepsSlots, GuestKeepsTypes, OthersKeepSlots, OthersKeepTypes
  <2>2. UsageInvariant'
    <3>1. CASE \E g \in Guests : GuestMoves(g)
      BY <1>0, <3>1, GuestKeepsTheRest, NoRecordMoves
    <3>2. CASE \E f \in Flushers : FlusherStep(f)
      BY <1>0, <3>2, FlushIsAccounted, RequeueIsAccounted DEF FlusherStep
    <3>3. CASE Crash
      BY <1>0, <3>3, CrashIsAccounted
    <3>4. CASE WindowCloses \/ ExitStream \/ NextStream \/ UNCHANGED vars
      <4>1. UNCHANGED <<usageVars, flushVars>>
        BY <3>4 DEF WindowCloses, ExitStream, NextStream, vars
      <4> QED
        BY <1>0, <4>1, NoRecordMoves
    <3> QED
      BY <1>2, <3>1, <3>2, <3>3, <3>4
  <2>3. BudgetHolds'
    BY <1>0, <1>2, <2>1, <2>2, OthersHold DEF CallsContext, UsageInvariant
  <2> QED
    BY <2>1, <2>2, <2>3 DEF CallsInvariant
<1> QED
  BY <1>1, <1>2 DEF Next

\* The invariant of ModelCalls.
LEMMA CallsAlways == Spec => []CallsInvariant
BY CallsInit, CallsStep, PTL DEF Spec

\* Types.
LEMMA MetersAreBounded ==
    ASSUME CallsInvariant
    PROVE  GateTypeOK
<1>1. GateInvariant /\ active = Cardinality(At("flight")) /\ waiting = Cardinality(At("queued"))
  BY DEF CallsInvariant, SlotsInvariant
<1>2. /\ Cardinality(At("flight")) \in Nat
      /\ Cardinality(At("queued")) \in 0..Cardinality(Callers)
  BY GateAssumption, FS_Subset, FS_CardinalityType DEF At
<1>3. IsFiniteSet(woken) /\ Cardinality(woken) \in Nat
  BY <1>1, WokenAreFinite
<1>4. Slots \in Nat
  BY GateAssumption
<1>5. Queued \subseteq Callers
  BY <1>1, RangeOfSeq DEF GateInvariant, Queued
<1> QED
  BY <1>1, <1>2, <1>3, <1>4, <1>5 DEF GateInvariant, GateTypeOK

\* Every variable keeps its type: the meters never pass the slots and the callers, the
\* recorder never passes its maxlen, no attempt passes max_retries + 1.
THEOREM CallsTypeCorrect == Spec => []TypeOK
<1>1. ASSUME CallsInvariant
      PROVE  TypeOK
  <2>1. GateTypeOK
    BY <1>1, MetersAreBounded
  <2>2. \A c \in Callers : ops[c] \in 0..MaxOps[c]
    <3>1. MaxOps \in [Callers -> Nat] /\ ops \in [Callers -> Nat]
      BY <1>1, CallsAssumption DEF CallsInvariant, NodeTypes
    <3> QED
      BY <1>1, <3>1 DEF CallsInvariant, NodeTypes
  <2> QED
    BY <1>1, <2>1, <2>2 DEF CallsInvariant, NodeTypes, UsageInvariant, UsageTypes, TypeOK
<1> QED
  BY <1>1, CallsAlways, PTL

\* However waits time out, calls are cancelled, windows close and the process crashes:
\* every slot is free, on its way to a waiter, or in use; the meters of the channel say
\* which; and nobody waits beside a free slot unless a woken waiter is about to pass it
\* on (ChannelGate.hold).
THEOREM SlotsAreConserved == Spec => []SlotsConserved
<1>1. CallsInvariant => SlotsConserved
  BY DEF CallsInvariant, SlotsInvariant, GateInvariant, SlotsConserved, At
<1> QED
  BY <1>1, CallsAlways, PTL

\* No sequence of retries, stand-ins and concurrent nodes passes max_tool_calls; and as
\* long as the guard saw every call, model calls pass max_llm_calls by no more than the
\* nodes that ran beside each other (run_budget.py, ainvoke's guard).
THEOREM TheBudgetHolds == Spec => []BudgetHolds
<1>1. CallsInvariant => BudgetHolds
  BY DEF CallsInvariant
<1> QED
  BY <1>1, CallsAlways, PTL

\* Every model call has its record in the recorder, in a flush or in run_llm_calls; what
\* is in none of them went with a crash or a cancelled flush, or the recorder counted it
\* as dropped (UsageRecorder.record, requeue).
THEOREM EveryRecordIsAccountedFor == Spec => []UsageAccounted
<1>1. CallsInvariant => UsageAccounted
  BY DEF CallsInvariant, UsageInvariant, Missing, Held, UsageAccounted
<1> QED
  BY <1>1, CallsAlways, PTL
=============================================================================
