------------------------- MODULE SSEBuffer_proofs -------------------------
(***************************************************************************)
(* Proofs about the bounded event buffer (SSEBuffer): its types, the       *)
(* promise that no wakeup is lost, and that it implements the lossless     *)
(* channel, for any number of nodes and any limits.                        *)
(*                                                                         *)
(* The queue is an unbounded sequence, and three things about it are sums  *)
(* over its entries: the two counters and the pieces the client will see.  *)
(* A sum is stated by a witness, the function of its partial sums          *)
(* (AddsUp, Flattens), and what a fold over sequences does at either end   *)
(* is proved by the least counterexample (LeastNumber).                    *)
(***************************************************************************)
EXTENDS SSEBuffer, SequenceTheorems, FiniteSetTheorems, WellFoundedInduction, TLAPS
-----------------------------------------------------------------------------
(* The two counters.                                                       *)

\* total is the sum of w: rest[i] is what the weights behind place i add up to.
SumsTo(w, rest, total) ==
    /\ rest \in [0..Len(w) -> Nat]
    /\ rest[0] = total /\ rest[Len(w)] = 0
    /\ \A i \in 1..Len(w) : rest[i - 1] = rest[i] + w[i]

AddsUp(w, total) == \E rest : SumsTo(w, rest, total)

\* Nothing weighs nothing.
LEMMA EmptyAddsUp == AddsUp(<<>>, 0)
<1> DEFINE rest == [i \in 0..0 |-> 0]
<1>1. Len(<<>>) = 0
  BY EmptySeq
<1>2. SumsTo(<<>>, rest, 0)
  BY <1>1 DEF SumsTo
<1> QED
  BY <1>2 DEF AddsUp

\* One more weight.
LEMMA AppendAddsUp ==
    ASSUME NEW w \in Seq(Nat), NEW x \in Nat, NEW total, AddsUp(w, total)
    PROVE  AddsUp(Append(w, x), total + x) /\ total \in Nat
<1> DEFINE n == Len(w)
           v == Append(w, x)
<1>1. PICK rest : SumsTo(w, rest, total)
  BY DEF AddsUp
<1>2. /\ n \in Nat /\ \A i \in 1..n : w[i] \in Nat
  BY LenProperties, ElementOfSeq
<1>3. /\ Len(v) = n + 1 /\ v[n + 1] = x /\ \A i \in 1..n : v[i] = w[i]
  BY <1>2, AppendProperties
<1> HIDE DEF v
<1> DEFINE more == [i \in 0..(n + 1) |-> IF i <= n THEN rest[i] + x ELSE 0]
<1>4. /\ rest \in [0..n -> Nat] /\ rest[0] = total /\ rest[n] = 0
      /\ \A i \in 1..n : rest[i - 1] = rest[i] + w[i]
  BY <1>1 DEF SumsTo
<1> HIDE DEF n
<1>5. more \in [0..(n + 1) -> Nat]
  BY <1>2, <1>4
<1>6. more[0] = total + x /\ more[n + 1] = 0
  BY <1>2, <1>4
<1>7. ASSUME NEW i \in 1..(n + 1)
      PROVE  more[i - 1] = more[i] + v[i]
  <2>1. CASE i = n + 1
    BY <1>2, <1>3, <1>4, <2>1
  <2>2. CASE i # n + 1
    <3>1. i \in 1..n /\ i - 1 \in 0..n /\ i \in 0..n /\ i - 1 \in 0..(n + 1) /\ i \in 0..(n + 1)
      BY <1>2, <2>2
    <3>2. more[i - 1] = rest[i - 1] + x /\ more[i] = rest[i] + x
      BY <1>2, <3>1
    <3>3. rest[i - 1] = rest[i] + w[i] /\ rest[i] \in Nat /\ w[i] \in Nat /\ v[i] = w[i]
      BY <1>2, <1>3, <1>4, <3>1
    <3> HIDE DEF more
    <3> QED
      BY <3>2, <3>3
  <2> QED
    BY <2>1, <2>2
<1>8. SumsTo(v, more, total + x)
  <2> HIDE DEF more
  <2> QED
    BY <1>3, <1>5, <1>6, <1>7 DEF SumsTo
<1>9. total \in Nat
  BY <1>2, <1>4
<1> QED
  BY <1>8, <1>9 DEF AddsUp, v

\* The first weight goes.
LEMMA TailAddsUp ==
    ASSUME NEW w \in Seq(Nat), NEW total, AddsUp(w, total), w # <<>>
    PROVE  AddsUp(Tail(w), total - Head(w)) /\ total - Head(w) \in Nat /\ Head(w) \in Nat
<1> DEFINE n == Len(w)
           v == Tail(w)
<1>1. PICK rest : SumsTo(w, rest, total)
  BY DEF AddsUp
<1>2. /\ n \in Nat /\ n > 0 /\ Head(w) = w[1] /\ \A i \in 1..n : w[i] \in Nat
  BY LenProperties, ElementOfSeq, EmptySeq
<1>3. /\ Len(v) = n - 1 /\ \A i \in 1..(n - 1) : v[i] = w[i + 1]
  BY HeadTailProperties
<1> HIDE DEF v
<1>4. /\ rest \in [0..n -> Nat] /\ rest[0] = total /\ rest[n] = 0
      /\ \A i \in 1..n : rest[i - 1] = rest[i] + w[i]
  BY <1>1 DEF SumsTo
<1> HIDE DEF n
<1> DEFINE less == [i \in 0..(n - 1) |-> rest[i + 1]]
<1>5. less \in [0..(n - 1) -> Nat]
  BY <1>2, <1>4
<1>6. rest[0] = rest[1] + w[1] /\ rest[1] \in Nat
  BY <1>2, <1>4
<1>7. less[0] = total - Head(w) /\ less[n - 1] = 0
  BY <1>2, <1>4, <1>6
<1>8. ASSUME NEW i \in 1..(n - 1)
      PROVE  less[i - 1] = less[i] + v[i]
  <2>1. i + 1 \in 1..n /\ i - 1 \in 0..(n - 1) /\ i \in 0..(n - 1)
    BY <1>2
  <2>2. less[i - 1] = rest[i] /\ less[i] = rest[i + 1]
    BY <2>1
  <2>3. rest[i] = rest[i + 1] + w[i + 1]
    BY <1>2, <1>4, <2>1
  <2> QED
    BY <1>3, <2>2, <2>3
<1>9. SumsTo(v, less, total - Head(w))
  <2> HIDE DEF less
  <2> QED
    BY <1>3, <1>5, <1>7, <1>8 DEF SumsTo
<1> QED
  BY SMTT(30), <1>2, <1>4, <1>6, <1>9 DEF AddsUp, v

\* The last weight grows.
LEMMA LastAddsUp ==
    ASSUME NEW w \in Seq(Nat), NEW total, AddsUp(w, total), w # <<>>, NEW x \in Nat
    PROVE  AddsUp([w EXCEPT ![Len(w)] = @ + x], total + x)
<1> DEFINE n == Len(w)
           v == [w EXCEPT ![n] = @ + x]
<1>1. PICK rest : SumsTo(w, rest, total)
  BY DEF AddsUp
<1>2. /\ n \in Nat /\ n > 0 /\ \A i \in 1..n : w[i] \in Nat
  BY LenProperties, ElementOfSeq, EmptySeq
<1>3. /\ v \in Seq(Nat) /\ Len(v) = n /\ v[n] = w[n] + x
      /\ \A i \in 1..n : i # n => v[i] = w[i]
  <2>1. n \in 1..Len(w) /\ w[n] + x \in Nat
    BY <1>2
  <2> HIDE DEF n
  <2>2. v = [w EXCEPT ![n] = w[n] + x]
    OBVIOUS
  <2> HIDE DEF v
  <2>3. /\ v \in Seq(Nat) /\ Len(v) = Len(w)
        /\ \A j \in 1..Len(w) : v[j] = IF j = n THEN w[n] + x ELSE w[j]
    BY <2>1, <2>2, ExceptSeq
  <2> QED
    BY <1>2, <2>1, <2>3 DEF n
<1> HIDE DEF v
<1>4. /\ rest \in [0..n -> Nat] /\ rest[0] = total /\ rest[n] = 0
      /\ \A i \in 1..n : rest[i - 1] = rest[i] + w[i]
  BY <1>1 DEF SumsTo
<1> HIDE DEF n
<1> DEFINE more == [i \in 0..n |-> IF i < n THEN rest[i] + x ELSE 0]
<1>5. more \in [0..n -> Nat]
  BY <1>2, <1>4
<1>6. more[0] = total + x /\ more[n] = 0
  BY <1>2, <1>4
<1>7. ASSUME NEW i \in 1..n
      PROVE  more[i - 1] = more[i] + v[i]
  <2>1. i - 1 \in 0..n /\ i \in 0..n /\ i - 1 < n
    BY <1>2
  <2>2. /\ rest[i - 1] = rest[i] + w[i] /\ rest[i] \in Nat /\ w[i] \in Nat
        /\ more[i - 1] = rest[i - 1] + x
    BY <1>2, <1>4, <2>1
  <2>3. CASE i = n
    <3>1. more[i] = 0 /\ v[i] = w[i] + x /\ rest[i] = 0
      BY <1>3, <1>4, <1>6, <2>3
    <3> HIDE DEF more
    <3> QED
      BY <2>2, <3>1
  <2>4. CASE i # n
    <3>1. more[i] = rest[i] + x /\ v[i] = w[i]
      BY <1>2, <1>3, <2>1, <2>4
    <3> HIDE DEF more
    <3> QED
      BY <2>2, <3>1
  <2> QED
    BY <2>3, <2>4
<1>8. SumsTo(v, more, total + x)
  <2> HIDE DEF more
  <2> QED
    BY <1>3, <1>5, <1>6, <1>7 DEF SumsTo
<1> QED
  BY <1>8 DEF AddsUp, v, n

-----------------------------------------------------------------------------
(* Flattening a sequence of sequences.                                     *)

\* Induction: a set of numbers has a least one.
LEMMA LeastNumber ==
    ASSUME NEW B \in SUBSET Nat, B # {}
    PROVE  \E n \in B : \A m \in B : n <= m
<1> DEFINE R == OpToRel(<, Nat)
<1>1. IsWellFoundedOn(R, Nat)
  BY NatLessThanWellFounded, Zenon
<1>2. \A x, y \in Nat : x < y => <<x, y>> \in R
  BY DEF OpToRel
<1> HIDE DEF R
<1>3. PICK n \in B : \A m \in B : ~ (<<m, n>> \in R)
  BY <1>1, WFMin
<1>4. ASSUME NEW m \in B
      PROVE  n <= m
  <2>1. m \in Nat /\ n \in Nat
    OBVIOUS
  <2>2. ~ (m < n)
    BY <1>2, <1>3, <2>1, Zenon
  <2> QED
    BY <2>1, <2>2
<1> QED
  BY <1>4

\* What the function inside FlattenSeq is: f[i] is the first i sequences in one.
Flattens(f, ss, n) == f = [i \in 1..n |-> IF i = 1 THEN ss[i] ELSE f[i - 1] \o ss[i]]

\* Sequences of sequences have such a function ...
LEMMA FlatteningExists ==
    ASSUME NEW S, NEW ss \in Seq(Seq(S))
    PROVE  \E f \in [1..Len(ss) -> Seq(S)] : Flattens(f, ss, Len(ss))
<1> DEFINE n == Len(ss)
           B == {k \in 0..n : ~ \E f \in [1..k -> Seq(S)] : Flattens(f, ss, k)}
<1>1. n \in Nat /\ \A i \in 1..n : ss[i] \in Seq(S)
  BY LenProperties, ElementOfSeq
<1> HIDE DEF n
<1> SUFFICES ASSUME B # {} PROVE FALSE
  BY <1>1 DEF n
<1>2. PICK k \in B : \A m \in B : k <= m
  <2>1. B \in SUBSET Nat
    BY <1>1
  <2> HIDE DEF B
  <2> QED
    BY <2>1, LeastNumber
<1>3. k \in 0..n /\ ~ \E f \in [1..k -> Seq(S)] : Flattens(f, ss, k)
  OBVIOUS
<1>4. k # 0
  <2> DEFINE e == [i \in 1..0 |-> <<>>]
  <2>1. e \in [1..0 -> Seq(S)] /\ Flattens(e, ss, 0)
    BY DEF Flattens
  <2> HIDE DEF e
  <2> QED
    BY <1>3, <2>1
<1>5. k - 1 \in 0..n
  BY <1>1, <1>3, <1>4
<1>6. PICK f \in [1..(k - 1) -> Seq(S)] : Flattens(f, ss, k - 1)
  <2>1. k - 1 \notin B
    <3> HIDE DEF B
    <3> QED
      BY <1>2, <1>3, <1>5
  <2> QED
    BY <1>5, <2>1
<1> HIDE DEF B
<1> DEFINE last == IF k = 1 THEN ss[1] ELSE f[k - 1] \o ss[k]
           g == [i \in 1..k |-> IF i = k THEN last ELSE f[i]]
<1>7. last \in Seq(S)
  <2>1. CASE k = 1
    BY <1>1, <1>3, <2>1
  <2>2. CASE k # 1
    <3>1. f[k - 1] \in Seq(S) /\ ss[k] \in Seq(S)
      BY <1>1, <1>3, <1>4, <1>6, <2>2
    <3> QED
      BY <2>2, <3>1, ConcatProperties
  <2> QED
    BY <2>1, <2>2
<1> HIDE DEF last
<1>8. g \in [1..k -> Seq(S)] /\ Flattens(g, ss, k)
  <2>1. g \in [1..k -> Seq(S)]
    BY <1>1, <1>3, <1>4, <1>6, <1>7
  <2>2. ASSUME NEW i \in 1..k
        PROVE  g[i] = IF i = 1 THEN ss[i] ELSE g[i - 1] \o ss[i]
    <3>1. CASE i = k
      <4>1. g[i] = last /\ (i # 1 => g[i - 1] = f[i - 1])
        BY <1>1, <1>3, <1>4, <3>1
      <4> HIDE DEF g
      <4> QED
        BY <3>1, <4>1 DEF last
    <3>2. CASE i # k
      <4>1. i \in 1..(k - 1) /\ g[i] = f[i] /\ (i # 1 => g[i - 1] = f[i - 1])
        BY <1>1, <1>3, <1>4, <3>2
      <4> HIDE DEF g
      <4> QED
        BY <1>6, <4>1 DEF Flattens
    <3> QED
      BY <3>1, <3>2
  <2> HIDE DEF g
  <2> QED
    BY <2>1, <2>2 DEF Flattens
<1> HIDE DEF g
<1> QED
  BY <1>3, <1>8

\* ... and only one.
LEMMA FlatteningIsUnique ==
    ASSUME NEW ss, NEW tt, NEW n \in Nat, \A i \in 1..n : ss[i] = tt[i],
           NEW f, NEW g, Flattens(f, ss, n), Flattens(g, tt, n)
    PROVE  f = g
<1> DEFINE B == {i \in 1..n : f[i] # g[i]}
<1> SUFFICES ASSUME f # g PROVE FALSE
  OBVIOUS
<1>0. /\ DOMAIN f = 1..n /\ DOMAIN g = 1..n
      /\ f = [i \in 1..n |-> f[i]] /\ g = [i \in 1..n |-> g[i]]
      /\ \A i \in 1..n : /\ f[i] = IF i = 1 THEN ss[i] ELSE f[i - 1] \o ss[i]
                         /\ g[i] = IF i = 1 THEN tt[i] ELSE g[i - 1] \o tt[i]
  BY DEF Flattens
<1>1. PICK k \in B : \A m \in B : k <= m
  <2>1. B \in SUBSET Nat
    OBVIOUS
  <2>2. \E i \in 1..n : f[i] # g[i]
    BY <1>0
  <2>3. B # {}
    BY <2>2
  <2> HIDE DEF B
  <2> QED
    BY <2>1, <2>3, LeastNumber
<1>2. k \in 1..n /\ f[k] # g[k]
  OBVIOUS
<1>5. /\ f[k] = IF k = 1 THEN ss[k] ELSE f[k - 1] \o ss[k]
      /\ g[k] = IF k = 1 THEN tt[k] ELSE g[k - 1] \o tt[k]
      /\ ss[k] = tt[k]
  BY <1>0, <1>2
<1>3. CASE k = 1
  BY <1>2, <1>3, <1>5
<1>4. CASE k # 1
  <2>1. k - 1 \in 1..n
    BY <1>2, <1>4
  <2>2. k - 1 \notin B
    <3> HIDE DEF B
    <3> QED
      BY <1>1, <1>2, <2>1
  <2>3. f[k - 1] = g[k - 1]
    BY <2>1, <2>2
  <2> QED
    BY <1>2, <1>4, <1>5, <2>3
<1> QED
  BY <1>3, <1>4

\* FlattenSeq is its last step.
LEMMA FlattenIsLastStep ==
    ASSUME NEW ss, Len(ss) \in Nat, Len(ss) # 0, NEW f, Flattens(f, ss, Len(ss))
    PROVE  FlattenSeq(ss) = f[Len(ss)]
<1> DEFINE h == CHOOSE h : Flattens(h, ss, Len(ss))
<1>1. FlattenSeq(ss) = h[Len(ss)]
  BY DEF FlattenSeq, Flattens
<1>2. Flattens(h, ss, Len(ss))
  OBVIOUS
<1> HIDE DEF h
<1>3. h = f
  BY <1>2, FlatteningIsUnique
<1> QED
  BY <1>1, <1>3

\* Concatenation and the step of the function, as names the provers need not unfold.
Then(s, t) == s \o t
StepAt(f, ss, i) == /\ i = 1 => f[i] = ss[i]
                    /\ i # 1 => f[i] = Then(f[i - 1], ss[i])

\* The function, step by step.
LEMMA FlatteningSteps ==
    ASSUME NEW ss, NEW n, NEW f, Flattens(f, ss, n)
    PROVE  \A i \in 1..n : StepAt(f, ss, i)
BY DEF Flattens, StepAt, Then

\* A function with these steps is the one.
LEMMA StepsFlatten ==
    ASSUME NEW ss, NEW n, NEW f, f = [i \in 1..n |-> f[i]], \A i \in 1..n : StepAt(f, ss, i)
    PROVE  Flattens(f, ss, n)
BY DEF Flattens, StepAt, Then

\* The laws of concatenation.
LEMMA ThenIsASeq ==
    ASSUME NEW S, NEW s \in Seq(S), NEW t \in Seq(S)
    PROVE  Then(s, t) \in Seq(S)
BY ConcatProperties DEF Then

\* Nothing added changes nothing.
LEMMA ThenEmpty ==
    ASSUME NEW S, NEW s \in Seq(S)
    PROVE  Then(s, <<>>) = s /\ Then(<<>>, s) = s
BY ConcatEmptySeq DEF Then

\* Three sequences are one, whichever two are joined first.
LEMMA ThenIsAssociative ==
    ASSUME NEW S, NEW s \in Seq(S), NEW t \in Seq(S), NEW u \in Seq(S)
    PROVE  Then(Then(s, t), u) = Then(s, Then(t, u))
BY ConcatAssociative DEF Then

\* What FlattenSeq returns, and the function it gets it from.
LEMMA FlattenIsASeq ==
    ASSUME NEW S, NEW ss \in Seq(Seq(S))
    PROVE  /\ FlattenSeq(ss) \in Seq(S)
           /\ ss = <<>> => FlattenSeq(ss) = <<>>
           /\ \E f \in [1..Len(ss) -> Seq(S)] :
                 /\ Flattens(f, ss, Len(ss))
                 /\ ss # <<>> => FlattenSeq(ss) = f[Len(ss)]
<1>1. Len(ss) \in Nat /\ (Len(ss) = 0 <=> ss = <<>>)
  BY LenProperties, EmptySeq
<1>2. PICK f \in [1..Len(ss) -> Seq(S)] : Flattens(f, ss, Len(ss))
  BY FlatteningExists
<1>3. CASE ss = <<>>
  <2>1. FlattenSeq(ss) = ss
    BY <1>1, <1>3 DEF FlattenSeq
  <2> QED
    BY <1>2, <1>3, <2>1, EmptySeq
<1>4. CASE ss # <<>>
  <2>1. FlattenSeq(ss) = f[Len(ss)]
    BY <1>1, <1>2, <1>4, FlattenIsLastStep
  <2>2. Len(ss) \in 1..Len(ss)
    BY <1>1, <1>4
  <2> QED
    BY <1>2, <1>4, <2>1, <2>2
<1> QED
  BY <1>3, <1>4

\* One sequence more at the end.
LEMMA FlattenAppend ==
    ASSUME NEW S, NEW ss \in Seq(Seq(S)), NEW s \in Seq(S)
    PROVE  FlattenSeq(Append(ss, s)) = Then(FlattenSeq(ss), s)
<1> DEFINE n == Len(ss)
           tt == Append(ss, s)
<1>1. /\ n \in Nat /\ (n = 0 <=> ss = <<>>)
      /\ tt \in Seq(Seq(S)) /\ tt # <<>> /\ Len(tt) = n + 1 /\ tt[n + 1] = s
      /\ \A i \in 1..n : tt[i] = ss[i]
  BY LenProperties, EmptySeq, AppendProperties
<1> HIDE DEF tt
<1>2. PICK g \in [1..Len(tt) -> Seq(S)] :
         Flattens(g, tt, Len(tt)) /\ FlattenSeq(tt) = g[Len(tt)]
  BY <1>1, FlattenIsASeq
<1>3. PICK f \in [1..n -> Seq(S)] :
         Flattens(f, ss, n) /\ (ss # <<>> => FlattenSeq(ss) = f[n])
  BY FlattenIsASeq
<1> HIDE DEF n
<1>7. \A i \in 1..(n + 1) : StepAt(g, tt, i)
  <2>1. Flattens(g, tt, n + 1)
    BY <1>1, <1>2
  <2> QED
    BY <2>1, FlatteningSteps, Zenon
<1>4. g[n + 1] = IF n = 0 THEN s ELSE Then(g[n], s)
  <2>1. n + 1 \in 1..(n + 1) /\ (n + 1 = 1 <=> n = 0) /\ (n + 1) - 1 = n
    BY <1>1
  <2>2. /\ n + 1 = 1 => g[n + 1] = tt[n + 1]
        /\ n + 1 # 1 => g[n + 1] = Then(g[(n + 1) - 1], tt[n + 1])
    BY <1>7, <2>1, Zenon DEF StepAt
  <2> QED
    BY <1>1, <2>1, <2>2
<1>5. CASE n = 0
  <2>1. FlattenSeq(ss) = <<>>
    BY <1>1, <1>5, FlattenIsASeq
  <2>2. FlattenSeq(tt) = s
    BY <1>1, <1>2, <1>4, <1>5
  <2> QED
    BY <2>1, <2>2, ThenEmpty DEF tt
<1>6. CASE n # 0
  <2> DEFINE h == [i \in 1..n |-> g[i]]
  <2>1. Flattens(h, ss, n)
    <3>1. \A i \in 1..n : /\ i \in 1..(n + 1)
                          /\ i # 1 => i - 1 \in 1..n /\ i - 1 \in 1..(n + 1)
      BY <1>1
    <3>2. ASSUME NEW i \in 1..n
          PROVE  StepAt(h, ss, i)
      <4>1. StepAt(g, tt, i)
        BY <1>7, <3>1, Zenon
      <4>2. h[i] = g[i] /\ (i # 1 => h[i - 1] = g[i - 1]) /\ tt[i] = ss[i]
        BY <1>1, <3>1
      <4> HIDE DEF h
      <4> QED
        BY <4>1, <4>2, Zenon DEF StepAt
    <3>3. h = [i \in 1..n |-> h[i]]
      OBVIOUS
    <3> HIDE DEF h
    <3> QED
      BY <3>2, <3>3, StepsFlatten
  <2> HIDE DEF h
  <2>2. h = f
    BY <1>1, <1>3, <2>1, FlatteningIsUnique
  <2>3. g[n] = f[n]
    <3>1. h[n] = g[n]
      BY <1>1, <1>6 DEF h
    <3> QED
      BY <2>2, <3>1
  <2>4. g[n + 1] = Then(g[n], s)
    BY <1>1, <1>4, <1>6
  <2> QED
    BY <1>1, <1>2, <1>3, <1>6, <2>3, <2>4 DEF tt
<1> QED
  BY <1>5, <1>6

\* The first sequence is in front of the rest.
LEMMA FlattenTail ==
    ASSUME NEW S, NEW ss \in Seq(Seq(S)), ss # <<>>
    PROVE  FlattenSeq(ss) = Then(Head(ss), FlattenSeq(Tail(ss)))
<1> DEFINE n == Len(ss)
           tt == Tail(ss)
<1>1. /\ n \in Nat /\ n > 0 /\ Head(ss) = ss[1] /\ \A i \in 1..n : ss[i] \in Seq(S)
      /\ tt \in Seq(Seq(S)) /\ Len(tt) = n - 1 /\ (n - 1 = 0 <=> tt = <<>>)
      /\ \A i \in 1..(n - 1) : tt[i] = ss[i + 1]
  <2>1. n \in Nat /\ n > 0
    BY LenProperties, EmptySeq
  <2>2. Head(ss) = ss[1]
    OBVIOUS
  <2>3. \A i \in 1..n : ss[i] \in Seq(S)
    BY ElementOfSeq
  <2>4. /\ tt \in Seq(Seq(S)) /\ Len(tt) = n - 1
        /\ \A i \in 1..Len(tt) : tt[i] = ss[i + 1]
    BY HeadTailProperties
  <2> HIDE DEF tt
  <2>5. Len(tt) = 0 <=> tt = <<>>
    BY <2>4, EmptySeq
  <2> QED
    BY <2>1, <2>2, <2>3, <2>4, <2>5
<1> HIDE DEF tt
<1>2. PICK f \in [1..n -> Seq(S)] : Flattens(f, ss, n) /\ FlattenSeq(ss) = f[n]
  BY FlattenIsASeq
<1>3. PICK g \in [1..Len(tt) -> Seq(S)] :
         Flattens(g, tt, Len(tt)) /\ (tt # <<>> => FlattenSeq(tt) = g[Len(tt)])
  BY <1>1, FlattenIsASeq
<1> HIDE DEF n
<1>4. \A i \in 1..n : StepAt(f, ss, i)
  BY <1>2, FlatteningSteps, Zenon
<1>5. \A i \in 1..(n - 1) : StepAt(g, tt, i)
  <2>1. Flattens(g, tt, n - 1)
    BY <1>1, <1>3
  <2> QED
    BY <2>1, FlatteningSteps, Zenon
<1>6. g \in [1..(n - 1) -> Seq(S)]
  BY <1>1, <1>3
<1> DEFINE B == {i \in 1..(n - 1) : f[i + 1] # Then(ss[1], g[i])}
<1>7. B = {}
  <2> SUFFICES ASSUME B # {} PROVE FALSE
    OBVIOUS
  <2>1. PICK k \in B : \A m \in B : k <= m
    <3>1. B \in SUBSET Nat
      BY <1>1
    <3> HIDE DEF B
    <3> QED
      BY <3>1, LeastNumber
  <2>2. k \in 1..(n - 1) /\ f[k + 1] # Then(ss[1], g[k])
    OBVIOUS
  <2>3. k + 1 \in 1..n /\ k + 1 # 1 /\ k \in Nat /\ (k + 1) - 1 = k
    BY <1>1, <2>2
  <2>4. f[k + 1] = Then(f[k], ss[k + 1]) /\ tt[k] = ss[k + 1]
    <3>1. StepAt(f, ss, k + 1)
      BY <1>4, <2>3, Zenon
    <3>2. tt[k] = ss[k + 1]
      BY <1>1, <2>2
    <3> QED
      <4>1. f[k + 1] = Then(f[(k + 1) - 1], ss[k + 1])
        BY <2>3, <3>1, Zenon DEF StepAt
      <4> QED
        BY <2>3, <3>2, <4>1
  <2>5. CASE k = 1
    <3>1. f[1] = ss[1] /\ g[1] = tt[1]
      <4>1. StepAt(f, ss, 1) /\ StepAt(g, tt, 1)
        BY <1>1, <1>4, <1>5, <2>2, <2>5
      <4> QED
        BY <4>1 DEF StepAt
    <3> QED
      BY <2>2, <2>4, <2>5, <3>1
  <2>6. CASE k # 1
    <3>1. k - 1 \in 1..(n - 1) /\ k - 1 + 1 = k
      BY <1>1, <2>2, <2>6
    <3>2. k - 1 \notin B
      <4> HIDE DEF B
      <4> QED
        BY <2>1, <2>3, <3>1
    <3>3. f[k] = Then(ss[1], g[k - 1]) /\ g[k] = Then(g[k - 1], tt[k])
      <4>1. StepAt(g, tt, k)
        BY <1>5, <2>2, Zenon
      <4>2. f[k - 1 + 1] = Then(ss[1], g[k - 1])
        BY <3>1, <3>2
      <4> QED
        BY <2>6, <3>1, <4>1, <4>2, Zenon DEF StepAt
    <3>4. ss[1] \in Seq(S) /\ g[k - 1] \in Seq(S) /\ tt[k] \in Seq(S)
      BY <1>1, <1>6, <2>3, <2>4, <3>1
    <3>5. Then(Then(ss[1], g[k - 1]), tt[k]) = Then(ss[1], Then(g[k - 1], tt[k]))
      BY <3>4, ThenIsAssociative
    <3> QED
      BY <2>2, <2>4, <3>3, <3>5
  <2> QED
    BY <2>5, <2>6
<1>8. CASE n = 1
  <2>1. FlattenSeq(tt) = <<>> /\ FlattenSeq(ss) = ss[1]
    <3>1. StepAt(f, ss, 1) /\ tt = <<>>
      BY <1>1, <1>4, <1>8
    <3>2. f[1] = ss[1]
      BY <3>1 DEF StepAt
    <3> QED
      BY <1>1, <1>2, <1>8, <3>1, <3>2, FlattenIsASeq
  <2> QED
    BY <1>1, <2>1, ThenEmpty DEF tt
<1>9. CASE n # 1
  <2>1. n - 1 \in 1..(n - 1) /\ n - 1 + 1 = n /\ tt # <<>>
    BY <1>1, <1>9
  <2>2. f[n] = Then(ss[1], g[n - 1])
    BY <1>7, <2>1
  <2> QED
    BY <1>1, <1>2, <1>3, <2>1, <2>2 DEF tt
<1> QED
  BY <1>8, <1>9

\* A sequence whose last element is replaced.
SetLast(s, e) == [s EXCEPT ![Len(s)] = e]

\* What such a sequence is.
LEMMA SetLastIsASeq ==
    ASSUME NEW S, NEW s \in Seq(S), s # <<>>, NEW e \in S
    PROVE  /\ SetLast(s, e) \in Seq(S)
           /\ Len(SetLast(s, e)) = Len(s)
           /\ \A i \in 1..Len(s) : SetLast(s, e)[i] = IF i = Len(s) THEN e ELSE s[i]
<1> DEFINE n == Len(s)
<1>1. n \in Nat /\ n > 0
  BY LenProperties, EmptySeq
<1>2. n \in 1..Len(s)
  BY <1>1
<1> HIDE DEF n
<1> QED
  BY <1>2, ExceptSeq DEF n, SetLast

\* The last sequence grows.
LEMMA FlattenLast ==
    ASSUME NEW S, NEW ss \in Seq(Seq(S)), ss # <<>>, NEW s \in Seq(S)
    PROVE  FlattenSeq(SetLast(ss, Then(ss[Len(ss)], s))) = Then(FlattenSeq(ss), s)
<1> DEFINE n == Len(ss)
           front == SubSeq(ss, 1, n - 1)
           tt == SetLast(ss, Then(ss[n], s))
<1>1. n \in Nat /\ n > 0 /\ \A i \in 1..n : ss[i] \in Seq(S)
  BY LenProperties, EmptySeq, ElementOfSeq
<1>2. /\ front \in Seq(Seq(S)) /\ Len(front) = n - 1
      /\ \A i \in 1..(n - 1) : front[i] = ss[i]
  <2>1. \A i \in 1..(n - 1) : ss[i] \in Seq(S)
    BY <1>1
  <2> HIDE DEF n
  <2>2. /\ front \in Seq(Seq(S))
        /\ Len(front) = IF 1 <= n - 1 THEN (n - 1) - 1 + 1 ELSE 0
        /\ \A i \in 1..((n - 1) - 1 + 1) : front[i] = ss[1 + i - 1]
    BY <1>1, <2>1, SubSeqProperties
  <2> HIDE DEF front
  <2> QED
    BY <1>1, <2>2
<1> HIDE DEF front
<1>9. Then(ss[n], s) \in Seq(S)
  BY <1>1, ThenIsASeq
<1>10. /\ tt \in Seq(Seq(S)) /\ Len(tt) = n /\ tt[n] = Then(ss[n], s)
       /\ \A i \in 1..(n - 1) : tt[i] = ss[i]
  <2>1. /\ tt \in Seq(Seq(S)) /\ Len(tt) = n
        /\ \A i \in 1..n : tt[i] = IF i = n THEN Then(ss[n], s) ELSE ss[i]
    BY <1>9, SetLastIsASeq
  <2> HIDE DEF tt
  <2> QED
    BY <1>1, <2>1
<1> HIDE DEF tt
<1>3. ASSUME NEW uu \in Seq(Seq(S)), Len(uu) = n, \A i \in 1..(n - 1) : uu[i] = ss[i]
      PROVE  uu = Append(front, uu[n])
  <2> DEFINE vv == Append(front, uu[n])
  <2>1. uu[n] \in Seq(S)
    BY <1>1, <1>3, ElementOfSeq
  <2>2. /\ vv \in Seq(Seq(S)) /\ Len(vv) = Len(front) + 1 /\ vv[Len(front) + 1] = uu[n]
        /\ \A i \in 1..Len(front) : vv[i] = front[i]
    BY <1>2, <2>1, AppendProperties
  <2> HIDE DEF vv
  <2>3. Len(vv) = n /\ Len(front) = n - 1
    BY <1>1, <1>2, <2>2
  <2>4. ASSUME NEW i \in 1..Len(uu)
        PROVE  uu[i] = vv[i]
    <3>1. CASE i = n
      BY <1>1, <2>2, <2>3, <3>1
    <3>2. CASE i # n
      <4>1. i \in 1..(n - 1)
        BY <1>1, <1>3, <3>2
      <4> QED
        BY <1>2, <1>3, <2>2, <4>1
    <3> QED
      BY <3>1, <3>2
  <2>5. uu = vv
    <3>1. uu \in Seq(Seq(S)) /\ vv \in Seq(Seq(S)) /\ Len(uu) = Len(vv)
      BY <1>3, <2>2, <2>3
    <3>2. \A i \in 1..Len(uu) : uu[i] = vv[i]
      BY <2>4
    <3> QED
      BY <3>1, <3>2, SeqEqual
  <2> QED
    BY <2>5 DEF vv
<1>4. ss = Append(front, ss[n])
  BY <1>3
<1>5. tt = Append(front, Then(ss[n], s))
  BY <1>3, <1>10
<1>6. ss[n] \in Seq(S) /\ Then(ss[n], s) \in Seq(S) /\ FlattenSeq(front) \in Seq(S)
  BY <1>1, <1>2, ThenIsASeq, FlattenIsASeq
<1>7. FlattenSeq(ss) = Then(FlattenSeq(front), ss[n])
  BY <1>2, <1>4, <1>6, FlattenAppend
<1>8. FlattenSeq(tt) = Then(FlattenSeq(front), Then(ss[n], s))
  BY <1>2, <1>5, <1>6, FlattenAppend
<1> QED
  BY <1>6, <1>7, <1>8, ThenIsAssociative DEF tt

-----------------------------------------------------------------------------
(* What is said of every entry of a queue.                                 *)

\* m of every element of s.
Map(s, m) == [i \in 1..Len(s) |-> m[s[i]]]

IsMap(r, s, m) == Len(r) = Len(s) /\ \A i \in 1..Len(s) : r[i] = m[s[i]]

\* It is as long as s.
LEMMA MapIsASeq ==
    ASSUME NEW E, NEW T, NEW m \in [E -> T], NEW s \in Seq(E)
    PROVE  Map(s, m) \in Seq(T) /\ IsMap(Map(s, m), s, m)
<1> DEFINE r == Map(s, m)
           n == Len(s)
<1>1. n \in Nat /\ \A i \in 1..n : s[i] \in E
  BY LenProperties, ElementOfSeq
<1>2. r = [i \in 1..n |-> m[s[i]]]
  BY DEF Map
<1> HIDE DEF r, n
<1>3. r \in [1..n -> T] /\ \A i \in 1..n : r[i] = m[s[i]]
  BY <1>1, <1>2
<1>4. r \in Seq(T)
  BY <1>1, <1>3, SeqDef
<1>5. Len(r) = n
  BY <1>1, <1>3, <1>4, LenProperties
<1> QED
  BY <1>3, <1>4, <1>5 DEF r, n, IsMap

\* An element more.
LEMMA MapAppend ==
    ASSUME NEW E, NEW T, NEW m \in [E -> T], NEW s \in Seq(E), NEW e \in E
    PROVE  Map(Append(s, e), m) = Append(Map(s, m), m[e])
<1> DEFINE t == Append(s, e)
           q == Map(t, m)
           r == Append(Map(s, m), m[e])
<1>1. Len(s) \in Nat
  BY LenProperties
<1>2. /\ t \in Seq(E) /\ Len(t) = Len(s) + 1 /\ t[Len(s) + 1] = e
      /\ \A i \in 1..Len(s) : t[i] = s[i]
  BY AppendProperties
<1> HIDE DEF t
<1>3. /\ q \in Seq(T) /\ Len(q) = Len(t) /\ \A i \in 1..Len(t) : q[i] = m[t[i]]
  <2>1. q \in Seq(T) /\ IsMap(q, t, m)
    BY <1>2, MapIsASeq
  <2> QED
    BY <2>1 DEF IsMap
<1>7. /\ Map(s, m) \in Seq(T) /\ Len(Map(s, m)) = Len(s)
      /\ \A i \in 1..Len(s) : Map(s, m)[i] = m[s[i]]
  <2>1. Map(s, m) \in Seq(T) /\ IsMap(Map(s, m), s, m)
    BY MapIsASeq
  <2> QED
    BY <2>1 DEF IsMap
<1>4. /\ r \in Seq(T) /\ Len(r) = Len(s) + 1 /\ r[Len(s) + 1] = m[e]
      /\ \A i \in 1..Len(s) : r[i] = Map(s, m)[i]
  <2>1. m[e] \in T
    OBVIOUS
  <2> QED
    BY <1>7, <2>1, AppendProperties
<1> HIDE DEF q, r
<1>5. Len(q) = Len(r)
  BY <1>1, <1>2, <1>3, <1>4
<1>8. ASSUME NEW i \in 1..Len(q)
      PROVE  q[i] = r[i]
  <2>1. CASE i = Len(s) + 1
    BY <1>1, <1>2, <1>3, <1>4, <2>1
  <2>2. CASE i # Len(s) + 1
    <3>1. i \in 1..Len(s) /\ i \in 1..Len(t)
      BY <1>1, <1>2, <1>3, <2>2
    <3> QED
      BY <1>2, <1>3, <1>4, <1>7, <3>1
  <2> QED
    BY <2>1, <2>2
<1>6. q = r
  BY <1>3, <1>4, <1>5, <1>8, SeqEqual
<1> QED
  BY <1>6 DEF q, r, t

\* The first element goes.
LEMMA MapTail ==
    ASSUME NEW E, NEW T, NEW m \in [E -> T], NEW s \in Seq(E), s # <<>>
    PROVE  /\ Map(s, m) # <<>>
           /\ Map(Tail(s), m) = Tail(Map(s, m))
<1> DEFINE t == Tail(s)
           q == Map(t, m)
           p == Map(s, m)
           r == Tail(p)
<1>1. Len(s) \in Nat /\ Len(s) > 0
  BY LenProperties, EmptySeq
<1>2. /\ t \in Seq(E) /\ Len(t) = Len(s) - 1
      /\ \A i \in 1..Len(t) : t[i] = s[i + 1]
  BY HeadTailProperties
<1> HIDE DEF t
<1>3. /\ q \in Seq(T) /\ Len(q) = Len(t) /\ \A i \in 1..Len(t) : q[i] = m[t[i]]
  <2>1. q \in Seq(T) /\ IsMap(q, t, m)
    BY <1>2, MapIsASeq
  <2> QED
    BY <2>1 DEF IsMap
<1>9. /\ p \in Seq(T) /\ Len(p) = Len(s)
      /\ \A i \in 1..Len(s) : p[i] = m[s[i]]
  <2>1. p \in Seq(T) /\ IsMap(p, s, m)
    BY MapIsASeq
  <2> QED
    BY <2>1 DEF IsMap
<1> HIDE DEF q, p
<1>4. p # <<>>
  BY <1>1, <1>9, EmptySeq
<1>5. /\ r \in Seq(T) /\ Len(r) = Len(s) - 1
      /\ \A i \in 1..Len(r) : r[i] = p[i + 1]
  BY <1>4, <1>9, HeadTailProperties
<1> HIDE DEF r
<1>6. Len(q) = Len(r)
  BY <1>1, <1>2, <1>3, <1>5
<1>10. ASSUME NEW i \in 1..Len(q)
       PROVE  q[i] = r[i]
  <2>1. i \in 1..Len(t) /\ i \in 1..Len(r) /\ i + 1 \in 1..Len(s)
    BY <1>1, <1>2, <1>3, <1>5
  <2>2. q[i] = m[t[i]] /\ t[i] = s[i + 1]
    BY <1>2, <1>3, <2>1
  <2>3. r[i] = p[i + 1] /\ p[i + 1] = m[s[i + 1]]
    BY <1>5, <1>9, <2>1
  <2> QED
    BY <2>2, <2>3
<1>7. q = r
  BY <1>3, <1>5, <1>6, <1>10, SeqEqual
<1> QED
  BY <1>4, <1>7 DEF q, p, r, t

\* The last element is replaced.
LEMMA MapLast ==
    ASSUME NEW E, NEW T, NEW m \in [E -> T], NEW s \in Seq(E), s # <<>>, NEW e \in E
    PROVE  Map(SetLast(s, e), m) = SetLast(Map(s, m), m[e])
<1> DEFINE t == SetLast(s, e)
           q == Map(t, m)
           p == Map(s, m)
           n == Len(s)
<1>1. n \in Nat /\ n > 0
  BY LenProperties, EmptySeq
<1>2. /\ t \in Seq(E) /\ Len(t) = n
      /\ \A i \in 1..n : t[i] = IF i = n THEN e ELSE s[i]
  BY SetLastIsASeq
<1> HIDE DEF t
<1>3. /\ q \in Seq(T) /\ Len(q) = Len(t) /\ \A i \in 1..Len(t) : q[i] = m[t[i]]
  <2>1. q \in Seq(T) /\ IsMap(q, t, m)
    BY <1>2, MapIsASeq
  <2> QED
    BY <2>1 DEF IsMap
<1>9. /\ p \in Seq(T) /\ Len(p) = n
      /\ \A i \in 1..n : p[i] = m[s[i]]
  <2>1. p \in Seq(T) /\ IsMap(p, s, m)
    BY MapIsASeq
  <2> QED
    BY <2>1 DEF IsMap
<1> HIDE DEF q, p
<1> DEFINE r == SetLast(p, m[e])
<1>4. /\ r \in Seq(T) /\ Len(r) = n
      /\ \A i \in 1..n : r[i] = IF i = n THEN m[e] ELSE p[i]
  <2> DEFINE z == m[e]
  <2>1. p \in Seq(T) /\ p # <<>> /\ z \in T
    BY <1>1, <1>9, EmptySeq
  <2> HIDE DEF n, z
  <2>2. /\ SetLast(p, z) \in Seq(T) /\ Len(SetLast(p, z)) = Len(p)
        /\ \A i \in 1..Len(p) : SetLast(p, z)[i] = IF i = Len(p) THEN z ELSE p[i]
    BY <2>1, SetLastIsASeq
  <2> QED
    BY <1>9, <2>2 DEF z
<1> HIDE DEF r
<1>5. ASSUME NEW i \in 1..n
      PROVE  q[i] = r[i]
  <2>1. /\ q[i] = m[t[i]] /\ p[i] = m[s[i]] /\ t[i] = IF i = n THEN e ELSE s[i]
        /\ r[i] = IF i = n THEN m[e] ELSE p[i]
    BY <1>2, <1>3, <1>4, <1>9
  <2> QED
    BY <2>1
<1>6. q = r
  <2>1. Len(q) = n /\ Len(r) = n
    BY <1>2, <1>3, <1>4
  <2>2. \A i \in 1..Len(q) : q[i] = r[i]
    BY <1>5, <2>1
  <2> QED
    BY <1>3, <1>4, <2>1, <2>2, SeqEqual
<1> QED
  BY <1>6 DEF q, r, p, t

-----------------------------------------------------------------------------
(* The queue: what it holds, what it counts and what it shows.             *)

\* What an entry may be.
Kinds == {"text", "event"} \union Terminal

Entries == [kind : Kinds, node : Writers, nos : Seq(Nat) \ {<<>>},
            chars : 0..(ChunkLimit + MaxChars)]

\* What the client may be shown.
PieceSet == [writer : Writers, kind : {"text", "event"}, no : Nat]

\* What an entry shows, how long its text is, and whether the limit of events counts it.
pieces == [e \in Entries |-> PiecesOf(e)]
weight == [e \in Entries |-> e.chars]
counted == [e \in Entries |-> IF e.kind = "event" THEN 1 ELSE 0]

\* The two counters are what the entries add up to.
Counts(s, events, chars) == AddsUp(Map(s, counted), events) /\ AddsUp(Map(s, weight), chars)

\* What the client will see of a queue.
Shown(s) == FlattenSeq(Map(s, pieces))

\* What an entry shows is a sequence of pieces, and it is not empty.
LEMMA PiecesAreASeq ==
    ASSUME NEW e \in Entries
    PROVE  /\ PiecesOf(e) \in Seq(PieceSet)
           /\ Len(PiecesOf(e)) = Len(e.nos) /\ Len(e.nos) \in Nat /\ Len(e.nos) > 0
           /\ \A j \in 1..Len(e.nos) : PiecesOf(e)[j] =
                 [writer |-> e.node, kind |-> IF e.kind = "text" THEN "text" ELSE "event",
                  no |-> e.nos[j]]
<1> DEFINE n == Len(e.nos)
           r == PiecesOf(e)
<1>1. e.nos \in Seq(Nat) /\ e.nos # <<>> /\ e.node \in Writers
  BY DEF Entries
<1>2. n \in Nat /\ n > 0 /\ \A j \in 1..n : e.nos[j] \in Nat
  BY <1>1, LenProperties, EmptySeq, ElementOfSeq
<1>3. r = [j \in 1..n |-> [writer |-> e.node,
                           kind |-> IF e.kind = "text" THEN "text" ELSE "event",
                           no |-> e.nos[j]]]
  BY DEF PiecesOf
<1> HIDE DEF n, r
<1>4. r \in [1..n -> PieceSet]
  BY <1>1, <1>2, <1>3 DEF PieceSet
<1>5. r \in Seq(PieceSet)
  BY <1>2, <1>4, SeqDef
<1>6. Len(r) = n
  BY <1>2, <1>4, <1>5, LenProperties
<1>7. \A j \in 1..n : r[j] = [writer |-> e.node,
                              kind |-> IF e.kind = "text" THEN "text" ELSE "event",
                              no |-> e.nos[j]]
  BY <1>3
<1> QED
  BY <1>2, <1>5, <1>6, <1>7 DEF n, r

\* The three functions on entries.
LEMMA EntryFunctions ==
    /\ pieces \in [Entries -> Seq(PieceSet)]
    /\ weight \in [Entries -> Nat]
    /\ counted \in [Entries -> Nat]
<1>1. pieces \in [Entries -> Seq(PieceSet)]
  <2>1. \A e \in Entries : PiecesOf(e) \in Seq(PieceSet)
    BY PiecesAreASeq
  <2> QED
    BY <2>1 DEF pieces
<1>2. weight \in [Entries -> Nat]
  <2>1. \A e \in Entries : e.chars \in Nat
    BY BufferAssumption DEF Entries
  <2> QED
    BY <2>1 DEF weight
<1>3. counted \in [Entries -> Nat]
  BY DEF counted
<1> QED
  BY <1>1, <1>2, <1>3

\* What they say of one entry.
LEMMA EntryValues ==
    ASSUME NEW e \in Entries
    PROVE  pieces[e] = PiecesOf(e) /\ weight[e] = e.chars
           /\ counted[e] = IF e.kind = "event" THEN 1 ELSE 0
BY DEF pieces, weight, counted

\* The empty queue.
LEMMA EmptyQueue ==
    /\ <<>> \in Seq(Entries)
    /\ Counts(<<>>, 0, 0)
    /\ Shown(<<>>) = <<>>
<1>1. <<>> \in Seq(Entries) /\ Len(<<>>) = 0
  BY EmptySeq
<1>2. ASSUME NEW m
      PROVE  Map(<<>>, m) = <<>>
  BY <1>1 DEF Map
<1>3. <<>> \in Seq(Seq(PieceSet))
  BY EmptySeq
<1>4. FlattenSeq(<<>>) = <<>>
  BY <1>3, FlattenIsASeq
<1> QED
  BY <1>1, <1>2, <1>4, EmptyAddsUp DEF Counts, Shown

\* A queue shows a sequence of pieces, and its counters are natural numbers.
LEMMA QueueShows ==
    ASSUME NEW s \in Seq(Entries)
    PROVE  Shown(s) \in Seq(PieceSet) /\ Map(s, pieces) \in Seq(Seq(PieceSet))
<1>1. Map(s, pieces) \in Seq(Seq(PieceSet))
  BY EntryFunctions, MapIsASeq
<1> QED
  BY <1>1, FlattenIsASeq DEF Shown

\* An entry more at the end.
LEMMA QueueAppend ==
    ASSUME NEW s \in Seq(Entries), NEW e \in Entries, NEW c, NEW p, Counts(s, c, p)
    PROVE  /\ Append(s, e) \in Seq(Entries) /\ Append(s, e) # <<>>
           /\ Counts(Append(s, e), c + counted[e], p + weight[e])
           /\ c \in Nat /\ p \in Nat
           /\ Shown(Append(s, e)) = Then(Shown(s), PiecesOf(e))
<1>1. /\ Map(s, counted) \in Seq(Nat) /\ Map(s, weight) \in Seq(Nat)
      /\ Map(s, pieces) \in Seq(Seq(PieceSet))
  BY EntryFunctions, MapIsASeq
<1>2. counted[e] \in Nat /\ weight[e] \in Nat /\ pieces[e] = PiecesOf(e)
      /\ PiecesOf(e) \in Seq(PieceSet)
  BY EntryFunctions, EntryValues, PiecesAreASeq
<1>3. /\ Map(Append(s, e), counted) = Append(Map(s, counted), counted[e])
      /\ Map(Append(s, e), weight) = Append(Map(s, weight), weight[e])
      /\ Map(Append(s, e), pieces) = Append(Map(s, pieces), pieces[e])
  <2>1. Map(Append(s, e), counted) = Append(Map(s, counted), counted[e])
    BY ZenonT(60), EntryFunctions, MapAppend
  <2>2. Map(Append(s, e), weight) = Append(Map(s, weight), weight[e])
    BY ZenonT(60), EntryFunctions, MapAppend
  <2>3. Map(Append(s, e), pieces) = Append(Map(s, pieces), pieces[e])
    BY ZenonT(60), EntryFunctions, MapAppend
  <2> QED
    BY <2>1, <2>2, <2>3
<1>4. AddsUp(Append(Map(s, counted), counted[e]), c + counted[e]) /\ c \in Nat
  BY <1>1, <1>2, AppendAddsUp DEF Counts
<1>5. AddsUp(Append(Map(s, weight), weight[e]), p + weight[e]) /\ p \in Nat
  BY <1>1, <1>2, AppendAddsUp DEF Counts
<1>6. FlattenSeq(Append(Map(s, pieces), PiecesOf(e)))
        = Then(FlattenSeq(Map(s, pieces)), PiecesOf(e))
  BY <1>1, <1>2, FlattenAppend
<1>7. Append(s, e) \in Seq(Entries) /\ Append(s, e) # <<>>
  BY AppendProperties
<1> QED
  BY <1>2, <1>3, <1>4, <1>5, <1>6, <1>7 DEF Counts, Shown

\* The oldest entry is taken.
LEMMA QueueTail ==
    ASSUME NEW s \in Seq(Entries), s # <<>>, NEW c, NEW p, Counts(s, c, p)
    PROVE  /\ Tail(s) \in Seq(Entries) /\ Head(s) \in Entries
           /\ Counts(Tail(s), c - counted[Head(s)], p - weight[Head(s)])
           /\ c - counted[Head(s)] \in Nat /\ p - weight[Head(s)] \in Nat
           /\ Shown(s) = Then(PiecesOf(Head(s)), Shown(Tail(s)))
<1>0. Tail(s) \in Seq(Entries) /\ Head(s) \in Entries
  BY HeadTailProperties
<1>1. /\ Map(s, counted) \in Seq(Nat) /\ Map(s, weight) \in Seq(Nat)
      /\ Map(s, pieces) \in Seq(Seq(PieceSet))
  BY EntryFunctions, MapIsASeq
<1>2. /\ Map(s, counted) # <<>> /\ Map(Tail(s), counted) = Tail(Map(s, counted))
      /\ Head(Map(s, counted)) = counted[Head(s)]
  <2>1. Map(s, counted) # <<>>
    BY EntryFunctions, MapTail, Zenon
  <2>2. Map(Tail(s), counted) = Tail(Map(s, counted))
    BY EntryFunctions, MapTail, Zenon
  <2>3. Head(Map(s, counted)) = counted[Head(s)]
    <3>1. IsMap(Map(s, counted), s, counted)
      BY EntryFunctions, MapIsASeq
    <3>2. Len(s) \in Nat /\ Len(s) > 0
      BY LenProperties, EmptySeq
    <3>3. Head(Map(s, counted)) = Map(s, counted)[1] /\ Head(s) = s[1]
      OBVIOUS
    <3> QED
      BY <3>1, <3>2, <3>3 DEF IsMap
  <2> QED
    BY <2>1, <2>2, <2>3
<1>3. /\ Map(s, weight) # <<>> /\ Map(Tail(s), weight) = Tail(Map(s, weight))
      /\ Head(Map(s, weight)) = weight[Head(s)]
  <2>1. Map(s, weight) # <<>>
    BY EntryFunctions, MapTail, Zenon
  <2>2. Map(Tail(s), weight) = Tail(Map(s, weight))
    BY EntryFunctions, MapTail, Zenon
  <2>3. Head(Map(s, weight)) = weight[Head(s)]
    <3>1. IsMap(Map(s, weight), s, weight)
      BY EntryFunctions, MapIsASeq
    <3>2. Len(s) \in Nat /\ Len(s) > 0
      BY LenProperties, EmptySeq
    <3>3. Head(Map(s, weight)) = Map(s, weight)[1] /\ Head(s) = s[1]
      OBVIOUS
    <3> QED
      BY <3>1, <3>2, <3>3 DEF IsMap
  <2> QED
    BY <2>1, <2>2, <2>3
<1>4. /\ Map(s, pieces) # <<>> /\ Map(Tail(s), pieces) = Tail(Map(s, pieces))
      /\ Head(Map(s, pieces)) = pieces[Head(s)]
  <2>1. Map(s, pieces) # <<>>
    BY EntryFunctions, MapTail, Zenon
  <2>2. Map(Tail(s), pieces) = Tail(Map(s, pieces))
    BY EntryFunctions, MapTail, Zenon
  <2>3. Head(Map(s, pieces)) = pieces[Head(s)]
    <3>1. IsMap(Map(s, pieces), s, pieces)
      BY EntryFunctions, MapIsASeq
    <3>2. Len(s) \in Nat /\ Len(s) > 0
      BY LenProperties, EmptySeq
    <3>3. Head(Map(s, pieces)) = Map(s, pieces)[1] /\ Head(s) = s[1]
      OBVIOUS
    <3> QED
      BY <3>1, <3>2, <3>3 DEF IsMap
  <2> QED
    BY <2>1, <2>2, <2>3
<1>5. /\ AddsUp(Map(Tail(s), counted), c - counted[Head(s)])
      /\ c - counted[Head(s)] \in Nat
  BY <1>1, <1>2, TailAddsUp DEF Counts
<1>6. /\ AddsUp(Map(Tail(s), weight), p - weight[Head(s)])
      /\ p - weight[Head(s)] \in Nat
  BY <1>1, <1>3, TailAddsUp DEF Counts
<1>7. FlattenSeq(Map(s, pieces))
        = Then(Head(Map(s, pieces)), FlattenSeq(Tail(Map(s, pieces))))
  BY <1>1, <1>4, FlattenTail
<1>8. pieces[Head(s)] = PiecesOf(Head(s))
  BY <1>0, EntryValues
<1> QED
  BY <1>0, <1>4, <1>5, <1>6, <1>7, <1>8 DEF Counts, Shown

\* The pieces of an entry with one fragment more.
LEMMA PiecesJoin ==
    ASSUME NEW e \in Entries, e.kind = "text", NEW no \in Nat,
           NEW d \in Entries, d.kind = "text", d.node = e.node, d.nos = Append(e.nos, no)
    PROVE  PiecesOf(d) = Then(PiecesOf(e), <<[writer |-> e.node, kind |-> "text", no |-> no]>>)
<1> DEFINE piece == [writer |-> e.node, kind |-> "text", no |-> no]
           n == Len(e.nos)
           r == PiecesOf(e)
           q == PiecesOf(d)
<1>1. /\ r \in Seq(PieceSet) /\ Len(r) = n /\ n \in Nat
      /\ \A j \in 1..n : r[j] =
           [writer |-> e.node, kind |-> IF e.kind = "text" THEN "text" ELSE "event",
            no |-> e.nos[j]]
  BY PiecesAreASeq
<1>2. /\ q \in Seq(PieceSet) /\ Len(q) = Len(d.nos)
      /\ \A j \in 1..Len(d.nos) : q[j] =
           [writer |-> d.node, kind |-> IF d.kind = "text" THEN "text" ELSE "event",
            no |-> d.nos[j]]
  BY PiecesAreASeq
<1>3. /\ Len(d.nos) = n + 1 /\ d.nos[n + 1] = no /\ \A j \in 1..n : d.nos[j] = e.nos[j]
  <2>1. e.nos \in Seq(Nat)
    BY DEF Entries
  <2> QED
    BY <2>1, AppendProperties
<1>4. piece \in PieceSet
  BY DEF Entries, PieceSet
<1> HIDE DEF piece, n, r, q
<1> DEFINE t == Append(r, piece)
<1>5. /\ t \in Seq(PieceSet) /\ Len(t) = n + 1 /\ t[n + 1] = piece
      /\ \A j \in 1..n : t[j] = r[j]
  BY <1>1, <1>4, AppendProperties
<1>6. t = Then(r, <<piece>>)
  BY <1>1, <1>4, AppendIsConcat DEF Then
<1> HIDE DEF t
<1>7. ASSUME NEW j \in 1..(n + 1)
      PROVE  q[j] = t[j]
  <2>1. CASE j = n + 1
    <3>1. q[j] = [writer |-> e.node, kind |-> "text", no |-> no]
      BY <1>1, <1>2, <1>3, <2>1
    <3> QED
      BY <1>5, <2>1, <3>1 DEF piece
  <2>2. CASE j # n + 1
    <3>1. j \in 1..n
      BY <1>1, <2>2
    <3>2. /\ q[j] = [writer |-> e.node, kind |-> "text", no |-> e.nos[j]]
          /\ r[j] = [writer |-> e.node, kind |-> "text", no |-> e.nos[j]]
      BY <1>1, <1>2, <1>3, <3>1
    <3> QED
      BY <1>5, <3>1, <3>2
  <2> QED
    BY <2>1, <2>2
<1>8. q = t
  <2>1. Len(q) = n + 1 /\ Len(t) = n + 1 /\ q \in Seq(PieceSet) /\ t \in Seq(PieceSet)
    BY <1>2, <1>3, <1>5
  <2>2. \A j \in 1..Len(q) : q[j] = t[j]
    BY <1>7, <2>1
  <2> QED
    BY <2>1, <2>2, SeqEqual
<1> QED
  BY <1>6, <1>8 DEF q, r, piece

\* A fragment of the node of the last entry, and the entry it makes of it.
Joinable(s, c, p, e, no, chars, d) ==
    /\ s \in Seq(Entries) /\ s # <<>> /\ Counts(s, c, p)
    /\ e \in Entries /\ e = s[Len(s)] /\ e.kind = "text"
    /\ no \in Nat /\ chars \in Nat
    /\ d \in Entries /\ d.kind = "text" /\ d.node = e.node
    /\ d.nos = Append(e.nos, no) /\ d.chars = e.chars + chars

\* It joins it, and the client will see it at the end.
LEMMA QueueJoin ==
    ASSUME NEW s, NEW c, NEW p, NEW e, NEW no, NEW chars, NEW d,
           Joinable(s, c, p, e, no, chars, d), NEW t, t = SetLast(s, d)
    PROVE  /\ t \in Seq(Entries) /\ t # <<>>
           /\ Counts(t, c, p + chars)
           /\ Shown(t) = Then(Shown(s), <<[writer |-> e.node, kind |-> "text", no |-> no]>>)
<1> DEFINE n == Len(s)
           w == Map(s, weight)
           u == Map(s, counted)
<1>0. /\ s \in Seq(Entries) /\ s # <<>> /\ Counts(s, c, p)
      /\ e \in Entries /\ e = s[Len(s)] /\ e.kind = "text"
      /\ no \in Nat /\ chars \in Nat
      /\ d \in Entries /\ d.kind = "text" /\ d.node = e.node
      /\ d.nos = Append(e.nos, no) /\ d.chars = e.chars + chars
  BY DEF Joinable
<1> USE <1>0
<1>1. n \in Nat /\ n > 0
  BY LenProperties, EmptySeq
<1>2. /\ w \in Seq(Nat) /\ u \in Seq(Nat) /\ Map(s, pieces) \in Seq(Seq(PieceSet))
      /\ IsMap(w, s, weight) /\ IsMap(u, s, counted) /\ IsMap(Map(s, pieces), s, pieces)
  BY EntryFunctions, MapIsASeq
<1>3. t \in Seq(Entries) /\ Len(t) = n
  BY SetLastIsASeq
<1>4. t # <<>>
  BY <1>1, <1>3, EmptySeq
<1>5. Map(t, weight) = SetLast(w, weight[d]) /\ Map(t, counted) = SetLast(u, counted[d])
  <2>1. Map(t, weight) = SetLast(w, weight[d])
    BY ZenonT(60), EntryFunctions, MapLast
  <2>2. Map(t, counted) = SetLast(u, counted[d])
    BY ZenonT(60), EntryFunctions, MapLast
  <2> QED
    BY <2>1, <2>2
<1>6. Len(w) = n /\ Len(u) = n /\ w[n] = e.chars /\ u[n] = 0
  <2>1. weight[e] = e.chars /\ counted[e] = 0
    BY EntryValues
  <2> QED
    BY <1>1, <1>2, <2>1 DEF IsMap
<1>7. weight[d] = e.chars + chars /\ counted[d] = 0
  BY EntryValues
<1>8. w # <<>> /\ u # <<>>
  BY <1>1, <1>2, <1>6, EmptySeq
<1>9. AddsUp(w, p) /\ AddsUp(u, c)
  BY DEF Counts
<1>12. p \in Nat /\ c \in Nat
  <2>1. p \in Nat
    BY <1>2, <1>9, AppendAddsUp
  <2>2. c \in Nat
    BY <1>2, <1>9, AppendAddsUp
  <2> QED
    BY <2>1, <2>2
<1> HIDE DEF w, u, n
<1>10. AddsUp(Map(t, weight), p + chars)
  <2>1. AddsUp([w EXCEPT ![Len(w)] = @ + chars], p + chars)
    BY <1>2, <1>8, <1>9, LastAddsUp
  <2>2. [w EXCEPT ![Len(w)] = @ + chars] = SetLast(w, weight[d])
    BY <1>6, <1>7 DEF SetLast
  <2> QED
    BY <1>5, <2>1, <2>2
<1>11. AddsUp(Map(t, counted), c)
  <2>1. AddsUp([u EXCEPT ![Len(u)] = @ + 0], c + 0)
    BY <1>2, <1>8, <1>9, LastAddsUp
  <2>2. [u EXCEPT ![Len(u)] = @ + 0] = SetLast(u, counted[d]) /\ c + 0 = c
    BY <1>6, <1>7, <1>12 DEF SetLast
  <2> QED
    BY <1>5, <2>1, <2>2
<1>13. Shown(t) = Then(Shown(s), <<[writer |-> e.node, kind |-> "text", no |-> no]>>)
  <2> DEFINE piece == [writer |-> e.node, kind |-> "text", no |-> no]
             ss == Map(s, pieces)
             tt == Map(t, pieces)
  <2>1. <<piece>> \in Seq(PieceSet)
    <3>1. piece \in PieceSet
      BY DEF Entries, PieceSet
    <3> HIDE DEF piece
    <3> QED
      BY <3>1
  <2>2. pieces[d] = Then(pieces[e], <<piece>>)
    <3>1. PiecesOf(d) = Then(PiecesOf(e), <<piece>>)
      BY PiecesJoin
    <3> HIDE DEF piece
    <3> QED
      BY <3>1, EntryValues
  <2> HIDE DEF piece
  <2>3. tt = SetLast(ss, pieces[d])
    BY ZenonT(60), EntryFunctions, MapLast
  <2>4. Len(ss) = Len(s) /\ ss[Len(ss)] = pieces[e]
    BY <1>1, <1>2 DEF IsMap, n
  <2>5. ss # <<>>
    BY <1>1, <1>2, <2>4, EmptySeq DEF n
  <2> HIDE DEF ss, tt
  <2>6. tt = SetLast(ss, Then(ss[Len(ss)], <<piece>>))
    BY <2>2, <2>3, <2>4
  <2>7. ss \in Seq(Seq(PieceSet))
    BY <1>2 DEF ss
  <2>10. FlattenSeq(tt) = Then(FlattenSeq(ss), <<piece>>)
    BY <2>1, <2>5, <2>6, <2>7, FlattenLast, Zenon
  <2> QED
    BY <2>10 DEF Shown, piece, ss, tt
<1> QED
  BY <1>3, <1>4, <1>10, <1>11, <1>13 DEF Counts

\* Reading the first pieces leaves the others.
LEMMA SkipFirst ==
    ASSUME NEW S, NEW a \in Seq(S), NEW b \in Seq(S), NEW t, t = Then(a, b)
    PROVE  Len(t) = Len(a) + Len(b) /\ SubSeq(t, Len(a) + 1, Len(t)) = b
<1>1. Len(a) \in Nat /\ Len(b) \in Nat
  BY LenProperties
<1>2. /\ t \in Seq(S) /\ Len(t) = Len(a) + Len(b)
      /\ \A i \in 1..(Len(a) + Len(b)) : t[i] = IF i <= Len(a) THEN a[i] ELSE b[i - Len(a)]
  BY ConcatProperties DEF Then
<1> DEFINE m == Len(a) + 1
           n == Len(t)
           r == SubSeq(t, m, n)
<1>3. m \in Int /\ n \in Int /\ n - m + 1 = Len(b) /\ m \in Nat /\ m >= 1
  BY <1>1, <1>2
<1>4. \A i \in m..n : t[i] \in S
  BY <1>1, <1>2, <1>3, ElementOfSeq
<1>5. /\ r \in Seq(S)
      /\ Len(r) = IF m <= n THEN n - m + 1 ELSE 0
      /\ \A i \in 1..(n - m + 1) : r[i] = t[m + i - 1]
  <2> HIDE DEF m, n
  <2> QED
    BY <1>3, <1>4, SubSeqProperties
<1> HIDE DEF r
<1>6. Len(r) = Len(b)
  BY <1>1, <1>2, <1>5
<1>7. ASSUME NEW i \in 1..Len(b)
      PROVE  r[i] = b[i]
  <2>1. r[i] = t[Len(a) + i]
    <3>1. m + i - 1 = Len(a) + i /\ i \in 1..(n - m + 1)
      BY <1>1, <1>3
    <3> HIDE DEF m, n
    <3> QED
      BY <1>5, <3>1
  <2>2. t[Len(a) + i] = b[i]
    <3>1. Len(a) + i \in 1..(Len(a) + Len(b)) /\ ~ (Len(a) + i <= Len(a))
          /\ (Len(a) + i) - Len(a) = i
      BY <1>1
    <3> QED
      BY <1>2, <3>1
  <2> QED
    BY <2>1, <2>2
<1>8. r = b
  <2>1. \A i \in 1..Len(r) : r[i] = b[i]
    BY <1>6, <1>7
  <2> QED
    BY <1>5, <1>6, <2>1, SeqEqual
<1> QED
  BY <1>2, <1>8 DEF r

-----------------------------------------------------------------------------
(* The operations on the queue.                                            *)

\* The queue, its counters and its two events.
QueueInvariant ==
    /\ items \in Seq(Entries)
    /\ Counts(items, critical, pendingText)
    /\ arrived \in BOOLEAN
    /\ space \in BOOLEAN
    /\ arrived <=> items # <<>>
    /\ space <=> ~Full(critical, pendingText)

\* How many events and chunks every writer has put.
WrittenType == written \in [Writers -> [events : Nat, chunks : Nat]]

\* A fragment and an event, as the client will see them.
TextPiece(w, no) == [writer |-> w, kind |-> "text", no |-> no]
EventPiece(w, no) == [writer |-> w, kind |-> "event", no |-> no]

\* A sum is a natural number.
LEMMA CountsAreNumbers ==
    ASSUME NEW s \in Seq(Entries), NEW c, NEW p, Counts(s, c, p)
    PROVE  c \in Nat /\ p \in Nat
<1>1. Map(s, counted) \in Seq(Nat) /\ Map(s, weight) \in Seq(Nat)
  BY EntryFunctions, MapIsASeq
<1>2. AddsUp(Map(s, counted), c) /\ AddsUp(Map(s, weight), p)
  BY DEF Counts
<1>3. c \in Nat
  BY <1>1, <1>2, AppendAddsUp
<1>4. p \in Nat
  BY <1>1, <1>2, AppendAddsUp
<1> QED
  BY <1>3, <1>4

\* More never makes room, and less never fills.
LEMMA FullIsMonotone ==
    ASSUME NEW c \in Nat, NEW p \in Nat, NEW d \in Nat, NEW q \in Nat,
           c <= d, p <= q, Full(c, p)
    PROVE  Full(d, q)
BY BufferAssumption DEF Full

\* _after_append over a queue that has grown.
LEMMA AfterAppendKeepsTheEvents ==
    ASSUME QueueInvariant, AfterAppend, items' \in Seq(Entries), items' # <<>>,
           Counts(items', critical', pendingText'),
           critical <= critical', pendingText <= pendingText'
    PROVE  QueueInvariant' /\ (space' => space)
<1>1. /\ critical \in Nat /\ pendingText \in Nat
      /\ critical' \in Nat /\ pendingText' \in Nat
  BY CountsAreNumbers DEF QueueInvariant
<1>2. Full(critical, pendingText) => Full(critical', pendingText')
  BY <1>1, FullIsMonotone
<1>3. /\ arrived' = TRUE
      /\ space' = (space /\ ~Full(critical', pendingText'))
      /\ space <=> ~Full(critical, pendingText)
  BY DEF AfterAppend, QueueInvariant
<1>4. /\ arrived' \in BOOLEAN /\ (arrived' <=> items' # <<>>)
      /\ space' \in BOOLEAN
      /\ space' <=> ~Full(critical', pendingText')
      /\ space' => space
  BY <1>2, <1>3, Zenon
<1> QED
  BY <1>4, Zenon DEF QueueInvariant, Full

\* An entry of the queue.
LEMMA EntryType ==
    ASSUME NEW kind \in Kinds, NEW w \in Writers, NEW nos \in Seq(Nat) \ {<<>>},
           NEW chars \in 0..(ChunkLimit + MaxChars), NEW e, e = Entry(kind, w, nos, chars)
    PROVE  /\ e \in Entries
           /\ e.kind = kind /\ e.node = w /\ e.nos = nos /\ e.chars = chars
BY DEF Entries, Entry

\* A record with another third or fourth field.
LEMMA ThirdField ==
    ASSUME NEW A, NEW B, NEW C, NEW D, NEW e \in [kind : A, node : B, nos : C, chars : D],
           NEW nos
    PROVE  [e EXCEPT !.nos = nos]
             = [kind |-> e.kind, node |-> e.node, nos |-> nos, chars |-> e.chars]
OBVIOUS

\* The same of the fourth.
LEMMA FourthField ==
    ASSUME NEW A, NEW B, NEW C, NEW D, NEW e \in [kind : A, node : B, nos : C, chars : D],
           NEW chars
    PROVE  [e EXCEPT !.chars = chars]
             = [kind |-> e.kind, node |-> e.node, nos |-> e.nos, chars |-> chars]
OBVIOUS

\* A fragment more in an entry.
LEMMA EntryGrows ==
    ASSUME NEW e \in Entries, e.kind = "text", NEW nos \in Seq(Nat) \ {<<>>}, NEW chars
    PROVE  [e EXCEPT !.nos = nos, !.chars = chars] = Entry("text", e.node, nos, chars)
<1> DEFINE d == [e EXCEPT !.nos = nos]
<1>1. d = [kind |-> e.kind, node |-> e.node, nos |-> nos, chars |-> e.chars]
  BY ThirdField DEF Entries
<1>2. /\ e.kind \in Kinds /\ e.node \in Writers /\ e.chars \in 0..(ChunkLimit + MaxChars)
  BY DEF Entries
<1>3. d \in Entries /\ d.kind = e.kind /\ d.node = e.node /\ d.nos = nos
  BY <1>1, <1>2 DEF Entries
<1>4. [e EXCEPT !.nos = nos, !.chars = chars] = [d EXCEPT !.chars = chars]
  OBVIOUS
<1> HIDE DEF d
<1>5. [d EXCEPT !.chars = chars]
        = [kind |-> d.kind, node |-> d.node, nos |-> d.nos, chars |-> chars]
  BY <1>3, FourthField DEF Entries
<1> QED
  BY <1>3, <1>4, <1>5 DEF Entry

\* What an entry with one number shows.
LEMMA OnePiece ==
    ASSUME NEW kind \in Kinds, NEW w \in Writers, NEW no \in Nat, NEW chars
    PROVE  PiecesOf(Entry(kind, w, <<no>>, chars)) =
             << [writer |-> w, kind |-> IF kind = "text" THEN "text" ELSE "event", no |-> no] >>
BY DEF PiecesOf, Entry

\* A queued event.
LEMMA EventIsQueued ==
    ASSUME QueueInvariant, WrittenType, NEW n \in Nodes, AppendEvent(n)
    PROVE  /\ QueueInvariant' /\ (space' => space)
           /\ Shown(items') = Then(Shown(items), <<EventPiece(n, written[n].events + 1)>>)
<1> DEFINE no == written[n].events + 1
           e == Entry("event", n, <<no>>, 0)
<1>1. n \in Writers /\ no \in Nat
  BY DEF Writers, WrittenType
<1>2. e \in Entries /\ e.kind = "event" /\ e.chars = 0
  <2> DEFINE nos == <<no>>
  <2>1. nos \in Seq(Nat) \ {<<>>}
    BY <1>1
  <2>2. 0 \in 0..(ChunkLimit + MaxChars) /\ "event" \in Kinds
    BY BufferAssumption DEF Kinds
  <2>3. e = Entry("event", n, nos, 0)
    OBVIOUS
  <2> HIDE DEF no, nos, e
  <2> QED
    BY <1>1, <2>1, <2>2, <2>3, EntryType
<1>3. PiecesOf(e) = <<EventPiece(n, no)>>
  <2>1. "event" \in Kinds
    BY DEF Kinds
  <2> HIDE DEF no
  <2>2. PiecesOf(e) =
          << [writer |-> n, kind |-> IF "event" = "text" THEN "text" ELSE "event", no |-> no] >>
    BY <1>1, <2>1, OnePiece
  <2> QED
    BY <2>2 DEF EventPiece
<1>4. /\ items' = Append(items, e) /\ critical' = critical + 1 /\ pendingText' = pendingText
      /\ AfterAppend
  BY DEF AppendEvent
<1> HIDE DEF e, no
<1>5. counted[e] = 1 /\ weight[e] = 0
  BY <1>2, EntryValues
<1>6. /\ items' \in Seq(Entries) /\ items' # <<>>
      /\ Counts(items', critical + counted[e], pendingText + weight[e])
      /\ critical \in Nat /\ pendingText \in Nat
      /\ Shown(items') = Then(Shown(items), PiecesOf(e))
  BY <1>2, <1>4, QueueAppend DEF QueueInvariant
<1>7. Counts(items', critical', pendingText')
  <2>1. critical' = critical + counted[e] /\ pendingText' = pendingText + weight[e]
    BY <1>4, <1>5, <1>6
  <2> QED
    BY <1>6, <2>1
<1>8. critical <= critical' /\ pendingText <= pendingText'
  BY <1>4, <1>6
<1> QED
  BY <1>3, <1>4, <1>6, <1>7, <1>8, AfterAppendKeepsTheEvents DEF no

\* A queued fragment, in an entry of its own or in the last one.
LEMMA TextIsQueued ==
    ASSUME QueueInvariant, WrittenType, NEW n \in Nodes, NEW chars \in 0..MaxChars,
           AppendText(n, chars)
    PROVE  /\ QueueInvariant' /\ (space' => space)
           /\ Shown(items') = Then(Shown(items), <<TextPiece(n, written[n].chunks + 1)>>)
<1> DEFINE no == written[n].chunks + 1
           new == Entry("text", n, <<no>>, chars)
<1>1. n \in Writers /\ no \in Nat /\ chars \in Nat
  BY BufferAssumption DEF Writers, WrittenType
<1>2. /\ pendingText' = pendingText + chars /\ critical' = critical /\ AfterAppend
      /\ ~Joins(n, chars) => items' = Append(items, new)
      /\ Joins(n, chars) => items' = [items EXCEPT ![Len(items)].nos = Append(@, no),
                                                   ![Len(items)].chars = @ + chars]
  BY DEF AppendText
<1>3. critical \in Nat /\ pendingText \in Nat
  BY CountsAreNumbers DEF QueueInvariant
<1> SUFFICES /\ items' \in Seq(Entries) /\ items' # <<>>
             /\ Counts(items', critical, pendingText + chars)
             /\ Shown(items') = Then(Shown(items), <<TextPiece(n, no)>>)
  <2>1. Counts(items', critical', pendingText')
    BY <1>2
  <2>2. critical <= critical' /\ pendingText <= pendingText'
    BY <1>1, <1>2, <1>3
  <2> QED
    BY <1>2, <2>1, <2>2, AfterAppendKeepsTheEvents
<1> HIDE DEF no
<1>4. CASE ~Joins(n, chars)
  <2>1. new \in Entries /\ new.kind = "text" /\ new.chars = chars
    <3> DEFINE nos == <<no>>
    <3>1. nos \in Seq(Nat) \ {<<>>}
      BY <1>1
    <3>2. chars \in 0..(ChunkLimit + MaxChars) /\ "text" \in Kinds
      BY <1>1, BufferAssumption DEF Kinds
    <3>3. new = Entry("text", n, nos, chars)
      OBVIOUS
    <3> HIDE DEF nos, new
    <3> QED
      BY <1>1, <3>1, <3>2, <3>3, EntryType
  <2>2. PiecesOf(new) = <<TextPiece(n, no)>>
    <3>1. "text" \in Kinds
      BY DEF Kinds
    <3>2. PiecesOf(new) =
            << [writer |-> n, kind |-> IF "text" = "text" THEN "text" ELSE "event", no |-> no] >>
      BY <1>1, <3>1, OnePiece
    <3> QED
      BY <3>2 DEF TextPiece
  <2>3. items' = Append(items, new)
    BY <1>2, <1>4
  <2> HIDE DEF new
  <2>4. counted[new] = 0 /\ weight[new] = chars
    BY <2>1, EntryValues
  <2>5. /\ items' \in Seq(Entries) /\ items' # <<>>
        /\ Counts(items', critical + counted[new], pendingText + weight[new])
        /\ Shown(items') = Then(Shown(items), PiecesOf(new))
    BY <2>1, <2>3, QueueAppend DEF QueueInvariant
  <2>6. critical + counted[new] = critical /\ pendingText + weight[new] = pendingText + chars
    BY <1>3, <2>4
  <2> QED
    BY <2>2, <2>5, <2>6
<1>5. CASE Joins(n, chars)
  <2> DEFINE tail == items[Len(items)]
             nos == Append(tail.nos, no)
             size == tail.chars + chars
             grown == Entry("text", n, nos, size)
  <2>1. items \in Seq(Entries) /\ items # <<>> /\ Counts(items, critical, pendingText)
    BY <1>5 DEF Joins, QueueInvariant
  <2>2. Len(items) \in 1..Len(items)
    <3>1. Len(items) \in Nat /\ Len(items) # 0
      BY <2>1, LenProperties, EmptySeq
    <3> QED
      BY <3>1
  <2>3. tail \in Entries
    BY <2>1, <2>2, ElementOfSeq
  <2>4. tail.kind = "text" /\ tail.node = n /\ tail.chars + chars <= ChunkLimit
    BY <1>5 DEF Joins, Last
  <2>9. tail = items[Len(items)]
    OBVIOUS
  <2>10. tail.nos \in Seq(Nat) /\ tail.chars \in 0..(ChunkLimit + MaxChars)
    BY <2>3 DEF Entries
  <2>11. nos \in Seq(Nat) \ {<<>>}
    <3> DEFINE old == tail.nos
    <3>1. old \in Seq(Nat)
      BY <2>10
    <3> HIDE DEF old
    <3>2. Append(old, no) \in Seq(Nat) /\ Append(old, no) # <<>>
      BY <1>1, <3>1, AppendProperties
    <3> QED
      BY <3>2 DEF old
  <2>6. items' = SetLast(items, grown)
    <3>1. items' = [items EXCEPT ![Len(items)].nos = Append(@, no),
                                 ![Len(items)].chars = @ + chars]
      BY <1>2, <1>5
    <3>2. items \in [1..Len(items) -> Entries]
      BY <2>1, LenProperties
    <3>3. items' = [items EXCEPT ![Len(items)] =
                      [tail EXCEPT !.nos = Append(@, no), !.chars = @ + chars]]
      BY <2>2, <3>1, <3>2
    <3>4. [tail EXCEPT !.nos = Append(@, no), !.chars = @ + chars] = grown
      <4>1. [tail EXCEPT !.nos = nos, !.chars = size] = Entry("text", tail.node, nos, size)
        <5> HIDE DEF tail, nos, size
        <5> QED
          BY <2>3, <2>4, <2>11, EntryGrows
      <4>2. [tail EXCEPT !.nos = Append(@, no), !.chars = @ + chars]
              = [tail EXCEPT !.nos = nos, !.chars = size]
        <5> HIDE DEF tail
        <5> QED
          OBVIOUS
      <4> HIDE DEF tail, nos, size
      <4> QED
        BY <2>4, <4>1, <4>2
    <3> HIDE DEF grown, tail
    <3> QED
      BY <3>3, <3>4 DEF SetLast
  <2> HIDE DEF tail
  <2>12. size \in 0..(ChunkLimit + MaxChars) /\ "text" \in Kinds
    BY <1>1, <2>4, <2>10, BufferAssumption DEF Kinds
  <2>13. nos = Append(tail.nos, no) /\ size = tail.chars + chars
         /\ grown = Entry("text", n, nos, size)
    OBVIOUS
  <2> HIDE DEF grown, nos, size
  <2>14. /\ grown \in Entries /\ grown.kind = "text" /\ grown.node = n
         /\ grown.nos = nos /\ grown.chars = size
    BY <1>1, <2>11, <2>12, <2>13 DEF Entry, Entries
  <2>5. /\ grown \in Entries /\ grown.kind = "text" /\ grown.node = tail.node
        /\ grown.nos = Append(tail.nos, no) /\ grown.chars = tail.chars + chars
    BY <2>4, <2>13, <2>14
  <2>7. /\ items' \in Seq(Entries) /\ items' # <<>>
        /\ Counts(items', critical, pendingText + chars)
        /\ Shown(items') = Then(Shown(items), <<[writer |-> tail.node, kind |-> "text", no |-> no]>>)
    <3>1. tail.kind = "text" /\ no \in Nat /\ chars \in Nat
      BY <1>1, <2>4
    <3>2. Joinable(items, critical, pendingText, tail, no, chars, grown)
      BY <2>1, <2>3, <2>5, <2>9, <3>1 DEF Joinable
    <3>3. /\ items' \in Seq(Entries) /\ items' # <<>>
          /\ Counts(items', critical, pendingText + chars)
          /\ Shown(items') = Then(Shown(items),
                                  <<[writer |-> tail.node, kind |-> "text", no |-> no]>>)
      BY <2>6, <3>2, QueueJoin
    <3> QED
      BY <3>3
  <2>8. <<[writer |-> tail.node, kind |-> "text", no |-> no]>> = <<TextPiece(n, no)>>
    BY <2>4 DEF TextPiece
  <2> QED
    BY <2>7, <2>8
<1> QED
  BY <1>4, <1>5

\* The entries that end a response.
TerminalEntries(kinds) == [i \in 1..Len(kinds) |-> Entry(kinds[i], Workflow, <<i>>, 0)]

\* The two ways a response ends.
Endings == {<<"done">>, <<"error", "done">>}

\* A terminal entry counts for nothing and shows one event.
LEMMA TerminalEntryType ==
    ASSUME NEW kind \in Terminal, NEW no \in Nat, NEW e, e = Entry(kind, Workflow, <<no>>, 0)
    PROVE  /\ e \in Entries /\ counted[e] = 0 /\ weight[e] = 0
           /\ PiecesOf(e) = <<EventPiece(Workflow, no)>>
<1> DEFINE nos == <<no>>
<1>1. nos \in Seq(Nat) \ {<<>>}
  OBVIOUS
<1>2. kind \in Kinds /\ kind # "event" /\ kind # "text" /\ Workflow \in Writers
  BY DEF Kinds, Terminal, Writers
<1>3. 0 \in 0..(ChunkLimit + MaxChars)
  BY BufferAssumption
<1>4. e = Entry(kind, Workflow, nos, 0)
  OBVIOUS
<1>5. PiecesOf(e) = << [writer |-> Workflow, kind |-> IF kind = "text" THEN "text" ELSE "event",
                        no |-> no] >>
  BY <1>2, OnePiece
<1>6. PiecesOf(e) = <<EventPiece(Workflow, no)>>
  BY <1>2, <1>5 DEF EventPiece
<1> HIDE DEF nos
<1>7. e \in Entries /\ e.kind = kind /\ e.chars = 0
  BY <1>1, <1>2, <1>3, <1>4, EntryType
<1> QED
  BY <1>2, <1>6, <1>7, EntryValues

\* A terminal entry at the end of a queue.
LEMMA TerminalIsAppended ==
    ASSUME NEW kind \in Terminal, NEW no \in Nat, NEW s \in Seq(Entries), NEW c, NEW p,
           Counts(s, c, p), NEW e, e = Entry(kind, Workflow, <<no>>, 0)
    PROVE  /\ Append(s, e) \in Seq(Entries) /\ Append(s, e) # <<>>
           /\ Counts(Append(s, e), c, p)
           /\ Shown(Append(s, e)) = Then(Shown(s), <<EventPiece(Workflow, no)>>)
<1>1. /\ e \in Entries /\ counted[e] = 0 /\ weight[e] = 0
      /\ PiecesOf(e) = <<EventPiece(Workflow, no)>>
  BY TerminalEntryType
<1>2. /\ Append(s, e) \in Seq(Entries) /\ Append(s, e) # <<>>
      /\ Counts(Append(s, e), c + counted[e], p + weight[e])
      /\ c \in Nat /\ p \in Nat
      /\ Shown(Append(s, e)) = Then(Shown(s), PiecesOf(e))
  BY <1>1, QueueAppend
<1>3. c + counted[e] = c /\ p + weight[e] = p
  BY <1>1, <1>2
<1> QED
  BY <1>1, <1>2, <1>3

\* Two elements in a row.
LEMMA PairIsThen ==
    ASSUME NEW S, NEW a \in S, NEW b \in S
    PROVE  <<a>> \in Seq(S) /\ <<b>> \in Seq(S) /\ Then(<<a>>, <<b>>) = <<a, b>>
<1>1. <<a>> \in Seq(S) /\ <<b>> \in Seq(S) /\ <<a, b>> \in Seq(S)
  OBVIOUS
<1> DEFINE t == <<a>> \o <<b>>
<1>2. /\ t \in Seq(S) /\ Len(t) = Len(<<a>>) + Len(<<b>>)
      /\ \A i \in 1..(Len(<<a>>) + Len(<<b>>)) : t[i] =
            IF i <= Len(<<a>>) THEN <<a>>[i] ELSE <<b>>[i - Len(<<a>>)]
  BY <1>1, ConcatProperties
<1>3. Len(<<a>>) = 1 /\ Len(<<b>>) = 1 /\ Len(<<a, b>>) = 2
  OBVIOUS
<1> HIDE DEF t
<1>4. Len(t) = 2 /\ t[1] = a /\ t[2] = b
  BY <1>2, <1>3
<1>5. \A i \in 1..Len(t) : t[i] = <<a, b>>[i]
  BY <1>4
<1>6. t = <<a, b>>
  <2> DEFINE pair == <<a, b>>
  <2>1. /\ t \in Seq(S) /\ pair \in Seq(S) /\ Len(t) = Len(pair)
        /\ \A i \in 1..Len(t) : t[i] = pair[i]
    BY <1>1, <1>2, <1>3, <1>4, <1>5
  <2> HIDE DEF pair
  <2>2. t = pair
    BY <2>1, SeqEqual
  <2> QED
    BY <2>2 DEF pair
<1> QED
  BY <1>1, <1>6 DEF Then, t

\* One after the other is both at once.
LEMMA ThenTwice ==
    ASSUME NEW S, NEW s \in Seq(S), NEW a \in S, NEW b \in S
    PROVE  Then(Then(s, <<a>>), <<b>>) = Then(s, <<a, b>>)
<1> DEFINE x == <<a>>
           y == <<b>>
<1>1. x \in Seq(S) /\ y \in Seq(S) /\ Then(x, y) = <<a, b>>
  BY PairIsThen
<1> HIDE DEF x, y
<1>2. Then(Then(s, x), y) = Then(s, Then(x, y))
  <2>1. x \in Seq(S) /\ y \in Seq(S)
    BY <1>1
  <2> QED
    BY <2>1, ThenIsAssociative
<1>3. Then(Then(s, x), y) = Then(s, <<a, b>>)
  BY <1>1, <1>2
<1> QED
  BY <1>3 DEF x, y

\* The end of a response: one or two terminal events, numbered from one.
LEMMA EndIsQueued ==
    ASSUME QueueInvariant, NEW kinds \in Endings, AppendTerminal(kinds)
    PROVE  /\ QueueInvariant' /\ (space' => space)
           /\ Len(kinds) \in 1..2
           /\ Shown(items') = Then(Shown(items),
                                   [j \in 1..Len(kinds) |-> EventPiece(Workflow, j)])
<1>1. /\ items' = items \o TerminalEntries(kinds)
      /\ critical' = critical /\ pendingText' = pendingText /\ AfterAppend
  BY DEF AppendTerminal, TerminalEntries
<1>2. items \in Seq(Entries) /\ Counts(items, critical, pendingText)
      /\ Shown(items) \in Seq(PieceSet)
  BY QueueShows DEF QueueInvariant
<1>3. critical \in Nat /\ pendingText \in Nat
  BY <1>2, CountsAreNumbers
<1> SUFFICES /\ items' \in Seq(Entries) /\ items' # <<>>
             /\ Counts(items', critical, pendingText)
             /\ Len(kinds) \in 1..2
             /\ Shown(items') = Then(Shown(items),
                                     [j \in 1..Len(kinds) |-> EventPiece(Workflow, j)])
  <2>1. Counts(items', critical', pendingText')
    BY <1>1
  <2>2. critical <= critical' /\ pendingText <= pendingText'
    BY <1>1, <1>3
  <2> QED
    BY <1>1, <2>1, <2>2, AfterAppendKeepsTheEvents
<1>4. "done" \in Terminal /\ "error" \in Terminal
  BY DEF Terminal
<1>5. CASE kinds = <<"done">>
  <2> DEFINE e == Entry("done", Workflow, <<1>>, 0)
  <2>1. TerminalEntries(kinds) = <<e>>
    BY <1>5 DEF TerminalEntries
  <2>2. /\ Append(items, e) \in Seq(Entries) /\ Append(items, e) # <<>>
        /\ Counts(Append(items, e), critical, pendingText)
        /\ Shown(Append(items, e)) = Then(Shown(items), <<EventPiece(Workflow, 1)>>)
    BY <1>2, <1>4, TerminalIsAppended
  <2>3. e \in Entries
    BY <1>4, TerminalEntryType
  <2> HIDE DEF e
  <2>4. items' = Append(items, e)
    BY <1>1, <1>2, <2>1, <2>3, AppendIsConcat
  <2>5. [j \in 1..Len(kinds) |-> EventPiece(Workflow, j)] = <<EventPiece(Workflow, 1)>>
    BY <1>5
  <2>6. Len(kinds) \in 1..2
    BY <1>5
  <2> QED
    BY <2>2, <2>4, <2>5, <2>6
<1>6. CASE kinds = <<"error", "done">>
  <2> DEFINE e == Entry("error", Workflow, <<1>>, 0)
             d == Entry("done", Workflow, <<2>>, 0)
             mid == Append(items, e)
             a == EventPiece(Workflow, 1)
             b == EventPiece(Workflow, 2)
  <2>1. TerminalEntries(kinds) = <<e, d>>
    BY <1>6 DEF TerminalEntries
  <2>2. /\ mid \in Seq(Entries) /\ Counts(mid, critical, pendingText)
        /\ Shown(mid) = Then(Shown(items), <<a>>)
    BY <1>2, <1>4, TerminalIsAppended
  <2>3. e \in Entries /\ d \in Entries
    BY <1>4, TerminalEntryType
  <2> HIDE DEF mid, e
  <2>4. /\ Append(mid, d) \in Seq(Entries) /\ Append(mid, d) # <<>>
        /\ Counts(Append(mid, d), critical, pendingText)
        /\ Shown(Append(mid, d)) = Then(Shown(mid), <<b>>)
    BY <1>4, <2>2, TerminalIsAppended
  <2> HIDE DEF d
  <2>5. items' = Append(mid, d)
    <3>1. mid = Then(items, <<e>>) /\ Append(mid, d) = Then(mid, <<d>>)
      <4>1. Append(items, e) = Then(items, <<e>>)
        BY <1>2, <2>3, AppendIsConcat DEF Then
      <4>2. Append(mid, d) = Then(mid, <<d>>)
        BY <2>2, <2>3, AppendIsConcat DEF Then
      <4> QED
        BY <4>1, <4>2 DEF mid
    <3>3. Then(Then(items, <<e>>), <<d>>) = Then(items, <<e, d>>)
      BY <1>2, <2>3, ThenTwice
    <3> QED
      BY <1>1, <2>1, <3>1, <3>3 DEF Then
  <2>6. [j \in 1..Len(kinds) |-> EventPiece(Workflow, j)] = <<a, b>>
    BY <1>6
  <2>7. a \in PieceSet /\ b \in PieceSet
    BY DEF EventPiece, PieceSet, Writers
  <2> HIDE DEF a, b
  <2>8. Then(Then(Shown(items), <<a>>), <<b>>) = Then(Shown(items), <<a, b>>)
    BY <1>2, <2>7, ThenTwice
  <2>9. Len(kinds) \in 1..2
    BY <1>6
  <2> QED
    BY <2>2, <2>4, <2>5, <2>6, <2>8, <2>9
<1> QED
  BY <1>5, <1>6 DEF Endings

\* get: the oldest entry leaves the queue, and room is told to who waits for it.
LEMMA HeadIsTaken ==
    ASSUME QueueInvariant, items # <<>>, TakeHead
    PROVE  /\ QueueInvariant' /\ (space => space')
           /\ Head(items) \in Entries
           /\ Shown(items) = Then(PiecesOf(Head(items)), Shown(items'))
<1> DEFINE head == Head(items)
<1>1. items \in Seq(Entries) /\ Counts(items, critical, pendingText)
  BY DEF QueueInvariant
<1>2. /\ items' = Tail(items)
      /\ pendingText' = pendingText - head.chars
      /\ critical' = critical - (IF head.kind = "event" THEN 1 ELSE 0)
      /\ space' = (space \/ ~Full(critical', pendingText'))
      /\ arrived' = (items' # <<>>)
  BY DEF TakeHead
<1>3. /\ Tail(items) \in Seq(Entries) /\ head \in Entries
      /\ Counts(Tail(items), critical - counted[head], pendingText - weight[head])
      /\ critical - counted[head] \in Nat /\ pendingText - weight[head] \in Nat
      /\ Shown(items) = Then(PiecesOf(head), Shown(Tail(items)))
  BY <1>1, QueueTail
<1> HIDE DEF head
<1>4. /\ weight[head] = head.chars
      /\ counted[head] = IF head.kind = "event" THEN 1 ELSE 0
      /\ weight[head] \in Nat /\ counted[head] \in Nat
  BY <1>3, EntryValues, EntryFunctions
<1>5. critical' = critical - counted[head] /\ pendingText' = pendingText - weight[head]
  BY <1>2, <1>4
<1>6. Counts(items', critical', pendingText') /\ items' \in Seq(Entries)
  BY <1>2, <1>3, <1>5
<1>7. critical \in Nat /\ pendingText \in Nat
  BY <1>1, CountsAreNumbers
<1>8. critical' \in Nat /\ pendingText' \in Nat
      /\ critical' <= critical /\ pendingText' <= pendingText
  BY <1>3, <1>4, <1>5, <1>7
<1>9. Full(critical', pendingText') => Full(critical, pendingText)
  BY <1>7, <1>8, FullIsMonotone
<1>10. /\ arrived' \in BOOLEAN /\ (arrived' <=> items' # <<>>)
       /\ space' \in BOOLEAN /\ (space' <=> ~Full(critical', pendingText'))
       /\ space => space'
  <2>1. space \in BOOLEAN /\ (space <=> ~Full(critical, pendingText))
    BY DEF QueueInvariant
  <2> QED
    BY <1>2, <1>9, <2>1, Zenon
<1>11. QueueInvariant'
  BY <1>6, <1>10, Zenon DEF QueueInvariant, Full
<1> QED
  BY <1>2, <1>3, <1>10, <1>11 DEF head

-----------------------------------------------------------------------------
(* The inductive invariant.                                                *)

\* The puts that wait, and none of them for room that is there.
Producers ==
    /\ put \in [Nodes -> [state : {"none", "waiting", "woken"}, chars : 0..MaxChars]]
    /\ \A n \in Nodes : put[n].state = "waiting" => ~space

\* The workflow puts its events when it ends, and then no node is inside a put.
Progress ==
    /\ WrittenType
    /\ stalled \in BOOLEAN
    /\ workflow \in {"running", "ended"}
    /\ reader \in ReaderStates
    /\ workflow = "running" => written[Workflow].events = 0
    /\ workflow = "ended" => \A n \in Nodes : put[n] = NoPut

\* The inductive invariant.
BufferInvariant == QueueInvariant /\ Producers /\ Progress

\* It says what the two invariants of the model say.
LEMMA InvariantHolds == BufferInvariant => TypeOK /\ NoLostWakeup
<1> SUFFICES ASSUME BufferInvariant PROVE TypeOK /\ NoLostWakeup
  OBVIOUS
<1>1. critical \in Nat /\ pendingText \in Nat
  BY CountsAreNumbers DEF BufferInvariant, QueueInvariant
<1>2. ASSUME NEW i \in 1..Len(items)
      PROVE  /\ items[i].kind \in {"text", "event"} \union Terminal
             /\ items[i].chars \in 0..ChunkLimit + MaxChars
             /\ items[i].node \in Writers
             /\ items[i].nos # <<>>
  <2>1. items[i] \in Entries
    BY ElementOfSeq DEF BufferInvariant, QueueInvariant
  <2> QED
    BY <2>1 DEF Entries, Kinds
<1>3. NoLostWakeup
  BY Zenon DEF BufferInvariant, QueueInvariant, Producers, NoLostWakeup
<1> QED
  BY <1>1, <1>2, <1>3
  DEF TypeOK, BufferInvariant, QueueInvariant, Producers, Progress, WrittenType

\* It holds of an empty buffer.
LEMMA InitialInvariant == Init => BufferInvariant
<1> SUFFICES ASSUME Init PROVE BufferInvariant
  OBVIOUS
<1>1. items = <<>> /\ critical = 0 /\ pendingText = 0 /\ arrived = FALSE /\ space = TRUE
  BY DEF Init
<1>2. QueueInvariant
  <2>1. ~Full(0, 0)
    BY BufferAssumption DEF Full
  <2>2. arrived \in BOOLEAN /\ space \in BOOLEAN /\ (arrived <=> items # <<>>)
    BY <1>1
  <2> QED
    BY <1>1, <2>1, <2>2, EmptyQueue DEF QueueInvariant
<1>3. Producers
  BY BufferAssumption DEF Init, Producers, NoPut
<1>4. Progress
  BY DEF Init, Progress, WrittenType, ReaderStates, Writers
<1> QED
  BY <1>2, <1>3, <1>4 DEF BufferInvariant

\* The waiting puts while the room does not grow.
LEMMA ProducersAreKept ==
    ASSUME Producers, space' => space, put' = put
    PROVE  Producers'
BY DEF Producers

\* A put returns.
LEMMA PutReturns ==
    ASSUME Producers, space' => space, NEW n \in Nodes, put' = [put EXCEPT ![n] = NoPut]
    PROVE  Producers'
<1>1. NoPut \in [state : {"none", "waiting", "woken"}, chars : 0..MaxChars]
      /\ NoPut.state # "waiting"
  BY BufferAssumption DEF NoPut
<1>2. put' \in [Nodes -> [state : {"none", "waiting", "woken"}, chars : 0..MaxChars]]
  BY <1>1 DEF Producers
<1>3. ASSUME NEW m \in Nodes, put'[m].state = "waiting"
      PROVE  ~space'
  <2>1. put'[m] = put[m]
    BY <1>1, <1>3 DEF Producers
  <2> QED
    BY <1>3, <2>1 DEF Producers
<1> QED
  BY <1>2, <1>3 DEF Producers

\* A put starts to wait, or runs on when the gate is open.
LEMMA PutWaits ==
    ASSUME Producers, space \in BOOLEAN, space' = space, NEW n \in Nodes,
           NEW chars \in 0..MaxChars, put' = [put EXCEPT ![n] = Waiting(chars)]
    PROVE  Producers'
<1>1. /\ Waiting(chars) \in [state : {"none", "waiting", "woken"}, chars : 0..MaxChars]
      /\ Waiting(chars).state = "waiting" => ~space
  BY DEF Waiting
<1>2. put' \in [Nodes -> [state : {"none", "waiting", "woken"}, chars : 0..MaxChars]]
  BY <1>1 DEF Producers
<1>3. ASSUME NEW m \in Nodes, put'[m].state = "waiting"
      PROVE  ~space'
  <2>1. put'[m] = IF m = n THEN Waiting(chars) ELSE put[m]
    BY DEF Producers
  <2> QED
    BY <1>1, <1>3, <2>1 DEF Producers
<1> QED
  BY <1>2, <1>3 DEF Producers

\* No node is inside a put any more.
LEMMA AllPutsReturn ==
    ASSUME put' = [n \in Nodes |-> NoPut]
    PROVE  Producers' /\ \A n \in Nodes : put'[n] = NoPut
BY BufferAssumption DEF Producers, NoPut

\* get wakes every put that waits once there is room.
LEMMA PutsAreWoken ==
    ASSUME Producers, space \in BOOLEAN, space' \in BOOLEAN, space => space', TakeHead
    PROVE  /\ Producers'
           /\ \A n \in Nodes : put[n] = NoPut => put'[n] = NoPut
<1>1. put' = [n \in Nodes |-> IF put[n].state = "waiting" /\ space'
                              THEN [put[n] EXCEPT !.state = "woken"] ELSE put[n]]
  BY DEF TakeHead
<1>2. ASSUME NEW n \in Nodes
      PROVE  /\ put'[n] \in [state : {"none", "waiting", "woken"}, chars : 0..MaxChars]
             /\ put'[n].state = "waiting" => ~space'
             /\ put[n] = NoPut => put'[n] = NoPut
  <2>1. put[n] \in [state : {"none", "waiting", "woken"}, chars : 0..MaxChars]
    BY DEF Producers
  <2>2. CASE put[n].state = "waiting" /\ space'
    <3>1. put'[n] = [put[n] EXCEPT !.state = "woken"]
      BY <1>1, <2>2
    <3> QED
      BY <2>1, <2>2, <3>1 DEF NoPut
  <2>3. CASE ~(put[n].state = "waiting" /\ space')
    <3>1. put'[n] = put[n]
      BY <1>1, <2>3
    <3> QED
      BY <2>1, <2>3, <3>1
  <2> QED
    BY <2>2, <2>3
<1> QED
  BY <1>1, <1>2 DEF Producers

\* What a node writes is counted under its own name.
LEMMA WrittenByANode ==
    ASSUME WrittenType, NEW n \in Nodes,
           \/ AppendEvent(n)
           \/ DropText(n)
           \/ \E chars \in 0..MaxChars : AppendText(n, chars)
    PROVE  WrittenType' /\ written'[Workflow] = written[Workflow]
<1>1. n \in Writers /\ Workflow \in Writers /\ n # Workflow
  BY BufferAssumption DEF Writers
<1>2. written[n].events + 1 \in Nat /\ written[n].chunks + 1 \in Nat
      /\ written[n] \in [events : Nat, chunks : Nat]
  BY <1>1 DEF WrittenType
<1>3. \/ written' = [written EXCEPT ![n].events = written[n].events + 1]
      \/ written' = [written EXCEPT ![n].chunks = written[n].chunks + 1]
  BY DEF AppendEvent, DropText, AppendText
<1> QED
  BY <1>1, <1>2, <1>3 DEF WrittenType

\* Nothing changes in the queue.
LEMMA QueueIsKept ==
    ASSUME QueueInvariant, UNCHANGED <<queueVars, space>>
    PROVE  QueueInvariant'
BY DEF QueueInvariant, queueVars, Full, Counts

\* A step of a node.
LEMMA ProgressOfANode ==
    ASSUME Progress, WrittenType', written'[Workflow] = written[Workflow],
           stalled' \in BOOLEAN, workflow = "running",
           workflow' = workflow, reader' = reader
    PROVE  Progress'
BY DEF Progress, WrittenType

\* The rest of a put, in time or not.
LEMMA FinishPutStep ==
    ASSUME BufferInvariant, NEW n \in Nodes, put[n] # NoPut,
           stalled' \in BOOLEAN, FinishPut(n)
    PROVE  BufferInvariant' /\ workflow = "running" /\ put[n].chars \in 0..MaxChars
<1>1. put[n].chars \in 0..MaxChars
  BY DEF BufferInvariant, Producers
<1>2. workflow = "running"
  BY DEF BufferInvariant, Progress
<1>3. put' = [put EXCEPT ![n] = NoPut] /\ workflow' = workflow /\ reader' = reader
  BY DEF FinishPut
<1>4. /\ QueueInvariant /\ WrittenType /\ Producers /\ Progress
  BY DEF BufferInvariant, Progress
<1>5. QueueInvariant' /\ (space' => space) /\ WrittenType'
      /\ written'[Workflow] = written[Workflow]
  <2>1. CASE AppendEvent(n)
    BY <1>4, <2>1, EventIsQueued, WrittenByANode
  <2>2. CASE AppendText(n, put[n].chars)
    BY <1>1, <1>4, <2>2, TextIsQueued, WrittenByANode
  <2>3. CASE DropText(n)
    <3>1. UNCHANGED <<queueVars, space>>
      BY <2>3 DEF DropText
    <3> QED
      BY <1>4, <2>3, <3>1, QueueIsKept, WrittenByANode
  <2> QED
    BY <2>1, <2>2, <2>3 DEF FinishPut
<1>6. Producers'
  BY <1>3, <1>4, <1>5, PutReturns
<1>7. Progress'
  BY <1>2, <1>3, <1>4, <1>5, ProgressOfANode
<1> QED
  BY <1>1, <1>2, <1>5, <1>6, <1>7 DEF BufferInvariant

\* An event is put: queued at once, or after a wait.
LEMMA PutEventStep ==
    ASSUME BufferInvariant, NEW n \in Nodes, PutEvent(n)
    PROVE  BufferInvariant'
<1>1. /\ QueueInvariant /\ WrittenType /\ Producers /\ Progress /\ space \in BOOLEAN
  BY DEF BufferInvariant, Progress, QueueInvariant
<1>2. /\ workflow = "running" /\ workflow' = workflow /\ reader' = reader
      /\ stalled' = stalled /\ stalled' \in BOOLEAN
  BY <1>1 DEF PutEvent, MayPut, Progress
<1>3. CASE critical >= CriticalLimit /\ ~stalled
  <2>1. /\ put' = [put EXCEPT ![n] = Waiting(0)]
        /\ UNCHANGED <<queueVars, space, written>>
    BY <1>3 DEF PutEvent
  <2>2. QueueInvariant'
    BY <1>1, <2>1, QueueIsKept
  <2>3. 0 \in 0..MaxChars /\ space' = space
    BY <2>1, BufferAssumption
  <2>4. Producers'
    BY <1>1, <2>1, <2>3, PutWaits
  <2>5. WrittenType' /\ written'[Workflow] = written[Workflow]
    BY <1>1, <2>1 DEF WrittenType
  <2> QED
    BY <1>1, <1>2, <2>2, <2>4, <2>5, ProgressOfANode DEF BufferInvariant
<1>4. CASE ~(critical >= CriticalLimit /\ ~stalled)
  <2>1. AppendEvent(n) /\ put' = put
    BY <1>4 DEF PutEvent
  <2>2. /\ QueueInvariant' /\ (space' => space)
        /\ WrittenType' /\ written'[Workflow] = written[Workflow]
    BY <1>1, <2>1, EventIsQueued, WrittenByANode
  <2>3. Producers'
    BY <1>1, <2>1, <2>2, ProducersAreKept
  <2> QED
    BY <1>1, <1>2, <2>2, <2>3, ProgressOfANode DEF BufferInvariant
<1> QED
  BY <1>3, <1>4

\* A fragment is put: queued, given up, or after a wait.
LEMMA PutTextStep ==
    ASSUME BufferInvariant, NEW n \in Nodes, PutText(n)
    PROVE  BufferInvariant'
<1>1. /\ QueueInvariant /\ WrittenType /\ Producers /\ Progress /\ space \in BOOLEAN
  BY DEF BufferInvariant, Progress, QueueInvariant
<1>2. /\ workflow = "running" /\ workflow' = workflow /\ reader' = reader
      /\ stalled' = stalled /\ stalled' \in BOOLEAN
  BY <1>1 DEF PutText, MayPut, Progress
<1>3. PICK chars \in 1..MaxChars :
        \/ AppendText(n, chars) /\ put' = put
        \/ DropText(n) /\ put' = put
        \/ /\ put' = [put EXCEPT ![n] = Waiting(chars)]
           /\ UNCHANGED <<queueVars, space, written>>
  BY DEF PutText
<1>4. chars \in 0..MaxChars
  BY <1>3, BufferAssumption
<1>5. CASE AppendText(n, chars) /\ put' = put
  <2>1. /\ QueueInvariant' /\ (space' => space)
        /\ WrittenType' /\ written'[Workflow] = written[Workflow]
    BY <1>1, <1>4, <1>5, TextIsQueued, WrittenByANode
  <2>2. Producers'
    BY <1>1, <1>5, <2>1, ProducersAreKept
  <2> QED
    BY <1>1, <1>2, <2>1, <2>2, ProgressOfANode DEF BufferInvariant
<1>6. CASE DropText(n) /\ put' = put
  <2>1. UNCHANGED <<queueVars, space>> /\ space' = space
    BY <1>6 DEF DropText
  <2>2. QueueInvariant' /\ WrittenType' /\ written'[Workflow] = written[Workflow]
    BY <1>1, <1>6, <2>1, QueueIsKept, WrittenByANode
  <2>3. Producers'
    BY <1>1, <1>6, <2>1, ProducersAreKept
  <2> QED
    BY <1>1, <1>2, <2>2, <2>3, ProgressOfANode DEF BufferInvariant
<1>7. CASE /\ put' = [put EXCEPT ![n] = Waiting(chars)]
           /\ UNCHANGED <<queueVars, space, written>>
  <2>1. QueueInvariant' /\ space' = space
    BY <1>1, <1>7, QueueIsKept
  <2>2. Producers'
    BY <1>1, <1>4, <1>7, <2>1, PutWaits
  <2>3. WrittenType' /\ written'[Workflow] = written[Workflow]
    BY <1>1, <1>7 DEF WrittenType
  <2> QED
    BY <1>1, <1>2, <2>1, <2>2, <2>3, ProgressOfANode DEF BufferInvariant
<1> QED
  BY <1>3, <1>5, <1>6, <1>7

\* The workflow ends, in one of its three ways.
LEMMA EndStep ==
    ASSUME BufferInvariant, NEW kinds \in Endings, AppendTerminal(kinds),
           \A n \in Nodes : put'[n] = NoPut,
           put' = put \/ put' = [n \in Nodes |-> NoPut], stalled' = stalled, reader' = reader
    PROVE  BufferInvariant'
<1>1. /\ QueueInvariant /\ WrittenType /\ Producers /\ Progress
  BY DEF BufferInvariant, Progress
<1>2. QueueInvariant' /\ (space' => space) /\ Len(kinds) \in 1..2
  BY <1>1, EndIsQueued
<1>3. Producers'
  BY <1>1, <1>2, ProducersAreKept, AllPutsReturn
<1>4. written' = [written EXCEPT ![Workflow].events = Len(kinds)] /\ workflow' = "ended"
  BY DEF AppendTerminal
<1>5. Progress'
  <2>1. Workflow \in Writers /\ Len(kinds) \in Nat
    BY <1>2 DEF Writers
  <2>2. WrittenType'
    BY <1>1, <1>4, <2>1 DEF WrittenType
  <2>3. /\ stalled' \in BOOLEAN /\ reader' \in ReaderStates
        /\ workflow' \in {"running", "ended"} /\ workflow' # "running"
    BY <1>1, <1>4 DEF Progress, ReaderStates
  <2> QED
    BY <2>2, <2>3 DEF Progress
<1> QED
  BY <1>2, <1>3, <1>5 DEF BufferInvariant

\* An entry is taken.
LEMMA TakeHeadStep ==
    ASSUME BufferInvariant, items # <<>>, TakeHead, UNCHANGED <<stalled, written, workflow>>
    PROVE  BufferInvariant'
<1>1. /\ QueueInvariant /\ Producers /\ Progress /\ space \in BOOLEAN
  BY DEF BufferInvariant, QueueInvariant
<1>2. QueueInvariant' /\ (space => space')
  BY <1>1, HeadIsTaken
<1>3. space' \in BOOLEAN
  BY <1>2 DEF QueueInvariant
<1>4. Producers' /\ \A n \in Nodes : put[n] = NoPut => put'[n] = NoPut
  BY <1>1, <1>2, <1>3, PutsAreWoken
<1>5. reader' \in ReaderStates
  BY DEF TakeHead, ReaderStates
<1>6. Progress'
  BY <1>1, <1>4, <1>5 DEF Progress, WrittenType
<1> QED
  BY <1>2, <1>4, <1>6 DEF BufferInvariant

\* The reader moves, and the queue does not.
LEMMA ReaderStep ==
    ASSUME BufferInvariant, UNCHANGED <<items, critical, pendingText, space>>,
           UNCHANGED <<stalled, put, written, workflow>>, reader' \in ReaderStates,
           arrived' = arrived \/ (items = <<>> /\ arrived' = FALSE)
    PROVE  BufferInvariant'
<1>1. QueueInvariant'
  <2>1. arrived' \in BOOLEAN /\ (arrived' <=> items' # <<>>)
    <3>1. items' = items /\ arrived \in BOOLEAN /\ (arrived <=> items # <<>>)
      BY DEF BufferInvariant, QueueInvariant
    <3>2. CASE arrived' = arrived
      BY <3>1, <3>2, Zenon
    <3>3. CASE items = <<>> /\ arrived' = FALSE
      BY <3>1, <3>3, Zenon
    <3> QED
      BY <3>2, <3>3
  <2> QED
    BY <2>1 DEF BufferInvariant, QueueInvariant, Full, Counts
<1>2. Producers' /\ Progress'
  BY DEF BufferInvariant, Producers, Progress, WrittenType
<1> QED
  BY <1>1, <1>2 DEF BufferInvariant

\* Every step keeps the invariant.
LEMMA InvariantStep ==
    ASSUME BufferInvariant, [Next]_vars
    PROVE  BufferInvariant'
<1>1. ASSUME NEW n \in Nodes, PutEvent(n) PROVE BufferInvariant'
  BY <1>1, PutEventStep
<1>2. ASSUME NEW n \in Nodes, PutText(n) PROVE BufferInvariant'
  BY <1>2, PutTextStep
<1>3. ASSUME NEW n \in Nodes, Resume(n) PROVE BufferInvariant'
  <2>1. put[n] # NoPut /\ stalled' \in BOOLEAN /\ FinishPut(n)
    BY <1>3 DEF Resume, NoPut, BufferInvariant, Progress
  <2> QED
    BY <2>1, FinishPutStep
<1>4. ASSUME NEW n \in Nodes, TimeOut(n) PROVE BufferInvariant'
  <2>1. put[n] # NoPut /\ stalled' \in BOOLEAN /\ FinishPut(n)
    BY <1>4 DEF TimeOut
  <2> QED
    BY <2>1, FinishPutStep
<1>5. CASE EndWorkflow
  BY <1>5, EndStep DEF EndWorkflow, Endings
<1>6. CASE FailWorkflow
  BY <1>6, EndStep, AllPutsReturn DEF FailWorkflow, Endings
<1>7. CASE CancelWorkflow
  BY <1>7, EndStep, AllPutsReturn DEF CancelWorkflow, Endings
<1>8. CASE GetNow
  BY <1>8, TakeHeadStep DEF GetNow
<1>9. CASE GetWoken
  <2>1. CASE items # <<>>
    BY <1>9, <2>1, TakeHeadStep DEF GetWoken
  <2>2. CASE items = <<>>
    BY <1>9, <2>2, ReaderStep DEF GetWoken, BufferInvariant, Progress
  <2> QED
    BY <2>1, <2>2
<1>10. CASE CloseStalled \/ GetWait \/ Heartbeat \/ Sent \/ Disconnect
  BY <1>10, ReaderStep DEF CloseStalled, GetWait, Heartbeat, Sent, Disconnect, queueVars, ReaderStates
<1>11. CASE UNCHANGED vars
  BY <1>11, ReaderStep DEF vars, BufferInvariant, Progress
<1> QED
  BY <1>1, <1>2, <1>3, <1>4, <1>5, <1>6, <1>7, <1>8, <1>9, <1>10, <1>11 DEF Next, Get

\* The invariant holds in every state.
LEMMA BufferIsInvariant == Spec => []BufferInvariant
<1>1. Init => BufferInvariant
  BY InitialInvariant
<1>2. BufferInvariant /\ [Next]_vars => BufferInvariant'
  BY InvariantStep
<1> QED
  BY <1>1, <1>2, PTL DEF Spec

\* The queue and its counters have their types: no counter goes below zero, however
\* the puts, the time-outs and the reads interleave.
THEOREM BufferTypeCorrect == Spec => []TypeOK
<1>1. BufferInvariant => TypeOK
  BY InvariantHolds
<1> QED
  BY <1>1, BufferIsInvariant, PTL

\* The two events always tell the truth about the queue.
THEOREM NoWakeupIsLost == Spec => []NoLostWakeup
<1>1. BufferInvariant => NoLostWakeup
  BY InvariantHolds
<1> QED
  BY <1>1, BufferIsInvariant, PTL

-----------------------------------------------------------------------------
(* The buffer implements the lossless channel.                             *)

\* What the client will see of a queue.
LEMMA QueueShown ==
    ASSUME NEW s \in Seq(Entries)
    PROVE  FlattenSeq([i \in 1..Len(s) |-> PiecesOf(s[i])]) = Shown(s)
<1>1. Map(s, pieces) = [i \in 1..Len(s) |-> PiecesOf(s[i])]
  <2>1. \A i \in 1..Len(s) : pieces[s[i]] = PiecesOf(s[i])
    BY ElementOfSeq, EntryValues
  <2> QED
    BY <2>1 DEF Map
<1> QED
  BY <1>1 DEF Shown

\* The mapped queue, before a step and after it.
LEMMA PiecesAreShown ==
    ASSUME BufferInvariant, BufferInvariant'
    PROVE  Pieces = Shown(items) /\ Pieces' = Shown(items') /\ Shown(items) \in Seq(PieceSet)
<1>1. items \in Seq(Entries) /\ items' \in Seq(Entries)
  BY DEF BufferInvariant, QueueInvariant
<1>2. Pieces = Shown(items)
  BY <1>1, QueueShown DEF Pieces
<1>3. Pieces' = Shown(items')
  BY <1>1, QueueShown DEF Pieces
<1> QED
  BY <1>1, <1>2, <1>3, QueueShows

\* A queued fragment is text written to the channel.
LEMMA TextIsWritten ==
    ASSUME BufferInvariant, BufferInvariant', NEW n \in Nodes, NEW chars \in 0..MaxChars,
           AppendText(n, chars), workflow = "running", workflow' = workflow, stalled' = stalled
    PROVE  Channel!WriteText(n)
<1>1. /\ Pieces = Shown(items) /\ Pieces' = Shown(items') /\ Shown(items) \in Seq(PieceSet)
  BY PiecesAreShown
<1> DEFINE piece == TextPiece(n, written[n].chunks + 1)
<1>2. Shown(items') = Then(Shown(items), <<piece>>)
  BY TextIsQueued DEF BufferInvariant, Progress
<1>3. piece \in PieceSet
  BY DEF BufferInvariant, Progress, WrittenType, TextPiece, PieceSet, Writers
<1> HIDE DEF piece
<1>4. Pieces' = Append(Pieces, piece)
  BY <1>1, <1>2, <1>3, AppendIsConcat DEF Then
<1>5. written' = [written EXCEPT ![n].chunks = @ + 1]
  BY DEF AppendText
<1> QED
  BY <1>4, <1>5 DEF Channel!WriteText, Channel!Piece, piece, TextPiece

\* A queued event is written to the channel.
LEMMA EventIsWritten ==
    ASSUME BufferInvariant, BufferInvariant', NEW n \in Nodes, AppendEvent(n),
           workflow = "running", workflow' = workflow, stalled => stalled'
    PROVE  Channel!WriteEvents(n)
<1>1. /\ Pieces = Shown(items) /\ Pieces' = Shown(items')
  BY PiecesAreShown
<1>2. Shown(items') = Then(Shown(items), <<EventPiece(n, written[n].events + 1)>>)
  BY EventIsQueued DEF BufferInvariant, Progress
<1>3. written' = [written EXCEPT ![n].events = @ + 1]
  BY DEF AppendEvent
<1>4. <<EventPiece(n, written[n].events + 1)>>
        = [j \in 1..1 |-> EventPiece(n, written[n].events + j)]
  OBVIOUS
<1>5. Pieces' = Pieces \o [j \in 1..1 |-> Channel!Piece(n, "event", written[n].events + j)]
  BY <1>1, <1>2, <1>4 DEF Channel!Piece, EventPiece, Then
<1>6. n # Workflow
  BY BufferAssumption
<1>7. 1 \in 1..2
  OBVIOUS
<1> QED
  BY <1>3, <1>5, <1>6, <1>7 DEF Channel!WriteEvents

\* Text that is given up is skipped by a broken channel.
LEMMA TextIsSkipped ==
    ASSUME BufferInvariant, BufferInvariant', NEW n \in Nodes, DropText(n),
           workflow = "running", workflow' = workflow, stalled' = TRUE
    PROVE  Channel!SkipText(n)
<1>1. items' = items /\ written' = [written EXCEPT ![n].chunks = @ + 1]
  BY DEF DropText, queueVars
<1>2. Pieces' = Pieces
  BY <1>1, PiecesAreShown
<1> QED
  BY <1>1, <1>2 DEF Channel!SkipText

\* The terminal events close the channel.
LEMMA EndIsWritten ==
    ASSUME BufferInvariant, BufferInvariant', NEW kinds \in Endings, AppendTerminal(kinds),
           workflow = "running", stalled' = stalled
    PROVE  Channel!WriteEvents(Workflow)
<1> DEFINE k == Len(kinds)
<1>1. /\ Pieces = Shown(items) /\ Pieces' = Shown(items')
  BY PiecesAreShown
<1>2. k \in 1..2 /\ Shown(items') = Then(Shown(items), [j \in 1..k |-> EventPiece(Workflow, j)])
  BY EndIsQueued DEF BufferInvariant
<1>3. /\ written' = [written EXCEPT ![Workflow].events = k] /\ workflow' = "ended"
      /\ written[Workflow].events = 0
  BY DEF AppendTerminal, BufferInvariant, Progress
<1> HIDE DEF k
<1>4. Pieces' = Pieces \o [j \in 1..k |-> Channel!Piece(Workflow, "event", written[Workflow].events + j)]
  <2>1. \A j \in 1..k : EventPiece(Workflow, j)
                          = Channel!Piece(Workflow, "event", written[Workflow].events + j)
    BY <1>2, <1>3 DEF Channel!Piece, EventPiece
  <2>2. [j \in 1..k |-> EventPiece(Workflow, j)]
          = [j \in 1..k |-> Channel!Piece(Workflow, "event", written[Workflow].events + j)]
    BY <2>1
  <2> HIDE DEF k
  <2> QED
    BY <1>1, <1>2, <2>2 DEF Then
<1>5. written' = [written EXCEPT ![Workflow].events = @ + k]
  <2>1. written[Workflow].events + k = k
    BY <1>2, <1>3
  <2> QED
    BY <1>3, <2>1
<1> QED
  BY <1>2, <1>3, <1>4, <1>5 DEF Channel!WriteEvents

\* The oldest entry is read: all its pieces at once.
LEMMA HeadIsRead ==
    ASSUME BufferInvariant, BufferInvariant', items # <<>>, TakeHead,
           UNCHANGED <<stalled, written, workflow>>
    PROVE  Channel!Read
<1> DEFINE read == PiecesOf(Head(items))
           n == Len(read)
<1>1. /\ Pieces = Shown(items) /\ Pieces' = Shown(items')
  BY PiecesAreShown
<1>2. Shown(items) = Then(read, Shown(items')) /\ Head(items) \in Entries
  BY HeadIsTaken DEF BufferInvariant
<1>3. read \in Seq(PieceSet) /\ n \in Nat /\ n > 0
  BY <1>2, PiecesAreASeq
<1>4. Shown(items') \in Seq(PieceSet) /\ Len(Shown(items')) \in Nat
  BY QueueShows, LenProperties DEF BufferInvariant, QueueInvariant
<1> HIDE DEF read
<1>5. /\ Len(Pieces) = n + Len(Shown(items'))
      /\ Pieces' = SubSeq(Pieces, n + 1, Len(Pieces))
  BY <1>1, <1>2, <1>3, <1>4, SkipFirst
<1>6. n \in 1..Len(Pieces)
  BY <1>3, <1>4, <1>5
<1> QED
  BY <1>5, <1>6 DEF Channel!Read

\* Every other step is one the channel does not see.
LEMMA StepIsSilent ==
    ASSUME BufferInvariant, BufferInvariant', items' = items, written' = written,
           stalled' = stalled, workflow' = workflow
    PROVE  UNCHANGED Channel!channelVars
<1>1. Pieces' = Pieces
  BY PiecesAreShown
<1> QED
  BY <1>1 DEF Channel!channelVars

\* A put that ends writes, or skips its text when it has given up.
LEMMA FinishPutWrites ==
    ASSUME BufferInvariant, BufferInvariant', NEW n \in Nodes, put[n] # NoPut,
           stalled' = stalled \/ stalled' = TRUE, FinishPut(n)
    PROVE  Channel!WriteEvents(n) \/ Channel!WriteText(n) \/ Channel!SkipText(n)
<1>1. workflow = "running" /\ workflow' = workflow /\ stalled \in BOOLEAN
      /\ put[n].chars \in 0..MaxChars
  BY DEF BufferInvariant, Progress, FinishPut, Producers
<1>2. CASE AppendEvent(n)
  BY <1>1, <1>2, EventIsWritten
<1>3. CASE stalled' /\ DropText(n)
  <2>1. stalled' = TRUE
    BY <1>1, <1>3
  <2> QED
    BY <1>1, <1>3, <2>1, TextIsSkipped
<1>4. CASE ~stalled' /\ AppendText(n, put[n].chars)
  <2>1. stalled' = stalled
    BY <1>1, <1>4
  <2> QED
    BY <1>1, <1>4, <2>1, TextIsWritten
<1> QED
  BY <1>2, <1>3, <1>4 DEF FinishPut

\* Every step of the buffer is one of the channel, or the channel does not see it.
LEMMA ChannelStep ==
    ASSUME BufferInvariant, BufferInvariant', [Next]_vars
    PROVE  [Channel!Next]_(Channel!channelVars)
<1>0. /\ \A n \in Nodes : n \in Writers
      /\ Workflow \in Writers
      /\ stalled \in BOOLEAN
  BY DEF Writers, BufferInvariant, Progress
<1>1. ASSUME NEW n \in Nodes, PutEvent(n)
      PROVE  Channel!Next \/ UNCHANGED Channel!channelVars
  <2>1. workflow = "running" /\ workflow' = workflow /\ stalled' = stalled
    BY <1>1 DEF PutEvent, MayPut
  <2>2. CASE AppendEvent(n)
    BY <1>0, <2>1, <2>2, EventIsWritten DEF Channel!Next
  <2>3. CASE UNCHANGED <<queueVars, space, written>>
    BY <2>1, <2>3, StepIsSilent DEF queueVars
  <2> QED
    BY <1>1, <2>2, <2>3 DEF PutEvent
<1>2. ASSUME NEW n \in Nodes, PutText(n)
      PROVE  Channel!Next \/ UNCHANGED Channel!channelVars
  <2>1. workflow = "running" /\ workflow' = workflow /\ stalled' = stalled
    BY <1>2 DEF PutText, MayPut
  <2>2. PICK chars \in 1..MaxChars :
          \/ AppendText(n, chars)
          \/ stalled /\ DropText(n)
          \/ UNCHANGED <<queueVars, space, written>>
    BY <1>2 DEF PutText
  <2>3. CASE AppendText(n, chars)
    <3>1. chars \in 0..MaxChars
      BY <2>2, BufferAssumption
    <3> QED
      BY <1>0, <2>1, <2>3, <3>1, TextIsWritten DEF Channel!Next
  <2>4. CASE stalled /\ DropText(n)
    BY <1>0, <2>1, <2>4, TextIsSkipped DEF Channel!Next
  <2>5. CASE UNCHANGED <<queueVars, space, written>>
    BY <2>1, <2>5, StepIsSilent DEF queueVars
  <2> QED
    BY <2>2, <2>3, <2>4, <2>5
<1>3. ASSUME NEW n \in Nodes, Resume(n) \/ TimeOut(n)
      PROVE  Channel!Next
  <2>1. put[n] # NoPut /\ (stalled' = stalled \/ stalled' = TRUE) /\ FinishPut(n)
    BY <1>3 DEF Resume, TimeOut, NoPut
  <2> QED
    BY <1>0, <2>1, FinishPutWrites DEF Channel!Next
<1>4. CASE EndWorkflow \/ FailWorkflow \/ CancelWorkflow
  <2>1. PICK kinds \in Endings : AppendTerminal(kinds)
    BY <1>4 DEF EndWorkflow, FailWorkflow, CancelWorkflow, Endings
  <2>2. workflow = "running" /\ stalled' = stalled
    BY <1>4 DEF EndWorkflow, FailWorkflow, CancelWorkflow
  <2> QED
    BY <1>0, <2>1, <2>2, EndIsWritten DEF Channel!Next
<1>5. CASE items # <<>> /\ Get
  <2>1. TakeHead /\ UNCHANGED <<stalled, written, workflow>>
    BY <1>5 DEF Get, GetNow, GetWoken
  <2> QED
    BY <1>5, <2>1, HeadIsRead DEF Channel!Next
<1>6. CASE items = <<>> /\ Get
  BY <1>6, StepIsSilent DEF Get, GetNow, GetWoken
<1>7. CASE CloseStalled \/ GetWait \/ Heartbeat \/ Sent \/ Disconnect
  BY <1>7, StepIsSilent DEF CloseStalled, GetWait, Heartbeat, Sent, Disconnect, queueVars
<1>8. CASE UNCHANGED vars
  BY <1>8, StepIsSilent DEF vars
<1> QED
  BY <1>1, <1>2, <1>3, <1>4, <1>5, <1>6, <1>7, <1>8 DEF Next

\* Bounded, merging and with two counters, the buffer is the queue it replaced.
THEOREM BufferImplementsChannel == Spec => ImplementsChannel
<1>1. Init => Channel!Init
  <2> SUFFICES ASSUME Init PROVE Channel!Init
    OBVIOUS
  <2>1. items = <<>> /\ items \in Seq(Entries)
    BY EmptyQueue DEF Init
  <2>2. Pieces = <<>>
    BY <2>1, EmptyQueue, QueueShown DEF Pieces
  <2> QED
    BY <2>2 DEF Init, Channel!Init
<1>2. BufferInvariant /\ BufferInvariant' /\ [Next]_vars => [Channel!Next]_(Channel!channelVars)
  BY ChannelStep
<1> QED
  BY <1>1, <1>2, BufferIsInvariant, PTL DEF Spec, ImplementsChannel, Channel!Spec

=============================================================================
