---------------------- MODULE SessionContext_proofs ----------------------
(***************************************************************************)
(* What holds of the context of a chat session for any tabs, requests to   *)
(* compact by hand, budgets, page size and length of the session.          *)
(*                                                                         *)
(* The argument.  The timeline only grows at its end, so what was said of  *)
(* the messages up to some position stays true (SoundAfter), and each step *)
(* may be looked at with the messages before it.  The history a request    *)
(* has loaded has no holes and reaches down to its boundary or to the      *)
(* budget (Loads); the boundary it read first is at or before the one of   *)
(* the anchor it reads last, unless the summaries were cleared meanwhile   *)
(* (Follows); and an anchor covers what lies at or before its boundary     *)
(* (Covers).  A compaction takes up messages without holes from its        *)
(* boundary on (Takes) and merges them with an anchor that covers that     *)
(* boundary, or its commit will find another one (Merges): the last needs  *)
(* that nobody else compacts meanwhile, which is what one process gives.   *)
(***************************************************************************)
EXTENDS SessionContext, FiniteSetTheorems, SequenceTheorems, WellFoundedInduction, TLAPS

-----------------------------------------------------------------------------
-----------------------------------------------------------------------------
(* Finite sets of positions: the first, the last, the k newest, the k oldest. *)

\* Positions from 1 on are numbers.
LEMMA NumberedFromOne ==
    ASSUME NEW n \in Nat, NEW S, S \subseteq 1..n
    PROVE  S \in SUBSET Nat /\ S \in SUBSET (0..n)
OBVIOUS

\* A set of numbers has a least one.
LEMMA LeastNumber ==
    ASSUME NEW B \in SUBSET Nat, B # {}
    PROVE  \E n \in B : \A m \in B : n <= m
<1> DEFINE R == OpToRel(<, Nat)
<1>1. IsWellFoundedOn(R, Nat)
  BY NatLessThanWellFounded, Zenon
<1>2. \A x, y \in Nat : x < y => <<x, y>> \in R
  BY DEF OpToRel
<1> HIDE DEF R
<1>3. PICK n \in B : \A m \in B : ~ (<<m, n>> \in R)
  BY <1>1, WFMin
<1>4. ASSUME NEW m \in B PROVE n <= m
  <2>1. m \in Nat /\ n \in Nat
    OBVIOUS
  <2>2. ~ (m < n)
    BY <1>2, <1>3, <2>1, Zenon
  <2> QED
    BY <2>1, <2>2
<1> QED
  BY <1>4

\* One that is bounded has a greatest one.
LEMMA GreatestNumber ==
    ASSUME NEW n \in Nat, NEW B \in SUBSET (0..n), B # {}
    PROVE  \E m \in B : \A x \in B : x <= m
<1> DEFINE D == {n - x : x \in B}
<1>1. D \in SUBSET Nat /\ D # {}
  <2>1. \A x \in B : n - x \in Nat /\ n - x \in D
    OBVIOUS
  <2> QED
    BY <2>1
<1>2. PICK d \in D : \A e \in D : d <= e
  BY <1>1, LeastNumber
<1>3. PICK m \in B : d = n - m
  BY <1>2
<1>4. ASSUME NEW x \in B PROVE x <= m
  <2>1. n - m <= n - x
    BY <1>2, <1>3
  <2> QED
    BY <2>1
<1> QED
  BY <1>4

\* Max and Min of such a set.
LEMMA MaxMin ==
    ASSUME NEW n \in Nat, NEW B \in SUBSET (0..n), B # {}
    PROVE  /\ Max(B) \in B /\ \A x \in B : x <= Max(B)
           /\ Min(B) \in B
<1>1. PICK m \in B : \A x \in B : x <= m
  BY GreatestNumber
<1>2. \A x \in B : m >= x
  BY <1>1
<1>3. Max(B) \in B /\ \A x \in B : Max(B) >= x
  BY <1>2 DEF Max
<1>4. PICK l \in B : \A x \in B : l <= x
  <2>1. B \in SUBSET Nat
    OBVIOUS
  <2> QED
    BY <2>1, LeastNumber
<1>5. Min(B) \in B
  BY <1>4 DEF Min
<1> QED
  BY <1>3, <1>5

\* A set of positions is finite, and so are its parts.
LEMMA Positions ==
    ASSUME NEW n \in Nat, NEW S \in SUBSET (0..n)
    PROVE  /\ IsFiniteSet(S) /\ Cardinality(S) \in Nat
           /\ \A T \in SUBSET S :
                IsFiniteSet(T) /\ Cardinality(T) \in Nat /\ Cardinality(T) <= Cardinality(S)
<1>1. IsFiniteSet(0..n)
  BY FS_Interval
<1>2. IsFiniteSet(S)
  BY <1>1, FS_Subset
<1>3. ASSUME NEW T \in SUBSET S
      PROVE  IsFiniteSet(T) /\ Cardinality(T) \in Nat /\ Cardinality(T) <= Cardinality(S)
  BY <1>2, FS_Subset, FS_CardinalityType
<1> QED
  BY <1>2, <1>3, FS_CardinalityType

\* The k newest: k at most; no older one is taken before a newer; and all, if they are
\* fewer than k.
LEMMA NewestOf ==
    ASSUME NEW n \in Nat, NEW S \in SUBSET (0..n), NEW k \in Nat
    PROVE  /\ Newest(S, k) \subseteq S
           /\ Cardinality(Newest(S, k)) \in 0..k
           /\ \A x \in Newest(S, k) : \A i \in S : i > x => i \in Newest(S, k)
           /\ Cardinality(Newest(S, k)) < k => Newest(S, k) = S
<1> DEFINE T == Newest(S, k)
           After(i) == {j \in S : j > i}
<1>1. T \subseteq S /\ \A i \in S : i \in T <=> Cardinality(After(i)) < k
  BY DEF Newest
<1>2. /\ IsFiniteSet(S) /\ IsFiniteSet(T) /\ Cardinality(T) \in Nat
      /\ \A i \in S : IsFiniteSet(After(i)) /\ Cardinality(After(i)) \in Nat
  BY <1>1, Positions
<1> HIDE DEF T
<1>3. Cardinality(T) <= k
  <2> SUFFICES ASSUME T # {} PROVE Cardinality(T) <= k
    BY FS_EmptySet
  <2>1. PICK m \in T : \A x \in T : m <= x
    <3>1. T \in SUBSET Nat
      BY <1>1
    <3> QED
      BY <3>1, LeastNumber
  <2>2. T \ {m} \subseteq After(m)
    BY <1>1, <2>1
  <2>3. Cardinality(T \ {m}) <= Cardinality(After(m))
    BY <1>1, <1>2, <2>2, FS_Subset
  <2>4. Cardinality(T \ {m}) = Cardinality(T) - 1
    BY <1>2, FS_RemoveElement
  <2>5. Cardinality(After(m)) < k
    BY <1>1
  <2> HIDE DEF After
  <2> QED
    BY <1>1, <1>2, <2>3, <2>4, <2>5
<1>4. ASSUME NEW x \in T, NEW i \in S, i > x PROVE i \in T
  <2>1. After(i) \subseteq After(x)
    <3> SUFFICES ASSUME NEW j \in S, j > i PROVE j > x
      OBVIOUS
    <3>1. x \in Nat /\ i \in Nat /\ j \in Nat
      BY <1>1
    <3> QED
      BY <1>4, <3>1
  <2>2. Cardinality(After(i)) <= Cardinality(After(x))
    BY <1>1, <1>2, <2>1, FS_Subset
  <2>3. Cardinality(After(x)) < k
    BY <1>1
  <2>4. x \in S
    BY <1>1
  <2> HIDE DEF After
  <2> QED
    BY <1>1, <1>2, <2>2, <2>3, <2>4
<1>5. ASSUME T # S PROVE k <= Cardinality(T)
  <2>1. S \ T \in SUBSET (0..n) /\ S \ T # {}
    BY <1>1, <1>5
  <2>2. PICK m \in S \ T : \A x \in S \ T : x <= m
    BY <2>1, GreatestNumber
  <2>3. After(m) \subseteq T
    <3> SUFFICES ASSUME NEW j \in S, j > m, j \notin T PROVE FALSE
      OBVIOUS
    <3>1. m \in Nat /\ j \in Nat /\ j \in S \ T
      OBVIOUS
    <3> QED
      BY <2>2, <3>1
  <2>4. Cardinality(After(m)) <= Cardinality(T)
    BY <1>2, <2>3, FS_Subset
  <2>5. ~(Cardinality(After(m)) < k)
    BY <1>1
  <2> HIDE DEF After
  <2> QED
    BY <1>2, <2>4, <2>5
<1>6. T \subseteq S /\ Cardinality(T) \in 0..k /\ (Cardinality(T) < k => T = S)
  BY <1>1, <1>2, <1>3, <1>5
<1> QED
  BY Zenon, <1>4, <1>6 DEF T

\* The k oldest, as far as a compaction needs it.
LEMMA OldestOf ==
    ASSUME NEW n \in Nat, NEW S \in SUBSET (0..n), NEW k \in Nat
    PROVE  /\ Oldest(S, k) \subseteq S
           /\ Cardinality(Oldest(S, k)) \in 0..k
           /\ \A x \in Oldest(S, k) : \A i \in S : i < x => i \in Oldest(S, k)
           /\ Cardinality(Oldest(S, k)) < k => Oldest(S, k) = S
<1> DEFINE T == Oldest(S, k)
           Before(i) == {j \in S : j < i}
<1>1. T \subseteq S /\ \A i \in S : i \in T <=> Cardinality(Before(i)) < k
  BY DEF Oldest
<1>2. /\ IsFiniteSet(S) /\ IsFiniteSet(T) /\ Cardinality(T) \in Nat
      /\ \A i \in S : IsFiniteSet(Before(i)) /\ Cardinality(Before(i)) \in Nat
  BY <1>1, Positions
<1> HIDE DEF T
<1>3. Cardinality(T) <= k
  <2> SUFFICES ASSUME T # {} PROVE Cardinality(T) <= k
    BY FS_EmptySet
  <2>1. PICK m \in T : \A x \in T : x <= m
    <3>1. T \in SUBSET (0..n)
      BY <1>1
    <3> QED
      BY <3>1, GreatestNumber
  <2>2. T \ {m} \subseteq Before(m)
    BY <1>1, <2>1
  <2>3. Cardinality(T \ {m}) <= Cardinality(Before(m))
    BY <1>1, <1>2, <2>2, FS_Subset
  <2>4. Cardinality(T \ {m}) = Cardinality(T) - 1
    BY <1>2, FS_RemoveElement
  <2>5. Cardinality(Before(m)) < k
    BY <1>1
  <2> HIDE DEF Before
  <2> QED
    BY <1>1, <1>2, <2>3, <2>4, <2>5
<1>4. ASSUME NEW x \in T, NEW i \in S, i < x PROVE i \in T
  <2>1. Before(i) \subseteq Before(x)
    <3> SUFFICES ASSUME NEW j \in S, j < i PROVE j < x
      OBVIOUS
    <3>1. x \in Nat /\ i \in Nat /\ j \in Nat
      BY <1>1
    <3> QED
      BY <1>4, <3>1
  <2>2. Cardinality(Before(i)) <= Cardinality(Before(x))
    BY <1>1, <1>2, <2>1, FS_Subset
  <2>3. Cardinality(Before(x)) < k
    BY <1>1
  <2>4. x \in S
    BY <1>1
  <2> HIDE DEF Before
  <2> QED
    BY <1>1, <1>2, <2>2, <2>3, <2>4
<1>5. ASSUME T # S PROVE k <= Cardinality(T)
  <2>0. S \in SUBSET Nat
    OBVIOUS
  <2>1. S \ T \in SUBSET Nat /\ S \ T # {}
    BY Zenon, <1>1, <1>5, <2>0
  <2>2. PICK m \in S \ T : \A x \in S \ T : m <= x
    BY <2>1, LeastNumber
  <2>3. Before(m) \subseteq T
    <3> SUFFICES ASSUME NEW j \in S, j < m, j \notin T PROVE FALSE
      OBVIOUS
    <3>1. m \in Nat /\ j \in Nat /\ j \in S \ T
      OBVIOUS
    <3> QED
      BY <2>2, <3>1
  <2>4. Cardinality(Before(m)) <= Cardinality(T)
    BY <1>2, <2>3, FS_Subset
  <2>5. ~(Cardinality(Before(m)) < k)
    BY <1>1
  <2> HIDE DEF Before
  <2> QED
    BY <1>2, <2>4, <2>5
<1>6. T \subseteq S /\ Cardinality(T) \in 0..k /\ (Cardinality(T) < k => T = S)
  BY <1>1, <1>2, <1>3, <1>5
<1> QED
  BY Zenon, <1>4, <1>6 DEF T

-----------------------------------------------------------------------------
(* The inductive invariant: types first.                                   *)

AnchorSet == [there : BOOLEAN, covers : SUBSET Nat, poor : BOOLEAN]

RowSet == [anchor : AnchorSet, boundary : Nat, compressions : Nat]

RequestSet ==
    [at : {"idle", "pages", "anchor", "measure", "compact", "answer", "save"},
     boundary : Nat, history : SUBSET Nat, read : Nat, offset : Nat, anchor : AnchorSet,
     compressed : BOOLEAN, refused : BOOLEAN, order : Nat, upTo : Nat, clears : Nat,
     torn : BOOLEAN]

JobSet ==
    [at : {"none", "messages", "anchor", "summarise", "commit"},
     boundary : Nat, selection : SUBSET Nat, anchor : AnchorSet]

CountSet == [turns : Nat, clears : Nat, faults : Nat, lost : Nat]

Typed ==
    /\ events \in Seq({"message", "snapshot"})
    /\ row \in RowSet
    /\ request \in [Chats -> RequestSet]
    /\ job \in [Compactors -> JobSet]
    /\ count \in CountSet

\* The row, a request and a compaction fit a timeline of n events with the messages M:
\* what they name is there.
RowFits(w, M, n) ==
    /\ w.anchor.covers \subseteq M /\ w.boundary <= n
    /\ w.anchor.there <=> w.compressions > 0
    /\ w.anchor.there <=> w.boundary > 0

RequestFits(q, M, n) ==
    /\ q.history \subseteq M /\ q.anchor.covers \subseteq M
    /\ Cardinality(q.history) <= q.read /\ q.read <= LoadBudget
    /\ q.boundary <= n /\ q.order <= n /\ q.upTo <= n

JobFits(j, M, n) ==
    /\ j.selection \subseteq M /\ j.anchor.covers \subseteq M
    /\ Cardinality(j.selection) <= CompactBudget
    /\ j.boundary <= n
    /\ j.at \in {"anchor", "summarise", "commit"} => j.selection # {}
    /\ j.at = "commit" => j.anchor.there

\* A process compacts once at a time.
Exclusive ==
    \A c, d \in Compactors :
        job[c].at # "none" /\ job[d].at # "none" /\ ProcessOf[c] = ProcessOf[d] => c = d

ContextTypes ==
    /\ Typed
    /\ RowFits(row, Messages, Len(events))
    /\ \A r \in Chats : RequestFits(request[r], Messages, Len(events))
    /\ \A c \in Compactors : JobFits(job[c], Messages, Len(events))
    /\ Exclusive

-----------------------------------------------------------------------------
(* ... and then what was read, of the messages M.                          *)

\* The history q has loaded has no holes.  While it pages, what the next page starts
\* behind is loaded; afterwards everything behind its boundary is, or the budget is used.
Loads(q, M) ==
    /\ \A x \in q.history : \A i \in M : i > x /\ i <= q.upTo => i \in q.history
    /\ q.at = "pages" =>
         /\ q.read < LoadBudget
         /\ \A i \in M : i > q.boundary /\ i <= q.upTo
                           /\ Cardinality({k \in M : k > i}) < q.offset => i \in q.history
    /\ q.at \notin {"idle", "pages"} /\ q.read < LoadBudget =>
         \A i \in M : i > q.boundary /\ i <= q.upTo => i \in q.history

\* A selection begins behind its boundary and has no holes.
Takes(j, M) ==
    /\ \A x \in j.selection :
         x > j.boundary /\ \A i \in M : i > j.boundary /\ i < x => i \in j.selection

\* The compaction of a request works while the request waits for it, and takes up
\* what the request has to know of, or as much as one compaction takes.
Reaches(j, q, M) ==
    /\ j.at # "none" => q.at = "compact"
    /\ j.at \in {"anchor", "summarise", "commit"} =>
         \/ Cardinality(j.selection) = CompactBudget
         \/ \A i \in M : i > j.boundary /\ i <= q.upTo => i \in j.selection

\* An anchor tells of everything up to a boundary.
Covers(a, M, b) == a.poor \/ \A i \in M : i <= b => i \in a.covers

\* While a compaction works the row's boundary is the one it read, unless a clear
\* took it back; and if it is that one, what the compaction holds covers it.
Merges(j, w, M) ==
    /\ j.at # "none" => w.boundary \in {0, j.boundary}
    /\ j.at \in {"summarise", "commit"} /\ w.boundary = j.boundary => Covers(j.anchor, M, j.boundary)
    /\ j.at = "commit" => j.anchor.poor \/ j.selection \subseteq j.anchor.covers

\* Without a clear the boundary has only moved on since a loading request read it.
Follows(q, w, clears) ==
    /\ q.clears <= clears
    /\ q.at \in {"pages", "anchor"} /\ q.clears = clears => q.boundary <= w.boundary

\* A request that has loaded holds an anchor that covers its boundary.
Anchored(q, M) ==
    /\ q.at \in {"measure", "compact"} =>
         /\ q.torn \/ Covers(q.anchor, M, q.boundary)
         /\ q.torn \/ q.compressed \/ q.boundary = 0
    /\ q.at = "compact" => ~q.compressed

\* What goes to the model is whole, with the exceptions of ContextIsWhole.
Answers(q, M) ==
    q.at \in {"answer", "save"} =>
      \/ q.torn \/ q.anchor.poor
      \/ \A i \in M : i <= q.upTo => i \in q.history \cup q.anchor.covers
      \/ /\ q.read >= LoadBudget
         /\ \/ q.compressed \/ q.refused
            \/ Cardinality({i \in M : i <= q.upTo /\ i > q.boundary} \ q.history) > CompactBudget

RequestSound(q, w, clears, M) ==
    Loads(q, M) /\ Follows(q, w, clears) /\ Anchored(q, M) /\ Answers(q, M)

JobSound(j, w, M) == Takes(j, M) /\ Merges(j, w, M)

\* Requests rq, compactions jb and a row w, after some clears, over the messages M.
ContextSound(rq, jb, w, clears, M) ==
    /\ Covers(w.anchor, M, w.boundary)
    /\ \A r \in Chats : RequestSound(rq[r], w, clears, M) /\ Reaches(jb[r], rq[r], M)
    /\ \A c \in Compactors : JobSound(jb[c], w, M)

ContextInvariant == ContextSound(request, job, row, count.clears, Messages)

\* The product runs one backend process; context_processes.cfg runs two.
InOneProcess == \A c, d \in Compactors : ProcessOf[c] = ProcessOf[d]

-----------------------------------------------------------------------------

\* No request, and no compaction.
LEMMA Nothing ==
    /\ Idle \in RequestSet /\ Idle.at = "idle" /\ Idle.history = {} /\ Idle.anchor = NoAnchor
    /\ Idle.read = 0 /\ Idle.boundary = 0 /\ Idle.order = 0 /\ Idle.upTo = 0 /\ Idle.clears = 0
    /\ NoJob \in JobSet /\ NoJob.at = "none" /\ NoJob.selection = {} /\ NoJob.anchor = NoAnchor
    /\ NoJob.boundary = 0
    /\ NoAnchor \in AnchorSet /\ NoAnchor.covers = {} /\ NoAnchor.there = FALSE
<1>1. NoAnchor \in AnchorSet /\ NoAnchor.covers = {} /\ NoAnchor.there = FALSE
  BY DEF NoAnchor, AnchorSet
<1> HIDE DEF NoAnchor
<1>2. Idle \in RequestSet
  BY <1>1 DEF RequestSet, Idle
<1>3. /\ Idle.at = "idle" /\ Idle.history = {} /\ Idle.anchor = NoAnchor
      /\ Idle.read = 0 /\ Idle.boundary = 0 /\ Idle.order = 0 /\ Idle.upTo = 0 /\ Idle.clears = 0
  BY DEF Idle
<1>4. /\ NoJob \in JobSet /\ NoJob.at = "none" /\ NoJob.selection = {}
      /\ NoJob.anchor = NoAnchor /\ NoJob.boundary = 0
  BY <1>1 DEF JobSet, NoJob
<1> QED
  BY <1>1, <1>2, <1>3, <1>4

\* A request that begins.
Begun(b, n, k) == [Idle EXCEPT !.at = "pages", !.boundary = b, !.upTo = n, !.clears = k]

\* What it is; the fields it has.
LEMMA BegunRequest ==
    ASSUME NEW b \in Nat, NEW n \in Nat, NEW k \in Nat
    PROVE  /\ Begun(b, n, k) \in RequestSet
           /\ Begun(b, n, k).at = "pages" /\ Begun(b, n, k).boundary = b
           /\ Begun(b, n, k).read = 0 /\ Begun(b, n, k).offset = 0
           /\ Begun(b, n, k).order = 0 /\ Begun(b, n, k).upTo = n
           /\ Begun(b, n, k).clears = k
<1>1. NoAnchor \in AnchorSet
  BY DEF NoAnchor, AnchorSet
<1> HIDE DEF NoAnchor
<1>2. Begun(b, n, k) \in RequestSet
  BY <1>1 DEF Begun, RequestSet, Idle
<1>3. /\ Begun(b, n, k).at = "pages" /\ Begun(b, n, k).boundary = b
      /\ Begun(b, n, k).read = 0 /\ Begun(b, n, k).offset = 0 /\ Begun(b, n, k).order = 0
      /\ Begun(b, n, k).upTo = n /\ Begun(b, n, k).clears = k
  BY <1>1 DEF Begun, RequestSet, Idle
<1> QED
  BY <1>2, <1>3

\* It has loaded nothing yet.
LEMMA BegunRequestIsEmpty ==
    ASSUME NEW b \in Nat, NEW n \in Nat, NEW k \in Nat
    PROVE  Begun(b, n, k).history = {} /\ Begun(b, n, k).anchor = NoAnchor
BY Nothing DEF Begun, RequestSet, Idle

\* It has read a page.
Paged(q, h, k, o, to) == [q EXCEPT !.history = h, !.read = k, !.offset = o, !.at = to]

\* Only what was read and how far changes.
LEMMA PagedRequest ==
    ASSUME NEW q \in RequestSet, NEW h \in SUBSET Nat, NEW k \in Nat, NEW o \in Nat,
           NEW to \in {"pages", "anchor"}
    PROVE  /\ Paged(q, h, k, o, to) \in RequestSet
           /\ Paged(q, h, k, o, to).at = to /\ Paged(q, h, k, o, to).boundary = q.boundary
           /\ Paged(q, h, k, o, to).history = h /\ Paged(q, h, k, o, to).read = k
           /\ Paged(q, h, k, o, to).offset = o /\ Paged(q, h, k, o, to).anchor = q.anchor
           /\ Paged(q, h, k, o, to).compressed = q.compressed
           /\ Paged(q, h, k, o, to).refused = q.refused
           /\ Paged(q, h, k, o, to).order = q.order /\ Paged(q, h, k, o, to).upTo = q.upTo
           /\ Paged(q, h, k, o, to).clears = q.clears /\ Paged(q, h, k, o, to).torn = q.torn
<1>1. NoAnchor \in AnchorSet
  BY DEF NoAnchor, AnchorSet
<1> HIDE DEF NoAnchor
<1>2. Paged(q, h, k, o, to) \in RequestSet
  BY <1>1 DEF Paged, RequestSet
<1>3. /\ Paged(q, h, k, o, to).at = to /\ Paged(q, h, k, o, to).boundary = q.boundary
      /\ Paged(q, h, k, o, to).history = h /\ Paged(q, h, k, o, to).read = k
      /\ Paged(q, h, k, o, to).offset = o /\ Paged(q, h, k, o, to).anchor = q.anchor
      /\ Paged(q, h, k, o, to).compressed = q.compressed
      /\ Paged(q, h, k, o, to).refused = q.refused /\ Paged(q, h, k, o, to).order = q.order
      /\ Paged(q, h, k, o, to).upTo = q.upTo /\ Paged(q, h, k, o, to).clears = q.clears
      /\ Paged(q, h, k, o, to).torn = q.torn
  BY <1>1 DEF Paged, RequestSet
<1> QED
  BY <1>2, <1>3

\* It has read the anchor.
Loaded(q, a, x, y) == [q EXCEPT !.anchor = a, !.compressed = x, !.torn = y, !.at = "measure"]

\* Only the anchor and what is known of it changes.
LEMMA LoadedRequest ==
    ASSUME NEW q \in RequestSet, NEW a \in AnchorSet, NEW x \in BOOLEAN, NEW y \in BOOLEAN
    PROVE  /\ Loaded(q, a, x, y) \in RequestSet
           /\ Loaded(q, a, x, y).at = "measure" /\ Loaded(q, a, x, y).boundary = q.boundary
           /\ Loaded(q, a, x, y).history = q.history /\ Loaded(q, a, x, y).read = q.read
           /\ Loaded(q, a, x, y).offset = q.offset /\ Loaded(q, a, x, y).anchor = a
           /\ Loaded(q, a, x, y).compressed = x /\ Loaded(q, a, x, y).refused = q.refused
           /\ Loaded(q, a, x, y).order = q.order /\ Loaded(q, a, x, y).upTo = q.upTo
           /\ Loaded(q, a, x, y).clears = q.clears /\ Loaded(q, a, x, y).torn = y
<1>1. NoAnchor \in AnchorSet
  BY DEF NoAnchor, AnchorSet
<1> HIDE DEF NoAnchor
<1>2. Loaded(q, a, x, y) \in RequestSet
  BY <1>1 DEF Loaded, RequestSet
<1>3. /\ Loaded(q, a, x, y).at = "measure" /\ Loaded(q, a, x, y).boundary = q.boundary
      /\ Loaded(q, a, x, y).history = q.history /\ Loaded(q, a, x, y).read = q.read
      /\ Loaded(q, a, x, y).offset = q.offset /\ Loaded(q, a, x, y).anchor = a
      /\ Loaded(q, a, x, y).compressed = x /\ Loaded(q, a, x, y).refused = q.refused
      /\ Loaded(q, a, x, y).order = q.order /\ Loaded(q, a, x, y).upTo = q.upTo
      /\ Loaded(q, a, x, y).clears = q.clears /\ Loaded(q, a, x, y).torn = y
  BY <1>1 DEF Loaded, RequestSet
<1> QED
  BY <1>2, <1>3

\* It was measured.
Measured(q, to) == [q EXCEPT !.at = to]

\* Only the phase changes.
LEMMA MeasuredRequest ==
    ASSUME NEW q \in RequestSet, NEW to \in {"compact", "answer"}
    PROVE  /\ Measured(q, to) \in RequestSet
           /\ Measured(q, to).at = to /\ Measured(q, to).boundary = q.boundary
           /\ Measured(q, to).history = q.history /\ Measured(q, to).read = q.read
           /\ Measured(q, to).offset = q.offset /\ Measured(q, to).anchor = q.anchor
           /\ Measured(q, to).compressed = q.compressed
           /\ Measured(q, to).refused = q.refused /\ Measured(q, to).order = q.order
           /\ Measured(q, to).upTo = q.upTo /\ Measured(q, to).clears = q.clears
           /\ Measured(q, to).torn = q.torn
<1>1. NoAnchor \in AnchorSet
  BY DEF NoAnchor, AnchorSet
<1> HIDE DEF NoAnchor
<1>2. Measured(q, to) \in RequestSet
  BY <1>1 DEF Measured, RequestSet
<1>3. /\ Measured(q, to).at = to /\ Measured(q, to).boundary = q.boundary
      /\ Measured(q, to).history = q.history /\ Measured(q, to).read = q.read
      /\ Measured(q, to).offset = q.offset /\ Measured(q, to).anchor = q.anchor
      /\ Measured(q, to).compressed = q.compressed /\ Measured(q, to).refused = q.refused
      /\ Measured(q, to).order = q.order /\ Measured(q, to).upTo = q.upTo
      /\ Measured(q, to).clears = q.clears /\ Measured(q, to).torn = q.torn
  BY <1>1 DEF Measured, RequestSet
<1> QED
  BY <1>2, <1>3

\* It was answered.
Answered(q, n) == [q EXCEPT !.at = "save", !.order = n]

\* Only the phase and the order it will write behind change.
LEMMA AnsweredRequest ==
    ASSUME NEW q \in RequestSet, NEW n \in Nat
    PROVE  /\ Answered(q, n) \in RequestSet
           /\ Answered(q, n).at = "save" /\ Answered(q, n).boundary = q.boundary
           /\ Answered(q, n).history = q.history /\ Answered(q, n).read = q.read
           /\ Answered(q, n).offset = q.offset /\ Answered(q, n).anchor = q.anchor
           /\ Answered(q, n).compressed = q.compressed /\ Answered(q, n).refused = q.refused
           /\ Answered(q, n).order = n /\ Answered(q, n).upTo = q.upTo
           /\ Answered(q, n).clears = q.clears /\ Answered(q, n).torn = q.torn
<1>1. NoAnchor \in AnchorSet
  BY DEF NoAnchor, AnchorSet
<1> HIDE DEF NoAnchor
<1>2. Answered(q, n) \in RequestSet
  BY <1>1 DEF Answered, RequestSet
<1>3. /\ Answered(q, n).at = "save" /\ Answered(q, n).boundary = q.boundary
      /\ Answered(q, n).history = q.history /\ Answered(q, n).read = q.read
      /\ Answered(q, n).offset = q.offset /\ Answered(q, n).anchor = q.anchor
      /\ Answered(q, n).compressed = q.compressed /\ Answered(q, n).refused = q.refused
      /\ Answered(q, n).order = n /\ Answered(q, n).upTo = q.upTo
      /\ Answered(q, n).clears = q.clears /\ Answered(q, n).torn = q.torn
  BY <1>1 DEF Answered, RequestSet
<1> QED
  BY <1>2, <1>3

\* It goes on after its compaction.
GoneOn(q, x, a) == [q EXCEPT !.at = "answer", !.refused = x, !.anchor = a]

\* Only the anchor and whether it was refused change.
LEMMA RequestGoneOn ==
    ASSUME NEW q \in RequestSet, NEW x \in BOOLEAN, NEW a \in AnchorSet
    PROVE  /\ GoneOn(q, x, a) \in RequestSet
           /\ GoneOn(q, x, a).at = "answer" /\ GoneOn(q, x, a).boundary = q.boundary
           /\ GoneOn(q, x, a).history = q.history /\ GoneOn(q, x, a).read = q.read
           /\ GoneOn(q, x, a).offset = q.offset /\ GoneOn(q, x, a).anchor = a
           /\ GoneOn(q, x, a).compressed = q.compressed /\ GoneOn(q, x, a).refused = x
           /\ GoneOn(q, x, a).order = q.order /\ GoneOn(q, x, a).upTo = q.upTo
           /\ GoneOn(q, x, a).clears = q.clears /\ GoneOn(q, x, a).torn = q.torn
<1>1. NoAnchor \in AnchorSet
  BY DEF NoAnchor, AnchorSet
<1> HIDE DEF NoAnchor
<1>2. GoneOn(q, x, a) \in RequestSet
  BY <1>1 DEF GoneOn, RequestSet
<1>3. /\ GoneOn(q, x, a).at = "answer" /\ GoneOn(q, x, a).boundary = q.boundary
      /\ GoneOn(q, x, a).history = q.history /\ GoneOn(q, x, a).read = q.read
      /\ GoneOn(q, x, a).offset = q.offset /\ GoneOn(q, x, a).anchor = a
      /\ GoneOn(q, x, a).compressed = q.compressed /\ GoneOn(q, x, a).refused = x
      /\ GoneOn(q, x, a).order = q.order /\ GoneOn(q, x, a).upTo = q.upTo
      /\ GoneOn(q, x, a).clears = q.clears /\ GoneOn(q, x, a).torn = q.torn
  BY <1>1 DEF GoneOn, RequestSet
<1> QED
  BY <1>2, <1>3

\* A compaction that begins.
BegunJob(b) == [NoJob EXCEPT !.at = "messages", !.boundary = b]

\* What it is; the fields it has.
LEMMA BegunCompaction ==
    ASSUME NEW b \in Nat
    PROVE  /\ BegunJob(b) \in JobSet
           /\ BegunJob(b).at = "messages" /\ BegunJob(b).boundary = b
<1>1. NoAnchor \in AnchorSet
  BY DEF NoAnchor, AnchorSet
<1> HIDE DEF NoAnchor
<1>2. BegunJob(b) \in JobSet
  BY <1>1 DEF BegunJob, JobSet, NoJob
<1>3. /\ BegunJob(b).at = "messages" /\ BegunJob(b).boundary = b
  BY <1>1 DEF BegunJob, JobSet, NoJob
<1> QED
  BY <1>2, <1>3

\* It has taken up nothing yet.
LEMMA BegunCompactionIsEmpty ==
    ASSUME NEW b \in Nat
    PROVE  BegunJob(b).selection = {} /\ BegunJob(b).anchor = NoAnchor
BY Nothing DEF BegunJob, JobSet, NoJob

\* It has taken up its messages.
Selecting(j, s) == [j EXCEPT !.selection = s, !.at = "anchor"]

\* Only its selection changes.
LEMMA SelectingCompaction ==
    ASSUME NEW j \in JobSet, NEW s \in SUBSET Nat
    PROVE  /\ Selecting(j, s) \in JobSet
           /\ Selecting(j, s).at = "anchor" /\ Selecting(j, s).boundary = j.boundary
           /\ Selecting(j, s).selection = s /\ Selecting(j, s).anchor = j.anchor
<1>1. NoAnchor \in AnchorSet
  BY DEF NoAnchor, AnchorSet
<1> HIDE DEF NoAnchor
<1>2. Selecting(j, s) \in JobSet
  BY <1>1 DEF Selecting, JobSet
<1>3. /\ Selecting(j, s).at = "anchor" /\ Selecting(j, s).boundary = j.boundary
      /\ Selecting(j, s).selection = s /\ Selecting(j, s).anchor = j.anchor
  BY <1>1 DEF Selecting, JobSet
<1> QED
  BY <1>2, <1>3

\* It has read the anchor, or has written the new one.
Holding(j, a, to) == [j EXCEPT !.anchor = a, !.at = to]

\* Only its anchor changes.
LEMMA HoldingCompaction ==
    ASSUME NEW j \in JobSet, NEW a \in AnchorSet, NEW to \in {"summarise", "commit"}
    PROVE  /\ Holding(j, a, to) \in JobSet
           /\ Holding(j, a, to).at = to /\ Holding(j, a, to).boundary = j.boundary
           /\ Holding(j, a, to).selection = j.selection /\ Holding(j, a, to).anchor = a
<1>1. NoAnchor \in AnchorSet
  BY DEF NoAnchor, AnchorSet
<1> HIDE DEF NoAnchor
<1>2. Holding(j, a, to) \in JobSet
  BY <1>1 DEF Holding, JobSet
<1>3. /\ Holding(j, a, to).at = to /\ Holding(j, a, to).boundary = j.boundary
      /\ Holding(j, a, to).selection = j.selection /\ Holding(j, a, to).anchor = a
  BY <1>1 DEF Holding, JobSet
<1> QED
  BY <1>2, <1>3

-----------------------------------------------------------------------------
(* What a step may not disturb: everything fits the timeline, and stays fitting when it grows. *)

\* The messages are positions of the timeline.
LEMMA MessagesArePositions ==
    ASSUME events \in Seq({"message", "snapshot"})
    PROVE  /\ Len(events) \in Nat
           /\ Messages \in SUBSET (0..Len(events))
           /\ Messages \in SUBSET Nat /\ 0 \notin Messages
           /\ \A i \in Messages : i <= Len(events) /\ i > 0
<1>1. Len(events) \in Nat /\ DOMAIN events = 1..Len(events)
  OBVIOUS
<1> QED
  BY <1>1 DEF Messages

\* What is appended to the timeline lies behind what was there.
LEMMA TimelineGrows ==
    ASSUME events \in Seq({"message", "snapshot"}),
           \/ events' = events \o <<"message", "message">>
           \/ events' = Append(events, "snapshot")
    PROVE  /\ events' \in Seq({"message", "snapshot"})
           /\ Len(events) <= Len(events') /\ Messages \subseteq Messages'
           /\ \A i \in Messages' : i \in Messages \/ i > Len(events)
<1>1. events \in Seq({"message", "snapshot"}) /\ DOMAIN events = 1..Len(events) /\ Len(events) \in Nat
  OBVIOUS
<1>2. CASE events' = events \o <<"message", "message">>
  <2>1. /\ events' \in Seq({"message", "snapshot"}) /\ Len(events') = Len(events) + 2
        /\ DOMAIN events' = 1..(Len(events) + 2)
        /\ \A i \in 1..Len(events) : events'[i] = events[i]
    BY <1>1, <1>2
  <2> QED
    BY <1>1, <2>1 DEF Messages
<1>3. CASE events' = Append(events, "snapshot")
  <2>1. /\ events' \in Seq({"message", "snapshot"}) /\ Len(events') = Len(events) + 1
        /\ DOMAIN events' = 1..(Len(events) + 1)
        /\ \A i \in 1..Len(events) : events'[i] = events[i]
    BY <1>1, <1>3
  <2> QED
    BY <1>1, <2>1 DEF Messages
<1> QED
  BY <1>2, <1>3

\* What fits a timeline fits a longer one.
LEMMA FitsStay ==
    ASSUME NEW M \in SUBSET Nat, NEW N \in SUBSET Nat, M \subseteq N,
           NEW n \in Nat, NEW m \in Nat, n <= m
    PROVE  /\ \A w \in RowSet : RowFits(w, M, n) => RowFits(w, N, m)
           /\ \A q \in RequestSet : RequestFits(q, M, n) => RequestFits(q, N, m)
           /\ \A j \in JobSet : JobFits(j, M, n) => JobFits(j, N, m)
<1>1. ASSUME NEW w \in RowSet, RowFits(w, M, n) PROVE RowFits(w, N, m)
  <2>1. w.boundary \in Nat
    BY DEF RowSet
  <2>2. w.boundary <= m
    BY <1>1, <2>1 DEF RowFits
  <2> QED
    BY <1>1, <2>2, Zenon DEF RowFits
<1>2. ASSUME NEW q \in RequestSet, RequestFits(q, M, n) PROVE RequestFits(q, N, m)
  <2>1. q.boundary \in Nat /\ q.order \in Nat /\ q.upTo \in Nat
    BY DEF RequestSet
  <2>2. q.boundary <= m /\ q.order <= m /\ q.upTo <= m
    BY <1>2, <2>1 DEF RequestFits
  <2>3. q.history \subseteq N /\ q.anchor.covers \subseteq N
    BY <1>2, Zenon DEF RequestFits
  <2> QED
    BY <1>2, <2>2, <2>3, Zenon DEF RequestFits
<1>3. ASSUME NEW j \in JobSet, JobFits(j, M, n) PROVE JobFits(j, N, m)
  <2>1. j.boundary \in Nat
    BY DEF JobSet
  <2>2. j.boundary <= m
    BY <1>3, <2>1 DEF JobFits
  <2>3. j.selection \subseteq N /\ j.anchor.covers \subseteq N
    BY <1>3, Zenon DEF JobFits
  <2> QED
    BY <1>3, <2>2, <2>3, Zenon DEF JobFits
<1> QED
  BY <1>1, <1>2, <1>3, Zenon

\* A step of requests and compactions that leaves the timeline and the row alone.
LEMMA QuietStep ==
    ASSUME ContextTypes, UNCHANGED <<events, row>>,
           request' \in [Chats -> RequestSet], job' \in [Compactors -> JobSet], count' \in CountSet,
           \A r \in Chats : request'[r] = request[r] \/ RequestFits(request'[r], Messages, Len(events)),
           \A c \in Compactors : job'[c] = job[c] \/ JobFits(job'[c], Messages, Len(events)),
           \A c \in Compactors : job'[c].at = job[c].at \/ job'[c].at = "none" \/ job[c].at # "none"
                                 \/ (~Busy(c) /\ \A d \in Compactors \ {c} : job'[d] = job[d])
    PROVE  ContextTypes'
<1>1. Messages' = Messages /\ Len(events)' = Len(events)
  BY DEF Messages
<1>2. Typed' /\ RowFits(row, Messages, Len(events))'
  BY <1>1 DEF ContextTypes, Typed
<1>3. /\ \A r \in Chats : RequestFits(request[r], Messages, Len(events))'
      /\ \A c \in Compactors : JobFits(job[c], Messages, Len(events))'
  BY <1>1 DEF ContextTypes
<1>4. Exclusive'
  <2> SUFFICES ASSUME NEW c \in Compactors, NEW d \in Compactors,
                      job'[c].at # "none", job'[d].at # "none", ProcessOf[c] = ProcessOf[d]
               PROVE  c = d
    BY DEF Exclusive
  <2>1. job[c].at # "none" /\ job[d].at # "none" => c = d
    BY DEF ContextTypes, Exclusive
  <2>2. \A e \in Compactors : job[e].at # "none" => ~(~Busy(c) /\ ProcessOf[e] = ProcessOf[c])
    BY DEF Busy
  <2>3. \A e \in Compactors : job[e].at # "none" => ~(~Busy(d) /\ ProcessOf[e] = ProcessOf[d])
    BY DEF Busy
  <2> QED
    BY <2>1, <2>2, <2>3
<1> QED
  BY <1>2, <1>3, <1>4 DEF ContextTypes

\* What a compaction that ends leaves of its request.
LEMMA ReturnFits ==
    ASSUME ContextTypes, NEW c \in Compactors, NEW a \in AnchorSet, a.covers \subseteq Messages,
           NEW ok \in BOOLEAN, Returns(c, a, ok)
    PROVE  /\ request' \in [Chats -> RequestSet]
           /\ \A r \in Chats : request'[r] = request[r] \/ RequestFits(request'[r], Messages, Len(events))
<1>1. request \in [Chats -> RequestSet]
  BY DEF ContextTypes, Typed
<1>2. CASE c \in Chats
  <2>1. request[c] \in RequestSet /\ RequestFits(request[c], Messages, Len(events))
    BY <1>1, <1>2 DEF ContextTypes
  <2>2. request[c].anchor \in AnchorSet
    BY <2>1 DEF RequestSet
  <2> DEFINE b == IF ok THEN a ELSE request[c].anchor
             x == ~ok
  <2>3. b \in AnchorSet /\ b.covers \subseteq Messages
    BY <2>1, <2>2 DEF RequestFits
  <2>4. x \in BOOLEAN
    OBVIOUS
  <2> DEFINE p == GoneOn(request[c], x, b)
  <2>5. request' = [request EXCEPT ![c] = p]
    BY <1>2 DEF Returns, GoneOn
  <2> HIDE DEF b, x
  <2>6. /\ p \in RequestSet /\ p.boundary = request[c].boundary /\ p.history = request[c].history
        /\ p.read = request[c].read /\ p.anchor = b
        /\ p.order = request[c].order /\ p.upTo = request[c].upTo
    BY <2>1, <2>3, <2>4, RequestGoneOn
  <2> HIDE DEF p
  <2>7. RequestFits(p, Messages, Len(events))
    BY <2>1, <2>3, <2>6 DEF RequestFits
  <2>8. request' \in [Chats -> RequestSet]
    BY <1>1, <1>2, <2>5, <2>6
  <2>9. \A r \in Chats : request'[r] = request[r] \/ request'[r] = p
    BY <1>1, <1>2, <2>5
  <2> QED
    BY Zenon, <2>7, <2>8, <2>9
<1>3. CASE c \notin Chats
  BY <1>1, <1>3 DEF Returns
<1> QED
  BY <1>2, <1>3

-----------------------------------------------------------------------------
(* Pages, and what a page adds; the selection of a compaction.            *)

\* The budgets are positive numbers.
LEMMA Budgets ==
    /\ LoadBudget \in Nat \ {0} /\ Trigger \in Nat \ {0}
    /\ CompactBudget \in Nat \ {0} /\ PageSize \in Nat \ {0} /\ Trigger <= LoadBudget
BY ContextAssumption

\* The messages that are newer than one.
Newer(i) == {k \in Messages : k > i}

\* A page of the history.
LEMMA ThePage ==
    ASSUME events \in Seq({"message", "snapshot"}), NEW o \in Nat
    PROVE  /\ Page(o) \subseteq Messages /\ Cardinality(Page(o)) \in Nat
           /\ \A i \in Messages : /\ Cardinality(Newer(i)) \in Nat
                                  /\ i \in Page(o) <=> /\ Cardinality(Newer(i)) < o + PageSize
                                                       /\ Cardinality(Newer(i)) >= o
           /\ \A p \in Page(o) : \A i \in Messages :
                i > p => Cardinality(Newer(i)) < o + PageSize
           /\ Cardinality(Page(o)) < PageSize =>
                \A i \in Messages : Cardinality(Newer(i)) < o + PageSize
<1> DEFINE big == Newest(Messages, o + PageSize)
           small == Newest(Messages, o)
<1>0. PageSize \in Nat /\ o + PageSize \in Nat
  BY Budgets
<1>1. Messages \in SUBSET (0..Len(events)) /\ Len(events) \in Nat
  BY MessagesArePositions
<1>2. /\ big \subseteq Messages /\ small \subseteq Messages
      /\ Cardinality(small) \in 0..o /\ Cardinality(big) \in 0..(o + PageSize)
      /\ \A p \in big : \A i \in Messages : i > p => i \in big
      /\ Cardinality(big) < o + PageSize => big = Messages
  BY <1>0, <1>1, NewestOf
<1>3. ASSUME NEW i \in Messages
      PROVE  /\ i \in big <=> Cardinality(Newer(i)) < o + PageSize
             /\ i \in small <=> Cardinality(Newer(i)) < o
             /\ Cardinality(Newer(i)) \in Nat
  <2>1. Cardinality(Newer(i)) \in Nat
    <3>1. Newer(i) \in SUBSET Messages
      BY DEF Newer
    <3> QED
      BY <1>1, <3>1, Positions
  <2>2. i \in big <=> Cardinality(Newer(i)) < o + PageSize
    BY DEF Newest, Newer
  <2>3. i \in small <=> Cardinality(Newer(i)) < o
    BY DEF Newest, Newer
  <2> QED
    BY <2>1, <2>2, <2>3
<1>4. Page(o) = big \ small
  BY DEF Page
<1> HIDE DEF big, small
<1>5. Page(o) \subseteq Messages /\ Cardinality(Page(o)) \in Nat
  BY <1>1, <1>2, <1>4, Positions
<1>6. ASSUME NEW i \in Messages
      PROVE  /\ Cardinality(Newer(i)) \in Nat
             /\ i \in Page(o) <=> Cardinality(Newer(i)) < o + PageSize /\ Cardinality(Newer(i)) >= o
  BY <1>3, <1>4
<1>7. \A p \in Page(o) : \A i \in Messages : i > p => Cardinality(Newer(i)) < o + PageSize
  BY <1>2, <1>3, <1>4
<1>8. ASSUME Cardinality(Page(o)) < PageSize PROVE big = Messages
  <2>1. IsFiniteSet(big) /\ IsFiniteSet(small) /\ IsFiniteSet(Page(o))
    BY <1>1, <1>2, <1>5, Positions
  <2>2. big \subseteq Page(o) \cup small
    BY <1>4
  <2>3. /\ Cardinality(Page(o) \cup small) =
             Cardinality(Page(o)) + Cardinality(small) - Cardinality(Page(o) \cap small)
        /\ IsFiniteSet(Page(o) \cup small)
    BY <2>1, FS_Union
  <2>4. Page(o) \cap small = {}
    BY <1>4
  <2>5. Cardinality(Page(o) \cap small) = 0
    BY <2>4, FS_EmptySet
  <2>6. Cardinality(big) <= Cardinality(Page(o) \cup small)
    BY <2>2, <2>3, FS_Subset
  <2>7. Cardinality(big) < o + PageSize
    BY <1>0, <1>2, <1>5, <1>8, <2>3, <2>5, <2>6
  <2> QED
    BY <1>2, <2>7
<1>9. ASSUME Cardinality(Page(o)) < PageSize, NEW i \in Messages
      PROVE  Cardinality(Newer(i)) < o + PageSize
  BY <1>3, <1>8, <1>9
<1> QED
  BY <1>5, <1>6, <1>7, <1>9

\* What a page adds.
LEMMA TheAdded ==
    ASSUME events \in Seq({"message", "snapshot"}), NEW S \in SUBSET Messages,
           NEW b \in Nat, NEW k \in Nat, k <= LoadBudget
    PROVE  /\ Added(S, b, k) \subseteq S /\ Cardinality(Added(S, b, k)) \in 0..(LoadBudget - k)
           /\ \A x \in Added(S, b, k) : x > b /\ \A i \in S : i > x => i \in Added(S, b, k)
           /\ Cardinality(Added(S, b, k)) < LoadBudget - k =>
                \A i \in S : i > b => i \in Added(S, b, k)
<1> DEFINE above == {i \in S : i > b}
           added == Added(S, b, k)
<1>1. Messages \in SUBSET (0..Len(events)) /\ Len(events) \in Nat /\ Messages \in SUBSET Nat
  BY MessagesArePositions
<1>2. above \in SUBSET (0..Len(events)) /\ LoadBudget - k \in Nat /\ k \in Nat
  <2>1. above \in SUBSET (0..Len(events))
    BY <1>1
  <2>2. LoadBudget - k \in Nat /\ k \in Nat
    BY Budgets
  <2> QED
    BY <2>1, <2>2
<1>3. added = Newest(above, LoadBudget - k)
  BY DEF Added
<1> HIDE DEF added
<1>4. /\ added \subseteq above /\ Cardinality(added) \in 0..(LoadBudget - k)
      /\ \A x \in added : \A i \in above : i > x => i \in added
      /\ Cardinality(added) < LoadBudget - k => added = above
  BY <1>1, <1>2, <1>3, NewestOf
<1>5. ASSUME NEW x \in added PROVE x > b /\ \A i \in S : i > x => i \in added
  <2>1. x > b /\ x \in Nat
    BY <1>1, <1>4
  <2> SUFFICES ASSUME NEW i \in S, i > x PROVE i \in added
    BY <2>1
  <2>2. i \in Nat
    BY <1>1
  <2>3. i \in above
    BY <2>1, <2>2
  <2> QED
    BY <1>4, <2>3
<1> QED
  BY <1>4, <1>5 DEF added

\* Two sets of messages together.
LEMMA Together ==
    ASSUME events \in Seq({"message", "snapshot"}),
           NEW S \in SUBSET Messages, NEW T \in SUBSET Messages
    PROVE  /\ Cardinality(S) \in Nat /\ Cardinality(T) \in Nat
           /\ Cardinality(S \cup T) \in Nat
           /\ Cardinality(S \cup T) <= Cardinality(S) + Cardinality(T)
<1>1. Messages \in SUBSET (0..Len(events)) /\ Len(events) \in Nat
  BY MessagesArePositions
<1>2. IsFiniteSet(S) /\ IsFiniteSet(T) /\ Cardinality(S) \in Nat /\ Cardinality(T) \in Nat
  BY <1>1, Positions
<1>3. Cardinality(S \cup T) = Cardinality(S) + Cardinality(T) - Cardinality(S \cap T)
  BY <1>2, FS_Union
<1>4. Cardinality(S \cap T) \in Nat
  BY <1>2, FS_Subset, FS_CardinalityType
<1>5. Cardinality(S \cup T) \in Nat
  BY <1>2, FS_Union, FS_CardinalityType
<1> QED
  BY <1>2, <1>3, <1>4, <1>5

\* What a compaction takes up.
LEMMA TheSelected ==
    ASSUME events \in Seq({"message", "snapshot"}), NEW b \in Nat
    PROVE  /\ Selected(b) \subseteq Messages /\ Cardinality(Selected(b)) \in 0..CompactBudget
           /\ \A x \in Selected(b) :
                x > b /\ \A i \in Messages : i > b /\ i < x => i \in Selected(b)
           /\ \/ Cardinality(Selected(b)) = CompactBudget
              \/ \A i \in Messages : i > b => i \in Selected(b)
<1> DEFINE above == {i \in Messages : i > b}
           chosen == Selected(b)
<1>1. Messages \in SUBSET (0..Len(events)) /\ Len(events) \in Nat /\ Messages \in SUBSET Nat
  BY MessagesArePositions
<1>2. above \in SUBSET (0..Len(events)) /\ CompactBudget \in Nat
  BY <1>1, Budgets
<1>3. chosen = Oldest(above, CompactBudget)
  BY DEF Selected
<1> HIDE DEF chosen
<1>4. /\ chosen \subseteq above /\ Cardinality(chosen) \in 0..CompactBudget
      /\ \A x \in chosen : \A i \in above : i < x => i \in chosen
      /\ Cardinality(chosen) < CompactBudget => chosen = above
  BY <1>1, <1>2, <1>3, OldestOf
<1> QED
  BY <1>2, <1>4 DEF chosen

\* The last message of a selection.
LEMMA TheLastIncluded ==
    ASSUME events \in Seq({"message", "snapshot"}), NEW S \in SUBSET Messages, S # {}
    PROVE  /\ LastIncluded(S) \in S /\ \A x \in S : x <= LastIncluded(S)
           /\ Min(S) \in S
<1>1. S \in SUBSET (0..Len(events)) /\ Len(events) \in Nat
  BY MessagesArePositions
<1> QED
  BY <1>1, MaxMin DEF LastIncluded

-----------------------------------------------------------------------------
(* What the types say, and the shapes a step has.                          *)

\* What the types say of each part.
LEMMA Parts ==
    ASSUME ContextTypes
    PROVE  /\ events \in Seq({"message", "snapshot"})
           /\ row \in RowSet /\ row.anchor \in AnchorSet /\ row.boundary \in Nat
           /\ row.compressions \in Nat /\ row.anchor.covers \subseteq Messages
           /\ row.boundary <= Len(events)
           /\ request \in [Chats -> RequestSet] /\ job \in [Compactors -> JobSet]
           /\ count \in CountSet /\ count.turns \in Nat /\ count.clears \in Nat
           /\ count.faults \in Nat /\ count.lost \in Nat
<1>1. /\ events \in Seq({"message", "snapshot"}) /\ row \in RowSet /\ count \in CountSet
      /\ request \in [Chats -> RequestSet] /\ job \in [Compactors -> JobSet]
  BY DEF ContextTypes, Typed
<1>2. row.anchor \in AnchorSet /\ row.boundary \in Nat /\ row.compressions \in Nat
  BY <1>1 DEF RowSet
<1>3. row.anchor.covers \subseteq Messages /\ row.boundary <= Len(events)
  BY DEF ContextTypes, RowFits
<1>4. /\ count.turns \in Nat /\ count.clears \in Nat /\ count.faults \in Nat /\ count.lost \in Nat
  BY <1>1 DEF CountSet
<1> QED
  BY <1>1, <1>2, <1>3, <1>4

\* What they say of a request, and of a compaction.
LEMMA RequestParts ==
    ASSUME ContextTypes, NEW r \in Chats
    PROVE  /\ request[r] \in RequestSet /\ RequestFits(request[r], Messages, Len(events))
           /\ request[r].boundary \in Nat /\ request[r].upTo \in Nat /\ request[r].read \in Nat
           /\ request[r].offset \in Nat /\ request[r].clears \in Nat
           /\ request[r].read <= LoadBudget /\ request[r].upTo <= Len(events)
           /\ request[r].history \in SUBSET Nat /\ request[r].history \subseteq Messages
           /\ Cardinality(request[r].history) <= request[r].read
           /\ request[r].anchor \in AnchorSet /\ request[r].anchor.covers \subseteq Messages
           /\ request[r].compressed \in BOOLEAN /\ request[r].torn \in BOOLEAN
<1>1. request[r] \in RequestSet /\ RequestFits(request[r], Messages, Len(events))
  BY Parts DEF ContextTypes
<1>2. /\ request[r].boundary \in Nat /\ request[r].upTo \in Nat /\ request[r].read \in Nat
      /\ request[r].offset \in Nat /\ request[r].clears \in Nat
      /\ request[r].history \in SUBSET Nat /\ request[r].anchor \in AnchorSet
      /\ request[r].compressed \in BOOLEAN /\ request[r].torn \in BOOLEAN
  BY <1>1 DEF RequestSet
<1> QED
  BY <1>1, <1>2 DEF RequestFits

\* The same of a compaction.
LEMMA JobParts ==
    ASSUME ContextTypes, NEW c \in Compactors
    PROVE  /\ job[c] \in JobSet /\ JobFits(job[c], Messages, Len(events))
           /\ job[c].boundary \in Nat /\ job[c].selection \in SUBSET Nat
           /\ job[c].boundary <= Len(events)
           /\ job[c].anchor \in AnchorSet /\ job[c].anchor.covers \subseteq Messages
           /\ job[c].selection \subseteq Messages /\ Cardinality(job[c].selection) <= CompactBudget
<1>1. job[c] \in JobSet /\ JobFits(job[c], Messages, Len(events))
  BY Parts DEF ContextTypes
<1>2. job[c].boundary \in Nat /\ job[c].selection \in SUBSET Nat /\ job[c].anchor \in AnchorSet
  BY <1>1 DEF JobSet
<1> QED
  BY <1>1, <1>2 DEF JobFits

\* One request takes a step.
LEMMA RequestStep ==
    ASSUME ContextTypes, NEW r \in Chats, NEW p \in RequestSet, RequestFits(p, Messages, Len(events)),
           request' = [request EXCEPT ![r] = p], UNCHANGED <<events, row, job>>, count' \in CountSet
    PROVE  ContextTypes'
<1>1. request' \in [Chats -> RequestSet]
  BY Parts
<1>2. \A s \in Chats : request'[s] = request[s] \/ request'[s] = p
  BY Parts
<1>3. \A s \in Chats : request'[s] = request[s] \/ RequestFits(request'[s], Messages, Len(events))
  BY <1>2, Zenon
<1>4. job' \in [Compactors -> JobSet]
  BY Parts
<1> QED
  BY <1>1, <1>3, <1>4, QuietStep

\* One compaction takes a step.
LEMMA JobStep ==
    ASSUME ContextTypes, NEW c \in Compactors, NEW p \in JobSet, JobFits(p, Messages, Len(events)),
           p.at = "none" \/ job[c].at # "none" \/ ~Busy(c),
           job' = [job EXCEPT ![c] = p], UNCHANGED <<events, row>>, count' \in CountSet,
           request' \in [Chats -> RequestSet],
           \A r \in Chats : request'[r] = request[r] \/ RequestFits(request'[r], Messages, Len(events))
    PROVE  ContextTypes'
<1>1. job' \in [Compactors -> JobSet] /\ job'[c] = p /\ \A d \in Compactors \ {c} : job'[d] = job[d]
  BY Parts
<1>2. \A d \in Compactors : job'[d] = job[d] \/ JobFits(job'[d], Messages, Len(events))
  BY <1>1, Zenon
<1>3. \A d \in Compactors : job'[d].at = job[d].at \/ job'[d].at = "none" \/ job[d].at # "none"
                            \/ (~Busy(d) /\ \A e \in Compactors \ {d} : job'[e] = job[e])
  BY <1>1, Zenon
<1> QED
  BY <1>1, <1>2, <1>3, QuietStep

\* The timeline grows.
LEMMA TimelineStep ==
    ASSUME ContextTypes, NEW p \in RowSet, row' = p, RowFits(p, Messages, Len(events)),
           \/ events' = events \o <<"message", "message">>
           \/ events' = Append(events, "snapshot"),
           request' \in [Chats -> RequestSet], count' \in CountSet, job' \in [Compactors -> JobSet],
           \A r \in Chats : request'[r] = request[r] \/ RequestFits(request'[r], Messages, Len(events)),
           \A c \in Compactors : job'[c] = job[c] \/ job'[c] = NoJob
    PROVE  ContextTypes'
<1> DEFINE M == Messages
           n == Len(events)
<1>1. /\ events' \in Seq({"message", "snapshot"}) /\ n <= n' /\ M \subseteq M'
  BY Parts, TimelineGrows
<1>2. n \in Nat /\ n' \in Nat /\ M \in SUBSET Nat /\ M' \in SUBSET Nat
  <2>1. n \in Nat /\ M \in SUBSET Nat
    BY Parts, MessagesArePositions
  <2>2. n' \in Nat
    BY <1>1
  <2>3. DOMAIN events' = 1..Len(events')
    BY <1>1
  <2>4. M' \in SUBSET Nat
    <3>1. Messages' \subseteq 1..Len(events')
      BY <2>3, Zenon DEF Messages
    <3> QED
      BY <2>2, <3>1, NumberedFromOne
  <2> QED
    BY <2>1, <2>2, <2>4
<1>3. /\ \A w \in RowSet : RowFits(w, M, n) => RowFits(w, M', n')
      /\ \A q \in RequestSet : RequestFits(q, M, n) => RequestFits(q, M', n')
      /\ \A j \in JobSet : JobFits(j, M, n) => JobFits(j, M', n')
  BY <1>1, <1>2, FitsStay
<1>4. Typed'
  BY <1>1 DEF Typed
<1>5. ASSUME NEW r \in Chats PROVE RequestFits(request'[r], M', n')
  <2>1. RequestFits(request'[r], M, n)
    BY RequestParts
  <2>2. request'[r] \in RequestSet
    OBVIOUS
  <2> QED
    BY <1>3, <2>1, <2>2, Zenon
<1>6. ASSUME NEW c \in Compactors PROVE JobFits(job'[c], M', n')
  <2>1. JobFits(NoJob, M, n)
    <3>1. Cardinality({}) = 0
      BY FS_EmptySet
    <3>2. 0 <= CompactBudget /\ 0 <= n
      BY <1>2, Budgets
    <3> QED
      BY <3>1, <3>2, Nothing DEF JobFits
  <2>2. JobFits(job'[c], M, n)
    BY <2>1, JobParts, Zenon
  <2>3. job'[c] \in JobSet
    OBVIOUS
  <2> QED
    BY <1>3, <2>2, <2>3, Zenon
<1>7. Exclusive'
  <2>1. \A c \in Compactors : job'[c].at = job[c].at \/ job'[c].at = "none"
    BY Nothing
  <2> QED
    BY <2>1 DEF Exclusive, ContextTypes
<1>8. RowFits(row', M', n')
  BY <1>3, Zenon
<1> QED
  BY <1>4, <1>5, <1>6, <1>7, <1>8 DEF ContextTypes

-----------------------------------------------------------------------------
(* Every step keeps the types: requests, and the clear ...                  *)

\* A session begins with messages only, no summary and nobody at work.
LEMMA TypesBegin == ASSUME Init PROVE ContextTypes
<1>1. PICK n \in InitialLengths : events = [i \in 1..n |-> "message"]
  BY DEF Init
<1>2. events \in Seq({"message", "snapshot"}) /\ Len(events) \in Nat
  <2>1. n \in Nat
    BY ContextAssumption
  <2> QED
    BY <1>1, <2>1
<1>3. /\ row = [anchor |-> NoAnchor, boundary |-> 0, compressions |-> 0]
      /\ request = [r \in Chats |-> Idle] /\ job = [c \in Compactors |-> NoJob]
      /\ count = [turns |-> 0, clears |-> 0, faults |-> 0, lost |-> 0]
  BY DEF Init
<1>4. row \in RowSet /\ row.anchor = NoAnchor /\ row.boundary = 0 /\ row.compressions = 0
  BY <1>3, Nothing DEF RowSet
<1>5. /\ request \in [Chats -> RequestSet] /\ \A r \in Chats : request[r] = Idle
      /\ job \in [Compactors -> JobSet] /\ \A c \in Compactors : job[c] = NoJob
  BY <1>3, Nothing
<1>6. count \in CountSet
  BY <1>3 DEF CountSet
<1>7. Typed
  BY <1>2, <1>4, <1>5, <1>6 DEF Typed
<1>8. RowFits(row, Messages, Len(events))
  BY <1>2, <1>4, Nothing DEF RowFits
<1>9. Cardinality({}) = 0 /\ 0 <= CompactBudget /\ 0 <= LoadBudget
  BY FS_EmptySet, Budgets
<1>10. RequestFits(Idle, Messages, Len(events)) /\ JobFits(NoJob, Messages, Len(events))
  BY <1>2, <1>9, Nothing DEF RequestFits, JobFits
<1>11. Exclusive
  BY <1>5, Nothing DEF Exclusive
<1> QED
  BY <1>5, <1>7, <1>8, <1>10, <1>11 DEF ContextTypes

\* A request begins with the boundary.
LEMMA TypesLoadBoundary == ASSUME ContextTypes, NEW r \in Chats, LoadBoundary(r) PROVE ContextTypes'
<1> DEFINE p == Begun(row.boundary, Len(events), count.clears)
<1>1. Len(events) \in Nat
  BY Parts
<1>2. /\ p \in RequestSet /\ p.boundary = row.boundary /\ p.history = {} /\ p.read = 0
      /\ p.anchor = NoAnchor /\ p.order = 0 /\ p.upTo = Len(events)
  <2>1. row.boundary \in Nat /\ count.clears \in Nat
    BY Parts
  <2>2. p.history = {} /\ p.anchor = NoAnchor
    BY <1>1, <2>1, BegunRequestIsEmpty, SMTT(30)
  <2>3. /\ p \in RequestSet /\ p.boundary = row.boundary /\ p.read = 0 /\ p.order = 0
        /\ p.upTo = Len(events)
    BY <1>1, <2>1, BegunRequest, SMTT(30)
  <2> QED
    BY <2>2, <2>3, Zenon
<1>3. request' = [request EXCEPT ![r] = p] /\ UNCHANGED <<events, row, job>>
  BY DEF LoadBoundary, Begun
<1> HIDE DEF p
<1>4. Cardinality({}) = 0 /\ 0 <= LoadBudget
  BY FS_EmptySet, Budgets
<1>5. RequestFits(p, Messages, Len(events))
  BY <1>1, <1>2, <1>4, Parts, Nothing DEF RequestFits
<1>6. count' \in CountSet
  <2>1. count \in CountSet
    BY Parts
  <2> QED
    BY <2>1, SMTT(30) DEF LoadBoundary, CountSet
<1> QED
  BY <1>2, <1>3, <1>5, <1>6, RequestStep

\* What a request is after a page.
LEMMA AfterPage ==
    ASSUME ContextTypes, NEW r \in Chats, LoadPage(r)
    PROVE  LET q == request[r]
               added == Added(Page(q.offset), q.boundary, q.read)
           IN  \E p \in RequestSet :
                 /\ request' = [request EXCEPT ![r] = p] /\ UNCHANGED <<events, row, job, count>>
                 /\ q.at = "pages" /\ added \subseteq Page(q.offset)
                 /\ p.history = q.history \cup added /\ p.read = q.read + Cardinality(added)
                 /\ p.offset = q.offset + PageSize /\ p.read <= LoadBudget
                 /\ Cardinality(p.history) <= p.read
                 /\ p.boundary = q.boundary /\ p.upTo = q.upTo /\ p.clears = q.clears
                 /\ p.anchor = q.anchor /\ p.order = q.order
                 /\ \/ p.at = "pages" /\ p.read < LoadBudget
                    \/ /\ p.at = "anchor"
                       /\ \/ \E i \in Page(q.offset) : i <= q.boundary
                          \/ p.read >= LoadBudget
                          \/ Cardinality(Page(q.offset)) < PageSize
<1> DEFINE q == request[r]
           page == Page(q.offset)
           added == Added(page, q.boundary, q.read)
           read == q.read + Cardinality(added)
           done == \/ \E i \in page : i <= q.boundary
                   \/ read >= LoadBudget
                   \/ Cardinality(page) < PageSize
           to == IF done THEN "anchor" ELSE "pages"
           p == Paged(q, q.history \cup added, read, q.offset + PageSize, to)
<1>1. q \in RequestSet /\ q.read \in Nat /\ q.read <= LoadBudget /\ q.offset \in Nat /\ q.boundary \in Nat
  BY RequestParts
<1>2. q.history \in SUBSET Messages /\ Cardinality(q.history) <= q.read
  BY RequestParts
<1>3. page \subseteq Messages
  BY <1>1, ThePage, Parts
<1>4. /\ added \subseteq page /\ Cardinality(added) \in 0..(LoadBudget - q.read)
      /\ Cardinality(q.history \cup added) <= q.read + Cardinality(added)
  <2>1. page \in SUBSET Messages /\ events \in Seq({"message", "snapshot"})
    BY <1>3, Parts
  <2> HIDE DEF page
  <2>2. added \subseteq page /\ Cardinality(added) \in 0..(LoadBudget - q.read)
    BY <1>1, <2>1, TheAdded
  <2> HIDE DEF added
  <2>3. added \in SUBSET Messages
    BY <2>1, <2>2
  <2>4. /\ Cardinality(q.history) \in Nat /\ Cardinality(added) \in Nat
        /\ Cardinality(q.history \cup added) \in Nat
        /\ Cardinality(q.history \cup added) <= Cardinality(q.history) + Cardinality(added)
    BY <1>2, <2>1, <2>3, Together
  <2> QED
    BY <1>1, <1>2, <2>2, <2>4
<1>5. /\ q.at = "pages" /\ request' = [request EXCEPT ![r] = p]
      /\ UNCHANGED <<events, row, job, count>>
  BY DEF LoadPage, Paged
<1>6. q.history \cup added \in SUBSET Nat
  BY <1>2, <1>3, <1>4, MessagesArePositions, Parts
<1>7. to \in {"pages", "anchor"} /\ (to = "anchor" => done)
      /\ (to = "pages" => ~(read >= LoadBudget))
  OBVIOUS
<1> HIDE DEF to, done, page, added
<1>8. read \in Nat /\ read <= LoadBudget /\ q.offset + PageSize \in Nat
  BY <1>1, <1>4, Budgets
<1>9. /\ p \in RequestSet /\ p.at = to /\ p.boundary = q.boundary
      /\ p.history = q.history \cup added /\ p.read = read /\ p.offset = q.offset + PageSize
      /\ p.anchor = q.anchor /\ p.order = q.order /\ p.upTo = q.upTo /\ p.clears = q.clears
  BY <1>1, <1>6, <1>7, <1>8, PagedRequest
<1> HIDE DEF p
<1>10. to = "pages" => read < LoadBudget
  BY <1>7, <1>8, Budgets
<1>11. Cardinality(p.history) <= p.read /\ p.read <= LoadBudget
  BY <1>4, <1>8, <1>9
<1>12. \/ p.at = "pages" /\ p.read < LoadBudget
       \/ /\ p.at = "anchor"
          /\ \/ \E i \in page : i <= q.boundary
             \/ p.read >= LoadBudget
             \/ Cardinality(page) < PageSize
  BY <1>7, <1>9, <1>10 DEF done
<1> QED
  BY <1>4, <1>5, <1>9, <1>11, <1>12, Zenon DEF page, added

\* It reads a page.
LEMMA TypesLoadPage == ASSUME ContextTypes, NEW r \in Chats, LoadPage(r) PROVE ContextTypes'
<1> DEFINE q == request[r]
           added == Added(Page(q.offset), q.boundary, q.read)
<1>1. PICK p \in RequestSet :
        /\ request' = [request EXCEPT ![r] = p] /\ UNCHANGED <<events, row, job, count>>
        /\ added \subseteq Page(q.offset)
        /\ p.history = q.history \cup added /\ p.read <= LoadBudget
        /\ Cardinality(p.history) <= p.read
        /\ p.boundary = q.boundary /\ p.upTo = q.upTo
        /\ p.anchor = q.anchor /\ p.order = q.order
  BY AfterPage
<1>2. added \subseteq Messages
  BY <1>1, RequestParts, Parts, ThePage
<1>3. RequestFits(p, Messages, Len(events))
  BY <1>1, <1>2, RequestParts DEF RequestFits
<1> QED
  BY <1>1, <1>3, RequestStep, Parts

\* It reads the anchor,
LEMMA TypesLoadAnchor == ASSUME ContextTypes, NEW r \in Chats, LoadAnchor(r) PROVE ContextTypes'
<1> DEFINE q == request[r]
           x == row.compressions > 0
           y == count.clears # q.clears
           p == Loaded(q, row.anchor, x, y)
<1>1. request' = [request EXCEPT ![r] = p] /\ UNCHANGED <<events, row, job, count>>
  BY DEF LoadAnchor, Loaded
<1>2. x \in BOOLEAN /\ y \in BOOLEAN /\ q \in RequestSet
  BY RequestParts
<1> HIDE DEF x, y
<1>3. /\ p \in RequestSet /\ p.boundary = q.boundary /\ p.history = q.history /\ p.read = q.read
      /\ p.anchor = row.anchor /\ p.order = q.order /\ p.upTo = q.upTo
  BY <1>2, LoadedRequest, Parts
<1> HIDE DEF p
<1>4. RequestFits(p, Messages, Len(events))
  BY <1>3, Parts, RequestParts DEF RequestFits
<1> QED
  BY <1>1, <1>3, <1>4, RequestStep, Parts

\* finds whether the history is too long,
LEMMA TypesMeasure == ASSUME ContextTypes, NEW r \in Chats, Measure(r) PROVE ContextTypes'
<1> DEFINE q == request[r]
           to == IF q.read >= Trigger /\ ~q.compressed THEN "compact" ELSE "answer"
           p == Measured(q, to)
<1>1. request' = [request EXCEPT ![r] = p] /\ UNCHANGED <<events, row, job, count>>
  BY DEF Measure, Measured
<1>2. to \in {"compact", "answer"} /\ q \in RequestSet
  BY RequestParts
<1> HIDE DEF to
<1>3. /\ p \in RequestSet /\ p.boundary = q.boundary /\ p.history = q.history /\ p.read = q.read
      /\ p.anchor = q.anchor /\ p.order = q.order /\ p.upTo = q.upTo
  BY <1>2, MeasuredRequest
<1> HIDE DEF p
<1>4. RequestFits(p, Messages, Len(events))
  BY <1>3, RequestParts DEF RequestFits
<1> QED
  BY <1>1, <1>3, <1>4, RequestStep, Parts

\* is answered,
LEMMA TypesAnswer == ASSUME ContextTypes, NEW r \in Chats, Answer(r) PROVE ContextTypes'
<1> DEFINE q == request[r]
           p == Answered(q, Len(events))
<1>1. request' = [request EXCEPT ![r] = p] /\ UNCHANGED <<events, row, job, count>>
  BY DEF Answer, Answered
<1>2. Len(events) \in Nat /\ q \in RequestSet
  BY RequestParts, Parts
<1>3. /\ p \in RequestSet /\ p.boundary = q.boundary /\ p.history = q.history /\ p.read = q.read
      /\ p.anchor = q.anchor /\ p.order = Len(events) /\ p.upTo = q.upTo
  BY <1>2, AnsweredRequest
<1> HIDE DEF p
<1>4. RequestFits(p, Messages, Len(events))
  BY <1>2, <1>3, RequestParts DEF RequestFits
<1> QED
  BY <1>1, <1>3, <1>4, RequestStep, Parts

\* Idle and NoJob fit every timeline.
LEMMA NothingFits ==
    ASSUME ContextTypes
    PROVE  RequestFits(Idle, Messages, Len(events)) /\ JobFits(NoJob, Messages, Len(events))
<1>1. Cardinality({}) = 0 /\ 0 <= CompactBudget /\ 0 <= LoadBudget
  BY FS_EmptySet, Budgets
<1>2. 0 <= Len(events)
  BY Parts
<1> QED
  BY <1>1, <1>2, Nothing DEF RequestFits, JobFits

\* and its turn is saved, or lost.
LEMMA TypesSaveTurn == ASSUME ContextTypes, NEW r \in Chats, SaveTurn(r) PROVE ContextTypes'
<1>1. request' = [request EXCEPT ![r] = Idle] /\ UNCHANGED <<row, job>>
  BY DEF SaveTurn
<1>2. count' \in CountSet
  BY Parts DEF SaveTurn, CountSet
<1>3. CASE events' = events
  BY <1>1, <1>2, <1>3, RequestStep, Nothing, NothingFits
<1>4. CASE events' = events \o <<"message", "message">>
  <2>1. request' \in [Chats -> RequestSet]
    BY <1>1, Parts, Nothing
  <2>2. \A s \in Chats : request'[s] = request[s] \/ request'[s] = Idle
    BY <1>1, Parts
  <2>3. \A s \in Chats : request'[s] = request[s] \/ RequestFits(request'[s], Messages, Len(events))
    BY <2>2, NothingFits, Zenon
  <2>4. row \in RowSet /\ RowFits(row, Messages, Len(events)) /\ job' \in [Compactors -> JobSet]
    BY <1>1, Parts DEF ContextTypes
  <2>5. \A c \in Compactors : job'[c] = job[c] \/ job'[c] = NoJob
    BY <1>1
  <2> QED
    BY <1>1, <1>2, <1>4, <2>1, <2>3, <2>4, <2>5, TimelineStep
<1> QED
  BY <1>3, <1>4 DEF SaveTurn

\* A clear leaves a row that fits.
LEMMA TypesClear == ASSUME ContextTypes, Clear PROVE ContextTypes'
<1>1. row' = Cleared /\ UNCHANGED <<events, request, job>>
  BY DEF Clear
<1>2. Cleared \in RowSet /\ Cleared.anchor = NoAnchor /\ Cleared.boundary = 0 /\ Cleared.compressions = 0
  BY Nothing DEF Cleared, RowSet
<1>3. RowFits(Cleared, Messages, Len(events))
  BY <1>2, Nothing, Parts DEF RowFits
<1>4. count' \in CountSet
  BY Parts DEF Clear, CountSet
<1>5. Messages' = Messages /\ Len(events)' = Len(events)
  BY <1>1 DEF Messages
<1>6. Typed'
  BY <1>1, <1>2, <1>4, Parts DEF Typed
<1>7. Exclusive'
  BY <1>1 DEF Exclusive, ContextTypes
<1> QED
  BY <1>1, <1>3, <1>5, <1>6, <1>7 DEF ContextTypes

-----------------------------------------------------------------------------
(* ... and compactions.                                                     *)

\* A compaction that ends without a result.
LEMMA TypesReturn ==
    ASSUME ContextTypes, NEW c \in Compactors, job' = [job EXCEPT ![c] = NoJob],
           Returns(c, NoAnchor, FALSE), UNCHANGED <<events, row, count>>
    PROVE  ContextTypes'
<1>1. NoAnchor \in AnchorSet /\ NoAnchor.covers \subseteq Messages /\ FALSE \in BOOLEAN
  BY Nothing
<1>2. /\ request' \in [Chats -> RequestSet]
      /\ \A r \in Chats : request'[r] = request[r] \/ RequestFits(request'[r], Messages, Len(events))
  BY <1>1, ReturnFits
<1>3. NoJob \in JobSet /\ NoJob.at = "none" /\ JobFits(NoJob, Messages, Len(events))
  BY Nothing, NothingFits
<1>4. count' \in CountSet
  BY Parts
<1> QED
  BY <1>2, <1>3, <1>4, JobStep

\* Another compaction is at work.
LEMMA TypesCompactBusy == ASSUME ContextTypes, NEW c \in Compactors, CompactBusy(c) PROVE ContextTypes'
<1>1. c \in Chats /\ Returns(c, NoAnchor, FALSE) /\ UNCHANGED <<events, row, job, count>>
  BY DEF CompactBusy
<1>2. NoAnchor \in AnchorSet /\ NoAnchor.covers \subseteq Messages /\ FALSE \in BOOLEAN
  BY Nothing
<1>3. /\ request' \in [Chats -> RequestSet]
      /\ \A r \in Chats : request'[r] = request[r] \/ RequestFits(request'[r], Messages, Len(events))
  BY <1>1, <1>2, ReturnFits
<1>4. job' \in [Compactors -> JobSet] /\ count' \in CountSet
  BY <1>1, Parts
<1> QED
  BY <1>1, <1>3, <1>4, QuietStep

\* A compaction begins with the boundary; nobody of its process is at work.
LEMMA TypesCompactBegin == ASSUME ContextTypes, NEW c \in Compactors, CompactBegin(c) PROVE ContextTypes'
<1> DEFINE p == BegunJob(row.boundary)
<1>1. job' = [job EXCEPT ![c] = p] /\ ~Busy(c) /\ UNCHANGED <<events, row, request, count>>
  BY DEF CompactBegin, BegunJob
<1>2. p \in JobSet /\ p.at = "messages" /\ p.boundary = row.boundary
  BY Parts, BegunCompaction
<1>3. p.selection = {} /\ p.anchor = NoAnchor
  BY Parts, BegunCompactionIsEmpty
<1> HIDE DEF p
<1>4. Cardinality({}) = 0 /\ 0 <= CompactBudget /\ row.boundary <= Len(events)
  BY FS_EmptySet, Budgets, Parts
<1>5. JobFits(p, Messages, Len(events))
  BY <1>2, <1>3, <1>4, Nothing DEF JobFits
<1>6. request' \in [Chats -> RequestSet] /\ count' \in CountSet
  BY <1>1, Parts
<1>7. \A r \in Chats : request'[r] = request[r]
  BY <1>1
<1> QED
  BY <1>1, <1>2, <1>5, <1>6, <1>7, JobStep

\* What a compaction is that has taken up messages.
LEMMA AfterSelection ==
    ASSUME ContextTypes, NEW c \in Compactors, job[c].at = "messages", Selected(job[c].boundary) # {},
           job' = [job EXCEPT ![c] =
                     [job[c] EXCEPT !.selection = Selected(job[c].boundary), !.at = "anchor"]]
    PROVE  \E p \in JobSet :
             /\ job' = [job EXCEPT ![c] = p] /\ p.at = "anchor" /\ p.boundary = job[c].boundary
             /\ p.selection = Selected(job[c].boundary) /\ p.anchor = job[c].anchor
             /\ JobFits(p, Messages, Len(events))
<1> DEFINE j == job[c]
           s == Selected(j.boundary)
           p == Selecting(j, s)
<1>1. j \in JobSet /\ j.boundary \in Nat
  BY JobParts
<1>2. s \in SUBSET Messages /\ Cardinality(s) \in 0..CompactBudget
  BY <1>1, Parts, TheSelected
<1>3. s \in SUBSET Nat
  BY <1>2, Parts, MessagesArePositions
<1>4. job' = [job EXCEPT ![c] = p] /\ s # {}
  BY DEF Selecting
<1> HIDE DEF s
<1>5. /\ p \in JobSet /\ p.at = "anchor" /\ p.boundary = j.boundary
      /\ p.selection = s /\ p.anchor = j.anchor
  BY <1>1, <1>3, SelectingCompaction
<1> HIDE DEF p
<1>6. JobFits(p, Messages, Len(events))
  BY <1>2, <1>4, <1>5, JobParts, Budgets DEF JobFits
<1> QED
  BY <1>4, <1>5, <1>6 DEF s

\* It takes up messages, or there are none.
LEMMA TypesCompactReadMessages ==
    ASSUME ContextTypes, NEW c \in Compactors, CompactReadMessages(c) PROVE ContextTypes'
<1>1. CASE Selected(job[c].boundary) # {}
  <2>1. /\ job[c].at = "messages" /\ UNCHANGED <<events, row, request, count>>
        /\ job' = [job EXCEPT ![c] =
             [job[c] EXCEPT !.selection = Selected(job[c].boundary), !.at = "anchor"]]
    BY <1>1 DEF CompactReadMessages
  <2>2. PICK p \in JobSet : job' = [job EXCEPT ![c] = p] /\ JobFits(p, Messages, Len(events))
    BY <1>1, <2>1, AfterSelection
  <2>3. request' \in [Chats -> RequestSet] /\ count' \in CountSet
    BY <2>1, Parts
  <2>4. \A r \in Chats : request'[r] = request[r]
    BY <2>1
  <2> QED
    BY <2>1, <2>2, <2>3, <2>4, JobStep
<1>2. CASE Selected(job[c].boundary) = {}
  BY <1>2, TypesReturn DEF CompactReadMessages
<1> QED
  BY <1>1, <1>2

\* A compaction that holds another anchor.
LEMMA TypesHolding ==
    ASSUME ContextTypes, NEW c \in Compactors, NEW a \in AnchorSet, NEW to \in {"summarise", "commit"},
           a.covers \subseteq Messages, to = "commit" => a.there,
           job[c].at \in {"anchor", "summarise"}, job' = [job EXCEPT ![c] = Holding(job[c], a, to)],
           UNCHANGED <<events, row, request>>, count' \in CountSet
    PROVE  ContextTypes'
<1> DEFINE p == Holding(job[c], a, to)
<1>1. /\ p \in JobSet /\ p.at = to /\ p.anchor = a
      /\ p.boundary = job[c].boundary /\ p.selection = job[c].selection
  BY JobParts, HoldingCompaction
<1> HIDE DEF p
<1>2. JobFits(p, Messages, Len(events))
  BY <1>1, JobParts DEF JobFits
<1>3. request' \in [Chats -> RequestSet]
  BY Parts
<1>4. job' = [job EXCEPT ![c] = p]
  BY DEF p
<1> QED
  BY <1>1, <1>2, <1>3, <1>4, JobStep

\* It reads the anchor,
LEMMA TypesCompactReadAnchor ==
    ASSUME ContextTypes, NEW c \in Compactors, CompactReadAnchor(c) PROVE ContextTypes'
<1>1. /\ job[c].at = "anchor" /\ job' = [job EXCEPT ![c] = Holding(job[c], row.anchor, "summarise")]
      /\ UNCHANGED <<events, row, request, count>>
  BY DEF CompactReadAnchor, Holding
<1>2. row.anchor \in AnchorSet /\ row.anchor.covers \subseteq Messages /\ count' \in CountSet
  BY <1>1, Parts
<1> QED
  BY <1>1, <1>2, TypesHolding

\* What the model makes of an anchor and a selection.
LEMMA TheSummary ==
    ASSUME ContextTypes, NEW c \in Compactors, job[c].at = "summarise"
    PROVE  LET merged == Merged(job[c].anchor, job[c].selection)
               shift == Makeshift(job[c].selection)
           IN  /\ merged \in AnchorSet /\ merged.there
               /\ merged.covers = job[c].anchor.covers \cup job[c].selection
               /\ merged.poor = job[c].anchor.poor
               /\ shift \in AnchorSet /\ shift.there /\ shift.poor /\ shift.covers \subseteq Messages
<1> DEFINE a == job[c].anchor
           s == job[c].selection
<1>1. /\ a \in AnchorSet /\ a.covers \in SUBSET Nat /\ a.poor \in BOOLEAN
      /\ s \in SUBSET Messages /\ s \in SUBSET Nat /\ s # {}
  <2>1. a \in AnchorSet /\ s \in SUBSET Messages /\ s \in SUBSET Nat
    BY JobParts
  <2>2. s # {}
    BY JobParts DEF JobFits
  <2> QED
    BY <2>1, <2>2 DEF AnchorSet
<1>2. Min(s) \in s
  BY <1>1, TheLastIncluded, Parts
<1> HIDE DEF a, s
<1>3. /\ Merged(a, s) \in AnchorSet /\ Merged(a, s).there
      /\ Merged(a, s).covers = a.covers \cup s /\ Merged(a, s).poor = a.poor
  BY <1>1 DEF Merged, AnchorSet
<1>4. {Min(s)} \in SUBSET Nat /\ {Min(s)} \subseteq Messages
  BY <1>1, <1>2
<1>5. /\ Makeshift(s) \in AnchorSet /\ Makeshift(s).there /\ Makeshift(s).poor
      /\ Makeshift(s).covers = {Min(s)}
  BY <1>4 DEF Makeshift, AnchorSet
<1>6. Makeshift(s).covers \subseteq Messages
  BY <1>4, <1>5
<1> QED
  BY <1>3, <1>5, <1>6 DEF a, s

\* has a summary written, or makes do,
LEMMA TypesCompactSummarise ==
    ASSUME ContextTypes, NEW c \in Compactors, CompactSummarise(c) PROVE ContextTypes'
<1> DEFINE merged == Merged(job[c].anchor, job[c].selection)
           shift == Makeshift(job[c].selection)
<1>1. /\ job[c].at = "summarise" /\ UNCHANGED <<events, row, request>>
      /\ \/ job' = [job EXCEPT ![c] = Holding(job[c], merged, "commit")]
         \/ job' = [job EXCEPT ![c] = Holding(job[c], shift, "commit")]
  BY DEF CompactSummarise, Holding
<1>2. count' \in CountSet
  BY Parts DEF CompactSummarise, CountSet
<1>3. /\ merged \in AnchorSet /\ merged.there /\ shift \in AnchorSet /\ shift.there
      /\ merged.covers = job[c].anchor.covers \cup job[c].selection
      /\ shift.covers \subseteq Messages
  BY <1>1, TheSummary
<1> HIDE DEF merged, shift
<1>4. merged.covers \subseteq Messages
  BY <1>3, JobParts
<1> QED
  BY <1>1, <1>2, <1>3, <1>4, TypesHolding

\* What a commit that stands writes.
LEMMA TheCommit ==
    ASSUME ContextTypes, NEW c \in Compactors, CompactCommit(c), Stands(job[c].boundary)
    PROVE  \E w \in RowSet :
             /\ row' = w /\ RowFits(w, Messages, Len(events))
             /\ w.anchor = job[c].anchor /\ w.boundary = LastIncluded(job[c].selection)
             /\ w.compressions > 0
             /\ events' = Append(events, "snapshot") /\ Returns(c, job[c].anchor, TRUE)
             /\ job' = [job EXCEPT ![c] = NoJob] /\ UNCHANGED count
<1> DEFINE last == LastIncluded(job[c].selection)
           w == [anchor |-> job[c].anchor, compressions |-> row.compressions + 1, boundary |-> last]
<1>1. /\ job[c].at = "commit" /\ row' = w /\ events' = Append(events, "snapshot")
      /\ Returns(c, job[c].anchor, TRUE) /\ job' = [job EXCEPT ![c] = NoJob] /\ UNCHANGED count
  BY DEF CompactCommit
<1>2. job[c].selection \in SUBSET Messages /\ job[c].selection # {} /\ job[c].anchor.there
  BY <1>1, JobParts DEF JobFits
<1>3. last \in Messages /\ last \in Nat /\ last > 0 /\ last <= Len(events)
  BY <1>2, TheLastIncluded, MessagesArePositions, Parts
<1> HIDE DEF last
<1>4. row.compressions + 1 \in Nat /\ row.compressions + 1 > 0
  BY Parts
<1>5. /\ w \in RowSet /\ w.anchor = job[c].anchor /\ w.boundary = last
      /\ w.compressions = row.compressions + 1
  BY <1>3, <1>4, JobParts DEF RowSet
<1> HIDE DEF w
<1>6. RowFits(w, Messages, Len(events))
  BY <1>2, <1>3, <1>4, <1>5, JobParts DEF RowFits
<1> QED
  BY <1>1, <1>4, <1>5, <1>6 DEF last

\* commits it if the boundary stands,
LEMMA TypesCompactCommit == ASSUME ContextTypes, NEW c \in Compactors, CompactCommit(c) PROVE ContextTypes'
<1>1. CASE Stands(job[c].boundary)
  <2>1. PICK w \in RowSet :
          /\ row' = w /\ RowFits(w, Messages, Len(events))
          /\ events' = Append(events, "snapshot") /\ Returns(c, job[c].anchor, TRUE)
          /\ job' = [job EXCEPT ![c] = NoJob] /\ UNCHANGED count
    BY <1>1, TheCommit
  <2>2. job[c].anchor \in AnchorSet /\ job[c].anchor.covers \subseteq Messages /\ TRUE \in BOOLEAN
    BY JobParts
  <2>3. /\ request' \in [Chats -> RequestSet]
        /\ \A r \in Chats : request'[r] = request[r] \/ RequestFits(request'[r], Messages, Len(events))
    BY <2>1, <2>2, ReturnFits
  <2>4. /\ job' \in [Compactors -> JobSet] /\ count' \in CountSet
        /\ \A d \in Compactors : job'[d] = job[d] \/ job'[d] = NoJob
    BY <2>1, Parts, Nothing
  <2> QED
    BY <2>1, <2>3, <2>4, TimelineStep
<1>2. CASE ~Stands(job[c].boundary)
  BY <1>2, TypesReturn DEF CompactCommit
<1> QED
  BY <1>1, <1>2

\* or is the victim of a deadlock in the database.
LEMMA TypesCompactAborted == ASSUME ContextTypes, NEW c \in Compactors, CompactAborted(c) PROVE ContextTypes'
BY TypesReturn DEF CompactAborted

\* Every step leaves the records well formed.
LEMMA TypesStep == ASSUME ContextTypes, [Next]_vars PROVE ContextTypes'
<1>1. ASSUME NEW r \in Chats, Chat(r) PROVE ContextTypes'
  BY <1>1, TypesLoadBoundary, TypesLoadPage, TypesLoadAnchor, TypesMeasure, TypesAnswer,
     TypesSaveTurn DEF Chat
<1>2. ASSUME NEW c \in Compactors, Compaction(c) PROVE ContextTypes'
  BY <1>2, TypesCompactBusy, TypesCompactBegin, TypesCompactReadMessages,
     TypesCompactReadAnchor, TypesCompactSummarise, TypesCompactCommit, TypesCompactAborted
  DEF Compaction
<1>3. CASE Clear
  BY <1>3, TypesClear
<1>4. CASE UNCHANGED vars
  BY <1>4 DEF vars, ContextTypes, Typed, Exclusive, Messages
<1> QED
  BY <1>1, <1>2, <1>3, <1>4 DEF Next

\* They are what TypeOK says of them.
LEMMA TypesAreOK == ASSUME ContextTypes PROVE TypeOK
<1>1. ASSUME NEW a \in AnchorSet, a.covers \subseteq Messages PROVE a \in Anchors
  BY <1>1 DEF AnchorSet, Anchors
<1>2. row.anchor \in Anchors /\ row.boundary \in 0..Len(events)
  BY <1>1, Parts
<1>3. (row.anchor.there <=> row.compressions > 0) /\ (row.anchor.there <=> row.boundary > 0)
  BY DEF ContextTypes, RowFits
<1>4. ASSUME NEW r \in Chats
      PROVE  /\ request[r].at \in {"idle", "pages", "anchor", "measure", "compact", "answer", "save"}
             /\ request[r].history \subseteq Messages
             /\ request[r].read \in Cardinality(request[r].history)..LoadBudget
             /\ request[r].anchor \in Anchors
             /\ request[r].order \in 0..Len(events)
  <2>1. request[r] \in RequestSet
    BY RequestParts
  <2>2. request[r].at \in {"idle", "pages", "anchor", "measure", "compact", "answer", "save"}
    BY <2>1 DEF RequestSet
  <2>3. request[r].order \in Nat /\ request[r].order <= Len(events)
    <3>1. request[r].order \in Nat
      BY <2>1 DEF RequestSet
    <3>2. request[r].order <= Len(events)
      BY RequestParts DEF RequestFits
    <3> QED
      BY <3>1, <3>2
  <2>4. request[r].history \in SUBSET Messages /\ request[r].anchor \in Anchors
    BY <1>1, RequestParts
  <2>5. Cardinality(request[r].history) \in Nat
    BY <2>4, Together, Parts
  <2>6. request[r].read \in Cardinality(request[r].history)..LoadBudget
    BY <2>5, RequestParts, Budgets
  <2> QED
    BY <2>2, <2>3, <2>4, <2>6, Parts
<1>5. ASSUME NEW c \in Compactors
      PROVE  /\ job[c].at \in {"none", "messages", "anchor", "summarise", "commit"}
             /\ job[c].selection \subseteq Messages /\ Cardinality(job[c].selection) <= CompactBudget
             /\ \A d \in Compactors :
                  job[c].at # "none" /\ job[d].at # "none" /\ ProcessOf[c] = ProcessOf[d] => c = d
  <2>1. job[c] \in JobSet
    BY JobParts
  <2>2. job[c].at \in {"none", "messages", "anchor", "summarise", "commit"}
    BY <2>1 DEF JobSet
  <2> QED
    BY <2>2, JobParts DEF ContextTypes, Exclusive
<1> QED
  BY <1>2, <1>3, <1>4, <1>5, Parts DEF TypeOK

\* However chats, compactions and clears overlap, in however many processes, the
\* records stay well formed: boundary, anchor and count move together, and one
\* process compacts once at a time (ChatSessionMemory, CompactionService._lock_for).
THEOREM ContextTypeCorrect == Spec => []TypeOK
<1>1. Init => ContextTypes
  BY TypesBegin
<1>2. ContextTypes /\ [Next]_vars => ContextTypes'
  BY TypesStep
<1>3. ContextTypes => TypeOK
  BY TypesAreOK
<1> QED
  BY <1>1, <1>2, <1>3, PTL DEF Spec

-----------------------------------------------------------------------------
(* What was sound stays sound when the timeline grows.                     *)

\* What was loaded of the messages up to n is as complete when later ones come.
LEMMA LoadsStay ==
    ASSUME NEW M, NEW N, NEW m \in Nat, N \in SUBSET (0..m), M \subseteq N, NEW n \in Nat,
           \A i \in N : i \in M \/ i > n,
           NEW q \in RequestSet, q.upTo <= n, Loads(q, M)
    PROVE  Loads(q, N)
<1>1. q.upTo \in Nat /\ q.boundary \in Nat /\ q.offset \in Nat
  BY DEF RequestSet
<1>2. \A i \in N : i <= q.upTo => i \in M
  BY <1>1
<1>3. \A x \in q.history : \A i \in N : i > x /\ i <= q.upTo => i \in q.history
  BY <1>2 DEF Loads
<1>4. ASSUME q.at = "pages", NEW i \in N, i > q.boundary, i <= q.upTo,
             Cardinality({k \in N : k > i}) < q.offset
      PROVE  i \in q.history
  <2>1. i \in M
    BY <1>2, <1>4
  <2>2. Cardinality({k \in M : k > i}) < q.offset
    <3> DEFINE S == {k \in M : k > i}
               T == {k \in N : k > i}
    <3>1. S \subseteq T /\ T \in SUBSET (0..m)
      OBVIOUS
    <3>2. Cardinality(S) <= Cardinality(T) /\ Cardinality(S) \in Nat /\ Cardinality(T) \in Nat
      BY <3>1, Positions
    <3>3. Cardinality(T) < q.offset
      BY <1>4
    <3> HIDE DEF S, T
    <3>4. Cardinality(S) < q.offset
      BY <1>1, <3>2, <3>3
    <3> QED
      BY <3>4 DEF S
  <2> QED
    BY <1>4, <2>1, <2>2 DEF Loads
<1>5. q.at \notin {"idle", "pages"} /\ q.read < LoadBudget =>
        \A i \in N : i > q.boundary /\ i <= q.upTo => i \in q.history
  BY <1>2 DEF Loads
<1>6. q.at = "pages" => q.read < LoadBudget
  BY DEF Loads
<1> QED
  BY <1>3, <1>4, <1>5, <1>6 DEF Loads

\* So is what an anchor tells of,
LEMMA CoversStay ==
    ASSUME NEW M, NEW N, N \in SUBSET Nat, NEW n \in Nat,
           \A i \in N : i \in M \/ i > n, NEW a, NEW b \in Nat, b <= n, Covers(a, M, b)
    PROVE  Covers(a, N, b)
<1>1. \A i \in N : i <= b => i \in M
  OBVIOUS
<1> QED
  BY <1>1 DEF Covers

\* a request,
LEMMA RequestStays ==
    ASSUME NEW M, NEW N, NEW m \in Nat, N \in SUBSET (0..m), M \subseteq N, NEW n \in Nat,
           \A i \in N : i \in M \/ i > n,
           NEW q \in RequestSet, q.upTo <= n, q.boundary <= n,
           NEW w, NEW clears, RequestSound(q, w, clears, M)
    PROVE  RequestSound(q, w, clears, N)
<1>1. q.upTo \in Nat /\ q.boundary \in Nat /\ N \in SUBSET Nat
  BY DEF RequestSet
<1>2. Loads(q, N) /\ Follows(q, w, clears)
  BY LoadsStay DEF RequestSound
<1>3. Anchored(q, N)
  <2>1. Covers(q.anchor, M, q.boundary) => Covers(q.anchor, N, q.boundary)
    BY <1>1, CoversStay
  <2> QED
    BY <2>1 DEF Anchored, RequestSound
<1>4. Answers(q, N)
  <2>1. \A i \in N : i <= q.upTo => i \in M
    BY <1>1
  <2>2. {i \in N : i <= q.upTo /\ i > q.boundary} = {i \in M : i <= q.upTo /\ i > q.boundary}
    BY <2>1
  <2> QED
    BY <2>1, <2>2 DEF Answers, RequestSound
<1> QED
  BY <1>2, <1>3, <1>4 DEF RequestSound

\* a compaction,
LEMMA JobStays ==
    ASSUME NEW M, NEW N, NEW m \in Nat, N \in SUBSET (0..m), M \subseteq N, NEW n \in Nat,
           \A i \in N : i \in M \/ i > n, \A i \in M : i <= n,
           NEW j \in JobSet, j.selection \subseteq M, j.boundary <= n,
           NEW w, JobSound(j, w, M)
    PROVE  JobSound(j, w, N)
<1>1. j.boundary \in Nat /\ N \in SUBSET Nat
  BY DEF JobSet
<1>2. Takes(j, N)
  <2> SUFFICES ASSUME NEW x \in j.selection
               PROVE  x > j.boundary /\ \A i \in N : i > j.boundary /\ i < x => i \in j.selection
    BY DEF Takes
  <2>1. x > j.boundary /\ \A i \in M : i > j.boundary /\ i < x => i \in j.selection
    BY DEF JobSound, Takes
  <2>2. \A i \in N : i < x => i \in M
    <3>1. x <= n /\ x \in Nat
      BY <1>1
    <3> QED
      BY <1>1, <3>1
  <2> QED
    BY <2>1, <2>2
<1>3. Merges(j, w, N)
  <2>1. Covers(j.anchor, M, j.boundary) => Covers(j.anchor, N, j.boundary)
    BY <1>1, CoversStay
  <2> QED
    BY <2>1 DEF Merges, JobSound
<1> QED
  BY <1>2, <1>3 DEF JobSound

\* and how far a compaction reaches for its request.
LEMMA ReachesStays ==
    ASSUME NEW M, NEW N, N \in SUBSET Nat, NEW n \in Nat,
           \A i \in N : i \in M \/ i > n,
           NEW q \in RequestSet, q.upTo <= n, NEW j, Reaches(j, q, M)
    PROVE  Reaches(j, q, N)
<1>1. \A i \in N : i <= q.upTo => i \in M
  BY DEF RequestSet
<1> QED
  BY <1>1 DEF Reaches

\* So a step may be looked at with the messages before it.
LEMMA SoundAfter ==
    ASSUME ContextTypes, ContextTypes',
           \/ events' = events
           \/ events' = events \o <<"message", "message">>
           \/ events' = Append(events, "snapshot"),
           row'.boundary <= Len(events),
           \A r \in Chats : RequestFits(request'[r], Messages, Len(events)),
           \A c \in Compactors : JobFits(job'[c], Messages, Len(events)),
           ContextSound(request', job', row', count'.clears, Messages)
    PROVE  ContextInvariant'
<1> DEFINE M == Messages
           N == Messages'
           n == Len(events)
           m == Len(events')
<1>1. /\ M \subseteq N /\ \A i \in N : i \in M \/ i > n
  <2>1. CASE events' = events
    BY <2>1 DEF Messages
  <2>2. CASE events' # events
    <3>1. events \in Seq({"message", "snapshot"})
      BY Parts
    <3> QED
      BY <2>2, <3>1, TimelineGrows
  <2> QED
    BY <2>1, <2>2
<1>2. n \in Nat /\ m \in Nat /\ N \in SUBSET (0..m) /\ \A i \in M : i <= n
  <2>1. n \in Nat /\ \A i \in M : i <= n
    BY MessagesArePositions, Parts
  <2>2. events' \in Seq({"message", "snapshot"})
    BY DEF ContextTypes, Typed
  <2>3. DOMAIN events' = 1..Len(events') /\ m \in Nat
    BY <2>2
  <2>4. N \subseteq 1..m /\ m \in Nat
    BY <2>3, Zenon DEF Messages
  <2> HIDE DEF M, N, n, m
  <2>5. N \in SUBSET (0..m)
    BY <2>4, NumberedFromOne
  <2> QED
    BY <2>1, <2>4, <2>5
<1>3. /\ request' \in [Chats -> RequestSet] /\ job' \in [Compactors -> JobSet]
      /\ row' \in RowSet
  BY DEF ContextTypes, Typed
<1> HIDE DEF M, N, n, m
<1>4. N \in SUBSET Nat
  BY <1>2
<1>5. ASSUME NEW r \in Chats
      PROVE  RequestSound(request'[r], row', count'.clears, N) /\ Reaches(job'[r], request'[r], N)
  <2>1. request'[r] \in RequestSet
    BY <1>3
  <2>2. request'[r].upTo <= n /\ request'[r].boundary <= n
    BY DEF RequestFits, n
  <2>3. RequestSound(request'[r], row', count'.clears, M) /\ Reaches(job'[r], request'[r], M)
    BY DEF ContextSound, M
  <2>4. RequestSound(request'[r], row', count'.clears, N)
    BY <1>1, <1>2, <2>1, <2>2, <2>3, RequestStays
  <2>5. Reaches(job'[r], request'[r], N)
    BY <1>1, <1>2, <1>4, <2>1, <2>2, <2>3, ReachesStays
  <2> QED
    BY <2>4, <2>5
<1>6. ASSUME NEW c \in Compactors PROVE JobSound(job'[c], row', N)
  <2>1. job'[c] \in JobSet
    BY <1>3
  <2>2. job'[c].selection \subseteq M /\ job'[c].boundary <= n
    BY DEF JobFits, n, M
  <2>3. JobSound(job'[c], row', M)
    BY DEF ContextSound, M
  <2> QED
    BY <1>1, <1>2, <2>1, <2>2, <2>3, JobStays
<1>7. Covers(row'.anchor, N, row'.boundary)
  <2>1. row'.boundary \in Nat /\ row'.boundary <= n
    BY <1>3 DEF RowSet, n
  <2>2. Covers(row'.anchor, M, row'.boundary)
    BY DEF ContextSound, M
  <2> QED
    BY <1>1, <1>2, <1>4, <2>1, <2>2, CoversStay
<1>8. ContextSound(request', job', row', count'.clears, N)
  BY <1>5, <1>6, <1>7 DEF ContextSound
<1> QED
  BY <1>8 DEF ContextInvariant, N

-----------------------------------------------------------------------------
(* Requests: they begin, load, ...                                          *)

\* What the invariant says of a request, a compaction and the row.
LEMMA SoundParts ==
    ASSUME ContextInvariant
    PROVE  /\ Covers(row.anchor, Messages, row.boundary)
           /\ \A r \in Chats : /\ RequestSound(request[r], row, count.clears, Messages)
                               /\ Reaches(job[r], request[r], Messages)
           /\ \A c \in Compactors : JobSound(job[c], row, Messages)
BY DEF ContextInvariant, ContextSound

\* A request takes a step, and its compaction is not, or no longer, at work.
LEMMA SoundRequestStep ==
    ASSUME ContextTypes, ContextInvariant, NEW r \in Chats, NEW p \in RequestSet,
           RequestSound(p, row, count.clears, Messages),
           request' = [request EXCEPT ![r] = p],
           count'.clears = count.clears, row' = row,
           \/ job' = job /\ job[r].at = "none"
           \/ job' = [job EXCEPT ![r] = NoJob]
    PROVE  ContextSound(request', job', row', count'.clears, Messages)
<1>1. r \in Compactors
  BY DEF Compactors
<1>2. \A s \in Chats : request'[s] = IF s = r THEN p ELSE request[s]
  BY Parts
<1>3. \A c \in Compactors : job'[c] = job[c] \/ job'[c] = NoJob
  BY Parts
<1>4. job'[r].at = "none" /\ \A s \in Chats \ {r} : job'[s] = job[s]
  BY <1>1, Nothing, Parts DEF Compactors
<1>5. ASSUME NEW s \in Chats PROVE RequestSound(request'[s], row', count'.clears, Messages)
  BY <1>2, SoundParts
<1>6. ASSUME NEW s \in Chats PROVE Reaches(job'[s], request'[s], Messages)
  <2>1. CASE s = r
    BY <1>4, <2>1 DEF Reaches
  <2>2. CASE s # r
    BY <1>2, <1>4, <2>2, SoundParts
  <2> QED
    BY <2>1, <2>2
<1>7. ASSUME NEW c \in Compactors PROVE JobSound(job'[c], row', Messages)
  <2>1. JobSound(NoJob, row, Messages)
    BY Nothing DEF JobSound, Takes, Merges
  <2> QED
    BY <1>3, <2>1, SoundParts
<1>8. Covers(row'.anchor, Messages, row'.boundary)
  BY SoundParts
<1> QED
  BY <1>5, <1>6, <1>7, <1>8 DEF ContextSound

\* The phases of a request: who is not compacting has no compaction.
LEMMA NotCompacting ==
    ASSUME ContextInvariant, NEW r \in Chats, request[r].at # "compact"
    PROVE  job[r].at = "none"
BY SoundParts DEF Reaches

\* A request begins: nothing was loaded, and the boundary is that of the row.
LEMMA SoundLoadBoundary ==
    ASSUME ContextTypes, ContextInvariant, NEW r \in Chats, LoadBoundary(r)
    PROVE  ContextSound(request', job', row', count'.clears, Messages)
<1> DEFINE p == Begun(row.boundary, Len(events), count.clears)
<1>1. Len(events) \in Nat /\ row.boundary \in Nat /\ count.clears \in Nat
  BY Parts
<1>2. p \in RequestSet /\ p.at = "pages" /\ p.boundary = row.boundary /\ p.read = 0
      /\ p.offset = 0 /\ p.clears = count.clears
  BY <1>1, BegunRequest
<1>3. p.history = {}
  BY <1>1, BegunRequestIsEmpty
<1>4. /\ request[r].at = "idle" /\ request' = [request EXCEPT ![r] = p]
      /\ UNCHANGED <<events, row, job>> /\ count' = [count EXCEPT !.turns = @ + 1]
  BY DEF LoadBoundary, Begun
<1> HIDE DEF p
<1>5. count'.clears = count.clears
  BY <1>4, Parts DEF CountSet
<1>6. Loads(p, Messages)
  <2>1. 0 < LoadBudget
    BY Budgets
  <2>2. \A i \in Messages : ~(Cardinality({k \in Messages : k > i}) < 0)
    <3> SUFFICES ASSUME NEW i \in Messages
                 PROVE  Cardinality({k \in Messages : k > i}) \in Nat
      OBVIOUS
    <3> DEFINE S == {k \in Messages : k > i}
    <3>1. S \subseteq Messages
      OBVIOUS
    <3> QED
      BY <3>1, MessagesArePositions, Positions, Parts
  <2> QED
    BY <1>2, <1>3, <2>1, <2>2 DEF Loads
<1>7. RequestSound(p, row, count.clears, Messages)
  BY <1>1, <1>2, <1>6 DEF RequestSound, Follows, Anchored, Answers
<1>8. job[r].at = "none"
  BY <1>4, NotCompacting
<1> QED
  BY <1>2, <1>4, <1>5, <1>7, <1>8, SoundRequestStep

\* A page: the history stays without holes, and reaches the boundary or the budget.
LEMMA SoundLoadPage ==
    ASSUME ContextTypes, ContextInvariant, NEW r \in Chats, LoadPage(r)
    PROVE  ContextSound(request', job', row', count'.clears, Messages)
<1> DEFINE q == request[r]
           page == Page(q.offset)
           added == Added(page, q.boundary, q.read)
           fresh(i) == i > q.boundary /\ i <= q.upTo
<1>1. PICK p \in RequestSet :
        /\ request' = [request EXCEPT ![r] = p] /\ UNCHANGED <<events, row, job, count>>
        /\ q.at = "pages" /\ added \subseteq page
        /\ p.history = q.history \cup added /\ p.read = q.read + Cardinality(added)
        /\ p.offset = q.offset + PageSize /\ p.read <= LoadBudget
        /\ p.boundary = q.boundary /\ p.upTo = q.upTo /\ p.clears = q.clears
        /\ \/ p.at = "pages" /\ p.read < LoadBudget
           \/ /\ p.at = "anchor"
              /\ \/ \E i \in page : i <= q.boundary
                 \/ p.read >= LoadBudget
                 \/ Cardinality(page) < PageSize
  BY AfterPage
<1>2. /\ q.boundary \in Nat /\ q.upTo \in Nat /\ q.read \in Nat /\ q.offset \in Nat
      /\ q.read <= LoadBudget /\ q.history \subseteq Messages
      /\ Messages \in SUBSET Nat /\ PageSize \in Nat /\ LoadBudget \in Nat
  BY RequestParts, Parts, MessagesArePositions, Budgets
<1>3. /\ page \subseteq Messages
      /\ \A i \in Messages : /\ Cardinality(Newer(i)) \in Nat
                             /\ i \in page <=> /\ Cardinality(Newer(i)) < q.offset + PageSize
                                               /\ Cardinality(Newer(i)) >= q.offset
      /\ \A x \in page : \A i \in Messages : i > x => Cardinality(Newer(i)) < q.offset + PageSize
      /\ Cardinality(page) < PageSize =>
           \A i \in Messages : Cardinality(Newer(i)) < q.offset + PageSize
  BY <1>2, ThePage, Parts
<1>4. page \in SUBSET Messages /\ events \in Seq({"message", "snapshot"})
  BY <1>3, Parts
<1> HIDE DEF page
<1>5. /\ Cardinality(added) \in 0..(LoadBudget - q.read)
      /\ \A x \in added : x > q.boundary /\ \A i \in page : i > x => i \in added
      /\ Cardinality(added) < LoadBudget - q.read => \A i \in page : i > q.boundary => i \in added
  BY <1>2, <1>4, TheAdded
<1>6. /\ \A x \in q.history : \A i \in Messages : i > x /\ i <= q.upTo => i \in q.history
      /\ \A i \in Messages : fresh(i) /\ Cardinality(Newer(i)) < q.offset => i \in q.history
  BY <1>1, SoundParts DEF RequestSound, Loads, Newer
<1> HIDE DEF q, added
<1>7. ASSUME NEW x \in p.history, NEW i \in Messages, i > x, i <= p.upTo PROVE i \in p.history
  <2>1. CASE x \in q.history
    BY <1>1, <1>6, <1>7, <2>1
  <2>2. CASE x \in added
    <3>1. x \in page /\ x \in Nat /\ i \in Nat /\ x > q.boundary
      BY <1>1, <1>2, <1>3, <1>5, <2>2
    <3>2. i > q.boundary
      BY <1>2, <1>7, <3>1
    <3>3. Cardinality(Newer(i)) < q.offset + PageSize
      BY <1>3, <1>7, <3>1
    <3>4. CASE Cardinality(Newer(i)) < q.offset
      BY <1>1, <1>6, <1>7, <3>2, <3>4
    <3>5. CASE i \in page
      BY <1>1, <1>5, <1>7, <2>2, <3>5
    <3> QED
      BY <1>2, <1>3, <3>3, <3>4, <3>5
  <2> QED
    BY <1>1, <2>1, <2>2
<1>8. ASSUME p.read < LoadBudget, NEW i \in Messages, fresh(i),
             Cardinality(Newer(i)) < q.offset + PageSize
      PROVE  i \in p.history
  <2>1. Cardinality(added) < LoadBudget - q.read
    BY <1>1, <1>2, <1>5, <1>8
  <2>2. CASE Cardinality(Newer(i)) < q.offset
    BY <1>1, <1>6, <1>8, <2>2
  <2>3. CASE i \in page
    BY <1>1, <1>5, <1>8, <2>1, <2>3
  <2> QED
    BY <1>2, <1>3, <1>8, <2>2, <2>3
<1>9. ASSUME p.at = "anchor", p.read < LoadBudget, NEW i \in Messages, fresh(i)
      PROVE  i \in p.history
  <2>1. \/ \E x \in page : x <= q.boundary
        \/ Cardinality(page) < PageSize
    <3>1. p.read \in Nat
      BY DEF RequestSet
    <3>2. ~(p.read >= LoadBudget)
      BY <1>2, <1>9, <3>1
    <3> QED
      BY <1>1, <1>9, <3>2
  <2>2. Cardinality(Newer(i)) < q.offset + PageSize
    <3>1. ASSUME NEW x \in page, x <= q.boundary PROVE i > x
      BY <1>2, <1>3, <1>9, <3>1
    <3> QED
      BY <1>3, <2>1, <3>1
  <2> QED
    BY <1>8, <1>9, <2>2
<1>10. Loads(p, Messages)
  <2>1. \A x \in p.history : \A i \in Messages : i > x /\ i <= p.upTo => i \in p.history
    BY <1>7
  <2>2. p.at = "pages" =>
          /\ p.read < LoadBudget
          /\ \A i \in Messages : i > p.boundary /\ i <= p.upTo
                /\ Cardinality({k \in Messages : k > i}) < p.offset => i \in p.history
    BY <1>1, <1>8 DEF Newer
  <2>3. p.at \notin {"idle", "pages"} /\ p.read < LoadBudget =>
          \A i \in Messages : i > p.boundary /\ i <= p.upTo => i \in p.history
    BY <1>1, <1>9
  <2> QED
    BY <2>1, <2>2, <2>3 DEF Loads
<1>11. Follows(p, row, count.clears)
  BY <1>1, SoundParts DEF RequestSound, Follows, q
<1>12. RequestSound(p, row, count.clears, Messages)
  BY <1>1, <1>10, <1>11 DEF RequestSound, Anchored, Answers
<1>13. job[r].at = "none"
  BY <1>1, NotCompacting DEF q
<1> QED
  BY <1>1, <1>12, <1>13, SoundRequestStep

\* The anchor, read last, covers the boundary that was read first: without a clear
\* the boundary of the row has only moved on.
LEMMA SoundLoadAnchor ==
    ASSUME ContextTypes, ContextInvariant, NEW r \in Chats, LoadAnchor(r)
    PROVE  ContextSound(request', job', row', count'.clears, Messages)
<1> DEFINE q == request[r]
           x == row.compressions > 0
           y == count.clears # q.clears
           p == Loaded(q, row.anchor, x, y)
<1>1. /\ q.at = "anchor" /\ request' = [request EXCEPT ![r] = p]
      /\ UNCHANGED <<events, row, job, count>>
  BY DEF LoadAnchor, Loaded
<1>2. x \in BOOLEAN /\ y \in BOOLEAN /\ q \in RequestSet /\ q.boundary \in Nat
  BY RequestParts
<1>3. y \/ q.boundary <= row.boundary
  BY <1>1, SoundParts DEF RequestSound, Follows
<1>4. x \/ row.boundary = 0
  BY Parts DEF ContextTypes, RowFits
<1>5. Loads(q, Messages) /\ q.clears <= count.clears
  BY SoundParts DEF RequestSound, Follows
<1>6. Covers(row.anchor, Messages, row.boundary)
  BY SoundParts
<1> HIDE DEF x, y
<1>7. /\ p \in RequestSet /\ p.at = "measure" /\ p.boundary = q.boundary
      /\ p.history = q.history /\ p.read = q.read /\ p.anchor = row.anchor
      /\ p.compressed = x /\ p.torn = y /\ p.upTo = q.upTo /\ p.clears = q.clears
  BY <1>2, LoadedRequest, Parts
<1> HIDE DEF p, q
<1>8. Loads(p, Messages)
  BY <1>1, <1>5, <1>7 DEF Loads
<1>9. p.torn \/ Covers(p.anchor, Messages, p.boundary)
  <2>1. ASSUME q.boundary <= row.boundary PROVE Covers(row.anchor, Messages, q.boundary)
    <3>1. \A i \in Messages : i <= q.boundary => i <= row.boundary
      BY <1>2, <2>1, Parts, MessagesArePositions
    <3> QED
      BY <1>6, <3>1 DEF Covers
  <2> QED
    BY <1>3, <1>7, <2>1
<1>10. p.torn \/ p.compressed \/ p.boundary = 0
  <2>1. q.boundary <= row.boundary /\ row.boundary = 0 => q.boundary = 0
    BY <1>2
  <2> QED
    BY <1>3, <1>4, <1>7, <2>1
<1>11. RequestSound(p, row, count.clears, Messages)
  BY <1>5, <1>7, <1>8, <1>9, <1>10 DEF RequestSound, Follows, Anchored, Answers
<1>12. job[r].at = "none"
  BY <1>1, NotCompacting DEF q
<1> QED
  BY <1>1, <1>7, <1>11, <1>12, SoundRequestStep

-----------------------------------------------------------------------------
(* ... measure, answer and save; what they have when they go on.            *)

\* What was loaded within the budget, or could not be.
LEMMA LoadedIsWhole ==
    ASSUME NEW q \in RequestSet, NEW M \in SUBSET Nat, Loads(q, M), Anchored(q, M),
           q.at \in {"measure", "compact"}
    PROVE  \/ q.torn \/ q.anchor.poor \/ q.read >= LoadBudget
           \/ \A i \in M : i <= q.upTo => i \in q.history \cup q.anchor.covers
<1>1. q.boundary \in Nat /\ q.upTo \in Nat /\ q.read \in Nat /\ LoadBudget \in Nat
  BY Budgets DEF RequestSet
<1> SUFFICES ASSUME ~q.torn, ~q.anchor.poor, q.read < LoadBudget, NEW i \in M, i <= q.upTo
             PROVE  i \in q.history \cup q.anchor.covers
  BY <1>1
<1>2. \A k \in M : k > q.boundary /\ k <= q.upTo => k \in q.history
  BY DEF Loads
<1>3. \A k \in M : k <= q.boundary => k \in q.anchor.covers
  BY DEF Anchored, Covers
<1>4. i > q.boundary \/ i <= q.boundary
  BY <1>1
<1> QED
  BY <1>2, <1>3, <1>4

\* A request is answered with what it loaded, or asks for a compaction first.
LEMMA SoundMeasure ==
    ASSUME ContextTypes, ContextInvariant, NEW r \in Chats, Measure(r)
    PROVE  ContextSound(request', job', row', count'.clears, Messages)
<1> DEFINE q == request[r]
           to == IF q.read >= Trigger /\ ~q.compressed THEN "compact" ELSE "answer"
           p == Measured(q, to)
<1>1. /\ q.at = "measure" /\ request' = [request EXCEPT ![r] = p]
      /\ UNCHANGED <<events, row, job, count>>
  BY DEF Measure, Measured
<1>2. /\ to \in {"compact", "answer"} /\ q \in RequestSet /\ q.read \in Nat
      /\ to = "compact" => ~q.compressed
      /\ to = "answer" => ~(q.read >= Trigger) \/ q.compressed
  BY RequestParts
<1>3. Loads(q, Messages) /\ Follows(q, row, count.clears) /\ Anchored(q, Messages)
  BY SoundParts DEF RequestSound
<1>4. \/ q.torn \/ q.anchor.poor \/ q.read >= LoadBudget
      \/ \A i \in Messages : i <= q.upTo => i \in q.history \cup q.anchor.covers
  BY <1>1, <1>2, <1>3, LoadedIsWhole, MessagesArePositions, Parts
<1>5. job[r].at = "none"
  BY <1>1, NotCompacting
<1> HIDE DEF to
<1>6. /\ p \in RequestSet /\ p.at = to /\ p.boundary = q.boundary
      /\ p.history = q.history /\ p.read = q.read /\ p.anchor = q.anchor
      /\ p.compressed = q.compressed /\ p.torn = q.torn /\ p.upTo = q.upTo
      /\ p.clears = q.clears
  BY <1>2, MeasuredRequest
<1> HIDE DEF p, q
<1>7. Loads(p, Messages)
  BY <1>1, <1>2, <1>3, <1>6 DEF Loads
<1>8. Follows(p, row, count.clears)
  BY <1>2, <1>3, <1>6 DEF Follows
<1>9. Anchored(p, Messages)
  BY <1>1, <1>2, <1>3, <1>6 DEF Anchored
<1>10. Answers(p, Messages)
  <2>1. to = "answer" /\ q.read >= LoadBudget => q.compressed
    <3>1. q.read >= LoadBudget => q.read >= Trigger
      BY <1>2, Budgets
    <3> QED
      BY <1>2, <3>1, Zenon
  <2>2. p.at \in {"answer", "save"} => to = "answer"
    BY <1>2, <1>6
  <2>3. \/ p.torn \/ p.anchor.poor \/ p.read >= LoadBudget
        \/ \A i \in Messages : i <= p.upTo => i \in p.history \cup p.anchor.covers
    BY <1>4, <1>6
  <2>4. to = "answer" /\ p.read >= LoadBudget => p.compressed
    BY <1>6, <2>1
  <2> QED
    BY <2>2, <2>3, <2>4, Zenon DEF Answers
<1>11. RequestSound(p, row, count.clears, Messages)
  BY <1>7, <1>8, <1>9, <1>10 DEF RequestSound
<1> QED
  BY <1>1, <1>5, <1>6, <1>11, SoundRequestStep

\* The model answers.
LEMMA SoundAnswer ==
    ASSUME ContextTypes, ContextInvariant, NEW r \in Chats, Answer(r)
    PROVE  ContextSound(request', job', row', count'.clears, Messages)
<1> DEFINE q == request[r]
           p == Answered(q, Len(events))
<1>1. /\ q.at = "answer" /\ request' = [request EXCEPT ![r] = p]
      /\ UNCHANGED <<events, row, job, count>>
  BY DEF Answer, Answered
<1>2. q \in RequestSet /\ Len(events) \in Nat
  BY RequestParts, Parts
<1>3. RequestSound(q, row, count.clears, Messages)
  BY SoundParts
<1>4. job[r].at = "none"
  BY <1>1, NotCompacting
<1>5. /\ p \in RequestSet /\ p.at = "save" /\ p.boundary = q.boundary
      /\ p.history = q.history /\ p.read = q.read /\ p.anchor = q.anchor
      /\ p.compressed = q.compressed /\ p.torn = q.torn /\ p.upTo = q.upTo
      /\ p.clears = q.clears /\ p.refused = q.refused
  BY <1>2, AnsweredRequest
<1> HIDE DEF p, q
<1>6. Loads(p, Messages)
  BY <1>1, <1>3, <1>5 DEF Loads, RequestSound
<1>7. Follows(p, row, count.clears) /\ Anchored(p, Messages)
  BY <1>3, <1>5 DEF Follows, Anchored, RequestSound
<1>8. Answers(p, Messages)
  BY <1>1, <1>3, <1>5 DEF Answers, RequestSound
<1>9. RequestSound(p, row, count.clears, Messages)
  BY <1>6, <1>7, <1>8 DEF RequestSound
<1> QED
  BY <1>1, <1>4, <1>5, <1>9, SoundRequestStep

\* Nothing is unsound of a tab that is idle.
LEMMA IdleIsSound ==
    ASSUME ContextTypes
    PROVE  RequestSound(Idle, row, count.clears, Messages)
BY Nothing, Parts DEF RequestSound, Loads, Follows, Anchored, Answers

\* The turn is saved, or lost.
LEMMA SoundSaveTurn ==
    ASSUME ContextTypes, ContextInvariant, NEW r \in Chats, SaveTurn(r)
    PROVE  ContextSound(request', job', row', count'.clears, Messages)
<1>1. /\ request[r].at = "save" /\ request' = [request EXCEPT ![r] = Idle]
      /\ UNCHANGED <<row, job>>
  BY DEF SaveTurn
<1>2. count'.clears = count.clears
  BY Parts DEF SaveTurn, CountSet
<1>3. job[r].at = "none"
  BY <1>1, NotCompacting
<1> QED
  BY <1>1, <1>2, <1>3, Nothing, IdleIsSound, SoundRequestStep

\* A request that goes on without a new summary.
LEMMA RefusedIsSound ==
    ASSUME ContextTypes, ContextInvariant, NEW r \in Chats, request[r].at = "compact"
    PROVE  /\ GoneOn(request[r], TRUE, request[r].anchor) \in RequestSet
           /\ RequestSound(GoneOn(request[r], TRUE, request[r].anchor), row, count.clears, Messages)
<1> DEFINE q == request[r]
           p == GoneOn(q, TRUE, q.anchor)
<1>1. q \in RequestSet /\ q.anchor \in AnchorSet /\ TRUE \in BOOLEAN /\ q.at = "compact"
  BY RequestParts
<1>2. Loads(q, Messages) /\ Follows(q, row, count.clears) /\ Anchored(q, Messages)
  BY SoundParts DEF RequestSound
<1>3. \/ q.torn \/ q.anchor.poor \/ q.read >= LoadBudget
      \/ \A i \in Messages : i <= q.upTo => i \in q.history \cup q.anchor.covers
  BY <1>1, <1>2, LoadedIsWhole, MessagesArePositions, Parts
<1>4. /\ p \in RequestSet /\ p.at = "answer" /\ p.refused = TRUE /\ p.anchor = q.anchor
      /\ p.compressed = q.compressed /\ p.torn = q.torn /\ p.boundary = q.boundary
      /\ p.history = q.history /\ p.read = q.read /\ p.upTo = q.upTo /\ p.clears = q.clears
  BY <1>1, RequestGoneOn, ZenonT(60)
<1> HIDE DEF p, q
<1>5. Loads(p, Messages)
  BY <1>1, <1>2, <1>4 DEF Loads
<1>6. Follows(p, row, count.clears) /\ Anchored(p, Messages)
  BY <1>2, <1>4 DEF Follows, Anchored
<1>7. Answers(p, Messages)
  BY <1>3, <1>4 DEF Answers
<1> QED
  BY <1>4, <1>5, <1>6, <1>7 DEF RequestSound, p, q

\* A request that goes on with the summary of its own compaction.
LEMMA CompactedIsSound ==
    ASSUME ContextTypes, ContextInvariant, NEW r \in Chats, job[r].at = "commit", row.boundary = job[r].boundary
    PROVE  /\ GoneOn(request[r], FALSE, job[r].anchor) \in RequestSet
           /\ RequestSound(GoneOn(request[r], FALSE, job[r].anchor), row, count.clears, Messages)
<1> DEFINE q == request[r]
           j == job[r]
           p == GoneOn(q, FALSE, j.anchor)
           M == Messages
           left == {i \in M : i <= q.upTo /\ i > q.boundary} \ q.history
<1>0. r \in Compactors
  BY DEF Compactors
<1>1. q.at = "compact" /\ Reaches(j, q, M)
  BY SoundParts DEF Reaches
<1>2. Loads(q, M) /\ Follows(q, row, count.clears) /\ Anchored(q, M)
  BY SoundParts DEF RequestSound
<1>3. Takes(j, M) /\ Merges(j, row, M)
  BY <1>0, SoundParts DEF JobSound
<1>4. /\ q \in RequestSet /\ j.anchor \in AnchorSet /\ FALSE \in BOOLEAN
      /\ q.boundary \in Nat /\ q.upTo \in Nat /\ j.boundary \in Nat
      /\ j.selection \subseteq M
  BY <1>0, RequestParts, JobParts
<1>5. /\ M \in SUBSET (0..Len(events)) /\ Len(events) \in Nat /\ M \in SUBSET Nat
      /\ \A i \in M : i > 0
  BY MessagesArePositions, Parts
<1>6. /\ p \in RequestSet /\ p.at = "answer" /\ p.anchor = j.anchor
      /\ p.compressed = q.compressed /\ p.torn = q.torn /\ p.boundary = q.boundary
      /\ p.history = q.history /\ p.read = q.read /\ p.upTo = q.upTo /\ p.clears = q.clears
  BY <1>4, RequestGoneOn, ZenonT(60)
<1>7. j.at = "commit" /\ row.boundary = j.boundary
  OBVIOUS
<1>8. CompactBudget \in Nat /\ LoadBudget \in Nat /\ q.read \in Nat
  BY Budgets, RequestParts
<1> HIDE DEF p, q, j, M
<1>9. Loads(p, M) /\ Follows(p, row, count.clears) /\ Anchored(p, M)
  BY <1>1, <1>2, <1>6 DEF Loads, Follows, Anchored
<1>10. ASSUME ~q.torn, ~j.anchor.poor, NEW i \in M, i <= q.upTo,
              i \notin q.history, i \notin j.anchor.covers
       PROVE  q.read >= LoadBudget /\ Cardinality(left) > CompactBudget
  <2>1. q.boundary = 0
    BY <1>1, <1>2, <1>10 DEF Anchored
  <2>2. i \in Nat /\ i > q.boundary
    BY <1>5, <2>1
  <2>3. q.read >= LoadBudget
    <3>1. ~(q.read < LoadBudget)
      BY <1>1, <1>2, <1>10, <2>2 DEF Loads
    <3> QED
      BY <1>8, <3>1
  <2>4. i > j.boundary
    <3>1. ~(i <= j.boundary)
      BY <1>3, <1>7, <1>10 DEF Merges, Covers
    <3> QED
      BY <1>4, <2>2, <3>1
  <2>5. i \notin j.selection
    BY <1>3, <1>7, <1>10 DEF Merges
  <2>6. Cardinality(j.selection) = CompactBudget
    BY <1>1, <1>7, <1>10, <2>4, <2>5 DEF Reaches
  <2>7. ASSUME NEW x \in j.selection PROVE x \in left
    <3>1. x \in M /\ x \in Nat /\ x # i /\ x > 0
      BY <1>4, <1>5, <2>5
    <3>2. ~(i < x)
      BY <1>3, <2>4, <2>5 DEF Takes
    <3>3. x < i
      BY <2>2, <3>1, <3>2
    <3>4. x <= q.upTo /\ x > q.boundary
      BY <1>4, <1>10, <2>1, <2>2, <3>1, <3>3
    <3>5. x \notin q.history
      <4>1. i > x
        BY <2>2, <3>1, <3>3
      <4> QED
        BY <1>2, <1>10, <4>1 DEF Loads
    <3> QED
      BY <3>1, <3>4, <3>5
  <2>8. j.selection \cup {i} \subseteq left
    BY <1>10, <2>2, <2>7
  <2>9. IsFiniteSet(left) /\ IsFiniteSet(j.selection)
    <3>1. left \in SUBSET M
      OBVIOUS
    <3> QED
      BY <1>4, <1>5, <3>1, Positions
  <2>10. Cardinality(j.selection \cup {i}) = CompactBudget + 1
    BY <2>5, <2>6, <2>9, FS_AddElement
  <2> HIDE DEF left
  <2>11. Cardinality(j.selection \cup {i}) <= Cardinality(left) /\ Cardinality(left) \in Nat
    BY <2>8, <2>9, FS_Subset, FS_CardinalityType
  <2> QED
    BY <1>8, <2>3, <2>10, <2>11
<1>11. Answers(p, M)
  <2> SUFFICES ASSUME ~p.torn, ~p.anchor.poor,
                      ~(\A i \in M : i <= p.upTo => i \in p.history \cup p.anchor.covers)
               PROVE  /\ p.read >= LoadBudget
                      /\ Cardinality({i \in M : i <= p.upTo /\ i > p.boundary} \ p.history) > CompactBudget
    BY DEF Answers
  <2>1. PICK i \in M : i <= q.upTo /\ i \notin q.history /\ i \notin j.anchor.covers
    BY <1>6
  <2>2. q.read >= LoadBudget /\ Cardinality(left) > CompactBudget
    BY <1>6, <1>10, <2>1
  <2> QED
    BY <1>6, <2>2
<1>12. RequestSound(p, row, count.clears, M)
  BY <1>9, <1>11 DEF RequestSound
<1> QED
  BY <1>6, <1>12 DEF p, q, j, M

-----------------------------------------------------------------------------
(* Compactions, and the clear.                                              *)

\* A compaction that ends without a result.
LEMMA SoundReturn ==
    ASSUME ContextTypes, ContextInvariant, NEW c \in Compactors, Returns(c, NoAnchor, FALSE),
           c \in Chats => request[c].at = "compact", UNCHANGED <<events, row, count>>,
           \/ job' = job /\ job[c].at = "none" /\ c \in Chats
           \/ job' = [job EXCEPT ![c] = NoJob]
    PROVE  ContextSound(request', job', row', count'.clears, Messages)
<1>1. CASE c \in Chats
  <2> DEFINE p == GoneOn(request[c], TRUE, request[c].anchor)
  <2>1. request' = [request EXCEPT ![c] = p]
    BY <1>1 DEF Returns, GoneOn
  <2>2. p \in RequestSet /\ RequestSound(p, row, count.clears, Messages)
    BY <1>1, RefusedIsSound
  <2> QED
    BY <1>1, <2>1, <2>2, SoundRequestStep
<1>2. CASE c \notin Chats
  <2>1. request' = request /\ job' = [job EXCEPT ![c] = NoJob]
    BY <1>2 DEF Returns
  <2>2. \A d \in Compactors : job'[d] = job[d] \/ job'[d] = NoJob
    BY <2>1, Parts
  <2>3. \A r \in Chats : job'[r] = job[r]
    BY <1>2, <2>1, Parts DEF Compactors
  <2>4. JobSound(NoJob, row, Messages)
    BY Nothing DEF JobSound, Takes, Merges
  <2>5. \A d \in Compactors : JobSound(job'[d], row', Messages)
    BY <2>2, <2>4, SoundParts
  <2> QED
    BY <2>1, <2>3, <2>5, SoundParts DEF ContextSound
<1> QED
  BY <1>1, <1>2

\* A compaction takes a step that its request does not see.
LEMMA SoundJobStep ==
    ASSUME ContextTypes, ContextInvariant, NEW c \in Compactors, NEW p \in JobSet, job' = [job EXCEPT ![c] = p],
           JobSound(p, row, Messages), c \in Chats => Reaches(p, request[c], Messages),
           UNCHANGED <<events, row, request>>, count'.clears = count.clears
    PROVE  ContextSound(request', job', row', count'.clears, Messages)
<1>1. \A d \in Compactors : job'[d] = IF d = c THEN p ELSE job[d]
  BY Parts
<1>2. \A d \in Compactors : JobSound(job'[d], row', Messages)
  BY <1>1, SoundParts
<1>3. ASSUME NEW r \in Chats PROVE Reaches(job'[r], request'[r], Messages)
  <2>1. r \in Compactors
    BY DEF Compactors
  <2> QED
    BY <1>1, <2>1, SoundParts
<1> QED
  BY <1>2, <1>3, SoundParts DEF ContextSound

\* A compaction begins.
LEMMA SoundCompactBegin ==
    ASSUME ContextTypes, ContextInvariant, NEW c \in Compactors, CompactBegin(c)
    PROVE  ContextSound(request', job', row', count'.clears, Messages)
<1> DEFINE p == BegunJob(row.boundary)
<1>1. /\ job' = [job EXCEPT ![c] = p] /\ UNCHANGED <<events, row, request, count>>
      /\ c \in Chats => request[c].at = "compact"
  BY DEF CompactBegin, BegunJob, Asks
<1>2. p \in JobSet /\ p.at = "messages" /\ p.boundary = row.boundary
  BY Parts, BegunCompaction
<1>3. p.selection = {}
  BY Parts, BegunCompactionIsEmpty
<1> HIDE DEF p
<1>4. JobSound(p, row, Messages)
  BY <1>2, <1>3 DEF JobSound, Takes, Merges
<1>5. c \in Chats => Reaches(p, request[c], Messages)
  BY <1>1, <1>2 DEF Reaches
<1> QED
  BY <1>1, <1>2, <1>4, <1>5, SoundJobStep

\* It takes up what lies behind its boundary, without holes.
LEMMA SoundCompactReadMessages ==
    ASSUME ContextTypes, ContextInvariant, NEW c \in Compactors, CompactReadMessages(c)
    PROVE  ContextSound(request', job', row', count'.clears, Messages)
<1>0. c \in Chats => request[c].at = "compact"
  BY SoundParts DEF Reaches, CompactReadMessages
<1>1. CASE Selected(job[c].boundary) # {}
  <2>1. /\ job[c].at = "messages" /\ UNCHANGED <<events, row, request, count>>
        /\ job' = [job EXCEPT ![c] =
             [job[c] EXCEPT !.selection = Selected(job[c].boundary), !.at = "anchor"]]
    BY <1>1 DEF CompactReadMessages
  <2>2. PICK p \in JobSet :
          /\ job' = [job EXCEPT ![c] = p] /\ p.at = "anchor" /\ p.boundary = job[c].boundary
          /\ p.selection = Selected(job[c].boundary)
    BY <1>1, <2>1, AfterSelection
  <2>3. job[c].boundary \in Nat /\ events \in Seq({"message", "snapshot"})
    BY JobParts, Parts
  <2> DEFINE s == Selected(job[c].boundary)
  <2>4. /\ \A x \in s : x > job[c].boundary
                        /\ \A i \in Messages : i > job[c].boundary /\ i < x => i \in s
        /\ \/ Cardinality(s) = CompactBudget
           \/ \A i \in Messages : i > job[c].boundary => i \in s
    BY <2>3, TheSelected
  <2> HIDE DEF s
  <2>5. p.selection = s
    BY <2>2 DEF s
  <2>6. Takes(p, Messages)
    BY <2>2, <2>4, <2>5 DEF Takes
  <2>7. Merges(p, row, Messages)
    BY <2>1, <2>2, SoundParts DEF JobSound, Merges
  <2>8. c \in Chats => Reaches(p, request[c], Messages)
    BY <1>0, <2>2, <2>4, <2>5 DEF Reaches
  <2> QED
    BY <2>1, <2>2, <2>6, <2>7, <2>8, SoundJobStep DEF JobSound
<1>2. CASE Selected(job[c].boundary) = {}
  <2>1. /\ Returns(c, NoAnchor, FALSE) /\ UNCHANGED <<events, row, count>>
        /\ job' = [job EXCEPT ![c] = NoJob]
    BY <1>2 DEF CompactReadMessages
  <2> QED
    BY <1>0, <2>1, SoundReturn
<1> QED
  BY <1>1, <1>2

\* The anchor of a compaction changes.
LEMMA SoundHolding ==
    ASSUME ContextTypes, ContextInvariant, NEW c \in Compactors, NEW a \in AnchorSet, NEW to \in {"summarise", "commit"},
           job[c].at \in {"anchor", "summarise"}, job' = [job EXCEPT ![c] = Holding(job[c], a, to)],
           row.boundary = job[c].boundary => Covers(a, Messages, job[c].boundary),
           to = "commit" => a.poor \/ job[c].selection \subseteq a.covers,
           UNCHANGED <<events, row, request>>, count'.clears = count.clears
    PROVE  ContextSound(request', job', row', count'.clears, Messages)
<1> DEFINE p == Holding(job[c], a, to)
<1>1. /\ p \in JobSet /\ p.at = to /\ p.anchor = a
      /\ p.boundary = job[c].boundary /\ p.selection = job[c].selection
  BY JobParts, HoldingCompaction
<1>2. job' = [job EXCEPT ![c] = p]
  OBVIOUS
<1> HIDE DEF p
<1>3. Takes(p, Messages)
  BY <1>1, SoundParts DEF JobSound, Takes
<1>4. Merges(p, row, Messages)
  BY <1>1, SoundParts DEF JobSound, Merges
<1>5. c \in Chats => Reaches(p, request[c], Messages)
  BY <1>1, SoundParts DEF Reaches
<1> QED
  BY <1>1, <1>2, <1>3, <1>4, <1>5, SoundJobStep DEF JobSound

\* The anchor it reads covers its boundary, if that still stands.
LEMMA SoundCompactReadAnchor ==
    ASSUME ContextTypes, ContextInvariant, NEW c \in Compactors, CompactReadAnchor(c)
    PROVE  ContextSound(request', job', row', count'.clears, Messages)
<1>1. /\ job[c].at = "anchor" /\ job' = [job EXCEPT ![c] = Holding(job[c], row.anchor, "summarise")]
      /\ UNCHANGED <<events, row, request, count>>
  BY DEF CompactReadAnchor, Holding
<1>2. row.anchor \in AnchorSet /\ Covers(row.anchor, Messages, row.boundary)
  BY Parts, SoundParts
<1>3. row.boundary = job[c].boundary => Covers(row.anchor, Messages, job[c].boundary)
  BY <1>2
<1> QED
  BY <1>1, <1>2, <1>3, SoundHolding

\* The summary tells of the anchor and of the selection, or is poor.
LEMMA SoundCompactSummarise ==
    ASSUME ContextTypes, ContextInvariant, NEW c \in Compactors, CompactSummarise(c)
    PROVE  ContextSound(request', job', row', count'.clears, Messages)
<1> DEFINE merged == Merged(job[c].anchor, job[c].selection)
           shift == Makeshift(job[c].selection)
<1>1. /\ job[c].at = "summarise" /\ UNCHANGED <<events, row, request>>
      /\ \/ job' = [job EXCEPT ![c] = Holding(job[c], merged, "commit")]
         \/ job' = [job EXCEPT ![c] = Holding(job[c], shift, "commit")]
  BY DEF CompactSummarise, Holding
<1>2. count'.clears = count.clears
  BY Parts DEF CompactSummarise, CountSet
<1>3. /\ merged \in AnchorSet /\ shift \in AnchorSet /\ shift.poor
      /\ merged.covers = job[c].anchor.covers \cup job[c].selection
      /\ merged.poor = job[c].anchor.poor
  BY <1>1, TheSummary
<1> HIDE DEF merged, shift
<1>4. row.boundary = job[c].boundary => Covers(job[c].anchor, Messages, job[c].boundary)
  BY <1>1, SoundParts DEF JobSound, Merges
<1>5. row.boundary = job[c].boundary => Covers(merged, Messages, job[c].boundary)
  BY <1>3, <1>4 DEF Covers
<1>6. Covers(shift, Messages, job[c].boundary)
  BY <1>3 DEF Covers
<1>7. job[c].selection \subseteq merged.covers
  BY <1>3
<1> QED
  BY <1>1, <1>2, <1>3, <1>5, <1>6, <1>7, SoundHolding

\* With everything in one process, nobody else compacts.
LEMMA AloneAtWork ==
    ASSUME InOneProcess, ContextTypes, NEW c \in Compactors, job[c].at # "none"
    PROVE  \A d \in Compactors \ {c} : job[d].at = "none"
BY DEF InOneProcess, ContextTypes, Exclusive

\* The commit: the boundary moves to the end of a selection that begins at it.
LEMMA SoundCompactCommit ==
    ASSUME InOneProcess, ContextTypes, ContextInvariant, NEW c \in Compactors, CompactCommit(c)
    PROVE  /\ ContextSound(request', job', row', count'.clears, Messages)
           /\ row'.boundary <= Len(events)
<1> DEFINE j == job[c]
<1>0. j.at = "commit" /\ (c \in Chats => request[c].at = "compact")
  BY SoundParts DEF Reaches, CompactCommit
<1>1. CASE Stands(j.boundary)
  <2>1. PICK w \in RowSet :
          /\ row' = w /\ RowFits(w, Messages, Len(events))
          /\ w.anchor = j.anchor /\ w.boundary = LastIncluded(j.selection)
          /\ Returns(c, j.anchor, TRUE)
          /\ job' = [job EXCEPT ![c] = NoJob] /\ UNCHANGED count
    BY <1>1, TheCommit
  <2>2. row.boundary = j.boundary
    BY <1>1 DEF Stands
  <2>3. /\ j.boundary \in Nat /\ j.selection \in SUBSET Messages /\ j.selection # {}
        /\ Messages \in SUBSET Nat
    BY <1>0, JobParts, Parts, MessagesArePositions DEF JobFits
  <2>4. w.boundary \in j.selection /\ \A x \in j.selection : x <= w.boundary
    BY <2>1, <2>3, TheLastIncluded, Parts
  <2>5. /\ Takes(j, Messages) /\ Covers(j.anchor, Messages, j.boundary)
        /\ j.anchor.poor \/ j.selection \subseteq j.anchor.covers
    BY <1>0, <2>2, SoundParts DEF JobSound, Merges
  <2>6. row.boundary <= w.boundary /\ w.boundary \in Nat
    <3>1. w.boundary > j.boundary
      BY <2>4, <2>5, Zenon DEF Takes
    <3>2. w.boundary \in Nat
      BY DEF RowSet
    <3> QED
      BY <2>2, <2>3, <3>1, <3>2
  <2>7. Covers(w.anchor, Messages, w.boundary)
    <3> SUFFICES ASSUME ~j.anchor.poor, NEW i \in Messages, i <= w.boundary
                 PROVE  i \in j.anchor.covers
      BY <2>1 DEF Covers
    <3>1. CASE i <= j.boundary
      BY <2>5, <3>1 DEF Covers
    <3>2. CASE i > j.boundary /\ i < w.boundary
      BY <2>4, <2>5, <3>2 DEF Takes
    <3>3. CASE i = w.boundary
      BY <2>4, <2>5, <3>3
    <3> QED
      BY <2>3, <2>6, <3>1, <3>2, <3>3
  <2>8. \A d \in Compactors : job'[d].at = "none" /\ JobSound(job'[d], row', Messages)
    <3> SUFFICES ASSUME NEW d \in Compactors
                 PROVE  job'[d].at = "none" /\ JobSound(job'[d], row', Messages)
      OBVIOUS
    <3>1. CASE d = c
      BY <2>1, <3>1, Nothing, Parts DEF JobSound, Takes, Merges
    <3>2. CASE d # c
      <4>1. job'[d] = job[d] /\ job[d].at = "none"
        BY <1>0, <2>1, <3>2, AloneAtWork, Parts
      <4> QED
        BY <4>1, SoundParts DEF JobSound, Merges
    <3> QED
      BY <3>1, <3>2
  <2> DEFINE p == GoneOn(request[c], FALSE, j.anchor)
  <2>9. c \in Chats => request' = [request EXCEPT ![c] = p]
    BY <2>1 DEF Returns, GoneOn
  <2>10. c \notin Chats => request' = request
    BY <2>1 DEF Returns
  <2>11. c \in Chats => p \in RequestSet /\ RequestSound(p, row, count.clears, Messages)
    BY <1>0, <2>2, CompactedIsSound
  <2> HIDE DEF p
  <2>12. ASSUME NEW q \in RequestSet, RequestSound(q, row, count.clears, Messages)
         PROVE  RequestSound(q, row', count'.clears, Messages)
    <3>1. q.boundary \in Nat /\ row.boundary \in Nat
      BY Parts DEF RequestSet
    <3>2. Follows(q, row', count'.clears)
      BY <2>1, <2>6, <2>12, <3>1 DEF RequestSound, Follows
    <3> QED
      BY <2>12, <3>2 DEF RequestSound
  <2>13. ASSUME NEW r \in Chats
         PROVE  /\ RequestSound(request'[r], row', count'.clears, Messages)
                /\ Reaches(job'[r], request'[r], Messages)
    <3>1. r \in Compactors
      BY DEF Compactors
    <3>2. Reaches(job'[r], request'[r], Messages)
      BY <2>8, <3>1 DEF Reaches
    <3>3. \/ request'[r] = request[r]
          \/ c \in Chats /\ request'[r] = p
      BY <2>9, <2>10, Parts
    <3>4. request[r] \in RequestSet /\ RequestSound(request[r], row, count.clears, Messages)
      BY SoundParts, RequestParts
    <3> QED
      BY <2>11, <2>12, <3>2, <3>3, <3>4
  <2>14. row'.boundary <= Len(events)
    BY <2>1 DEF RowFits
  <2> QED
    BY <2>1, <2>7, <2>8, <2>13, <2>14 DEF ContextSound
<1>2. CASE ~Stands(j.boundary)
  <2>1. /\ Returns(c, NoAnchor, FALSE) /\ UNCHANGED <<events, row, count>>
        /\ job' = [job EXCEPT ![c] = NoJob]
    BY <1>2 DEF CompactCommit
  <2> QED
    BY <1>0, <2>1, SoundReturn, Parts
<1> QED
  BY <1>1, <1>2

\* A clear: nothing is covered and nothing needs to be; requests that load are torn.
LEMMA SoundClear ==
    ASSUME ContextTypes, ContextInvariant, Clear
    PROVE  ContextSound(request', job', row', count'.clears, Messages)
<1>1. /\ row.anchor.there /\ row' = Cleared /\ UNCHANGED <<events, request, job>>
      /\ count' = [count EXCEPT !.clears = @ + 1]
  BY DEF Clear
<1>2. Cleared.anchor = NoAnchor /\ Cleared.boundary = 0 /\ NoAnchor.covers = {}
  BY Nothing DEF Cleared
<1>3. count'.clears = count.clears + 1 /\ count.clears \in Nat
  BY <1>1, Parts DEF CountSet
<1>4. row.boundary > 0 /\ row.boundary \in Nat
  BY <1>1, Parts DEF ContextTypes, RowFits
<1>5. Covers(NoAnchor, Messages, 0)
  BY MessagesArePositions, Parts DEF Covers
<1>6. ASSUME NEW r \in Chats PROVE RequestSound(request[r], row', count'.clears, Messages)
  <2>1. request[r].clears \in Nat
    BY RequestParts
  <2>2. request[r].clears <= count.clears
    BY SoundParts DEF RequestSound, Follows
  <2>3. request[r].clears <= count'.clears /\ request[r].clears # count'.clears
    BY <1>3, <2>1, <2>2
  <2> QED
    BY <2>3, SoundParts DEF RequestSound, Follows
<1>7. ASSUME NEW c \in Compactors PROVE JobSound(job[c], row', Messages)
  <2>1. job[c].at # "none" => row.boundary \in {0, job[c].boundary}
    BY SoundParts DEF JobSound, Merges
  <2>2. job[c].at # "none" => job[c].boundary # 0
    BY <1>4, <2>1
  <2>3. Takes(job[c], Messages) /\ (job[c].at = "commit" =>
            job[c].anchor.poor \/ job[c].selection \subseteq job[c].anchor.covers)
    BY SoundParts DEF JobSound, Merges
  <2> QED
    BY <1>1, <1>2, <2>2, <2>3 DEF JobSound, Merges
<1> QED
  BY <1>1, <1>2, <1>5, <1>6, <1>7, SoundParts DEF ContextSound

-----------------------------------------------------------------------------
(* A session misses nothing.                                               *)

\* A session that begins misses nothing.
LEMMA SoundBegins == ASSUME Init PROVE ContextInvariant
<1>1. /\ row = [anchor |-> NoAnchor, boundary |-> 0, compressions |-> 0]
      /\ request = [r \in Chats |-> Idle] /\ job = [c \in Compactors |-> NoJob]
  BY DEF Init
<1>2. row.anchor = NoAnchor /\ row.boundary = 0
  BY <1>1
<1>3. ContextTypes
  BY TypesBegin
<1>4. Covers(row.anchor, Messages, row.boundary)
  BY <1>2, <1>3, MessagesArePositions, Parts DEF Covers
<1>5. \A r \in Chats : RequestSound(request[r], row, count.clears, Messages)
  BY <1>1, <1>3, IdleIsSound
<1>6. ASSUME NEW c \in Compactors PROVE JobSound(job[c], row, Messages)
  BY <1>1, Nothing DEF JobSound, Takes, Merges
<1>7. ASSUME NEW r \in Chats PROVE Reaches(job[r], request[r], Messages)
  BY <1>1, Nothing DEF Reaches, Compactors
<1> QED
  BY <1>4, <1>5, <1>6, <1>7 DEF ContextInvariant, ContextSound

\* A step that leaves the timeline alone.
LEMMA SoundQuietly ==
    ASSUME ContextTypes, ContextTypes', events' = events,
           ContextSound(request', job', row', count'.clears, Messages)
    PROVE  ContextInvariant'
<1>1. Messages' = Messages
  BY DEF Messages
<1> QED
  BY <1>1 DEF ContextInvariant

\* A turn is saved.
LEMMA SoundAfterSave ==
    ASSUME ContextTypes, ContextTypes', ContextInvariant, NEW r \in Chats, SaveTurn(r)
    PROVE  ContextInvariant'
<1>1. ContextSound(request', job', row', count'.clears, Messages)
  BY SoundSaveTurn
<1>2. /\ request' = [request EXCEPT ![r] = Idle] /\ UNCHANGED <<row, job>>
      /\ events' = events \/ events' = events \o <<"message", "message">>
  BY DEF SaveTurn
<1>3. \A s \in Chats : request'[s] = request[s] \/ request'[s] = Idle
  BY <1>2, Parts
<1>4. \A s \in Chats : RequestFits(request'[s], Messages, Len(events))
  BY <1>3, NothingFits, RequestParts, Zenon
<1>5. \A c \in Compactors : JobFits(job'[c], Messages, Len(events))
  BY <1>2, JobParts
<1>6. row'.boundary <= Len(events)
  BY <1>2, Parts
<1> QED
  BY <1>1, <1>2, <1>4, <1>5, <1>6, SoundAfter

\* A compaction commits.
LEMMA SoundAfterCommit ==
    ASSUME InOneProcess, ContextTypes, ContextTypes', ContextInvariant, NEW c \in Compactors, CompactCommit(c)
    PROVE  ContextInvariant'
<1>1. /\ ContextSound(request', job', row', count'.clears, Messages)
      /\ row'.boundary <= Len(events)
  BY SoundCompactCommit
<1>2. CASE events' = events
  BY <1>1, <1>2, SoundQuietly
<1>3. CASE events' # events
  <2>1. /\ events' = Append(events, "snapshot") /\ Returns(c, job[c].anchor, TRUE)
        /\ job' = [job EXCEPT ![c] = NoJob]
    BY <1>3 DEF CompactCommit
  <2>2. job[c].anchor \in AnchorSet /\ job[c].anchor.covers \subseteq Messages /\ TRUE \in BOOLEAN
    BY JobParts
  <2>3. \A r \in Chats : request'[r] = request[r] \/ RequestFits(request'[r], Messages, Len(events))
    BY <2>1, <2>2, ReturnFits
  <2>4. \A r \in Chats : RequestFits(request'[r], Messages, Len(events))
    BY <2>3, RequestParts, Zenon
  <2>5. \A d \in Compactors : job'[d] = job[d] \/ job'[d] = NoJob
    BY <2>1, Parts
  <2>6. \A d \in Compactors : JobFits(job'[d], Messages, Len(events))
    BY <2>5, NothingFits, JobParts, Zenon
  <2> QED
    BY <1>1, <2>1, <2>4, <2>6, SoundAfter
<1> QED
  BY <1>2, <1>3

\* Every step keeps it so.
LEMMA SoundStep == ASSUME InOneProcess, ContextTypes, ContextInvariant, [Next]_vars PROVE ContextInvariant'
<1>1. ContextTypes'
  BY TypesStep
<1>2. ASSUME NEW r \in Chats, Chat(r) PROVE ContextInvariant'
  <2>1. CASE LoadBoundary(r)
    BY <1>1, <2>1, SoundLoadBoundary, SoundQuietly, ZenonT(60) DEF LoadBoundary
  <2>2. CASE LoadPage(r)
    BY <1>1, <2>2, SoundLoadPage, SoundQuietly, ZenonT(60) DEF LoadPage
  <2>3. CASE LoadAnchor(r)
    BY <1>1, <2>3, SoundLoadAnchor, SoundQuietly, ZenonT(60) DEF LoadAnchor
  <2>4. CASE Measure(r)
    BY <1>1, <2>4, SoundMeasure, SoundQuietly, ZenonT(60) DEF Measure
  <2>5. CASE Answer(r)
    BY <1>1, <2>5, SoundAnswer, SoundQuietly, ZenonT(60) DEF Answer
  <2>6. CASE SaveTurn(r)
    BY <1>1, <2>6, SoundAfterSave
  <2> QED
    BY <1>2, <2>1, <2>2, <2>3, <2>4, <2>5, <2>6 DEF Chat
<1>3. ASSUME NEW c \in Compactors, Compaction(c) PROVE ContextInvariant'
  <2>1. CASE CompactBegin(c)
    BY <1>1, <2>1, SoundCompactBegin, SoundQuietly, ZenonT(60) DEF CompactBegin
  <2>2. CASE CompactBusy(c)
    <3>1. /\ Returns(c, NoAnchor, FALSE) /\ UNCHANGED <<events, row, job, count>>
          /\ c \in Chats /\ request[c].at = "compact" /\ job[c].at = "none"
      BY <2>2 DEF CompactBusy, Asks
    <3> QED
      BY <1>1, <3>1, SoundReturn, SoundQuietly
  <2>3. CASE CompactReadMessages(c)
    BY <1>1, <2>3, SoundCompactReadMessages, SoundQuietly, ZenonT(60) DEF CompactReadMessages
  <2>4. CASE CompactReadAnchor(c)
    BY <1>1, <2>4, SoundCompactReadAnchor, SoundQuietly, ZenonT(60) DEF CompactReadAnchor
  <2>5. CASE CompactSummarise(c)
    BY <1>1, <2>5, SoundCompactSummarise, SoundQuietly, ZenonT(60) DEF CompactSummarise
  <2>6. CASE CompactCommit(c)
    BY <1>1, <2>6, SoundAfterCommit
  <2>7. CASE CompactAborted(c)
    <3>1. /\ Returns(c, NoAnchor, FALSE) /\ UNCHANGED <<events, row, count>>
          /\ job' = [job EXCEPT ![c] = NoJob] /\ (c \in Chats => request[c].at = "compact")
      BY <2>7, SoundParts DEF CompactAborted, Reaches
    <3> QED
      BY <1>1, <3>1, SoundReturn, SoundQuietly
  <2> QED
    BY <1>3, <2>1, <2>2, <2>3, <2>4, <2>5, <2>6, <2>7 DEF Compaction
<1>4. CASE Clear
  BY <1>1, <1>4, SoundClear, SoundQuietly DEF Clear
<1>5. CASE UNCHANGED vars
  BY <1>5 DEF vars, ContextInvariant, Messages
<1> QED
  BY <1>2, <1>3, <1>4, <1>5 DEF Next

\* The invariant says of a request what ContextIsWhole asks.
LEMMA SoundIsWhole ==
    ASSUME ContextTypes, ContextInvariant
    PROVE  AnchorCoversBoundary /\ ContextIsWhole
<1>1. AnchorCoversBoundary
  BY SoundParts DEF AnchorCoversBoundary, Covers, MessagesUpTo
<1>2. ASSUME NEW r \in Chats
      PROVE  request[r].torn \/ TooLong(request[r]) \/ Whole(request[r])
  <2>1. Answers(request[r], Messages)
    BY SoundParts DEF RequestSound
  <2> DEFINE q == request[r]
  <2>2. LeftBehind(q) = {i \in Messages : i <= q.upTo /\ i > q.boundary} \ q.history
    BY DEF LeftBehind, MessagesUpTo
  <2>3. ASSUME \A i \in Messages : i <= q.upTo => i \in q.history \cup q.anchor.covers
        PROVE  Missing(q) = {}
    BY <2>3 DEF Missing, MessagesUpTo
  <2> HIDE DEF q
  <2>4. Answers(q, Messages)
    BY <2>1 DEF q
  <2>5. q.torn \/ TooLong(q) \/ Whole(q)
    BY <2>2, <2>3, <2>4 DEF Answers, TooLong, Whole
  <2> QED
    BY <2>5 DEF q
<1> QED
  BY <1>1, <1>2 DEF ContextIsWhole

\* With one backend process - the lock of CompactionService is one per process - no
\* message falls between summary and history, for any number of tabs, compactions by
\* hand, turns and clears: what lies at or before the boundary is in the anchor, unless
\* a summary the model failed to write is part of it.  Compare-and-set alone does not
\* give this: a compaction that has read no anchor after a clear commits if one of
\* another process has meanwhile brought the same boundary back
\* (ChatSessionMemory.commit_compaction, read_messages_for_compaction).
THEOREM AnchorIsComplete == InOneProcess => (Spec => []AnchorCoversBoundary)
<1> SUFFICES ASSUME InOneProcess PROVE Spec => []AnchorCoversBoundary
  OBVIOUS
<1>1. Init => ContextTypes /\ ContextInvariant
  BY TypesBegin, SoundBegins
<1>2. ContextTypes /\ ContextInvariant /\ [Next]_vars => ContextTypes' /\ ContextInvariant'
  BY TypesStep, SoundStep
<1>3. ContextTypes /\ ContextInvariant => AnchorCoversBoundary
  BY SoundIsWhole
<1> QED
  BY <1>1, <1>2, <1>3, PTL DEF Spec

\* With one backend process, every request that goes to the model has each message of
\* the session before it in its history or in its anchor, although boundary, pages and
\* anchor are read in three transactions while turns are saved, compactions commit and
\* the user clears; excepted a session that is too long for the budget and a clear
\* during the load, as ContextIsWhole says (load_session_history,
\* ContextBuilder.build_context).
THEOREM NothingIsMissed == InOneProcess => (Spec => []ContextIsWhole)
<1> SUFFICES ASSUME InOneProcess PROVE Spec => []ContextIsWhole
  OBVIOUS
<1>1. Init => ContextTypes /\ ContextInvariant
  BY TypesBegin, SoundBegins
<1>2. ContextTypes /\ ContextInvariant /\ [Next]_vars => ContextTypes' /\ ContextInvariant'
  BY TypesStep, SoundStep
<1>3. ContextTypes /\ ContextInvariant => ContextIsWhole
  BY SoundIsWhole
<1> QED
  BY <1>1, <1>2, <1>3, PTL DEF Spec
=============================================================================
