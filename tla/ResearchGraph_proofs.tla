-------------------------- MODULE ResearchGraph_proofs --------------------------
(***************************************************************************)
(* Proofs about ResearchGraph: its types and budgets; the receipts of the  *)
(* supplements; for a run that stays in one lane, that nothing is          *)
(* researched, composed, judged or delivered but what was approved; and,   *)
(* for a run without supplements, that it fails last.                      *)
(***************************************************************************)
EXTENDS ResearchGraph, WellFoundedInduction, TLAPS

-----------------------------------------------------------------------------
(* Maps, nodes and gaps. *)

\* Two maps are joined: the first is preferred.
LEMMA Joined ==
    ASSUME NEW f, NEW g
    PROVE  /\ DOMAIN (f ++ g) = DOMAIN f \union DOMAIN g
           /\ \A x \in DOMAIN f : (f ++ g)[x] = f[x]
           /\ \A x \in DOMAIN g \ DOMAIN f : (f ++ g)[x] = g[x]
<1> DEFINE h == [x \in DOMAIN f \union DOMAIN g |-> IF x \in DOMAIN f THEN f[x] ELSE g[x]]
      all == {[x \in DOMAIN p[1] \union DOMAIN p[2] |->
                    IF x \in DOMAIN p[1] THEN p[1][x] ELSE p[2][x]] : p \in {<<f, g>>}}
      one(p) == [x \in DOMAIN p[1] \union DOMAIN p[2] |->
                    IF x \in DOMAIN p[1] THEN p[1][x] ELSE p[2][x]]
<1>1. one(<<f, g>>) = h
    OBVIOUS
<1>2. all = {one(<<f, g>>)}
  <2> HIDE DEF one
  <2>1. {one(p) : p \in {<<f, g>>}} = {one(<<f, g>>)}
    BY Zenon
  <2>2. QED
    BY <2>1, Zenon DEF one
<1>3. f ++ g = h
    BY <1>1, <1>2, Zenon DEF ++
<1>4. QED
    BY <1>3

LEMMA EntryIs ==
    ASSUME NEW k, NEW v
    PROVE  DOMAIN Entry(k, v) = {k} /\ Entry(k, v)[k] = v
    BY DEF Entry

\* The types of the parts of a state, and how often a gap may be researched.
Gaps == Range(GapOrder)
Contracts == Nat \X Nat
Statuses == Done \union {"none", "pending"}
Packets == [gen : Nat, found : {"met", "loose", "missing", "hopeless"}]
Limit(g) == IF g = Route THEN 1 ELSE Budget[g[1]]

\* Nodes, gaps, ranks and least elements, spelled out.
LEMMA NodesAre ==
    Nodes = {"accommodation", "artifact gate", "budget", "candidate gate", "finalizer",
       "projector", "quality gate", "geo", "destination", "dispatcher", "router",
       "fidelity gate", "itinerary", "draft", "plan gate", "planner", "normalizer",
       "brief", "clarifier", "transport", "summary", "weather"}
<1>1. DOMAIN NodeOrder = 1..22
  BY DEF NodeOrder
<1>2. \A x : x \in Nodes <=> \E i \in 1..22 : x = NodeOrder[i]
  BY <1>1 DEF Nodes, Range
<1>3. /\ NodeOrder[1] = "accommodation"
      /\ NodeOrder[2] = "artifact gate"
      /\ NodeOrder[3] = "budget"
      /\ NodeOrder[4] = "candidate gate"
      /\ NodeOrder[5] = "finalizer"
      /\ NodeOrder[6] = "projector"
      /\ NodeOrder[7] = "quality gate"
      /\ NodeOrder[8] = "geo"
      /\ NodeOrder[9] = "destination"
      /\ NodeOrder[10] = "dispatcher"
      /\ NodeOrder[11] = "router"
      /\ NodeOrder[12] = "fidelity gate"
      /\ NodeOrder[13] = "itinerary"
      /\ NodeOrder[14] = "draft"
      /\ NodeOrder[15] = "plan gate"
      /\ NodeOrder[16] = "planner"
      /\ NodeOrder[17] = "normalizer"
      /\ NodeOrder[18] = "brief"
      /\ NodeOrder[19] = "clarifier"
      /\ NodeOrder[20] = "transport"
      /\ NodeOrder[21] = "summary"
      /\ NodeOrder[22] = "weather"
  BY DEF NodeOrder
<1>4. \A i : i \in 1..22 <=> i = 1 \/ i = 2 \/ i = 3 \/ i = 4 \/ i = 5 \/ i = 6 \/ i = 7 \/ i = 8 \/
          i = 9 \/ i = 10 \/ i = 11 \/ i = 12 \/ i = 13 \/ i = 14 \/ i = 15 \/ i = 16 \/ i = 17 \/
          i = 18 \/ i = 19 \/ i = 20 \/ i = 21 \/ i = 22
  OBVIOUS
<1> HIDE DEF NodeOrder
<1> DEFINE Named(x) ==
          x = NodeOrder[1] \/ x = NodeOrder[2] \/ x = NodeOrder[3] \/
          x = NodeOrder[4] \/ x = NodeOrder[5] \/ x = NodeOrder[6] \/ x = NodeOrder[7] \/
          x = NodeOrder[8] \/ x = NodeOrder[9] \/ x = NodeOrder[10] \/ x = NodeOrder[11] \/
          x = NodeOrder[12] \/ x = NodeOrder[13] \/ x = NodeOrder[14] \/ x = NodeOrder[15] \/
          x = NodeOrder[16] \/ x = NodeOrder[17] \/ x = NodeOrder[18] \/ x = NodeOrder[19] \/
          x = NodeOrder[20] \/ x = NodeOrder[21] \/ x = NodeOrder[22]
<1>5. \A x : x \in Nodes <=> Named(x)
  <2>1. ASSUME NEW x \in Nodes PROVE Named(x)
    <3>1. PICK i \in 1..22 : x = NodeOrder[i]
      BY <1>2
    <3>2. QED
      BY <3>1, <1>4, ZenonT(60)
  <2>2. ASSUME NEW x, Named(x) PROVE \E i \in 1..22 : x = NodeOrder[i]
    BY <2>2, <1>4, ZenonT(60)
  <2> HIDE DEF Named
  <2>3. QED
    BY <1>2, <2>1, <2>2
<1>6. Nodes = {NodeOrder[1], NodeOrder[2], NodeOrder[3], NodeOrder[4], NodeOrder[5], NodeOrder[6],
          NodeOrder[7], NodeOrder[8], NodeOrder[9], NodeOrder[10], NodeOrder[11], NodeOrder[12],
          NodeOrder[13], NodeOrder[14], NodeOrder[15], NodeOrder[16], NodeOrder[17], NodeOrder[18],
          NodeOrder[19], NodeOrder[20], NodeOrder[21], NodeOrder[22]}
  <2>1. ASSUME NEW x PROVE x \in Nodes <=> x \in {NodeOrder[1], NodeOrder[2], NodeOrder[3],
            NodeOrder[4], NodeOrder[5], NodeOrder[6], NodeOrder[7], NodeOrder[8], NodeOrder[9],
            NodeOrder[10], NodeOrder[11], NodeOrder[12], NodeOrder[13], NodeOrder[14], NodeOrder[15],
            NodeOrder[16], NodeOrder[17], NodeOrder[18], NodeOrder[19], NodeOrder[20], NodeOrder[21],
            NodeOrder[22]}
    BY <1>5, Zenon
  <2>2. QED
    BY <2>1
<1>7. QED
  BY <1>6, <1>3

LEMMA GapsAre == Gaps = {Missing("accommodation"), Loose("accommodation"), Missing("destination"),
       Loose("destination"), Missing("transport"), Route, Loose("transport")}
<1>1. DOMAIN GapOrder = 1..7
  BY DEF GapOrder
<1>2. \A x : x \in Gaps <=> \E i \in 1..7 : x = GapOrder[i]
  BY <1>1 DEF Gaps, Range
<1>3. ASSUME NEW x PROVE (\E i \in 1..7 : x = GapOrder[i]) <=> x \in {Missing("accommodation"),
          Loose("accommodation"), Missing("destination"),
       Loose("destination"), Missing("transport"), Route, Loose("transport")}
   BY SMTT(60) DEF GapOrder
<1>4. QED
  BY <1>2, <1>3

LEMMA LeastIsAnElement ==
    ASSUME NEW T, T \subseteq Nat, T # {}
    PROVE  Min(T) \in T /\ \A x \in T : Min(T) <= x
<1>1. PICK x \in T : \A y \in T : x <= y
  <2>1. IsWellFoundedOn(OpToRel(<, Nat), Nat)
    BY NatLessThanWellFounded
  <2>2. PICK x \in T : \A y \in T : ~(<<y, x>> \in OpToRel(<, Nat))
    BY ONLY <2>1, T \subseteq Nat, T # {}, WFMin
  <2>3. \A y \in T : ~(y < x)
    BY <2>2 DEF OpToRel
  <2>4. QED
    BY <2>3
<1>2. QED
    BY <1>1, Zenon DEF Min

LEMMA RankIsNumber == \A n \in Nodes : Rank[n] \in 1..22
<1>1. DOMAIN NodeOrder = 1..22
  BY DEF NodeOrder
<1>2. ASSUME NEW n \in Nodes PROVE Rank[n] \in 1..22
  <2>1. \E i \in DOMAIN NodeOrder : NodeOrder[i] = n
     BY DEF Nodes, Range
  <2>2. (CHOOSE i \in DOMAIN NodeOrder : NodeOrder[i] = n) \in 1..22
     BY <2>1, <1>1
  <2>3. QED BY <2>2, Zenon DEF Rank
<1>3. QED BY <1>2

LEMMA LastIsOne ==
    ASSUME NEW T, T \subseteq Nodes, T # {}
    PROVE  LastOf(T) \in T
<1> DEFINE R == {22 - Rank[n] : n \in T}
<1>0. \A n \in T : 22 - Rank[n] \in Nat /\ Rank[n] \in Nat
  <2>1. ASSUME NEW n \in T PROVE 22 - Rank[n] \in Nat /\ Rank[n] \in Nat
    <3>1. Rank[n] \in 1..22
      BY RankIsNumber
    <3>2. \A k \in 1..22 : 22 - k \in Nat /\ k \in Nat
      OBVIOUS
    <3>3. QED
      BY <3>1, <3>2
  <2>2. QED
    BY <2>1
<1>1. R \subseteq Nat /\ R # {}
  BY <1>0
<1>2. Min(R) \in R /\ \A x \in R : Min(R) <= x
  <2> HIDE DEF R
  <2>1. QED
    BY <1>1, LeastIsAnElement
<1>3. PICK n \in T : Min(R) = 22 - Rank[n]
  BY <1>2
<1>4. ASSUME NEW m \in T PROVE Rank[m] <= Rank[n]
  <2>1. 22 - Rank[m] \in R
    OBVIOUS
  <2>2. 22 - Rank[n] <= 22 - Rank[m]
    BY <2>1, <1>2, <1>3
  <2>3. QED
    BY <2>2, <1>0
<1>5. QED
  BY <1>4, Zenon DEF LastOf

-----------------------------------------------------------------------------
(* Types and merges. *)

\* What the fields of a state may hold.
Places == Nodes \union {"none"}

AttemptsType == {f \in [Gaps -> Nat] : \A g \in Gaps : f[g] <= Limit(g)}

\* The types of the fields that TypeOK and the edges depend on.
FieldType ==
    [con |-> Contracts, step |-> DOMAIN Plan,
     attempts |-> AttemptsType,
     repairs |-> 0 .. MaxRepairs, gaps |-> SUBSET Gaps, dead |-> SUBSET Gaps,
     pending |-> SUBSET Supplements, applied |-> SUBSET Supplements,
     rejected |-> SUBSET Supplements, resume |-> Places, route |-> Places,
     edits |-> Nat, planRevision |-> Nat,
     gateRoute |-> Agents \union {"passed", "candidate gate", "composition_repair"},
     artifactRoute |-> {"accepted", "candidate gate", Composer},
     fidelityRoute |-> {"passed", "candidate gate", Composer}]

MapType == [status |-> Statuses, packets |-> Packets]

\* A part of a map.
PartOK(f, v) ==
    \A a \in DOMAIN v : v[a] \in MapType[f]

\* What a node may return: fields of their types, and the gaps with those that are dead.
WriteOK(w) ==
    /\ \A f \in DOMAIN FieldType \intersect DOMAIN w : w[f] \in FieldType[f]
    /\ \A f \in DOMAIN MapType \intersect DOMAIN w : PartOK(f, w[f])
    /\ "packets" \in DOMAIN w => DOMAIN w["packets"] # {}
    /\ ("gaps" \in DOMAIN w \/ "dead" \in DOMAIN w) =>
          /\ "gaps" \in DOMAIN w /\ "dead" \in DOMAIN w
          /\ w["dead"] \subseteq w["gaps"]

\* A state of the graph: its fields have their types.
StateOK(st) ==
    /\ DOMAIN st = DOMAIN InitState
    /\ \A f \in DOMAIN FieldType : st[f] \in FieldType[f]
    /\ st["status"] \in [Agents -> Statuses]
    /\ st["packets"] \in [Workers -> Packets]
    /\ st["dead"] \subseteq st["gaps"]

LEMMA TypedFields ==
    /\ DOMAIN FieldType = {"con", "step", "attempts", "repairs", "gaps", "dead", "pending",
          "applied", "rejected", "resume", "route", "edits", "planRevision", "gateRoute",
          "artifactRoute", "fidelityRoute"}
    /\ DOMAIN MapType = {"status", "packets"}
    /\ DOMAIN FieldType \union DOMAIN MapType \subseteq DOMAIN InitState
  BY DEF FieldType, MapType, InitState

LEMMA FieldTypes ==
    /\ FieldType["con"] = Contracts /\ FieldType["step"] = DOMAIN Plan
    /\ FieldType["attempts"] = AttemptsType /\ FieldType["repairs"] = 0 .. MaxRepairs
    /\ FieldType["gaps"] = SUBSET Gaps /\ FieldType["dead"] = SUBSET Gaps
    /\ FieldType["pending"] = SUBSET Supplements /\ FieldType["applied"] = SUBSET Supplements
    /\ FieldType["rejected"] = SUBSET Supplements
    /\ FieldType["resume"] = Places /\ FieldType["route"] = Places
    /\ FieldType["edits"] = Nat /\ FieldType["planRevision"] = Nat
    /\ FieldType["gateRoute"] = Agents \union {"passed", "candidate gate", "composition_repair"}
    /\ FieldType["artifactRoute"] = {"accepted", "candidate gate", Composer}
    /\ FieldType["fidelityRoute"] = {"passed", "candidate gate", Composer}
    /\ MapType["status"] = Statuses /\ MapType["packets"] = Packets
  BY DEF FieldType, MapType

\* Two writes joined are a write.
LEMMA WriteJoined ==
    ASSUME NEW v, NEW w, WriteOK(v), WriteOK(w)
    PROVE  WriteOK(v ++ w)
<1> DEFINE u == v ++ w
<1>1. /\ DOMAIN u = DOMAIN v \union DOMAIN w
      /\ \A x \in DOMAIN v : u[x] = v[x]
      /\ \A x \in DOMAIN w \ DOMAIN v : u[x] = w[x]
  BY Joined
<1> HIDE DEF u
<1>2. ASSUME NEW f \in DOMAIN FieldType \intersect DOMAIN u PROVE u[f] \in FieldType[f]
  BY <1>1 DEF WriteOK
<1>3. ASSUME NEW f \in DOMAIN MapType \intersect DOMAIN u PROVE PartOK(f, u[f])
  BY <1>1 DEF WriteOK
<1>4. "packets" \in DOMAIN u => DOMAIN u["packets"] # {}
  BY <1>1 DEF WriteOK
<1>5. ("gaps" \in DOMAIN u \/ "dead" \in DOMAIN u) =>
          /\ "gaps" \in DOMAIN u /\ "dead" \in DOMAIN u
          /\ u["dead"] \subseteq u["gaps"]
  BY <1>1 DEF WriteOK
<1>6. WriteOK(u)
  BY <1>2, <1>3, <1>4, <1>5 DEF WriteOK
<1>7. QED
  BY <1>6 DEF u

\* A map merged from typed parts stays typed.
LEMMA MergedMapOK ==
    ASSUME NEW T, NEW D, NEW old \in [D -> T], NEW new, DOMAIN new \subseteq Nodes,
           \A n \in DOMAIN new : \A a \in DOMAIN new[n] : new[n][a] \in T,
           "none" \in T \/ \A n \in DOMAIN new : DOMAIN new[n] # {}
    PROVE  MergedMap(old, new) \in [D -> T]
<1> DEFINE told(a) == {n \in DOMAIN new : a \in DOMAIN new[n] \/ DOMAIN new[n] = {}}
           val(a) == IF told(a) = {} THEN old[a]
                     ELSE IF DOMAIN new[LastOf(told(a))] = {} THEN "none" ELSE new[LastOf(told(a))][a]
<1>1. MergedMap(old, new) = [a \in D |-> val(a)]
  BY DEF MergedMap
<1>2. ASSUME NEW a \in D PROVE val(a) \in T
  <2>1. told(a) # {} => LastOf(told(a)) \in told(a)
    <3> HIDE DEF told
    <3>1. told(a) \subseteq Nodes
      BY DEF told
    <3>2. QED
      BY <3>1, LastIsOne
  <2>2. QED
    BY <2>1
<1>3. QED
  <2> HIDE DEF val
  <2>1. QED
    BY <1>1, <1>2

\* The nodes that wrote a field, and what each of them wrote.
Wrote(writes, f) == {n \in DOMAIN writes : f \in DOMAIN writes[n]}
Told(writes, f) == [n \in Wrote(writes, f) |-> writes[n][f]]

\* The reducers, field by field.
LEMMA MergedFields ==
    ASSUME NEW st, NEW writes
    PROVE  /\ DOMAIN Merge(st, writes) = DOMAIN st
           /\ \A f \in DOMAIN st :
                Merge(st, writes)[f] =
                   IF Wrote(writes, f) = {} THEN st[f] ELSE Reduce(f, st[f], Told(writes, f))
<1> DEFINE new == [f \in {g \in DOMAIN st : Wrote(writes, g) # {}} |->
                     Reduce(f, st[f], Told(writes, f))]
<1>1. Merge(st, writes) = new ++ st
  BY Zenon DEF Merge, Wrote, Told
<1>2. DOMAIN new = {g \in DOMAIN st : Wrote(writes, g) # {}}
  OBVIOUS
<1>3. \A f \in DOMAIN new : new[f] = Reduce(f, st[f], Told(writes, f))
  OBVIOUS
<1>4. /\ DOMAIN (new ++ st) = DOMAIN new \union DOMAIN st
      /\ \A x \in DOMAIN new : (new ++ st)[x] = new[x]
      /\ \A x \in DOMAIN st \ DOMAIN new : (new ++ st)[x] = st[x]
  <2> HIDE DEF new
  <2>1. QED
    BY Joined
<1> HIDE DEF new
<1>5. DOMAIN Merge(st, writes) = DOMAIN st
  BY <1>1, <1>2, <1>4
<1>6. ASSUME NEW f \in DOMAIN st
      PROVE  Merge(st, writes)[f] =
                IF Wrote(writes, f) = {} THEN st[f] ELSE Reduce(f, st[f], Told(writes, f))
  BY <1>1, <1>2, <1>3, <1>4
<1>7. QED
  BY <1>5, <1>6

LEMMA ToldIs ==
    ASSUME NEW writes, NEW f
    PROVE  /\ Wrote(writes, f) \subseteq DOMAIN writes
           /\ \A n \in DOMAIN writes : n \in Wrote(writes, f) <=> f \in DOMAIN writes[n]
           /\ DOMAIN Told(writes, f) = Wrote(writes, f)
           /\ \A n \in Wrote(writes, f) : Told(writes, f)[n] = writes[n][f]
  BY DEF Wrote, Told

LEMMA ReducePlain ==
    ASSUME NEW f, NEW old, NEW new,
           f \notin {"status", "packets", "applied", "rejected", "committed"}
    PROVE  Reduce(f, old, new) = new[LastOf(DOMAIN new)]
  BY DEF Reduce

\* A field of a plain type holds what it held or what one of the writers wrote.
LEMMA MergedPlain ==
    ASSUME NEW st, NEW writes, DOMAIN writes \subseteq Nodes, NEW f \in DOMAIN st,
           f \notin {"status", "packets", "applied", "rejected", "committed"}
    PROVE  \/ /\ \A n \in DOMAIN writes : f \notin DOMAIN writes[n]
              /\ Merge(st, writes)[f] = st[f]
           \/ \E n \in DOMAIN writes :
                f \in DOMAIN writes[n] /\ Merge(st, writes)[f] = writes[n][f]
<1> DEFINE last == LastOf(Wrote(writes, f))
<1>1. Merge(st, writes)[f] =
         IF Wrote(writes, f) = {} THEN st[f] ELSE Reduce(f, st[f], Told(writes, f))
  BY MergedFields
<1>2. CASE Wrote(writes, f) = {}
  BY <1>1, <1>2, ToldIs
<1>3. CASE Wrote(writes, f) # {}
  <2>1. last \in Wrote(writes, f)
    BY <1>3, ToldIs, LastIsOne
  <2>2. Reduce(f, st[f], Told(writes, f)) = Told(writes, f)[last]
    BY ReducePlain, ToldIs
  <2>3. QED
    BY <1>1, <1>3, <2>1, <2>2, ToldIs
<1>4. QED
  BY <1>2, <1>3

LEMMA MergedSet ==
    ASSUME NEW st, NEW writes, NEW f \in DOMAIN st, f \in {"applied", "rejected"}
    PROVE  Merge(st, writes)[f] = st[f] \union UNION {writes[n][f] : n \in Wrote(writes, f)}
<1>1. Merge(st, writes)[f] =
         IF Wrote(writes, f) = {} THEN st[f] ELSE Reduce(f, st[f], Told(writes, f))
  BY MergedFields
<1>2. Reduce(f, st[f], Told(writes, f)) = st[f] \union UNION Range(Told(writes, f))
  BY DEF Reduce
<1>3. Range(Told(writes, f)) = {writes[n][f] : n \in Wrote(writes, f)}
  BY ToldIs DEF Range
<1>4. Wrote(writes, f) = {} => UNION {writes[n][f] : n \in Wrote(writes, f)} = {}
  OBVIOUS
<1>5. QED
  BY <1>1, <1>2, <1>3, <1>4

LEMMA MergedMapField ==
    ASSUME NEW st, NEW writes, NEW f \in DOMAIN st, f \in {"status", "packets"},
           NEW T, NEW D, st[f] \in [D -> T], DOMAIN writes \subseteq Nodes,
           \A n \in Wrote(writes, f) :
               /\ \A a \in DOMAIN writes[n][f] : writes[n][f][a] \in T
               /\ "none" \in T \/ DOMAIN writes[n][f] # {}
    PROVE  Merge(st, writes)[f] \in [D -> T]
<1>1. Merge(st, writes)[f] =
         IF Wrote(writes, f) = {} THEN st[f] ELSE Reduce(f, st[f], Told(writes, f))
  BY MergedFields
<1>2. Reduce(f, st[f], Told(writes, f)) = MergedMap(st[f], Told(writes, f))
  BY DEF Reduce
<1> DEFINE old == st[f]
           new == Told(writes, f)
<1>3. /\ DOMAIN new \subseteq Nodes
      /\ \A n \in DOMAIN new : \A a \in DOMAIN new[n] : new[n][a] \in T
      /\ "none" \in T \/ \A n \in DOMAIN new : DOMAIN new[n] # {}
  BY ToldIs
<1>4. old \in [D -> T]
  OBVIOUS
<1>5. MergedMap(old, new) \in [D -> T]
  <2> HIDE DEF old, new
  <2>1. QED
    BY <1>3, <1>4, MergedMapOK
<1>6. QED
  BY <1>1, <1>2, <1>5

\* The writes of a superstep, merged into a state, give a state.
LEMMA MergeOK ==
    ASSUME NEW st, StateOK(st), NEW writes, DOMAIN writes \subseteq Nodes,
           \A n \in DOMAIN writes : WriteOK(writes[n]), ~Conflict(writes)
    PROVE  StateOK(Merge(st, writes))
<1> DEFINE r == Merge(st, writes)
<1>1. DOMAIN r = DOMAIN st /\ DOMAIN st = DOMAIN InitState
  BY MergedFields, Zenon DEF StateOK
<1>2. ASSUME NEW f \in DOMAIN FieldType PROVE r[f] \in FieldType[f]
  <2>1. f \in DOMAIN st /\ f \notin {"status", "packets", "committed"} /\ st[f] \in FieldType[f]
    BY <1>1, TypedFields DEF StateOK
  <2>2. \A n \in DOMAIN writes : f \in DOMAIN writes[n] => writes[n][f] \in FieldType[f]
    BY DEF WriteOK
  <2>3. CASE f \in {"applied", "rejected"}
    <3>1. FieldType[f] = SUBSET Supplements
      BY <2>3, FieldTypes
    <3>2. r[f] = st[f] \union UNION {writes[n][f] : n \in Wrote(writes, f)}
      BY <2>1, <2>3, MergedSet
    <3> HIDE DEF r
    <3>3. QED
      BY <3>1, <3>2, <2>1, <2>2, ToldIs
  <2>4. CASE f \notin {"applied", "rejected"}
    <3>1. \/ r[f] = st[f]
          \/ \E n \in DOMAIN writes :
                f \in DOMAIN writes[n] /\ r[f] = writes[n][f]
      BY <2>1, <2>4, MergedPlain
    <3> HIDE DEF r
    <3>2. QED
      BY <3>1, <2>1, <2>2
  <2>5. QED
    BY <2>3, <2>4
<1>3. r["status"] \in [Agents -> Statuses]
  <2>1. /\ "status" \in DOMAIN st /\ "status" \in DOMAIN MapType /\ MapType["status"] = Statuses
        /\ "none" \in Statuses
    BY <1>1, TypedFields DEF MapType, Statuses
  <2>2. st["status"] \in [Agents -> Statuses]
    BY DEF StateOK
  <2>3. \A n \in Wrote(writes, "status") :
          /\ \A a \in DOMAIN writes[n]["status"] : writes[n]["status"][a] \in Statuses
          /\ "none" \in Statuses \/ DOMAIN writes[n]["status"] # {}
    BY <2>1, ToldIs DEF WriteOK, PartOK
  <2>4. QED
    BY <2>1, <2>2, <2>3, MergedMapField
<1>4. r["packets"] \in [Workers -> Packets]
  <2>1. /\ "packets" \in DOMAIN st /\ "packets" \in DOMAIN MapType /\ MapType["packets"] = Packets
    BY <1>1, TypedFields DEF MapType
  <2>2. st["packets"] \in [Workers -> Packets]
    BY DEF StateOK
  <2>3. \A n \in Wrote(writes, "packets") :
          /\ \A a \in DOMAIN writes[n]["packets"] : writes[n]["packets"][a] \in Packets
          /\ "none" \in Packets \/ DOMAIN writes[n]["packets"] # {}
    BY <2>1, ToldIs DEF WriteOK, PartOK
  <2>4. QED
    BY <2>1, <2>2, <2>3, MergedMapField
<1>5. r["dead"] \subseteq r["gaps"]
  <2>1. "dead" \in DOMAIN st /\ "gaps" \in DOMAIN st
    BY <1>1 DEF InitState
  <2>2. \/ /\ \A n \in DOMAIN writes : "dead" \notin DOMAIN writes[n]
           /\ r["dead"] = st["dead"]
        \/ \E n \in DOMAIN writes : "dead" \in DOMAIN writes[n] /\ r["dead"] = writes[n]["dead"]
    BY <2>1, MergedPlain
  <2>3. \/ /\ \A n \in DOMAIN writes : "gaps" \notin DOMAIN writes[n]
           /\ r["gaps"] = st["gaps"]
        \/ \E n \in DOMAIN writes : "gaps" \in DOMAIN writes[n] /\ r["gaps"] = writes[n]["gaps"]
    BY <2>1, MergedPlain
  <2> HIDE DEF r
  <2>4. \A m, n \in DOMAIN writes : "gaps" \in DOMAIN writes[m] /\ "gaps" \in DOMAIN writes[n] => m = n
    BY DEF Conflict, Reduced
  <2>5. st["dead"] \subseteq st["gaps"]
    BY DEF StateOK
  <2>6. \A n \in DOMAIN writes : "gaps" \in DOMAIN writes[n] \/ "dead" \in DOMAIN writes[n] =>
           /\ "gaps" \in DOMAIN writes[n] /\ "dead" \in DOMAIN writes[n]
           /\ writes[n]["dead"] \subseteq writes[n]["gaps"]
    BY DEF WriteOK
  <2>7. QED
    BY <2>2, <2>3, <2>4, <2>5, <2>6
<1>6. QED
  <2> HIDE DEF r
  <2>1. StateOK(r)
    BY <1>1, <1>2, <1>3, <1>4, <1>5 DEF StateOK
  <2>2. QED
    BY <2>1 DEF r

-----------------------------------------------------------------------------
(* Every node returns a write of the right types. *)

\* What a state and a write say of their fields, spelled out.
LEMMA StateIs ==
    ASSUME NEW st, StateOK(st)
    PROVE  /\ st.con \in Contracts
           /\ st.step \in DOMAIN Plan
           /\ st.attempts \in AttemptsType
           /\ st.repairs \in 0 .. MaxRepairs
           /\ st.gaps \in SUBSET Gaps
           /\ st.dead \in SUBSET Gaps
           /\ st.pending \in SUBSET Supplements
           /\ st.applied \in SUBSET Supplements
           /\ st.rejected \in SUBSET Supplements
           /\ st.resume \in Places
           /\ st.route \in Places
           /\ st.edits \in Nat /\ st.planRevision \in Nat
           /\ st.gateRoute \in Agents \union {"passed", "candidate gate", "composition_repair"}
           /\ st.artifactRoute \in {"accepted", "candidate gate", Composer}
           /\ st.fidelityRoute \in {"passed", "candidate gate", Composer}
           /\ st.dead \subseteq st.gaps
           /\ st.status \in [Agents -> Statuses] /\ st.packets \in [Workers -> Packets]
           /\ DOMAIN st = DOMAIN InitState
<1>1. \A f \in DOMAIN FieldType : st[f] \in FieldType[f]
  BY DEF StateOK
<1>2. st["con"] \in Contracts
  BY <1>1, FieldTypes, TypedFields
<1>3. st["step"] \in DOMAIN Plan
  BY <1>1, FieldTypes, TypedFields
<1>4. st["attempts"] \in AttemptsType
  BY <1>1, FieldTypes, TypedFields
<1>5. st["repairs"] \in 0 .. MaxRepairs
  BY <1>1, FieldTypes, TypedFields
<1>6. st["gaps"] \in SUBSET Gaps
  <2>1. st["gaps"] \in FieldType["gaps"]
    BY <1>1, TypedFields
  <2>2. FieldType["gaps"] = SUBSET Gaps
    BY FieldTypes
  <2>3. QED
    BY <2>1, <2>2, Zenon
<1>7. st["dead"] \in SUBSET Gaps
  <2>1. st["dead"] \in FieldType["dead"]
    BY <1>1, TypedFields
  <2>2. FieldType["dead"] = SUBSET Gaps
    BY FieldTypes
  <2>3. QED
    BY <2>1, <2>2, Zenon
<1>8. st["pending"] \in SUBSET Supplements
  <2>1. st["pending"] \in FieldType["pending"]
    BY <1>1, TypedFields
  <2>2. FieldType["pending"] = SUBSET Supplements
    BY FieldTypes
  <2>3. QED
    BY <2>1, <2>2, Zenon
<1>9. st["applied"] \in SUBSET Supplements
  <2>1. st["applied"] \in FieldType["applied"]
    BY <1>1, TypedFields
  <2>2. FieldType["applied"] = SUBSET Supplements
    BY FieldTypes
  <2>3. QED
    BY <2>1, <2>2, Zenon
<1>10. st["rejected"] \in SUBSET Supplements
  <2>1. st["rejected"] \in FieldType["rejected"]
    BY <1>1, TypedFields
  <2>2. FieldType["rejected"] = SUBSET Supplements
    BY FieldTypes
  <2>3. QED
    BY <2>1, <2>2, Zenon
<1>11. st["resume"] \in Places
  <2>1. st["resume"] \in FieldType["resume"]
    BY <1>1, TypedFields
  <2>2. FieldType["resume"] = Places
    BY FieldTypes
  <2>3. QED
    BY <2>1, <2>2, Zenon
<1>12. st["route"] \in Places
  <2>1. st["route"] \in FieldType["route"]
    BY <1>1, TypedFields
  <2>2. FieldType["route"] = Places
    BY FieldTypes
  <2>3. QED
    BY <2>1, <2>2, Zenon
<1>13. st["gateRoute"] \in Agents \union {"passed", "candidate gate", "composition_repair"}
  BY <1>1, FieldTypes, TypedFields
<1>14. st["artifactRoute"] \in {"accepted", "candidate gate", Composer}
  BY <1>1, FieldTypes, TypedFields
<1>15. st["fidelityRoute"] \in {"passed", "candidate gate", Composer}
  BY <1>1, FieldTypes, TypedFields
<1>16. st["edits"] \in Nat
  <2>1. st["edits"] \in FieldType["edits"]
    BY <1>1, TypedFields
  <2>2. QED
    BY <2>1, FieldTypes, Zenon
<1>17. st["planRevision"] \in Nat
  <2>1. st["planRevision"] \in FieldType["planRevision"]
    BY <1>1, TypedFields
  <2>2. QED
    BY <2>1, FieldTypes, Zenon
<1>20. QED
  BY <1>2, <1>3, <1>4, <1>5, <1>6, <1>7, <1>8, <1>9, <1>10, <1>11, <1>12, <1>13, <1>14, <1>15,
     <1>16, <1>17 DEF StateOK

\* The type of a write, field by field.
WriteFields(w) ==
    /\ "con" \in DOMAIN w => w["con"] \in Contracts
    /\ "step" \in DOMAIN w => w["step"] \in DOMAIN Plan
    /\ "attempts" \in DOMAIN w => w["attempts"] \in AttemptsType
    /\ "repairs" \in DOMAIN w => w["repairs"] \in 0 .. MaxRepairs
    /\ "gaps" \in DOMAIN w => w["gaps"] \in SUBSET Gaps
    /\ "dead" \in DOMAIN w => w["dead"] \in SUBSET Gaps
    /\ "pending" \in DOMAIN w => w["pending"] \in SUBSET Supplements
    /\ "applied" \in DOMAIN w => w["applied"] \in SUBSET Supplements
    /\ "rejected" \in DOMAIN w => w["rejected"] \in SUBSET Supplements
    /\ "resume" \in DOMAIN w => w["resume"] \in Places
    /\ "route" \in DOMAIN w => w["route"] \in Places
    /\ "edits" \in DOMAIN w => w["edits"] \in Nat
    /\ "planRevision" \in DOMAIN w => w["planRevision"] \in Nat
    /\ "gateRoute" \in DOMAIN w => w["gateRoute"] \in Agents \union {"passed", "candidate gate",
           "composition_repair"}
    /\ "artifactRoute" \in DOMAIN w => w["artifactRoute"] \in {"accepted", "candidate gate", Composer}
    /\ "fidelityRoute" \in DOMAIN w => w["fidelityRoute"] \in {"passed", "candidate gate", Composer}
    /\ "status" \in DOMAIN w => PartOK("status", w["status"])
    /\ "packets" \in DOMAIN w => PartOK("packets", w["packets"]) /\ DOMAIN w["packets"] # {}
    /\ ("gaps" \in DOMAIN w \/ "dead" \in DOMAIN w) =>
          /\ "gaps" \in DOMAIN w /\ "dead" \in DOMAIN w
          /\ w["dead"] \subseteq w["gaps"]

LEMMA WriteIs ==
    ASSUME NEW w, WriteFields(w)
    PROVE  WriteOK(w)
<1>1. ASSUME NEW f \in DOMAIN FieldType \intersect DOMAIN w
      PROVE  w[f] \in FieldType[f]
  <2>1. CASE f = "con"
    BY <2>1, <1>1, FieldTypes DEF WriteFields
  <2>2. CASE f = "step"
    BY <2>2, <1>1, FieldTypes DEF WriteFields
  <2>3. CASE f = "attempts"
    BY <2>3, <1>1, FieldTypes DEF WriteFields
  <2>4. CASE f = "repairs"
    BY <2>4, <1>1, FieldTypes DEF WriteFields
  <2>5. CASE f = "gaps"
    BY <2>5, <1>1, FieldTypes DEF WriteFields
  <2>6. CASE f = "dead"
    BY <2>6, <1>1, FieldTypes DEF WriteFields
  <2>7. CASE f = "pending"
    BY <2>7, <1>1, FieldTypes DEF WriteFields
  <2>8. CASE f = "applied"
    BY <2>8, <1>1, FieldTypes DEF WriteFields
  <2>9. CASE f = "rejected"
    BY <2>9, <1>1, FieldTypes DEF WriteFields
  <2>10. CASE f = "resume"
    BY <2>10, <1>1, FieldTypes DEF WriteFields
  <2>11. CASE f = "route"
    BY <2>11, <1>1, FieldTypes DEF WriteFields
  <2>12. CASE f = "gateRoute"
    BY <2>12, <1>1, FieldTypes DEF WriteFields
  <2>13. CASE f = "artifactRoute"
    BY <2>13, <1>1, FieldTypes DEF WriteFields
  <2>14. CASE f = "fidelityRoute"
    BY <2>14, <1>1, FieldTypes DEF WriteFields
  <2>15. CASE f = "edits"
    BY <2>15, <1>1, FieldTypes DEF WriteFields
  <2>16. CASE f = "planRevision"
    BY <2>16, <1>1, FieldTypes DEF WriteFields
  <2>20. QED
    BY <2>1, <2>2, <2>3, <2>4, <2>5, <2>6, <2>7, <2>8, <2>9, <2>10, <2>11, <2>12, <2>13, <2>14,
       <2>15, <2>16, TypedFields
<1>2. ASSUME NEW f \in DOMAIN MapType \intersect DOMAIN w
      PROVE  PartOK(f, w[f])
  BY TypedFields DEF WriteFields
<1>3. QED
  BY <1>1, <1>2 DEF WriteOK, WriteFields

LEMMA PlanIs ==
    /\ Plan \in Seq((SUBSET Agents) \ {{}}) /\ Len(Plan) \in Nat /\ DOMAIN Plan = 1 .. Len(Plan)
    /\ 1 \in DOMAIN Plan
    /\ \A i \in DOMAIN Plan : Plan[i] \subseteq Agents /\ Plan[i] # {}
<1>1. Plan \in Seq((SUBSET Agents) \ {{}}) /\ Plan # <<>>
  BY GraphAssumption DEF GraphAssumption
<1>2. Len(Plan) \in Nat /\ DOMAIN Plan = 1 .. Len(Plan) /\ Len(Plan) # 0
  BY <1>1
<1>3. QED
  BY <1>1, <1>2

LEMMA LimitIs == \A g \in Gaps : Limit(g) \in Nat \ {0} /\ g[1] \in Workers
<1>1. ASSUME NEW g \in Gaps PROVE g[1] \in Workers
  BY GapsAre DEF Missing, Loose, Route, Workers
<1>2. \A w \in Workers : Budget[w] \in Nat \ {0}
  BY GraphAssumption DEF GraphAssumption
<1>3. QED
  BY <1>1, <1>2 DEF Limit

LEMMA NoAttemptsOK == InitState.attempts \in AttemptsType
<1>1. InitState.attempts = [g \in Gaps |-> 0]
  BY DEF InitState, Gaps
<1>2. QED
  BY <1>1, LimitIs DEF AttemptsType

\* The nodes of the planning chain return writes.
LEMMA NoWritesOK == WriteOK(NoWrites)
  BY DEF WriteOK, NoWrites

LEMMA RaiseOK == WriteOK([raise |-> TRUE]) /\ WriteOK([cancel |-> TRUE])
  BY TypedFields DEF WriteOK

LEMMA NormalizerOK ==
    ASSUME NEW st, StateOK(st), NEW w \in Normalizer(st)
    PROVE  WriteOK(w) /\ "applied" \in DOMAIN w
<1>1. PICK c \in NewContract(st) :
         w = [con |-> c, planRevision |-> st.edits, pending |-> {}, applied |-> st.pending,
              edit |-> "none", route |-> "none", resume |-> "none"]
  BY DEF Normalizer
<1>2. c \in Contracts
  <2>1. st.con \in Nat \X Nat
    BY StateIs DEF Contracts
  <2>2. st.con[1] \in Nat /\ st.con[2] \in Nat
    BY <2>1
  <2>3. c = <<st.con[1] + 1, st.con[2] + 1>> \/ c = <<st.con[1], st.con[2] + 1>>
    BY <1>1 DEF NewContract
  <2>4. QED
    BY <2>2, <2>3 DEF Contracts
<1>3. "none" \in Places
  BY DEF Places
<1>4. QED
  <2>1. st.edits \in Nat /\ st.pending \in SUBSET Supplements
    BY StateIs
  <2>2. QED
    BY <2>1, <1>1, <1>2, <1>3, WriteIs DEF WriteFields

LEMMA EmptyPart == PartOK("status", <<>>)
  BY DEF PartOK

LEMMA ResetsOK == WriteOK(ResetComposition) /\ WriteOK(ResetResearch)
<1>1. WriteOK(ResetComposition)
  BY WriteIs DEF WriteFields, ResetComposition
<1>2. WriteOK(ResetResearch)
  <2> DEFINE none == InitState.attempts
  <2>1. none \in AttemptsType /\ 1 \in DOMAIN Plan /\ 0 \in 0 .. MaxRepairs
    BY NoAttemptsOK, PlanIs, GraphAssumption DEF GraphAssumption
  <2> HIDE DEF none
  <2>2. QED
    BY <2>1, EmptyPart, WriteIs DEF WriteFields, ResetResearch, none
<1>3. QED
  BY <1>1, <1>2

LEMMA InvalidateOK ==
    ASSUME NEW strength \in {"projection", "composition", "research"}
    PROVE  WriteOK(Invalidate(strength))
<1>1. WriteOK([committed |-> FALSE])
  BY TypedFields DEF WriteOK
<1>2. WriteOK([committed |-> FALSE] ++ ResetComposition)
  BY <1>1, ResetsOK, WriteJoined
<1>3. WriteOK([committed |-> FALSE] ++ ResetComposition ++ ResetResearch)
  BY <1>2, ResetsOK, WriteJoined
<1>4. QED
  BY <1>1, <1>2, <1>3 DEF Invalidate

\* The draft, the planner, the plan gate, the dispatcher and the agents return writes.
LEMMA DraftBuilderOK ==
    ASSUME NEW st, StateOK(st), NEW w \in DraftBuilder(st)
    PROVE  WriteOK(w)
<1> DEFINE none == InitState.attempts
<1>1. none \in AttemptsType
  BY NoAttemptsOK
<1> HIDE DEF none
<1>2. w = NoWrites \/ w = [draft |-> st.con, sealed |-> FALSE, deadline |-> FALSE, gaps |-> {},
                           dead |-> {}, attempts |-> none]
  BY DEF DraftBuilder, none
<1>3. QED
  BY <1>1, <1>2, NoWritesOK, WriteIs DEF WriteFields

LEMMA PlannerOK ==
    ASSUME NEW st, NEW w \in Planner(st)
    PROVE  WriteOK(w)
<1>1. w = [plan |-> st.con, step |-> 1, scoped |-> {}, connector |-> FALSE]
  BY DEF Planner
<1>2. QED
  BY <1>1, PlanIs, WriteIs DEF WriteFields

LEMMA PlanGateOK ==
    ASSUME NEW st, StateOK(st), NEW w \in PlanGate(st)
    PROVE  WriteOK(w)
<1>1. WriteOK(Seal)
  BY WriteIs DEF WriteFields, Seal
<1>2. ASSUME NEW kind \in {"projection", "research"}, NEW decision
      PROVE  WriteOK(EditPlan(st, kind, decision))
  <2>1. st.edits \in Nat
    BY StateIs
  <2>3. WriteOK([edit |-> kind, decision |-> decision, edits |-> st.edits + 1])
    <3> DEFINE x == st.edits + 1
               v == [edit |-> kind, decision |-> decision, edits |-> x]
    <3>1. x \in Nat
      BY <2>1
    <3>2. DOMAIN v = {"edit", "decision", "edits"} /\ v.edits = x
      OBVIOUS
    <3> HIDE DEF x, v
    <3>3. WriteFields(v)
      BY <3>1, <3>2 DEF WriteFields
    <3>4. WriteOK(v)
      BY <3>3, WriteIs
    <3>5. QED
      BY <3>4 DEF v, x
  <2>2. QED
    BY <2>3, InvalidateOK, WriteJoined DEF EditPlan
<1>3. \/ w \in {[raise |-> TRUE], [cancel |-> TRUE], Seal}
      \/ \E kind \in {"projection", "research"} :
           \E decision \in {"amendment", "projection_amendment_pending"} : w = EditPlan(st, kind, decision)
  BY DEF PlanGate
<1>4. QED
  BY <1>1, <1>2, <1>3, RaiseOK

LEMMA DispatcherOK ==
    ASSUME NEW st, StateOK(st), NEW w \in Dispatcher(st)
    PROVE  WriteOK(w)
<1>1. ASSUME NEW agent PROVE WriteOK([next |-> agent])
  BY WriteIs DEF WriteFields
<1>2. ASSUME NEW i \in DOMAIN Plan, NEW agent PROVE WriteOK([step |-> i, next |-> agent])
  BY WriteIs DEF WriteFields
<1>3. CompositionStep(st) # {} => Min(CompositionStep(st)) \in DOMAIN Plan
  <2>1. CompositionStep(st) \subseteq DOMAIN Plan /\ DOMAIN Plan \subseteq Nat
    BY PlanIs DEF CompositionStep
  <2>2. QED
    BY <2>1, LeastIsAnElement
<1>4. st.step < Len(Plan) => st.step + 1 \in DOMAIN Plan
  <2>1. st.step \in DOMAIN Plan
    BY StateIs
  <2>2. \A k \in DOMAIN Plan : k < Len(Plan) => k + 1 \in DOMAIN Plan
    BY PlanIs
  <2>3. QED
    BY <2>1, <2>2
<1> DEFINE nexts == {"to_check", "candidate_gate", "dispatch_group"}
           first == [step |-> Min(CompositionStep(st)), next |-> ToComposition(st)]
<1>5. \/ w \in {[next |-> agent] : agent \in nexts}
      \/ CompositionStep(st) # {} /\ w = first
      \/ st.step < Len(Plan) /\ w \in {[step |-> st.step + 1, next |-> agent] : agent \in nexts}
  <2> HIDE DEF first
  <2>1. CASE ResearchClosed(st)
    <3>1. w = [next |-> "to_check"] \/ (CompositionStep(st) # {} /\ w = first)
      BY <2>1 DEF Dispatcher, first
    <3>2. QED
      BY <3>1
  <2>2. CASE ~ResearchClosed(st)
    <3>1. \/ w \in {[next |-> "to_check"], [next |-> "candidate_gate"], [next |-> "dispatch_group"]}
          \/ /\ st.step < Len(Plan)
             /\ w \in {[step |-> st.step + 1, next |-> "candidate_gate"],
                       [step |-> st.step + 1, next |-> "dispatch_group"]}
      BY <2>2 DEF Dispatcher
    <3>2. QED
      BY <3>1
  <2>3. QED
    BY <2>1, <2>2
<1>6. QED
  BY <1>1, <1>2, <1>3, <1>4, <1>5

LEMMA StatusOK ==
    ASSUME NEW a, NEW v \in Statuses
    PROVE  PartOK("status", Entry(a, v))
<1> DEFINE e == Entry(a, v)
<1>1. DOMAIN e = {a} /\ e[a] = v
  BY EntryIs
<1> HIDE DEF e
<1>2. PartOK("status", e)
  BY <1>1, FieldTypes DEF PartOK
<1>3. QED
  BY <1>2 DEF e

LEMMA ReportOK ==
    ASSUME NEW st, NEW w, NEW v \in Statuses
    PROVE  WriteOK(Report(st, w, v))
<1>1. WriteOK([status |-> Entry(w, v)])
  BY StatusOK, WriteIs DEF WriteFields
<1>2. QED
  BY <1>1, NoWritesOK DEF Report

LEMMA PacketOK ==
    ASSUME NEW st, StateOK(st), NEW w, NEW found \in {"met", "loose", "missing", "hopeless"}
    PROVE  WriteOK(Packet(st, w, found))
<1> DEFINE p == [gen |-> st.con[1], found |-> found]
           e == Entry(w, p)
<1>1. p \in Packets
  <2>1. st.con[1] \in Nat
    BY StateIs DEF Contracts
  <2>2. QED
    BY <2>1 DEF Packets
<1>2. DOMAIN e = {w} /\ e[w] = p
  <2> HIDE DEF p
  <2>1. QED
    BY EntryIs
<1>3. PartOK("packets", e) /\ DOMAIN e # {}
  <2> HIDE DEF p, e
  <2>1. QED
    BY <1>1, <1>2, FieldTypes DEF PartOK
<1>4. WriteOK([packets |-> e])
  <2> HIDE DEF e
  <2>1. QED
    BY <1>3, WriteIs DEF WriteFields
<1>5. QED
  BY <1>4 DEF Packet

LEMMA ResearchOK ==
    ASSUME NEW st, StateOK(st), NEW n, NEW w \in Research(st, n)
    PROVE  WriteOK(w)
<1>0. {"completed", "failed", "partial"} \subseteq Statuses
  BY DEF Statuses, Done
<1>1. ASSUME NEW f PROVE WriteOK([fault |-> f])
  BY WriteIs DEF WriteFields
<1>2. WriteOK([next |-> "HALT"])
  BY WriteIs DEF WriteFields
<1>3. ASSUME NEW found \in {"met", "loose", "missing"}, w = Report(st, n, "completed") ++ Packet(st, n, found)
      PROVE  WriteOK(w)
  BY <1>0, <1>3, ReportOK, PacketOK, WriteJoined
<1>4. ASSUME NEW f, w = Report(st, n, "failed") ++ [fault |-> f]
      PROVE  WriteOK(w)
  BY <1>0, <1>1, <1>4, ReportOK, WriteJoined
<1>5. ASSUME w = Report(st, n, "failed") ++ [fault |-> TRUE] ++ Packet(st, n, "hopeless")
      PROVE  WriteOK(w)
  <2>1. WriteOK(Report(st, n, "failed") ++ [fault |-> TRUE])
    BY <1>0, <1>1, ReportOK, WriteJoined
  <2>2. QED
    BY <2>1, <1>5, PacketOK, WriteJoined
<1>6. ASSUME w = Report(st, n, "partial") ++ [next |-> "HALT"]
      PROVE  WriteOK(w)
  BY <1>0, <1>2, <1>6, ReportOK, WriteJoined
<1>7. \/ \E found \in {"met", "loose", "missing"} : w = Report(st, n, "completed") ++ Packet(st, n, found)
      \/ \E f \in BOOLEAN : w = Report(st, n, "failed") ++ [fault |-> f]
      \/ w = Report(st, n, "failed") ++ [fault |-> TRUE] ++ Packet(st, n, "hopeless")
      \/ w = Report(st, n, "partial") ++ [next |-> "HALT"]
  BY DEF Research
<1>8. QED
  BY <1>3, <1>4, <1>5, <1>6, <1>7

LEMMA ComposeOK ==
    ASSUME NEW st, NEW w \in Compose(st)
    PROVE  WriteOK(w)
<1>0. {"completed", "failed", "pending"} \subseteq Statuses
  BY DEF Statuses, Done
<1>1. ASSUME NEW f PROVE WriteOK([status |-> Entry(Composer, "failed"), fault |-> f])
  BY <1>0, StatusOK, WriteIs DEF WriteFields
<1>2. WriteOK([skeleton |-> TRUE, status |-> Entry(Composer, "pending"),
               gate |-> "needs_research", gateRoute |-> "candidate gate"])
  BY <1>0, StatusOK, WriteIs DEF WriteFields
<1>3. WriteOK([workspace |-> st.con, status |-> Entry(Composer, "completed")])
  BY <1>0, StatusOK, WriteIs DEF WriteFields
<1>4. WriteOK(Composed(st))
  BY <1>2, <1>3 DEF Composed
<1>5. \/ w = [raise |-> TRUE] \/ w = Composed(st)
      \/ \E f \in BOOLEAN : w = [status |-> Entry(Composer, "failed"), fault |-> f]
  BY DEF Compose
<1>6. QED
  BY <1>1, <1>4, <1>5, RaiseOK

\* The ledger of the candidate gate: the gap it funds is one it may fund.
LEMMA TurnIs ==
    /\ Len(GapOrder) = 7
    /\ \A g \in Gaps : Turn[g] \in 1 .. 7 /\ GapOrder[Turn[g]] = g
<1>1. DOMAIN GapOrder = 1 .. 7 /\ Len(GapOrder) = 7
  BY DEF GapOrder
<1>2. ASSUME NEW g \in Gaps PROVE Turn[g] \in 1 .. 7 /\ GapOrder[Turn[g]] = g
  <2> DEFINE turn == CHOOSE i \in DOMAIN GapOrder : GapOrder[i] = g
  <2>1. \E i \in DOMAIN GapOrder : GapOrder[i] = g
    BY DEF Gaps, Range
  <2>2. turn \in DOMAIN GapOrder /\ GapOrder[turn] = g
    BY <2>1, Zenon
  <2>3. Turn[g] = turn
    BY Zenon DEF Turn, Gaps
  <2> HIDE DEF turn
  <2>4. QED
    BY <2>2, <2>3, <1>1
<1>3. QED
  BY <1>1, <1>2

LEMMA ResolveOK ==
    ASSUME NEW st, NEW rows, rows \subseteq Gaps, NEW dead, NEW blocked
    PROVE  LET found == Resolve(st, rows, dead, blocked)
           IN  /\ found.dead \subseteq dead \union rows
               /\ found.target = <<>> \/ (found.target \in rows /\ ~Spent(st, found.target))
<1> DEFINE queue == Fundable(st, rows, dead, blocked)
           live == {g \in queue : Found(st, g[1]) # "hopeless"}
           turns == {Turn[g] : g \in live} \union {Len(GapOrder) + 1}
           first == Min(turns)
           closed == {g \in queue : Turn[g] < first}
           found == Resolve(st, rows, dead, blocked)
<1>1. found = [target |-> IF live = {} THEN <<>> ELSE GapOrder[first], dead |-> dead \union closed]
  BY Zenon DEF Resolve
<1>2. queue \subseteq rows /\ \A g \in queue : ~Spent(st, g)
  BY DEF Fundable
<1>3. live \subseteq queue /\ closed \subseteq queue
  <2> HIDE DEF first, queue
  <2>1. QED
    OBVIOUS
<1>4. live # {} => GapOrder[first] \in live
  <2> HIDE DEF live, queue
  <2> SUFFICES ASSUME live # {} PROVE GapOrder[first] \in live
    OBVIOUS
  <2>1. live \subseteq Gaps
    BY <1>2, <1>3
  <2>2. turns \subseteq Nat /\ turns # {}
    BY <2>1, TurnIs
  <2>3. first \in turns /\ \A x \in turns : first <= x
    <3> HIDE DEF turns
    <3>1. QED
      BY <2>2, LeastIsAnElement
  <2>4. PICK g \in live : TRUE
    OBVIOUS
  <2>5. Turn[g] \in turns /\ Turn[g] \in 1 .. 7
    BY <2>1, TurnIs
  <2>6. first # 8
    <3> HIDE DEF turns, first
    <3>1. QED
      BY <2>3, <2>5
  <2>7. PICK h \in live : first = Turn[h]
    <3>1. first \in {Turn[h] : h \in live} \/ first = 8
      BY <2>3, TurnIs
    <3> HIDE DEF first
    <3>2. QED
      BY <3>1, <2>6
  <2>8. GapOrder[Turn[h]] = h
    BY <2>1, TurnIs
  <2> HIDE DEF first
  <2>9. QED
    BY <2>7, <2>8
<1>5. found.dead = dead \union closed /\ found.target = IF live = {} THEN <<>> ELSE GapOrder[first]
  <2> HIDE DEF closed, live, first
  <2>1. QED
    BY <1>1
<1>6. QED
  <2> HIDE DEF found, closed, live, first, queue
  <2>1. /\ found.dead \subseteq dead \union rows
        /\ found.target = <<>> \/ (found.target \in rows /\ ~Spent(st, found.target))
    BY <1>2, <1>3, <1>4, <1>5
  <2>2. QED
    BY <2>1, Zenon DEF found

LEMMA AttemptCounted ==
    ASSUME NEW st, StateOK(st), NEW g \in Gaps, ~Spent(st, g)
    PROVE  [st.attempts EXCEPT ![g] = @ + 1] \in AttemptsType
<1> DEFINE att == st.attempts
<1>1. att \in [Gaps -> Nat] /\ \A h \in Gaps : att[h] <= Limit(h)
  BY StateIs DEF AttemptsType
<1>2. att[g] + 1 <= Limit(g)
  <2>1. CASE g = Route
    <3>1. ~(att[Route] >= 1) /\ Limit(g) = 1
      BY <2>1 DEF Spent, Limit
    <3> HIDE DEF att
    <3>2. QED
      BY <3>1, <1>1, <2>1
  <2>2. CASE g # Route
    <3> DEFINE w == g[1]
    <3>1. ~(att[Missing(w)] + att[Loose(w)] >= Budget[w]) /\ Limit(g) = Budget[w]
      BY <2>2 DEF Spent, Limit
    <3>2. g \in {Missing(w), Loose(w)} /\ Missing(w) \in Gaps /\ Loose(w) \in Gaps
      BY <2>2, GapsAre DEF Missing, Loose, Route
    <3>3. Budget[w] \in Nat
      BY <2>2, LimitIs, <3>1
    <3> DEFINE m == att[Missing(w)]
               l == att[Loose(w)]
    <3>4. m \in Nat /\ l \in Nat /\ att[g] \in {m, l}
      <4> HIDE DEF att, w
      <4>1. QED
        BY <3>2, <1>1
    <3>5. ~(m + l >= Budget[w])
      BY <3>1
    <3> HIDE DEF m, l, w, att
    <3>6. QED
      BY <3>1, <3>3, <3>4, <3>5
  <2>3. QED
    BY <2>1, <2>2
<1> HIDE DEF att
<1>3. [att EXCEPT ![g] = @ + 1] \in AttemptsType
  <2> DEFINE a == [att EXCEPT ![g] = @ + 1]
  <2>1. a \in [Gaps -> Nat]
    BY <1>1
  <2>2. \A h \in Gaps : a[h] = IF h = g THEN att[g] + 1 ELSE att[h]
    BY <1>1
  <2> HIDE DEF a
  <2>3. \A h \in Gaps : a[h] <= Limit(h)
    BY <2>2, <1>1, <1>2
  <2>4. a \in AttemptsType
    BY <2>1, <2>3 DEF AttemptsType
  <2>5. QED
    BY <2>4 DEF a
<1>4. QED
  BY <1>3 DEF att

\* What the candidate gate says of the gaps it found.
Ledger(c, rows, dead) == [catalog |-> c, selection |-> c, gaps |-> rows, dead |-> dead]

LEMMA LedgerOK ==
    ASSUME NEW c, NEW rows, rows \subseteq Gaps, NEW dead, dead \subseteq rows
    PROVE  WriteOK(Ledger(c, rows, dead))
  BY WriteIs DEF WriteFields, Ledger

\* What the candidate gate returns when it passes, repairs or funds is a write.
LEMMA PassedOK == WriteOK(Passed) /\ WriteOK(BrokenCatalog)
<1>1. WriteOK(Passed)
  BY WriteIs DEF WriteFields, Passed
<1>2. WriteOK([fault |-> FALSE])
  BY WriteIs DEF WriteFields
<1>3. QED
  BY <1>1, <1>2, WriteJoined DEF BrokenCatalog

LEMMA RepairOrOK ==
    ASSUME NEW st, StateOK(st), NEW w, WriteOK(w), NEW exhausted, WriteOK(exhausted)
    PROVE  WriteOK(RepairOr(st, w, exhausted))
<1>1. ASSUME st.repairs < MaxRepairs PROVE WriteOK([repairs |-> st.repairs + 1])
  <2> DEFINE r == st.repairs + 1
  <2>1. r \in 0 .. MaxRepairs
    <3>1. st.repairs \in 0 .. MaxRepairs
      BY StateIs
    <3>2. MaxRepairs \in Nat
      BY GraphAssumption DEF GraphAssumption
    <3>3. \A k \in 0 .. MaxRepairs : k < MaxRepairs => k + 1 \in 0 .. MaxRepairs
      BY <3>2
    <3>4. QED
      BY <3>1, <3>3, <1>1
  <2> HIDE DEF r
  <2>2. WriteOK([repairs |-> r])
    BY <2>1, WriteIs DEF WriteFields
  <2>3. QED
    BY <2>2 DEF r
<1>2. ASSUME st.repairs < MaxRepairs PROVE WriteOK([repairs |-> st.repairs + 1] ++ w)
  BY <1>1, <1>2, WriteJoined
<1>3. WriteOK(exhausted ++ w)
  BY WriteJoined
<1>4. QED
  BY <1>2, <1>3 DEF RepairOr

LEMMA RepairSkeletonOK ==
    ASSUME NEW st, StateOK(st), NEW base, WriteOK(base)
    PROVE  WriteOK(RepairSkeleton(st, base))
<1>1. WriteOK([gate |-> "composition_repair", gateRoute |-> "composition_repair"])
  BY WriteIs DEF WriteFields
<1>2. WriteOK([gate |-> "composition_repair", gateRoute |-> "composition_repair"] ++ base)
  BY <1>1, WriteJoined
<1>3. QED
  BY <1>2, PassedOK, RepairOrOK DEF RepairSkeleton

LEMMA FundOK ==
    ASSUME NEW st, StateOK(st), NEW base, WriteOK(base), NEW g \in Gaps, ~Spent(st, g)
    PROVE  WriteOK(Fund(st, base, g))
<1> DEFINE att == [st.attempts EXCEPT ![g] = @ + 1]
           scoped == st.scoped \union {g[1]}
           connector == IF g = Route THEN TRUE
                        ELSE IF g = Missing("transport") THEN FALSE ELSE st.connector
           r == g[1]
           w == [gate |-> "needs_research", gateRoute |-> r, attempts |-> att,
                 scoped |-> scoped, connector |-> connector]
<1>1. att \in AttemptsType
  BY AttemptCounted
<1>2. r \in Agents
  BY LimitIs DEF Agents
<1>3. WriteOK(w)
  <2> HIDE DEF att, scoped, connector, r
  <2>1. QED
    BY <1>1, <1>2, WriteIs DEF WriteFields
<1>4. Fund(st, base, g) = w ++ base
  BY Zenon DEF Fund
<1>5. QED
  <2> HIDE DEF w
  <2>1. QED
    BY <1>3, <1>4, WriteJoined

LEMMA PassedLedger ==
    ASSUME NEW c, NEW rows, NEW dead
    PROVE  PassedUpdate(Ledger(c, rows, dead), rows) = Passed ++ Ledger(c, rows, dead \union rows)
<1>1. [Ledger(c, rows, dead) EXCEPT !.dead = @ \union rows] = Ledger(c, rows, dead \union rows)
  BY DEF Ledger
<1>2. QED
  BY <1>1, Zenon DEF PassedUpdate

LEMMA FinishGateOK ==
    ASSUME NEW st, StateOK(st), NEW c, NEW rows, rows \subseteq Gaps, NEW dead, dead \subseteq rows,
           NEW target, target = <<>> \/ (target \in rows /\ ~Spent(st, target)), NEW blocked
    PROVE  WriteOK(FinishGate(st, Ledger(c, rows, dead), rows, target, blocked))
<1> DEFINE base == Ledger(c, rows, dead)
<1>1. WriteOK(base)
  BY LedgerOK
<1>2. WriteOK(Passed ++ base)
  BY <1>1, PassedOK, WriteJoined
<1>3. WriteOK(PassedUpdate(base, rows))
  <2>1. PassedUpdate(base, rows) = Passed ++ Ledger(c, rows, dead \union rows)
    BY PassedLedger
  <2>2. WriteOK(Ledger(c, rows, dead \union rows))
    <3>1. dead \union rows \subseteq rows
      OBVIOUS
    <3>2. QED
      BY <3>1, LedgerOK
  <2>3. QED
    BY <2>1, <2>2, PassedOK, WriteJoined
<1>4. target # <<>> => WriteOK(Fund(st, base, target))
  <2> HIDE DEF base
  <2>1. QED
    BY <1>1, FundOK
<1>5. FinishGate(st, base, rows, target, blocked) \in
         {Passed ++ base, PassedUpdate(base, rows)} \union
         (IF target = <<>> THEN {} ELSE {Fund(st, base, target)})
  <2> HIDE DEF base
  <2>1. QED
    BY DEF FinishGate
<1> HIDE DEF base
<1>6. WriteOK(FinishGate(st, base, rows, target, blocked))
  BY <1>2, <1>3, <1>4, <1>5
<1>7. QED
  BY <1>6 DEF base

LEMMA RowsOK == \A st : Rows(st) \subseteq Gaps
<1> SUFFICES ASSUME NEW st PROVE Rows(st) \subseteq Gaps
  OBVIOUS
<1>1. \A w \in Workers : Missing(w) \in Gaps /\ Loose(w) \in Gaps
  BY GapsAre DEF Workers
<1>2. QED
  BY <1>1 DEF Rows

\* So are the two passes of the candidate gate.
LEMMA ConnectorPassOK ==
    ASSUME NEW st, StateOK(st), NEW c, NEW rows, rows \subseteq Gaps, NEW dead, dead \subseteq rows,
           NEW blocked, NEW w \in ConnectorPass(st, Ledger(c, rows, dead), rows, blocked)
    PROVE  WriteOK(w)
<1> DEFINE base == Ledger(c, rows, dead)
           withRoute == rows \union {Route}
           found == Resolve(st, withRoute, base.dead, {"transport"})
           more == [base EXCEPT !.gaps = withRoute, !.dead = found.dead]
<1>1. WriteOK(RepairSkeleton(st, [skeleton |-> FALSE] ++ base))
  <2>1. WriteOK([skeleton |-> FALSE])
    BY WriteIs DEF WriteFields
  <2> HIDE DEF base
  <2>2. WriteOK([skeleton |-> FALSE] ++ base)
    BY <2>1, LedgerOK, WriteJoined DEF base
  <2>3. QED
    BY <2>2, RepairSkeletonOK
<1>2. WriteOK(FinishGate(st, base, rows, <<>>, blocked))
  <2> DEFINE target == <<>>
  <2>1. target = <<>>
    OBVIOUS
  <2> HIDE DEF target
  <2>2. WriteOK(FinishGate(st, base, rows, target, blocked))
    BY <2>1, FinishGateOK
  <2>3. QED
    BY <2>2 DEF target
<1>3. withRoute \subseteq Gaps
  BY GapsAre
<1>4. /\ found.dead \subseteq withRoute
      /\ found.target = <<>> \/ (found.target \in withRoute /\ ~Spent(st, found.target))
  <2>1. base.dead = dead
    BY DEF Ledger
  <2> DEFINE d == base.dead
  <2> HIDE DEF base
  <2>2. /\ found.dead \subseteq d \union withRoute
        /\ found.target = <<>> \/ (found.target \in withRoute /\ ~Spent(st, found.target))
    <3> HIDE DEF withRoute, d
    <3>1. Resolve(st, withRoute, d, {"transport"}).dead \subseteq d \union withRoute
      BY <1>3, ResolveOK
    <3>2. \/ Resolve(st, withRoute, d, {"transport"}).target = <<>>
          \/ /\ Resolve(st, withRoute, d, {"transport"}).target \in withRoute
             /\ ~Spent(st, Resolve(st, withRoute, d, {"transport"}).target)
      BY <1>3, ResolveOK
    <3>3. QED
      BY <3>1, <3>2 DEF d
  <2> HIDE DEF found
  <2>3. QED
    BY <2>1, <2>2
<1>5. more = Ledger(c, withRoute, found.dead)
  <2> DEFINE last == found.dead
  <2>1. [Ledger(c, rows, dead) EXCEPT !.gaps = withRoute, !.dead = last] = Ledger(c, withRoute, last)
    <3> HIDE DEF withRoute, last
    <3> DEFINE one == [Ledger(c, rows, dead) EXCEPT !.gaps = withRoute]
               two == [one EXCEPT !.dead = last]
    <3>1. one = Ledger(c, withRoute, dead)
      BY DEF Ledger
    <3> HIDE DEF one
    <3>2. two = Ledger(c, withRoute, last)
      BY <3>1 DEF Ledger
    <3>3. QED
      BY <3>2 DEF one
  <2>2. QED
    BY <2>1, Zenon
<1>6. WriteOK(FinishGate(st, more, withRoute, found.target, {"transport"}))
  <2> DEFINE last == found.dead
             target == found.target
  <2>1. last \subseteq withRoute /\ (target = <<>> \/ (target \in withRoute /\ ~Spent(st, target)))
    BY <1>4, Zenon
  <2> HIDE DEF withRoute, last, target
  <2>2. WriteOK(FinishGate(st, Ledger(c, withRoute, last), withRoute, target, {"transport"}))
    BY <2>1, <1>3, FinishGateOK
  <2>3. QED
    BY <2>2, <1>5, Zenon DEF last, target
<1>7. w \in {RepairSkeleton(st, [skeleton |-> FALSE] ++ base),
             FinishGate(st, base, rows, <<>>, blocked),
             FinishGate(st, more, withRoute, found.target, {"transport"})}
  BY Zenon DEF ConnectorPass
<1>8. QED
  <2> HIDE DEF base, withRoute, found, more
  <2>1. QED
    BY <1>1, <1>2, <1>6, <1>7

LEMMA CandidateGateOK ==
    ASSUME NEW st, StateOK(st), NEW w \in CandidateGate(st)
    PROVE  WriteOK(w)
<1> DEFINE rows == Rows(st)
           blocked == {g[1] : g \in rows \ {Loose(v) : v \in Workers}}
           known == [catalog |-> st.con, selection |-> st.con, gaps |-> rows,
                     dead |-> st.dead \intersect rows]
           found == Resolve(st, rows, known.dead, blocked)
           base == [known EXCEPT !.dead = found.dead]
           compose == [gate |-> "needs_research", gateRoute |-> Composer] ++ base
<1>1. w \in {BrokenCatalog, PassedUpdate(known, rows), FinishGate(st, base, rows, found.target, blocked),
             RepairSkeleton(st, base), compose} \union ConnectorPass(st, base, rows, blocked)
  <2> DEFINE composing == /\ found.target = <<>>
                     /\ \E v \in Workers \intersect Planned : Admitted(st, v)
                     /\ Missing("transport") \notin rows
                     /\ Composer \in Planned
                     /\ st.workspace = None
  <2>1. CandidateGate(st) =
          (IF "catalog" \in Faults \/ st.plan # st.con THEN {BrokenCatalog} ELSE {}) \union
          (IF st.plan # st.con THEN {}
           ELSE IF ResearchClosed(st) /\ ~st.skeleton THEN {PassedUpdate(known, rows)}
           ELSE IF ~composing THEN {FinishGate(st, base, rows, found.target, blocked)}
           ELSE IF st.skeleton THEN ConnectorPass(st, base, rows, blocked)
           ELSE IF st.status[Composer] = "failed" THEN {RepairSkeleton(st, base)}
           ELSE {compose})
    BY Zenon DEF CandidateGate
  <2> HIDE DEF rows, blocked, known, found, base, compose, composing
  <2>2. QED
    BY <2>1
<1>2. rows \subseteq Gaps /\ st.dead \intersect rows \subseteq rows
  BY RowsOK
<1>3. known = Ledger(st.con, rows, st.dead \intersect rows)
  BY Zenon DEF Ledger
<1>4. known.dead = st.dead \intersect rows
  OBVIOUS
<1>5. /\ found.dead \subseteq rows
      /\ found.target = <<>> \/ (found.target \in rows /\ ~Spent(st, found.target))
  <2> DEFINE d == known.dead
  <2> HIDE DEF rows, blocked
  <2>1. Resolve(st, rows, d, blocked).dead \subseteq d \union rows
    <3> HIDE DEF known, d
    <3>1. QED
      BY <1>2, ResolveOK
  <2>2. \/ Resolve(st, rows, d, blocked).target = <<>>
        \/ /\ Resolve(st, rows, d, blocked).target \in rows
           /\ ~Spent(st, Resolve(st, rows, d, blocked).target)
    <3> HIDE DEF known, d
    <3>1. QED
      BY <1>2, ResolveOK
  <2>3. found = Resolve(st, rows, d, blocked) /\ d \subseteq rows
    BY <1>4
  <2> HIDE DEF found, known, d
  <2>4. QED
    BY <2>1, <2>2, <2>3
<1>6. base = Ledger(st.con, rows, found.dead)
  <2> DEFINE last == found.dead
             old == st.dead \intersect rows
  <2>1. [Ledger(st.con, rows, old) EXCEPT !.dead = last] = Ledger(st.con, rows, last)
    <3> HIDE DEF last, rows, old
    <3>1. QED
      BY DEF Ledger
  <2>2. base = [Ledger(st.con, rows, old) EXCEPT !.dead = last]
    BY <1>3, Zenon
  <2>3. QED
    BY <2>1, <2>2, Zenon
<1> HIDE DEF known, found, base, rows, blocked
<1>7. WriteOK(base)
  BY <1>2, <1>5, <1>6, LedgerOK
<1>8. WriteOK(PassedUpdate(known, rows))
  <2> DEFINE old == st.dead \intersect rows
  <2>1. old \union rows \subseteq rows
    OBVIOUS
  <2> HIDE DEF old
  <2>2. WriteOK(Ledger(st.con, rows, old \union rows))
    BY <2>1, <1>2, LedgerOK
  <2>3. PassedUpdate(known, rows) = Passed ++ Ledger(st.con, rows, old \union rows)
    BY <1>3, PassedLedger DEF old
  <2>4. QED
    BY <2>2, <2>3, PassedOK, WriteJoined
<1>9. WriteOK(FinishGate(st, base, rows, found.target, blocked))
  BY <1>2, <1>5, <1>6, FinishGateOK
<1>10. WriteOK(RepairSkeleton(st, base))
  BY <1>7, RepairSkeletonOK
<1>11. WriteOK(compose)
  <2>1. WriteOK([gate |-> "needs_research", gateRoute |-> Composer])
    BY WriteIs DEF WriteFields, Agents
  <2>2. QED
    BY <2>1, <1>7, WriteJoined
<1>12. ASSUME w \in ConnectorPass(st, base, rows, blocked) PROVE WriteOK(w)
  BY <1>2, <1>5, <1>6, <1>12, ConnectorPassOK
<1> HIDE DEF compose
<1>13. QED
  BY <1>1, <1>8, <1>9, <1>10, <1>11, <1>12, PassedOK

\* The gates behind it, the delivery and the router return writes.
LEMMA ArtifactGateOK ==
    ASSUME NEW st, StateOK(st), NEW w \in ArtifactGate(st)
    PROVE  WriteOK(w)
<1>1. ASSUME NEW r \in {"accepted", "candidate gate", Composer} PROVE WriteOK([artifactRoute |-> r])
  BY WriteIs DEF WriteFields
<1>2. WriteOK([artifactRoute |-> "accepted", fault |-> FALSE])
  BY WriteIs DEF WriteFields
<1>3. WriteOK(RepairOr(st, [artifactRoute |-> Composer], [artifactRoute |-> "accepted"]))
  <2>1. WriteOK([artifactRoute |-> Composer]) /\ WriteOK([artifactRoute |-> "accepted"])
    BY <1>1
  <2>2. QED
    BY <2>1, RepairOrOK
<1>4. ASSUME NEW a, Artifact(st, a) # "ok" PROVE WriteOK(ArtifactVerdict(st, a))
  <2>1. Artifact(st, a) \in {"content", "composition", "integrity"}
    BY <1>4 DEF Artifact
  <2>2. ArtifactVerdict(st, a) \in
          {[artifactRoute |-> "accepted"], [artifactRoute |-> "candidate gate"],
           RepairOr(st, [artifactRoute |-> Composer], [artifactRoute |-> "accepted"]),
           [artifactRoute |-> "accepted", fault |-> FALSE]}
    BY <2>1 DEF ArtifactVerdict
  <2>3. QED
    BY <2>2, <1>1, <1>2, <1>3
<1>5. w = [artifactRoute |-> "accepted"] \/ \E a : Artifact(st, a) # "ok" /\ w = ArtifactVerdict(st, a)
  <2> DEFINE bad(i) == {a \in Plan[i] : Artifact(st, a) # "ok"}
             first == Min({i \in DOMAIN Plan : bad(i) # {}})
  <2>1. w = [artifactRoute |-> "accepted"] \/ w \in {ArtifactVerdict(st, a) : a \in bad(first)}
    BY Zenon DEF ArtifactGate
  <2> HIDE DEF first
  <2>2. QED
    BY <2>1
<1>6. QED
  BY <1>1, <1>4, <1>5

LEMMA FidelityGateOK ==
    ASSUME NEW st, StateOK(st), NEW w \in FidelityGate(st)
    PROVE  WriteOK(w)
<1>1. ASSUME NEW r \in {"passed", "candidate gate", Composer} PROVE WriteOK([fidelityRoute |-> r])
  BY WriteIs DEF WriteFields
<1>2. WriteOK(RepairOr(st, [fidelityRoute |-> Composer], [fidelityRoute |-> "passed"]))
  <2>1. WriteOK([fidelityRoute |-> Composer]) /\ WriteOK([fidelityRoute |-> "passed"])
    BY <1>1
  <2>2. QED
    BY <2>1, RepairOrOK
<1>3. w \in {[fidelityRoute |-> "passed"], [fidelityRoute |-> "candidate gate"], [raise |-> TRUE],
             RepairOr(st, [fidelityRoute |-> Composer], [fidelityRoute |-> "passed"])}
  BY DEF FidelityGate
<1>4. QED
  BY <1>1, <1>2, <1>3, RaiseOK

LEMMA QualityGateOK ==
    ASSUME NEW st, StateOK(st), NEW w \in QualityGate(st)
    PROVE  WriteOK(w)
<1> DEFINE repair == [qualityRoute |-> "composition_repair"]
           released == [qualityRoute |-> "passed"]
           more == [repairs |-> st.repairs + 1] ++ repair
<1>1. WriteOK(repair) /\ WriteOK(released)
  BY WriteIs DEF WriteFields
<1>2. WriteOK(RepairOr(st, repair, released))
  BY <1>1, RepairOrOK
<1>3. ASSUME st.repairs < MaxRepairs PROVE WriteOK(more)
  <2>1. WriteOK(RepairOr(st, repair, released))
    BY <1>2
  <2>2. RepairOr(st, repair, released) = more
    BY <1>3, Zenon DEF RepairOr
  <2>3. QED
    BY <2>1, <2>2, Zenon
<1>4. \/ w \in {[raise |-> TRUE], released, RepairOr(st, repair, released)}
      \/ ~(st.repairs >= MaxRepairs) /\ w = more
  BY Zenon DEF QualityGate
<1>5. ~(st.repairs >= MaxRepairs) => st.repairs < MaxRepairs
  <2>1. st.repairs \in 0 .. MaxRepairs /\ MaxRepairs \in Nat
    BY StateIs, GraphAssumption DEF GraphAssumption
  <2>2. QED
    BY <2>1
<1> HIDE DEF repair, released, more
<1>6. QED
  BY <1>1, <1>2, <1>3, <1>4, <1>5, RaiseOK

LEMMA DeliveryOK ==
    ASSUME NEW st, NEW w \in Projector(st) \union Finalizer(st)
    PROVE  WriteOK(w)
<1>1. WriteOK([committed |-> TRUE])
  BY WriteIs DEF WriteFields
<1>2. w \in {NoWrites, [raise |-> TRUE], [committed |-> TRUE]}
  BY DEF Projector, Finalizer
<1>3. QED
  BY <1>1, <1>2, NoWritesOK, RaiseOK

LEMMA RouterOK ==
    ASSUME NEW st, StateOK(st), NEW w \in Router(st)
    PROVE  WriteOK(w)
<1> DEFINE refused == {a \in st.pending : TooLate(st, a)}
           accepted == st.pending \ refused
           goOn == [route |-> st.resume, resume |-> "none"]
           turned == [pending |-> {}, rejected |-> refused]
           amended == [pending |-> accepted, rejected |-> refused, route |-> "normalizer",
                       resume |-> "none", edits |-> st.edits + 1, decision |-> "runtime_amendment"]
<1>1. w \in {goOn, turned ++ goOn, amended ++ Invalidate(Strongest(accepted))}
  BY Zenon DEF Router
<1>2. refused \in SUBSET Supplements /\ accepted \in SUBSET Supplements
  <2>1. st.pending \in SUBSET Supplements
    BY StateIs
  <2>2. QED
    BY <2>1
<1>3. "none" \in Places /\ "normalizer" \in Places
  BY NodesAre DEF Places
<1>4. WriteOK(goOn)
  <2>1. st.resume \in Places
    BY StateIs
  <2>2. QED
    BY <2>1, <1>3, WriteIs DEF WriteFields
<1>5. WriteOK(turned)
  <2> HIDE DEF refused
  <2>1. QED
    BY <1>2, WriteIs DEF WriteFields
<1>6. WriteOK(amended)
  <2>3. st.edits \in Nat
    BY StateIs, Zenon
  <2>1. st.edits + 1 \in Nat
    BY <2>3
  <2> HIDE DEF refused, accepted
  <2>2. QED
    BY <2>1, <1>2, <1>3, WriteIs DEF WriteFields
<1>7. WriteOK(Invalidate(Strongest(accepted)))
  <2>1. Strongest(accepted) \in {"projection", "composition", "research"}
    <3> HIDE DEF accepted
    <3>1. QED
      BY Zenon DEF Strongest
  <2> HIDE DEF accepted
  <2>2. QED
    BY <2>1, InvalidateOK
<1>8. QED
  <2> HIDE DEF goOn, turned, amended, accepted
  <2>1. WriteOK(turned ++ goOn) /\ WriteOK(amended ++ Invalidate(Strongest(accepted)))
    BY <1>4, <1>5, <1>6, <1>7, WriteJoined
  <2>2. QED
    BY <2>1, <1>1, <1>4

\* Whatever node it is, it returns a write.
LEMMA BodyOK ==
    ASSUME NEW st, StateOK(st), NEW n, NEW w \in Body(st, n)
    PROVE  WriteOK(w)
<1>1. CASE n = "normalizer"
  BY <1>1, NormalizerOK DEF Body, Workers, Composer
<1>2. CASE n = "draft"
  BY <1>2, DraftBuilderOK DEF Body, Workers, Composer
<1>3. CASE n = "planner"
  BY <1>3, PlannerOK DEF Body, Workers, Composer
<1>4. CASE n = "plan gate"
  BY <1>4, PlanGateOK DEF Body, Workers, Composer
<1>5. CASE n = "dispatcher"
  BY <1>5, DispatcherOK DEF Body, Workers, Composer
<1>6. CASE n \in Workers
  BY <1>6, ResearchOK DEF Body, Workers, Composer
<1>7. CASE n = Composer
  BY <1>7, ComposeOK DEF Body, Workers, Composer
<1>8. CASE n = "candidate gate"
  BY <1>8, CandidateGateOK DEF Body, Workers, Composer
<1>9. CASE n = "artifact gate"
  BY <1>9, ArtifactGateOK DEF Body, Workers, Composer
<1>10. CASE n = "fidelity gate"
  BY <1>10, FidelityGateOK DEF Body, Workers, Composer
<1>11. CASE n = "quality gate"
  BY <1>11, QualityGateOK DEF Body, Workers, Composer
<1>12. CASE n \in {"projector", "finalizer"}
  <2>1. w \in Projector(st) \union Finalizer(st)
    BY <1>12 DEF Body, Workers, Composer
  <2>2. QED
    BY <2>1, DeliveryOK
<1>13. CASE n = "router"
  BY <1>13, RouterOK DEF Body, Workers, Composer
<1>14. CASE n \notin {"normalizer", "draft", "planner", "plan gate", "dispatcher", Composer,
                      "candidate gate", "artifact gate", "fidelity gate", "quality gate",
                      "projector", "finalizer", "router"} \union Workers
  BY <1>14, NoWritesOK DEF Body, Workers, Composer
<1>15. QED
  BY <1>1, <1>2, <1>3, <1>4, <1>5, <1>6, <1>7, <1>8, <1>9, <1>10, <1>11, <1>12, <1>13, <1>14

-----------------------------------------------------------------------------
(* Boundaries, edges and supersteps. *)

\* The state a task reads is a state.
LEMMA ClockRead ==
    ASSUME NEW st, StateOK(st), NEW c
    PROVE  StateOK([st EXCEPT !.now = c])
<1> DEFINE u == [st EXCEPT !.now = c]
<1>1. DOMAIN u = DOMAIN st /\ \A f \in DOMAIN st : f # "now" => u[f] = st[f]
  OBVIOUS
<1>2. DOMAIN st = DOMAIN InitState
  BY DEF StateOK
<1> HIDE DEF u
<1>3. \A f \in DOMAIN FieldType \union DOMAIN MapType : u[f] = st[f]
  BY <1>1, <1>2, TypedFields
<1>4. StateOK(u)
  <2>1. \A f \in DOMAIN FieldType : u[f] \in FieldType[f]
    BY <1>3 DEF StateOK
  <2>2. u["status"] = st["status"] /\ u["packets"] = st["packets"]
    BY <1>3, TypedFields
  <2>3. u["dead"] = st["dead"] /\ u["gaps"] = st["gaps"]
    BY <1>3, TypedFields
  <2>4. QED
    BY <1>1, <2>1, <2>2, <2>3 DEF StateOK
<1>5. QED
  BY <1>4 DEF u

LEMMA SupplementsRead ==
    ASSUME NEW st, StateOK(st), NEW more, more \subseteq Supplements
    PROVE  StateOK([st EXCEPT !.pending = @ \union more])
<1> DEFINE all == st.pending \union more
           u == [st EXCEPT !.pending = all]
<1>1. DOMAIN u = DOMAIN st /\ \A f \in DOMAIN st : f # "pending" => u[f] = st[f]
  OBVIOUS
<1>2. DOMAIN st = DOMAIN InitState
  BY DEF StateOK
<1>3. u["pending"] = all
  <2>1. "pending" \in DOMAIN st
    BY <1>2 DEF InitState
  <2> HIDE DEF all
  <2>2. QED
    BY <2>1
<1>4. all \in SUBSET Supplements
  <2>1. st.pending \in SUBSET Supplements
    BY StateIs
  <2>2. QED
    BY <2>1
<1> HIDE DEF u, all
<1>5. \A f \in DOMAIN FieldType \union DOMAIN MapType : f # "pending" => u[f] = st[f]
  BY <1>1, <1>2, TypedFields
<1>6. StateOK(u)
  <2>1. \A f \in DOMAIN FieldType : u[f] \in FieldType[f]
    <3>1. ASSUME NEW f \in DOMAIN FieldType, f # "pending" PROVE u[f] \in FieldType[f]
      BY <3>1, <1>5 DEF StateOK
    <3>2. u["pending"] \in FieldType["pending"]
      <4>1. FieldType["pending"] = SUBSET Supplements
        BY FieldTypes
      <4>2. QED
        BY <4>1, <1>3, <1>4, Zenon
    <3>3. QED
      BY <3>1, <3>2
  <2>2. u["status"] = st["status"] /\ u["packets"] = st["packets"]
    BY <1>5, TypedFields
  <2>3. u["dead"] = st["dead"] /\ u["gaps"] = st["gaps"]
    BY <1>5, TypedFields
  <2>4. QED
    BY <1>1, <2>1, <2>2, <2>3 DEF StateOK
<1>7. QED
  BY <1>6 DEF u, all

LEMMA BlockedOK ==
    ASSUME NEW st, NEW n
    PROVE  WriteOK(BlockedWorkerUpdate(st, n))
<1>1. {"failed", "partial"} \subseteq Statuses
  BY DEF Statuses, Done
<1>2. WriteOK([status |-> Entry(n, "failed"), fault |-> FALSE])
  BY <1>1, StatusOK, WriteIs DEF WriteFields
<1>3. WriteOK([status |-> Entry(n, "partial")])
  BY <1>1, StatusOK, WriteIs DEF WriteFields
<1>4. QED
  BY <1>2, <1>3 DEF BlockedWorkerUpdate

\* What a node returns: one of four things, and the deadline it has observed.
Fresh(st) == inbox \ st.pending
Full(st) == [st EXCEPT !.pending = @ \union Fresh(st)]
Kept(st, w) == IF st.deadline THEN w ++ [deadline |-> TRUE] ELSE w

LEMMA WritesAre ==
    ASSUME NEW st, NEW n, NEW w \in Writes(st, n)
    PROVE  \E v :
              /\ w = Kept(st, v)
              /\ \/ WindowClosed(st, n) /\ v = BlockedWorkerUpdate(st, n)
                 \/ /\ st.con # None /\ Fresh(st) # {} /\ n \notin {"normalizer", "router"}
                    /\ v = [resume |-> n, pending |-> Fresh(st)]
                 \/ (n \in {"normalizer", "router"} \/ Fresh(st) = {}) /\ v \in Body(Full(st), n)
                 \/ /\ st.con = None /\ n \notin {"normalizer", "router"}
                    /\ \E b \in Body(Full(st), n) : v = [pending |-> Fresh(st)] ++ b
<1> DEFINE fresh == Fresh(st)
           diverted == fresh # {} /\ st.con # None /\ n \notin {"normalizer", "router"}
           body == IF WindowClosed(st, n) THEN {BlockedWorkerUpdate(st, n)}
                   ELSE IF diverted THEN {[resume |-> n, pending |-> fresh]}
                   ELSE IF n \in {"normalizer", "router"} \/ fresh = {} THEN Body(Full(st), n)
                   ELSE {[pending |-> fresh] ++ b : b \in Body(Full(st), n)}
<1>1. w \in {Kept(st, v) : v \in body}
  BY Zenon DEF Writes, Fresh, Full, Kept
<1>2. PICK v \in body : w = Kept(st, v)
  <2> HIDE DEF body
  <2>1. QED
    BY <1>1
<1>3. \/ WindowClosed(st, n) /\ v = BlockedWorkerUpdate(st, n)
      \/ /\ st.con # None /\ Fresh(st) # {} /\ n \notin {"normalizer", "router"}
         /\ v = [resume |-> n, pending |-> Fresh(st)]
      \/ (n \in {"normalizer", "router"} \/ Fresh(st) = {}) /\ v \in Body(Full(st), n)
      \/ /\ st.con = None /\ n \notin {"normalizer", "router"}
         /\ \E b \in Body(Full(st), n) : v = [pending |-> Fresh(st)] ++ b
  <2>1. CASE WindowClosed(st, n)
    BY <2>1, <1>2
  <2>2. CASE ~WindowClosed(st, n)
    <3>1. CASE diverted
      BY <3>1, <2>2, <1>2
    <3>2. CASE ~diverted /\ (n \in {"normalizer", "router"} \/ fresh = {})
      <4>1. v \in Body(Full(st), n)
        BY <3>2, <2>2, <1>2, Zenon
      <4>2. QED
        BY <4>1, <3>2
    <3>3. CASE ~diverted /\ ~(n \in {"normalizer", "router"} \/ fresh = {})
      <4>1. v \in {[pending |-> fresh] ++ b : b \in Body(Full(st), n)}
        BY <3>3, <2>2, <1>2, Zenon
      <4>2. QED
        BY <4>1, <3>3
    <3>4. QED
      BY <3>1, <3>2, <3>3
  <2>3. QED
    BY <2>1, <2>2
<1>4. QED
  BY <1>2, <1>3

\* with_run_control returns a write.
LEMMA WritesOK ==
    ASSUME NEW st, StateOK(st), NEW n \in Nodes, inbox \subseteq Supplements, NEW w \in Writes(st, n)
    PROVE  WriteOK(w)
<1>1. PICK v :
              /\ w = Kept(st, v)
              /\ \/ WindowClosed(st, n) /\ v = BlockedWorkerUpdate(st, n)
                 \/ /\ st.con # None /\ Fresh(st) # {} /\ n \notin {"normalizer", "router"}
                    /\ v = [resume |-> n, pending |-> Fresh(st)]
                 \/ (n \in {"normalizer", "router"} \/ Fresh(st) = {}) /\ v \in Body(Full(st), n)
                 \/ /\ st.con = None /\ n \notin {"normalizer", "router"}
                    /\ \E b \in Body(Full(st), n) : v = [pending |-> Fresh(st)] ++ b
  BY WritesAre
<1>2. Fresh(st) \in SUBSET Supplements
  BY DEF Fresh
<1>3. StateOK(Full(st))
  BY <1>2, SupplementsRead DEF Full
<1>4. WriteOK([pending |-> Fresh(st)])
  BY <1>2, WriteIs DEF WriteFields
<1>5. WriteOK([resume |-> n, pending |-> Fresh(st)])
  <2>1. n \in Places
    BY DEF Places
  <2>2. QED
    BY <2>1, <1>2, WriteIs DEF WriteFields
<1>6. WriteOK(v)
  BY <1>1, <1>3, <1>4, <1>5, BlockedOK, BodyOK, WriteJoined
<1>7. WriteOK([deadline |-> TRUE])
  BY WriteIs DEF WriteFields
<1>8. QED
  BY <1>1, <1>6, <1>7, WriteJoined DEF Kept

\* The edges lead to nodes.
LEMMA AgentsAreNodes == Agents \subseteq Nodes
  BY NodesAre DEF Agents, Workers, Composer

\* Where the edges may lead.
EdgePlaces ==
    {"draft", "geo", "weather", "summary", "planner", "plan gate", "projector", "finalizer",
     "normalizer", "dispatcher", "candidate gate", "artifact gate", "fidelity gate",
     "quality gate", "budget"} \union Agents

LEMMA EdgePlacesAreNodes == EdgePlaces \subseteq Nodes
  BY NodesAre, AgentsAreNodes DEF EdgePlaces

LEMMA DispatcherEdgeOK ==
    ASSUME NEW st, StateOK(st)
    PROVE  DispatcherEdge(st) \subseteq {"candidate gate", "artifact gate"} \union Agents
<1> DEFINE waiting == {a \in Plan[st.step] : st.status[a] \notin Done}
<1>1. waiting \subseteq Agents
  BY StateIs, PlanIs
<1>2. DispatcherEdge(st) \in {{"candidate gate"}, waiting, {"artifact gate"}}
  BY DEF DispatcherEdge
<1> HIDE DEF waiting
<1>3. QED
  BY <1>1, <1>2

LEMMA EdgeOK ==
    ASSUME NEW st, StateOK(st), NEW n \in Nodes \ {"clarifier", "normalizer", "router"}
    PROVE  Edge(st, n) \subseteq EdgePlaces
<1>0. DOMAIN After = {"brief", "draft", "geo", "weather", "summary", "planner", "budget", "projector"}
  BY DEF After
<1>1. CASE n \in DOMAIN After
  <2>1. Edge(st, n) = {After[n]}
    BY <1>1, <1>0 DEF Edge, Agents, Workers, Composer
  <2>2. After[n] \in {"draft", "geo", "weather", "summary", "planner", "plan gate", "projector", "finalizer"}
    <3>1. /\ After["brief"] = "draft" /\ After["draft"] = "geo" /\ After["geo"] = "weather"
          /\ After["weather"] = "summary" /\ After["summary"] = "planner"
          /\ After["planner"] = "plan gate" /\ After["budget"] = "projector"
          /\ After["projector"] = "finalizer"
      BY DEF After
    <3>2. QED
      BY <3>1, <1>1, <1>0
  <2>3. QED
    BY <2>1, <2>2 DEF EdgePlaces
<1>2. CASE n = "finalizer"
  BY <1>2, <1>0 DEF Edge, Agents, Workers, Composer
<1>3. CASE n = "plan gate"
  <2>1. Edge(st, n) \in {{"normalizer"}, {"dispatcher"}}
    BY <1>3, <1>0 DEF Edge, Agents, Workers, Composer
  <2>2. QED
    BY <2>1 DEF EdgePlaces
<1>4. CASE n = "dispatcher"
  <2>1. Edge(st, n) = DispatcherEdge(st)
    BY <1>4, <1>0 DEF Edge, Agents, Workers, Composer
  <2>2. QED
    BY <2>1, DispatcherEdgeOK DEF EdgePlaces
<1>5. CASE n \in Agents
  <2>1. Edge(st, n) \in {{}, {"dispatcher"}}
    BY <1>5, <1>0 DEF Edge, Agents, Workers, Composer
  <2>2. QED
    BY <2>1 DEF EdgePlaces
<1>6. CASE n = "candidate gate"
  <2>1. Edge(st, n) = CandidateEdge(st)
    BY <1>6, <1>0 DEF Edge, Agents, Workers, Composer
  <2>2. st.gateRoute \in Agents \union {"passed", "candidate gate", "composition_repair"}
    BY StateIs
  <2>3. CandidateEdge(st) \subseteq Agents \union {"candidate gate", "dispatcher"}
    BY <2>2 DEF CandidateEdge, Agents
  <2>4. QED
    BY <2>1, <2>3 DEF EdgePlaces
<1>7. CASE n = "artifact gate"
  <2>1. Edge(st, n) = ArtifactEdge(st)
    BY <1>7, <1>0 DEF Edge, Agents, Workers, Composer
  <2>2. st.artifactRoute \in {"accepted", "candidate gate", Composer}
    BY StateIs
  <2>3. ArtifactEdge(st) \subseteq {"fidelity gate", "candidate gate", Composer}
    BY <2>2 DEF ArtifactEdge
  <2>4. QED
    BY <2>1, <2>3 DEF EdgePlaces, Agents
<1>8. CASE n = "fidelity gate"
  <2>1. Edge(st, n) = FidelityEdge(st)
    BY <1>8, <1>0 DEF Edge, Agents, Workers, Composer
  <2>2. st.fidelityRoute \in {"passed", "candidate gate", Composer}
    BY StateIs
  <2>3. FidelityEdge(st) \subseteq {"quality gate", "candidate gate", Composer}
    BY <2>2 DEF FidelityEdge
  <2>4. QED
    BY <2>1, <2>3 DEF EdgePlaces, Agents
<1>9. CASE n = "quality gate"
  <2>1. Edge(st, n) = QualityEdge(st)
    BY <1>9, <1>0 DEF Edge, Agents, Workers, Composer
  <2>2. QED
    BY <2>1 DEF EdgePlaces, Agents, QualityEdge
<1>10. QED
  <2>1. n \in DOMAIN After \union Agents \union {"finalizer", "plan gate", "dispatcher",
           "candidate gate", "artifact gate", "fidelity gate", "quality gate"}
    BY NodesAre, <1>0 DEF Agents, Workers, Composer
  <2>2. QED
    BY <2>1, <1>1, <1>2, <1>3, <1>4, <1>5, <1>6, <1>7, <1>8, <1>9

LEMMA TargetsOK ==
    ASSUME NEW st, StateOK(st), NEW n \in Nodes, n = "router" => st.route # "none"
    PROVE  Targets(st, n) \subseteq Nodes
<1>1. CASE n = "router"
  <2>1. Targets(st, n) = {st.route}
    BY <1>1 DEF Targets
  <2>2. st.route \in Places
    BY StateIs
  <2>3. QED
    BY <1>1, <2>1, <2>2 DEF Places
<1>2. CASE n \in {"clarifier", "normalizer"}
  <2>1. Targets(st, n) \subseteq {"normalizer", "brief"}
    BY <1>2 DEF Targets
  <2>2. QED
    BY <2>1, NodesAre
<1>3. CASE n \notin {"clarifier", "normalizer", "router"}
  <2>1. Targets(st, n) = IF st.pending # {} THEN {"router"} ELSE Edge(st, n)
    BY <1>3 DEF Targets
  <2>2. Edge(st, n) \subseteq Nodes
    BY <1>3, EdgeOK, EdgePlacesAreNodes
  <2>3. QED
    BY <2>1, <2>2, NodesAre
<1>4. QED
  BY <1>1, <1>2, <1>3

LEMMA JoinedHas ==
    ASSUME NEW f, NEW g, NEW x
    PROVE  x \in DOMAIN (f ++ g) <=> x \in DOMAIN f \/ x \in DOMAIN g
<1>1. DOMAIN (f ++ g) = DOMAIN f \union DOMAIN g
  BY Joined
<1>2. QED
  BY <1>1

\* The continuation the router returns.
LEMMA RouterRoutes ==
    ASSUME NEW st, NEW w \in Writes(st, "router")
    PROVE  "route" \in DOMAIN w
<1>1. PICK v :
              /\ w = Kept(st, v)
              /\ \/ WindowClosed(st, "router") /\ v = BlockedWorkerUpdate(st, "router")
                 \/ /\ st.con # None /\ Fresh(st) # {} /\ "router" \notin {"normalizer", "router"}
                    /\ v = [resume |-> "router", pending |-> Fresh(st)]
                 \/ ("router" \in {"normalizer", "router"} \/ Fresh(st) = {}) /\ v \in Body(Full(st),
                        "router")
                 \/ /\ st.con = None /\ "router" \notin {"normalizer", "router"}
                    /\ \E b \in Body(Full(st), "router") : v = [pending |-> Fresh(st)] ++ b
  BY WritesAre
<1>2. ~WindowClosed(st, "router")
  BY DEF WindowClosed, Agents, Workers, Composer
<1>3. v \in Router(Full(st))
  BY <1>1, <1>2 DEF Body, Workers, Composer
<1>4. "route" \in DOMAIN v
  <2> DEFINE full == Full(st)
             refused == {a \in full.pending : TooLate(full, a)}
             accepted == full.pending \ refused
             goOn == [route |-> full.resume, resume |-> "none"]
             turned == [pending |-> {}, rejected |-> refused]
             amended == [pending |-> accepted, rejected |-> refused, route |-> "normalizer",
                         resume |-> "none", edits |-> full.edits + 1, decision |-> "runtime_amendment"]
  <2>1. v \in {goOn, turned ++ goOn, amended ++ Invalidate(Strongest(accepted))}
    BY <1>3, Zenon DEF Router
  <2>2. "route" \in DOMAIN goOn /\ "route" \in DOMAIN amended
    OBVIOUS
  <2> DEFINE rest == Invalidate(Strongest(accepted))
  <2> HIDE DEF goOn, turned, amended, accepted, rest
  <2>3. "route" \in DOMAIN (turned ++ goOn) /\ "route" \in DOMAIN (amended ++ rest)
    BY <2>2, JoinedHas
  <2>4. QED
    BY <2>1, <2>2, <2>3 DEF rest
<1>5. "route" \in DOMAIN (v ++ [deadline |-> TRUE])
  BY <1>4, JoinedHas
<1>6. QED
  BY <1>1, <1>4, <1>5 DEF Kept

\* The state of one task's own write: a field it wrote is what it wrote.
LEMMA OwnWrite ==
    ASSUME NEW st, NEW n \in Nodes, NEW w, NEW f \in DOMAIN st, f \in DOMAIN w,
           f \notin {"status", "packets", "applied", "rejected", "committed"}
    PROVE  Merge(st, Entry(n, w))[f] = w[f]
<1> DEFINE e == Entry(n, w)
<1>1. DOMAIN e = {n} /\ e[n] = w
  BY EntryIs
<1> HIDE DEF e
<1>2. \/ /\ \A m \in DOMAIN e : f \notin DOMAIN e[m]
         /\ Merge(st, e)[f] = st[f]
      \/ \E m \in DOMAIN e : f \in DOMAIN e[m] /\ Merge(st, e)[f] = e[m][f]
  BY <1>1, MergedPlain
<1>3. Merge(st, e)[f] = w[f]
  BY <1>1, <1>2
<1>4. QED
  BY <1>3 DEF e

\* The state an edge reads is a state.
LEMMA OneMergeOK ==
    ASSUME NEW st, StateOK(st), NEW n \in Nodes, NEW w, WriteOK(w)
    PROVE  StateOK(Merge(st, Entry(n, w)))
<1> DEFINE e == Entry(n, w)
<1>1. DOMAIN e = {n} /\ e[n] = w
  BY EntryIs
<1> HIDE DEF e
<1>2. ~Conflict(e)
  BY <1>1 DEF Conflict
<1>3. StateOK(Merge(st, e))
  BY <1>1, <1>2, MergeOK
<1>4. QED
  BY <1>3 DEF e

-----------------------------------------------------------------------------
(* The types hold. *)

\* How far a task may have come.
Stages == {"ready", "seeding", "done"}

\* The writes and the targets of the tasks that are done.
TasksOK ==
    /\ Tasks \subseteq Nodes
    /\ \A n \in Tasks : at[n] \in Stages
    /\ DOMAIN out = {n \in Tasks : at[n] = "done"}
    /\ DOMAIN to = DOMAIN out
    /\ \A n \in DOMAIN out : WriteOK(out[n]) /\ to[n] \subseteq Nodes

\* The inbox and the receipts.
ReceiptsOK ==
    /\ inbox \subseteq Supplements
    /\ verdict \in [Supplements -> {"none", "applied", "rejected"}]

\* The inductive form of TypeOK.
TypeInv ==
    /\ StateOK(s)
    /\ sent = NoWrites \/ StateOK(sent)
    /\ TasksOK
    /\ ReceiptsOK
    /\ torn \subseteq Supplements
    /\ clock \in 0 .. 3
    /\ outcome \in {"running", "delivered", "halted", "failed", "refused", "cancelled"}

\* The graph starts, and every superstep begins and ends, in states of these types.
LEMMA InitialStateOK == StateOK(InitState)
<1> DEFINE st == InitState
<1>0. st["attempts"] \in AttemptsType
  BY NoAttemptsOK
<1>1. /\ st["con"] = <<0, 0>> /\ st["step"] = 1 /\ st["repairs"] = 0
      /\ st["gaps"] = {} /\ st["dead"] = {} /\ st["pending"] = {}
      /\ st["applied"] = {} /\ st["rejected"] = {}
      /\ st["resume"] = "none" /\ st["route"] = "none" /\ st["gateRoute"] = "passed"
      /\ st["edits"] = 0 /\ st["planRevision"] = 0
      /\ st["artifactRoute"] = "accepted" /\ st["fidelityRoute"] = "passed"
      /\ st["status"] = [a \in Agents |-> "none"] /\ st["packets"] = [w \in Workers |-> NoPacket]
  BY DEF InitState, None
<1> HIDE DEF st
<1>2. st["con"] \in Contracts /\ st["step"] \in DOMAIN Plan /\ st["repairs"] \in 0 .. MaxRepairs
  BY <1>1, PlanIs, GraphAssumption DEF GraphAssumption, Contracts
<1>3. st["resume"] \in Places /\ st["route"] \in Places
  BY <1>1 DEF Places
<1>4. \A f \in DOMAIN FieldType : st[f] \in FieldType[f]
  <2>1. st["con"] \in FieldType["con"] /\ st["step"] \in FieldType["step"]
        /\ st["repairs"] \in FieldType["repairs"] /\ st["attempts"] \in FieldType["attempts"]
    BY <1>0, <1>2, FieldTypes
  <2>2. st["gaps"] \in FieldType["gaps"] /\ st["dead"] \in FieldType["dead"]
    BY <1>1, FieldTypes
  <2>3. /\ st["pending"] \in FieldType["pending"] /\ st["applied"] \in FieldType["applied"]
        /\ st["rejected"] \in FieldType["rejected"]
    BY <1>1, FieldTypes
  <2>4. st["resume"] \in FieldType["resume"] /\ st["route"] \in FieldType["route"]
    BY <1>3, FieldTypes
  <2>5. /\ st["gateRoute"] \in FieldType["gateRoute"]
        /\ st["artifactRoute"] \in FieldType["artifactRoute"]
        /\ st["fidelityRoute"] \in FieldType["fidelityRoute"]
    BY <1>1, FieldTypes
  <2>6. st["edits"] \in FieldType["edits"] /\ st["planRevision"] \in FieldType["planRevision"]
    BY <1>1, FieldTypes
  <2>7. QED
    BY <2>1, <2>2, <2>3, <2>4, <2>5, <2>6, TypedFields
<1>5. st["status"] \in [Agents -> Statuses]
  BY <1>1 DEF Statuses
<1>6. st["packets"] \in [Workers -> Packets]
  BY <1>1 DEF Packets, NoPacket
<1>7. DOMAIN st = DOMAIN InitState /\ st["dead"] \subseteq st["gaps"]
  BY <1>1 DEF st
<1>8. StateOK(st)
  BY <1>4, <1>5, <1>6, <1>7 DEF StateOK
<1>9. QED
  BY <1>8 DEF st

LEMMA TypesInitially == ASSUME Init PROVE TypeInv
<1>1. StateOK(s)
  BY InitialStateOK DEF Init
<1>2. TasksOK
  <2>1. Tasks = {"clarifier"} /\ at["clarifier"] = "ready" /\ DOMAIN out = {} /\ DOMAIN to = {}
    <3>1. at = Entry("clarifier", "ready") /\ out = <<>> /\ to = <<>>
      BY DEF Init
    <3>2. DOMAIN at = {"clarifier"} /\ at["clarifier"] = "ready"
      BY <3>1, EntryIs
    <3>3. QED
      BY <3>1, <3>2 DEF Tasks
  <2>2. QED
    BY <2>1, NodesAre DEF TasksOK, Stages
<1>3. ReceiptsOK
  BY DEF Init, ReceiptsOK
<1>4. QED
  BY <1>1, <1>2, <1>3 DEF Init, TypeInv

LEMMA SuperstepOK ==
    ASSUME NEW tasks, tasks \subseteq Nodes, Superstep(tasks)
    PROVE  TasksOK'
<1>1. Tasks' = tasks /\ (\A n \in tasks : at'[n] = "ready") /\ DOMAIN out' = {} /\ DOMAIN to' = {}
  BY DEF Superstep, Tasks
<1>2. QED
  BY <1>1 DEF TasksOK, Stages

LEMMA EndOK ==
    ASSUME NEW how, End(how)
    PROVE  TasksOK' /\ sent' = NoWrites /\ outcome' = how
  BY SuperstepOK DEF End

LEMMA StateOfOK == ASSUME TypeInv PROVE \A n : StateOK(StateOf(n))
<1> SUFFICES ASSUME NEW n PROVE StateOK(StateOf(n))
  OBVIOUS
<1> DEFINE st == IF n \in Agents /\ sent # NoWrites THEN sent ELSE s
<1>1. StateOK(st)
  BY DEF TypeInv
<1>2. StateOf(n) = [st EXCEPT !.now = clock]
  BY Zenon DEF StateOf
<1> HIDE DEF st
<1>3. QED
  BY <1>1, <1>2, ClockRead

LEMMA SettleOK ==
    ASSUME ReceiptsOK, NEW n, NEW w, Settle(n, w)
    PROVE  ReceiptsOK'
<1> DEFINE applied == IF "applied" \in DOMAIN w THEN w.applied \intersect inbox ELSE {}
           refused == IF "rejected" \in DOMAIN w THEN w.rejected ELSE {}
<1>1. verdict' = [a \in Supplements |->
                IF a \in applied THEN "applied"
                ELSE IF a \in refused /\ verdict[a] = "none" THEN "rejected" ELSE verdict[a]]
  BY Zenon DEF Settle
<1>2. inbox' = inbox \ (applied \union refused)
  BY Zenon DEF Settle
<1> HIDE DEF applied, refused
<1>3. QED
  BY <1>1, <1>2 DEF ReceiptsOK

LEMMA NextStepOK ==
    ASSUME TypeInv, NEW writes, DOMAIN writes \subseteq Nodes,
           \A m \in DOMAIN writes : WriteOK(writes[m]), Tasks \subseteq DOMAIN writes,
           NEW targets, \A m \in DOMAIN targets : targets[m] \subseteq Nodes,
           NEW now \in 0 .. 3, NextStep(writes, targets, now)
    PROVE  /\ StateOK(s)' /\ (sent = NoWrites \/ StateOK(sent))'
           /\ TasksOK'
           /\ clock' \in 0 .. 3
           /\ outcome' \in {"running", "delivered", "halted", "failed", "refused", "cancelled"}
<1> DEFINE st == Merge(s, writes)
           next == UNION Range(targets)
           fanOut == "dispatcher" \in Tasks /\ Cardinality(targets["dispatcher"]) > 1
           pulled == UNION {targets[n] : n \in DOMAIN targets \ (IF fanOut THEN {"dispatcher"} ELSE {})}
           carried == Merge(s, Entry("dispatcher", writes["dispatcher"]))
<1>1. CASE Conflict(writes)
  <2>1. End("failed") /\ UNCHANGED <<s, clock>>
    BY <1>1, Zenon DEF NextStep
  <2>2. QED
    BY <2>1, EndOK DEF TypeInv
<1>2. CASE ~Conflict(writes)
  <2>1. /\ s' = st
        /\ clock' = IF st.deadline /\ s.deadline THEN now ELSE 0
        /\ IF next = {}
           THEN End(IF st.committed THEN "delivered" ELSE "halted")
           ELSE IF pulled # {} /\ ~Coherent(st)
           THEN End("refused")
           ELSE /\ Superstep(next)
                /\ sent' = IF fanOut /\ carried # st THEN carried ELSE NoWrites
                /\ UNCHANGED outcome
    BY <1>2, Zenon DEF NextStep
  <2>2. StateOK(st)
    BY <1>2, MergeOK DEF TypeInv
  <2>3. fanOut => StateOK(carried)
    <3> SUFFICES ASSUME fanOut PROVE StateOK(carried)
      OBVIOUS
    <3>1. "dispatcher" \in Nodes /\ "dispatcher" \in DOMAIN writes
      BY DEF TypeInv, TasksOK
    <3>2. QED
      BY <3>1, OneMergeOK DEF TypeInv
  <2>4. next \subseteq Nodes
    BY DEF Range
  <2> HIDE DEF st, next, carried, fanOut, pulled
  <2>5. CASE next = {} \/ (pulled # {} /\ ~Coherent(st))
    <3>1. \E how \in {"delivered", "halted", "refused"} : End(how)
      BY <2>1, <2>5
    <3>2. QED
      BY <2>1, <2>2, <3>1, EndOK
  <2>6. CASE next # {} /\ ~(pulled # {} /\ ~Coherent(st))
    <3>1. sent' = NoWrites \/ StateOK(sent')
      BY <2>1, <2>3, <2>6
    <3>2. TasksOK'
      BY <2>1, <2>4, <2>6, SuperstepOK
    <3>3. StateOK(s') /\ clock' \in 0 .. 3 /\ outcome' = outcome
      BY <2>1, <2>2, <2>6
    <3>4. QED
      BY <3>1, <3>2, <3>3 DEF TypeInv
  <2>7. QED
    BY <2>5, <2>6
<1>3. QED
  BY <1>1, <1>2

\* The state an edge reads, and what waits after the return of node n.
EdgeState(n, w, now) == [Merge(s, Entry(n, w)) EXCEPT !.now = now]
WritesWith(n, w) == Entry(n, w) ++ out
TargetsWith(n, w, now) == Entry(n, Targets(EdgeState(n, w, now), n)) ++ to

\* A return that raises, and one by which the user cancels.
Raises(w) == "raise" \in DOMAIN w
Cancels(w) == "cancel" \in DOMAIN w

\* What the edge of a return says of the state it reads.
EdgeVerdict(n, w, now) == Verdict(n, EdgeState(n, w, now))

\* What a return does: it fails or cancels the run, its edge ends the run, or it ends the
\* superstep, or waits.
LEMMA ReturnIs ==
    ASSUME NEW n, NEW w, NEW now, Return(n, w, now)
    PROVE  \/ Raises(w) /\ End("failed") /\ UNCHANGED <<s, clock, inbox, verdict>>
           \/ Cancels(w) /\ End("cancelled") /\ UNCHANGED <<s, clock, inbox, verdict>>
           \/ /\ ~Raises(w) /\ ~Cancels(w) /\ Settle(n, w) /\ EdgeVerdict(n, w, now) # "running"
              /\ End(EdgeVerdict(n, w, now)) /\ UNCHANGED <<s, clock>>
           \/ /\ ~Raises(w) /\ ~Cancels(w) /\ Settle(n, w) /\ EdgeVerdict(n, w, now) = "running"
              /\ \/ /\ \A m \in Tasks \ {n} : at[m] = "done"
                    /\ NextStep(WritesWith(n, w), TargetsWith(n, w, now), now)
                 \/ /\ \E m \in Tasks \ {n} : at[m] # "done"
                    /\ at' = [at EXCEPT ![n] = "done"]
                    /\ out' = WritesWith(n, w)
                    /\ to' = TargetsWith(n, w, now)
                    /\ clock' = now
                    /\ UNCHANGED <<s, sent, outcome>>
<1>1. IF Raises(w)
      THEN End("failed") /\ UNCHANGED <<s, clock, inbox, verdict>>
      ELSE IF Cancels(w)
      THEN End("cancelled") /\ UNCHANGED <<s, clock, inbox, verdict>>
      ELSE /\ Settle(n, w)
           /\ IF EdgeVerdict(n, w, now) # "running"
              THEN End(EdgeVerdict(n, w, now)) /\ UNCHANGED <<s, clock>>
              ELSE IF \A m \in Tasks \ {n} : at[m] = "done"
              THEN NextStep(WritesWith(n, w), TargetsWith(n, w, now), now)
              ELSE /\ at' = [at EXCEPT ![n] = "done"]
                   /\ out' = WritesWith(n, w)
                   /\ to' = TargetsWith(n, w, now)
                   /\ clock' = now
                   /\ UNCHANGED <<s, sent, outcome>>
  BY Zenon DEF Return, Raises, Cancels, EdgeState, EdgeVerdict, WritesWith, TargetsWith
<1>2. QED
  BY <1>1

\* How an edge ends a run, and what it says when it does not.
LEMMA VerdictIs ==
    ASSUME NEW n, NEW w, NEW now
    PROVE  /\ EdgeVerdict(n, w, now) \in {"running", "failed", "refused"}
           /\ EdgeVerdict(n, w, now) = "failed" => n = "router"
           /\ EdgeVerdict(n, w, now) = "running" =>
                 /\ n \notin {"clarifier", "normalizer"} => Coherent(EdgeState(n, w, now))
                 /\ n = "router" => EdgeState(n, w, now).route # "none"
  BY DEF EdgeVerdict, Verdict

LEMMA WaitingOK ==
    ASSUME TypeInv, NEW n \in Tasks, NEW w, WriteOK(w), NEW now, EdgeVerdict(n, w, now) = "running"
    PROVE  /\ DOMAIN WritesWith(n, w) = {n} \union DOMAIN out
           /\ \A m \in DOMAIN WritesWith(n, w) : WriteOK(WritesWith(n, w)[m])
           /\ DOMAIN TargetsWith(n, w, now) = {n} \union DOMAIN out
           /\ \A m \in DOMAIN TargetsWith(n, w, now) : TargetsWith(n, w, now)[m] \subseteq Nodes
<1> DEFINE st == EdgeState(n, w, now)
           targets == Targets(st, n)
           own == Entry(n, w)
           edge == Entry(n, targets)
<1>0. n \in Nodes
  BY DEF TypeInv, TasksOK
<1>1. StateOK(st)
  <2> DEFINE merged == Merge(s, own)
  <2>1. StateOK(merged)
    BY <1>0, OneMergeOK DEF TypeInv
  <2>2. st = [merged EXCEPT !.now = now]
    BY Zenon DEF EdgeState
  <2> HIDE DEF merged, st
  <2>3. QED
    BY <2>1, <2>2, ClockRead
<1>2. n = "router" => st.route # "none"
  BY VerdictIs
<1>3. targets \subseteq Nodes
  <2> HIDE DEF st
  <2>1. QED
    BY <1>0, <1>1, <1>2, TargetsOK
<1>4. DOMAIN own = {n} /\ own[n] = w /\ DOMAIN edge = {n} /\ edge[n] = targets
  <2> HIDE DEF targets
  <2>1. QED
    BY EntryIs
<1>5. WritesWith(n, w) = own ++ out /\ TargetsWith(n, w, now) = edge ++ to
  BY Zenon DEF WritesWith, TargetsWith
<1>6. /\ DOMAIN to = DOMAIN out
      /\ \A m \in DOMAIN out : WriteOK(out[m]) /\ to[m] \subseteq Nodes
  BY DEF TypeInv, TasksOK
<1> HIDE DEF own, edge, targets
<1>7. /\ DOMAIN (own ++ out) = {n} \union DOMAIN out
      /\ \A m \in DOMAIN (own ++ out) : WriteOK((own ++ out)[m])
  <2>1. DOMAIN (own ++ out) = DOMAIN own \union DOMAIN out
    BY Joined
  <2>2. \A m \in DOMAIN own : (own ++ out)[m] = own[m]
    BY Joined
  <2>3. \A m \in DOMAIN out \ DOMAIN own : (own ++ out)[m] = out[m]
    BY Joined
  <2>4. QED
    BY <2>1, <2>2, <2>3, <1>4, <1>6
<1>8. /\ DOMAIN (edge ++ to) = {n} \union DOMAIN out
      /\ \A m \in DOMAIN (edge ++ to) : (edge ++ to)[m] \subseteq Nodes
  <2>1. DOMAIN (edge ++ to) = DOMAIN edge \union DOMAIN to
    BY Joined
  <2>2. \A m \in DOMAIN edge : (edge ++ to)[m] = edge[m]
    BY Joined
  <2>3. \A m \in DOMAIN to \ DOMAIN edge : (edge ++ to)[m] = to[m]
    BY Joined
  <2>4. QED
    BY <2>1, <2>2, <2>3, <1>3, <1>4, <1>6
<1>9. QED
  BY <1>5, <1>7, <1>8

\* A return keeps the types.
LEMMA ReturnOK ==
    ASSUME TypeInv, NEW n \in Tasks, NEW w \in Writes(StateOf(n), n), NEW now \in Later,
           Return(n, w, now), torn' = torn
    PROVE  TypeInv'
<1>0. n \in Nodes /\ inbox \subseteq Supplements
  BY DEF TypeInv, TasksOK, ReceiptsOK
<1>1. WriteOK(w)
  BY <1>0, StateOfOK, WritesOK
<1>3. now \in 0 .. 3
  BY DEF Later, TypeInv
<1>4. CASE \E how \in {"failed", "cancelled"} : End(how) /\ UNCHANGED <<s, clock, inbox, verdict>>
  <2>1. PICK how \in {"failed", "cancelled"} : End(how) /\ UNCHANGED <<s, clock, inbox, verdict>>
    BY <1>4
  <2>2. TasksOK' /\ sent' = NoWrites /\ outcome' = how
    BY <2>1, EndOK
  <2>3. QED
    BY <2>1, <2>2 DEF TypeInv, ReceiptsOK
<1>7. ASSUME Settle(n, w), EdgeVerdict(n, w, now) # "running",
             End(EdgeVerdict(n, w, now)), UNCHANGED <<s, clock>>
      PROVE  TypeInv'
  <2>1. PICK how \in {"failed", "refused"} : End(how)
    BY <1>7, VerdictIs
  <2>2. TasksOK' /\ sent' = NoWrites /\ outcome' = how
    BY <2>1, EndOK
  <2>3. ReceiptsOK'
    BY <1>7, SettleOK DEF TypeInv
  <2>4. QED
    BY <1>7, <2>2, <2>3 DEF TypeInv
<1>5. CASE /\ Settle(n, w) /\ EdgeVerdict(n, w, now) = "running"
           /\ \/ /\ \A m \in Tasks \ {n} : at[m] = "done"
                 /\ NextStep(WritesWith(n, w), TargetsWith(n, w, now), now)
              \/ /\ at' = [at EXCEPT ![n] = "done"]
                 /\ out' = WritesWith(n, w)
                 /\ to' = TargetsWith(n, w, now)
                 /\ clock' = now
                 /\ UNCHANGED <<s, sent, outcome>>
  <2>1. ReceiptsOK'
    BY <1>5, SettleOK DEF TypeInv
  <2> DEFINE writes == WritesWith(n, w)
             targets == TargetsWith(n, w, now)
  <2>2. /\ DOMAIN writes = {n} \union DOMAIN out
        /\ \A m \in DOMAIN writes : WriteOK(writes[m])
        /\ DOMAIN targets = {n} \union DOMAIN out
        /\ \A m \in DOMAIN targets : targets[m] \subseteq Nodes
    BY <1>1, <1>5, WaitingOK
  <2> HIDE DEF writes, targets
  <2>3. DOMAIN out = {m \in Tasks : at[m] = "done"} /\ Tasks \subseteq Nodes
    BY DEF TypeInv, TasksOK
  <2>4. ASSUME \A m \in Tasks \ {n} : at[m] = "done", NextStep(writes, targets, now)
        PROVE  TypeInv'
    <3>1. DOMAIN writes \subseteq Nodes /\ Tasks \subseteq DOMAIN writes
      BY <2>2, <2>3, <2>4
    <3>2. /\ StateOK(s)' /\ (sent = NoWrites \/ StateOK(sent))'
          /\ TasksOK'
          /\ clock' \in 0 .. 3
          /\ outcome' \in {"running", "delivered", "halted", "failed", "refused", "cancelled"}
      BY <3>1, <2>2, <2>4, <1>3, NextStepOK
    <3>3. QED
      BY <2>1, <3>2 DEF TypeInv
  <2>5. ASSUME at' = [at EXCEPT ![n] = "done"], out' = writes, to' = targets, clock' = now,
               UNCHANGED <<s, sent, outcome>>
        PROVE  TypeInv'
    <3>1. Tasks' = Tasks /\ \A m \in Tasks : at'[m] = IF m = n THEN "done" ELSE at[m]
      BY <2>5 DEF Tasks
    <3>2. TasksOK'
      <4>1. \A m \in Tasks : at[m] \in Stages
        BY DEF TypeInv, TasksOK
      <4>2. \A m \in Tasks' : at'[m] \in Stages
        BY <3>1, <4>1 DEF Stages
      <4>3. DOMAIN out' = {m \in Tasks' : at'[m] = "done"}
        BY <2>2, <2>3, <2>5, <3>1
      <4>4. DOMAIN to' = DOMAIN out' /\ \A m \in DOMAIN out' : WriteOK(out'[m]) /\ to'[m] \subseteq Nodes
        BY <2>2, <2>5
      <4>5. QED
        BY <3>1, <2>3, <4>2, <4>3, <4>4 DEF TasksOK
    <3>3. QED
      BY <2>1, <2>5, <3>2, <1>3 DEF TypeInv
  <2>6. QED
    BY <1>5, <2>4, <2>5 DEF writes, targets
<1>6. QED
  BY <1>4, <1>5, <1>7, ReturnIs

\* So does every step.
LEMMA RunsIs ==
    ASSUME NEW n, Runs(n)
    PROVE  /\ n \in Tasks /\ outcome = "running" /\ UNCHANGED <<impact, seeded, crashes, torn>>
           /\ \E w \in Writes(StateOf(n), n) : \E now \in Later : Return(n, w, now)
  BY DEF Runs

LEMMA RestartOK ==
    ASSUME TypeInv, Restart
    PROVE  TasksOK' /\ StateOK(s)' /\ (sent = NoWrites \/ StateOK(sent))'
           /\ clock' = clock /\ outcome' = outcome
<1>1. /\ Tasks' = Tasks
      /\ \A n \in Tasks : at'[n] = IF at[n] = "seeding" THEN "ready" ELSE at[n]
      /\ UNCHANGED <<s, out, to, sent, clock, impact, outcome>>
  BY DEF Restart, Tasks
<1>2. TasksOK'
  <2>1. \A n \in Tasks : at'[n] \in Stages /\ (at'[n] = "done" <=> at[n] = "done")
    BY <1>1 DEF TypeInv, TasksOK, Stages
  <2>2. QED
    BY <1>1, <2>1 DEF TypeInv, TasksOK
<1>3. QED
  BY <1>1, <1>2 DEF TypeInv

LEMMA TypesKept == ASSUME TypeInv, [Next]_vars PROVE TypeInv'
<1>1. CASE Machine \/ Decide
  <2>1. ASSUME NEW n, Runs(n) PROVE TypeInv'
    <3>1. PICK w \in Writes(StateOf(n), n) : \E now \in Later : Return(n, w, now)
      BY <2>1, RunsIs
    <3>2. n \in Tasks /\ torn' = torn
      BY <2>1, RunsIs
    <3>3. QED
      BY <3>1, <3>2, ReturnOK
  <2>2. ASSUME NEW n, Seed(n) PROVE TypeInv'
    <3>1. /\ n \in Tasks /\ at[n] = "ready" /\ at' = [at EXCEPT ![n] = "seeding"]
          /\ UNCHANGED <<s, out, to, sent, clock, inbox, impact, verdict, crashes, outcome, torn>>
      BY <2>2 DEF Seed
    <3>2. Tasks' = Tasks /\ \A m \in Tasks : at'[m] = IF m = n THEN "seeding" ELSE at[m]
      BY <3>1 DEF Tasks
    <3>3. TasksOK'
      <4>1. \A m \in Tasks : at'[m] \in Stages /\ (at'[m] = "done" <=> at[m] = "done")
        BY <3>1, <3>2 DEF TypeInv, TasksOK, Stages
      <4>2. QED
        BY <3>1, <3>2, <4>1 DEF TypeInv, TasksOK
    <3>4. QED
      BY <3>1, <3>3 DEF TypeInv, ReceiptsOK
  <2>3. QED
    BY <1>1, <2>1, <2>2 DEF Machine, Step, Decide
<1>2. CASE Tick
  <2>1. clock < 3 /\ clock' = clock + 1
    BY <1>2 DEF Tick
  <2>2. clock' \in 0 .. 3
    BY <2>1 DEF TypeInv
  <2>3. UNCHANGED <<s, at, out, to, sent, inbox, verdict, outcome, torn>>
    BY <1>2 DEF Tick, taskVars
  <2>4. TasksOK' /\ ReceiptsOK'
    BY <2>3 DEF TypeInv, TasksOK, ReceiptsOK, Tasks
  <2>5. QED
    BY <2>2, <2>3, <2>4 DEF TypeInv
<1>3. ASSUME NEW a \in Supplements, Arrive(a) PROVE TypeInv'
  <2>1. inbox' = inbox \union {a} /\ UNCHANGED <<s, at, out, to, sent, clock, verdict, outcome, torn>>
    BY <1>3 DEF Arrive, taskVars
  <2>2. TasksOK' /\ ReceiptsOK'
    BY <2>1 DEF TypeInv, TasksOK, ReceiptsOK, Tasks
  <2>3. QED
    BY <2>1, <2>2 DEF TypeInv
<1>4. CASE Crash
  <2>1. Restart /\ UNCHANGED <<inbox, verdict, torn>>
    BY <1>4 DEF Crash
  <2>2. ReceiptsOK'
    BY <2>1 DEF TypeInv, ReceiptsOK
  <2>3. QED
    BY <2>1, <2>2, RestartOK DEF TypeInv
<1>5. ASSUME NEW n \in Nodes, CrashAfterSettling(n) PROVE TypeInv'
  <2>1. Restart /\ \E w \in Writes(StateOf(n), n) :
           Settle(n, w) /\ torn' = torn \union {a \in inbox \ s.pending : verdict'[a] = "applied"}
    BY <1>5 DEF CrashAfterSettling
  <2>2. ReceiptsOK'
    BY <2>1, SettleOK DEF TypeInv
  <2>3. torn' \subseteq Supplements
    BY <2>1 DEF TypeInv, ReceiptsOK
  <2>4. QED
    BY <2>1, <2>2, <2>3, RestartOK DEF TypeInv
<1>6. CASE Finished \/ UNCHANGED vars
  BY <1>6 DEF Finished, vars, taskVars, TypeInv, TasksOK, ReceiptsOK, Tasks
<1>7. QED
  BY <1>1, <1>2, <1>3, <1>4, <1>5, <1>6 DEF Next

\* The inductive invariant holds, and TypeOK follows.
LEMMA TypesHold == Spec => []TypeInv
<1>1. Init => TypeInv
  BY TypesInitially
<1>2. TypeInv /\ [Next]_vars => TypeInv'
  BY TypesKept
<1>3. QED
  BY <1>1, <1>2, PTL DEF Spec

LEMMA TypesAreTypes == ASSUME TypeInv PROVE TypeOK
<1>1. StateOK(s) /\ TasksOK /\ ReceiptsOK
  BY DEF TypeInv
<1>2. DOMAIN s = DOMAIN InitState
  BY <1>1 DEF StateOK
<1>3. s.status \in [Agents -> Done \union {"none", "pending"}]
  BY <1>1, StateIs DEF Statuses
<1>4. s.packets \in [Workers -> [gen : Nat, found : {"met", "loose", "missing", "hopeless"}]]
  BY <1>1, StateIs DEF Packets
<1>5. s.attempts \in [Gaps -> Nat] /\ \A g \in Gaps : s.attempts[g] <= Limit(g)
  BY <1>1, StateIs DEF AttemptsType
<1>6. /\ s.step \in DOMAIN Plan /\ s.repairs \in 0 .. MaxRepairs
      /\ s.dead \subseteq s.gaps /\ s.gaps \subseteq Gaps
  BY <1>1, StateIs
<1>7. UNION {s.pending, s.applied, s.rejected, inbox, torn} \subseteq Supplements
  <2>1. s.pending \subseteq Supplements /\ s.applied \subseteq Supplements /\ s.rejected \subseteq Supplements
    BY <1>1, StateIs
  <2>2. inbox \subseteq Supplements /\ torn \subseteq Supplements
    BY <1>1 DEF TypeInv, ReceiptsOK
  <2>3. QED
    BY <2>1, <2>2
<1>8. /\ Tasks \subseteq Nodes /\ Range(at) \subseteq {"ready", "seeding", "done"}
      /\ DOMAIN out = {n \in Tasks : at[n] = "done"} /\ DOMAIN to = DOMAIN out
      /\ UNION Range(to) \subseteq Nodes
  <2>1. \A n \in DOMAIN at : at[n] \in {"ready", "seeding", "done"}
    BY <1>1 DEF TasksOK, Stages, Tasks
  <2>2. \A n \in DOMAIN to : to[n] \subseteq Nodes
    BY <1>1 DEF TasksOK
  <2>3. QED
    BY <1>1, <2>1, <2>2 DEF TasksOK, Range
<1>9. /\ clock \in 0 .. 3
      /\ verdict \in [Supplements -> {"none", "applied", "rejected"}]
      /\ outcome \in {"running", "delivered", "halted", "failed", "refused", "cancelled"}
  BY DEF TypeInv, ReceiptsOK
<1>10. QED
  BY <1>2, <1>3, <1>4, <1>5, <1>6, <1>7, <1>8, <1>9 DEF TypeOK, Gaps, Limit

\* The fields of the state, the waiting writes and the receipts have their types, and no
\* gap, domain or repair exceeds its budget (candidate_gate, composition_repair): for every
\* plan, every budget and every number of supplements.
THEOREM GraphTypeCorrect == Spec => []TypeOK
<1>1. TypeInv => TypeOK
  BY TypesAreTypes
<1>2. QED
  BY <1>1, TypesHold, PTL

-----------------------------------------------------------------------------
(* The fields each node writes. *)

\* The fields an invalidation resets.
ResetFields ==
    {"committed", "selection", "skeleton", "workspace", "fidelityRoute", "qualityRoute",
     "plan", "step", "scoped", "connector", "status", "catalog", "gate", "gateRoute", "gaps",
     "dead", "attempts", "artifactRoute", "draft", "sealed", "deadline", "repairs"}

\* The fields the gates after the research write.
GateFields ==
    {"gate", "gateRoute", "catalog", "selection", "gaps", "dead", "attempts", "scoped", "connector",
     "fault", "skeleton", "repairs", "artifactRoute", "fidelityRoute", "qualityRoute"}

\* Those by which the artifact, the fidelity and the quality gate say where the run goes.
Judged == {"fault", "repairs", "artifactRoute", "fidelityRoute", "qualityRoute"}

\* The fields the body of node n writes.
BodyFields(n) ==
    CASE n = "normalizer" -> {"con", "planRevision", "pending", "edit", "route", "resume", "applied"}
      [] n = "draft" -> {"draft", "sealed", "deadline", "gaps", "dead", "attempts"}
      [] n = "planner" -> {"plan", "step", "scoped", "connector"}
      [] n = "plan gate" -> {"raise", "cancel", "decision", "sealed", "deadline", "edit", "edits"}
                            \union ResetFields
      [] n = "dispatcher" -> {"step", "next"}
      [] n \in Workers -> {"status", "packets", "fault", "next"}
      [] n = Composer -> {"raise", "status", "fault", "skeleton", "gate", "gateRoute", "workspace"}
      [] n \in {"candidate gate", "artifact gate"} -> GateFields
      [] n \in {"fidelity gate", "quality gate", "projector"} -> GateFields \union {"raise"}
      [] n = "finalizer" -> {"raise", "committed"}
      [] n = "router" -> {"pending", "rejected", "route", "resume", "edits", "decision"} \union ResetFields
      [] OTHER -> {}

\* Which fields a body writes, node by node.
LEMMA JoinedWithin ==
    ASSUME NEW f, NEW g, NEW T, DOMAIN f \subseteq T, DOMAIN g \subseteq T
    PROVE  DOMAIN (f ++ g) \subseteq T
<1>1. DOMAIN (f ++ g) = DOMAIN f \union DOMAIN g
  BY Joined
<1>2. QED
  BY <1>1

LEMMA InvalidateFields ==
    ASSUME NEW strength \in {"projection", "composition", "research"}
    PROVE  DOMAIN Invalidate(strength) \subseteq ResetFields
<1>1. /\ DOMAIN [committed |-> FALSE] \subseteq ResetFields
      /\ DOMAIN ResetComposition \subseteq ResetFields
      /\ DOMAIN ResetResearch \subseteq ResetFields
  BY DEF ResetFields, ResetComposition, ResetResearch
<1>2. DOMAIN ([committed |-> FALSE] ++ ResetComposition) \subseteq ResetFields
  BY <1>1, JoinedWithin
<1>3. DOMAIN ([committed |-> FALSE] ++ ResetComposition ++ ResetResearch) \subseteq ResetFields
  BY <1>1, <1>2, JoinedWithin
<1>4. QED
  BY <1>1, <1>2, <1>3 DEF Invalidate

LEMMA RepairFields ==
    ASSUME NEW st, NEW w, NEW exhausted, NEW T, "repairs" \in T, DOMAIN w \subseteq T,
           DOMAIN exhausted \subseteq T
    PROVE  DOMAIN RepairOr(st, w, exhausted) \subseteq T
<1> DEFINE r == [repairs |-> st.repairs + 1]
<1>1. DOMAIN r \subseteq T
  OBVIOUS
<1> HIDE DEF r
<1>2. DOMAIN (r ++ w) \subseteq T /\ DOMAIN (exhausted ++ w) \subseteq T
  BY <1>1, JoinedWithin
<1>3. RepairOr(st, w, exhausted) \in {r ++ w, exhausted ++ w}
  BY Zenon DEF RepairOr, r
<1>4. QED
  BY <1>2, <1>3

LEMMA PlanGateFields ==
    ASSUME NEW st, NEW w \in PlanGate(st)
    PROVE  DOMAIN w \subseteq BodyFields("plan gate")
<1> DEFINE T == {"raise", "cancel", "decision", "sealed", "deadline", "edit", "edits"} \union ResetFields
<1>1. ASSUME NEW kind \in {"projection", "research"}, NEW decision
      PROVE  DOMAIN EditPlan(st, kind, decision) \subseteq T
  <2> DEFINE e == [edit |-> kind, decision |-> decision, edits |-> st.edits + 1]
  <2>1. DOMAIN e \subseteq T
    OBVIOUS
  <2> HIDE DEF e
  <2>2. DOMAIN Invalidate(kind) \subseteq T
    BY InvalidateFields
  <2>3. EditPlan(st, kind, decision) = e ++ Invalidate(kind)
    BY Zenon DEF EditPlan, e
  <2> HIDE DEF T
  <2>4. QED
    BY <2>1, <2>2, <2>3, JoinedWithin
<1>2. DOMAIN Seal \subseteq T
  BY DEF Seal
<1>3. \/ w \in {[raise |-> TRUE], [cancel |-> TRUE], Seal}
      \/ \E kind \in {"projection", "research"} :
           \E decision \in {"amendment", "projection_amendment_pending"} : w = EditPlan(st, kind, decision)
  BY DEF PlanGate
<1>4. DOMAIN w \subseteq T
  <2>1. DOMAIN [raise |-> TRUE] \subseteq T /\ DOMAIN [cancel |-> TRUE] \subseteq T
    OBVIOUS
  <2> HIDE DEF T
  <2>2. QED
    BY <1>1, <1>2, <1>3, <2>1
<1>5. QED
  BY <1>4 DEF BodyFields, Workers, Composer

LEMMA WorkerFields ==
    ASSUME NEW st, NEW n \in Workers, NEW w \in Research(st, n)
    PROVE  DOMAIN w \subseteq BodyFields(n)
<1> DEFINE T == {"status", "packets", "fault", "next"}
<1>1. \A v : DOMAIN Report(st, n, v) \subseteq T
  BY DEF Report, NoWrites
<1>2. \A found : DOMAIN Packet(st, n, found) \subseteq T
  BY DEF Packet
<1>3. \A f : DOMAIN [fault |-> f] \subseteq T
  OBVIOUS
<1>4. DOMAIN [next |-> "HALT"] \subseteq T
  OBVIOUS
<1>5. \/ \E found \in {"met", "loose", "missing"} : w = Report(st, n, "completed") ++ Packet(st, n, found)
      \/ \E f \in BOOLEAN : w = Report(st, n, "failed") ++ [fault |-> f]
      \/ w = Report(st, n, "failed") ++ [fault |-> TRUE] ++ Packet(st, n, "hopeless")
      \/ w = Report(st, n, "partial") ++ [next |-> "HALT"]
  BY DEF Research
<1>6. DOMAIN w \subseteq T
  <2> HIDE DEF T
  <2>1. \A found : DOMAIN (Report(st, n, "completed") ++ Packet(st, n, found)) \subseteq T
    BY <1>1, <1>2, JoinedWithin
  <2>2. \A f : DOMAIN (Report(st, n, "failed") ++ [fault |-> f]) \subseteq T
    BY <1>1, <1>3, JoinedWithin
  <2>3. DOMAIN (Report(st, n, "failed") ++ [fault |-> TRUE] ++ Packet(st, n, "hopeless")) \subseteq T
    BY <1>2, <2>2, JoinedWithin
  <2>4. DOMAIN (Report(st, n, "partial") ++ [next |-> "HALT"]) \subseteq T
    BY <1>1, <1>4, JoinedWithin
  <2>5. QED
    BY <1>5, <2>1, <2>2, <2>3, <2>4
<1>7. BodyFields(n) = T
  BY DEF BodyFields, Workers, Composer
<1>8. QED
  BY <1>6, <1>7

LEMMA ComposerFields ==
    ASSUME NEW st, NEW w \in Compose(st)
    PROVE  DOMAIN w \subseteq BodyFields(Composer)
<1>1. \/ w = [raise |-> TRUE] \/ w = Composed(st)
      \/ \E f \in BOOLEAN : w = [status |-> Entry(Composer, "failed"), fault |-> f]
  BY DEF Compose
<1>2. DOMAIN Composed(st) \subseteq {"skeleton", "status", "gate", "gateRoute", "workspace"}
  <2>1. \/ DOMAIN Composed(st) = {"skeleton", "status", "gate", "gateRoute"}
        \/ DOMAIN Composed(st) = {"workspace", "status"}
    BY DEF Composed
  <2>2. QED
    BY <2>1
<1>3. DOMAIN w \subseteq {"raise", "status", "fault", "skeleton", "gate", "gateRoute", "workspace"}
  <2>1. CASE w = Composed(st)
    BY <1>2, <2>1
  <2>2. CASE w = [raise |-> TRUE]
    BY <2>2
  <2>3. ASSUME NEW f, w = [status |-> Entry(Composer, "failed"), fault |-> f]
        PROVE  DOMAIN w \subseteq {"status", "fault"}
    BY <2>3
  <2>4. QED
    BY <1>1, <2>1, <2>2, <2>3
<1>4. BodyFields(Composer) = {"raise", "status", "fault", "skeleton", "gate", "gateRoute", "workspace"}
  BY DEF BodyFields, Workers, Composer
<1>5. QED
  BY <1>3, <1>4

LEMMA RouterFields ==
    ASSUME NEW st, NEW w \in Router(st)
    PROVE  DOMAIN w \subseteq BodyFields("router")
<1> DEFINE refused == {a \in st.pending : TooLate(st, a)}
           accepted == st.pending \ refused
           goOn == [route |-> st.resume, resume |-> "none"]
           turned == [pending |-> {}, rejected |-> refused]
           amended == [pending |-> accepted, rejected |-> refused, route |-> "normalizer",
                       resume |-> "none", edits |-> st.edits + 1, decision |-> "runtime_amendment"]
           rest == Invalidate(Strongest(accepted))
           T == {"pending", "rejected", "route", "resume", "edits", "decision"} \union ResetFields
<1>1. w \in {goOn, turned ++ goOn, amended ++ rest}
  BY Zenon DEF Router
<1>2. DOMAIN goOn \subseteq T /\ DOMAIN turned \subseteq T /\ DOMAIN amended \subseteq T
  OBVIOUS
<1>3. DOMAIN rest \subseteq T
  <2> HIDE DEF accepted
  <2>1. Strongest(accepted) \in {"projection", "composition", "research"}
    BY Zenon DEF Strongest
  <2>2. DOMAIN rest \subseteq ResetFields
    BY <2>1, InvalidateFields
  <2>3. QED
    BY <2>2
<1>4. DOMAIN w \subseteq T
  <2> HIDE DEF goOn, turned, amended, rest, T
  <2>1. DOMAIN (turned ++ goOn) \subseteq T /\ DOMAIN (amended ++ rest) \subseteq T
    BY <1>2, <1>3, JoinedWithin
  <2>2. QED
    BY <2>1, <1>1, <1>2
<1>5. BodyFields("router") = T
  BY DEF BodyFields, Workers, Composer
<1>6. QED
  BY <1>4, <1>5

\* The fields of the gates.
LEMMA ClosedFields ==
    ASSUME NEW base, NEW rows, DOMAIN base \subseteq GateFields
    PROVE  DOMAIN PassedUpdate(base, rows) \subseteq GateFields
<1> DEFINE more == [base EXCEPT !.dead = @ \union rows]
<1>1. DOMAIN more = DOMAIN base
  OBVIOUS
<1>2. DOMAIN Passed \subseteq GateFields
  BY DEF Passed, GateFields
<1>3. PassedUpdate(base, rows) = Passed ++ more
  BY Zenon DEF PassedUpdate
<1> HIDE DEF more
<1>4. QED
  BY <1>1, <1>2, <1>3, JoinedWithin

LEMMA FinishFields ==
    ASSUME NEW st, NEW base, NEW rows, NEW target, NEW blocked, DOMAIN base \subseteq GateFields
    PROVE  DOMAIN FinishGate(st, base, rows, target, blocked) \subseteq GateFields
<1>1. DOMAIN Passed \subseteq GateFields
  BY DEF Passed, GateFields
<1>2. DOMAIN (Passed ++ base) \subseteq GateFields
  BY <1>1, JoinedWithin
<1>3. DOMAIN Fund(st, base, target) \subseteq GateFields
  <2> DEFINE w == [gate |-> "needs_research", gateRoute |-> target[1],
                   attempts |-> [st.attempts EXCEPT ![target] = @ + 1],
                   scoped |-> st.scoped \union {target[1]},
                   connector |-> IF target = Route THEN TRUE
                                 ELSE IF target = Missing("transport") THEN FALSE ELSE st.connector]
  <2>1. DOMAIN w = {"gate", "gateRoute", "attempts", "scoped", "connector"}
    OBVIOUS
  <2>2. Fund(st, base, target) = w ++ base
    BY Zenon DEF Fund
  <2> HIDE DEF w
  <2>3. DOMAIN w \subseteq GateFields
    BY <2>1 DEF GateFields
  <2>4. QED
    BY <2>2, <2>3, JoinedWithin
<1>4. FinishGate(st, base, rows, target, blocked) \in
         {Passed ++ base, PassedUpdate(base, rows), Fund(st, base, target)}
  BY Zenon DEF FinishGate
<1>5. QED
  BY <1>2, <1>3, <1>4, ClosedFields

LEMMA SkeletonFields ==
    ASSUME NEW st, NEW base, DOMAIN base \subseteq GateFields
    PROVE  DOMAIN RepairSkeleton(st, base) \subseteq GateFields
<1> DEFINE w == [gate |-> "composition_repair", gateRoute |-> "composition_repair"]
<1>1. DOMAIN w \subseteq GateFields /\ DOMAIN Passed \subseteq GateFields /\ "repairs" \in GateFields
  BY DEF Passed, GateFields
<1>2. RepairSkeleton(st, base) = RepairOr(st, w ++ base, Passed)
  BY Zenon DEF RepairSkeleton
<1> HIDE DEF w
<1>3. DOMAIN (w ++ base) \subseteq GateFields
  BY <1>1, JoinedWithin
<1>4. QED
  BY <1>1, <1>2, <1>3, RepairFields

LEMMA ConnectorFields ==
    ASSUME NEW st, NEW base, NEW rows, NEW blocked, DOMAIN base \subseteq GateFields,
           NEW w \in ConnectorPass(st, base, rows, blocked)
    PROVE  DOMAIN w \subseteq GateFields
<1> DEFINE withRoute == rows \union {Route}
           found == Resolve(st, withRoute, base.dead, {"transport"})
           more == [base EXCEPT !.gaps = withRoute, !.dead = found.dead]
<1>1. w \in {RepairSkeleton(st, [skeleton |-> FALSE] ++ base),
             FinishGate(st, base, rows, <<>>, blocked),
             FinishGate(st, more, withRoute, found.target, {"transport"})}
  BY Zenon DEF ConnectorPass
<1>2. DOMAIN more \subseteq GateFields
  <2> HIDE DEF withRoute, found
  <2>1. QED
    OBVIOUS
<1>3. DOMAIN ([skeleton |-> FALSE] ++ base) \subseteq GateFields
  <2>1. DOMAIN [skeleton |-> FALSE] \subseteq GateFields
    BY DEF GateFields
  <2>2. QED
    BY <2>1, JoinedWithin
<1> DEFINE lower == [skeleton |-> FALSE] ++ base
           target == found.target
<1>4. DOMAIN RepairSkeleton(st, lower) \subseteq GateFields
  <2> HIDE DEF lower
  <2>1. DOMAIN lower \subseteq GateFields
    BY <1>3 DEF lower
  <2>2. QED
    BY <2>1, SkeletonFields
<1>5. DOMAIN FinishGate(st, base, rows, <<>>, blocked) \subseteq GateFields
  BY FinishFields
<1>6. DOMAIN FinishGate(st, more, withRoute, target, {"transport"}) \subseteq GateFields
  <2> HIDE DEF more, withRoute, target
  <2>1. QED
    BY <1>2, FinishFields
<1>7. QED
  <2> HIDE DEF lower, more, withRoute, found
  <2>1. w \in {RepairSkeleton(st, lower), FinishGate(st, base, rows, <<>>, blocked),
               FinishGate(st, more, withRoute, target, {"transport"})}
    BY <1>1 DEF lower
  <2> HIDE DEF target
  <2>2. QED
    BY <2>1, <1>4, <1>5, <1>6

LEMMA CandidateFields ==
    ASSUME NEW st, NEW w \in CandidateGate(st)
    PROVE  DOMAIN w \subseteq GateFields
<1> DEFINE rows == Rows(st)
           blocked == {g[1] : g \in rows \ {Loose(v) : v \in Workers}}
           known == [catalog |-> st.con, selection |-> st.con, gaps |-> rows,
                     dead |-> st.dead \intersect rows]
           found == Resolve(st, rows, known.dead, blocked)
           base == [known EXCEPT !.dead = found.dead]
           compose == [gate |-> "needs_research", gateRoute |-> Composer]
           target == found.target
<1>1. w \in {BrokenCatalog, PassedUpdate(known, rows), FinishGate(st, base, rows, target, blocked),
             RepairSkeleton(st, base), compose ++ base} \union ConnectorPass(st, base, rows, blocked)
  <2> DEFINE composing == /\ found.target = <<>>
                     /\ \E v \in Workers \intersect Planned : Admitted(st, v)
                     /\ Missing("transport") \notin rows
                     /\ Composer \in Planned
                     /\ st.workspace = None
  <2>1. CandidateGate(st) =
          (IF "catalog" \in Faults \/ st.plan # st.con THEN {BrokenCatalog} ELSE {}) \union
          (IF st.plan # st.con THEN {}
           ELSE IF ResearchClosed(st) /\ ~st.skeleton THEN {PassedUpdate(known, rows)}
           ELSE IF ~composing THEN {FinishGate(st, base, rows, found.target, blocked)}
           ELSE IF st.skeleton THEN ConnectorPass(st, base, rows, blocked)
           ELSE IF st.status[Composer] = "failed" THEN {RepairSkeleton(st, base)}
           ELSE {compose ++ base})
    BY Zenon DEF CandidateGate
  <2> HIDE DEF rows, blocked, known, found, base, compose, composing
  <2>2. QED
    BY <2>1
<1>2. DOMAIN known = {"catalog", "selection", "gaps", "dead"} /\ DOMAIN base = DOMAIN known
  OBVIOUS
<1>3. DOMAIN compose = {"gate", "gateRoute"}
  OBVIOUS
<1>4. DOMAIN Passed \subseteq GateFields /\ DOMAIN [fault |-> FALSE] \subseteq GateFields
  BY DEF Passed, GateFields
<1>5. DOMAIN BrokenCatalog \subseteq GateFields
  BY <1>4, JoinedWithin DEF BrokenCatalog
<1> HIDE DEF rows, blocked, known, found, base, compose, target
<1>6. DOMAIN known \subseteq GateFields /\ DOMAIN base \subseteq GateFields /\ DOMAIN compose \subseteq GateFields
  BY <1>2, <1>3 DEF GateFields
<1>7. DOMAIN (compose ++ base) \subseteq GateFields
  BY <1>6, JoinedWithin
<1>8. DOMAIN FinishGate(st, base, rows, target, blocked) \subseteq GateFields
  BY <1>6, FinishFields
<1>9. QED
  BY <1>1, <1>5, <1>6, <1>7, <1>8, ClosedFields, SkeletonFields, ConnectorFields

LEMMA ArtifactFields ==
    ASSUME NEW st, NEW w \in ArtifactGate(st)
    PROVE  DOMAIN w \subseteq Judged
<1>1. \A r : DOMAIN [artifactRoute |-> r] \subseteq Judged
  BY DEF Judged
<1>2. DOMAIN [artifactRoute |-> "accepted", fault |-> FALSE] \subseteq Judged
  BY DEF Judged
<1>3. DOMAIN RepairOr(st, [artifactRoute |-> Composer], [artifactRoute |-> "accepted"]) \subseteq Judged
  <2>1. "repairs" \in Judged
    BY DEF Judged
  <2>2. QED
    BY <2>1, <1>1, RepairFields
<1>4. ASSUME NEW a, Artifact(st, a) # "ok" PROVE DOMAIN ArtifactVerdict(st, a) \subseteq Judged
  <2>1. Artifact(st, a) \in {"content", "composition", "integrity"}
    BY <1>4 DEF Artifact
  <2>2. ArtifactVerdict(st, a) \in
          {[artifactRoute |-> "accepted"], [artifactRoute |-> "candidate gate"],
           RepairOr(st, [artifactRoute |-> Composer], [artifactRoute |-> "accepted"]),
           [artifactRoute |-> "accepted", fault |-> FALSE]}
    BY <2>1 DEF ArtifactVerdict
  <2>3. QED
    BY <2>2, <1>1, <1>2, <1>3
<1>5. w = [artifactRoute |-> "accepted"] \/ \E a : Artifact(st, a) # "ok" /\ w = ArtifactVerdict(st, a)
  <2> DEFINE bad(i) == {a \in Plan[i] : Artifact(st, a) # "ok"}
             first == Min({i \in DOMAIN Plan : bad(i) # {}})
  <2>1. w = [artifactRoute |-> "accepted"] \/ w \in {ArtifactVerdict(st, a) : a \in bad(first)}
    BY Zenon DEF ArtifactGate
  <2> HIDE DEF first
  <2>2. QED
    BY <2>1
<1>6. QED
  BY <1>1, <1>4, <1>5

LEMMA ReviewFields ==
    ASSUME NEW st, NEW w \in FidelityGate(st) \union QualityGate(st) \union Projector(st)
    PROVE  DOMAIN w \subseteq Judged \union {"raise"}
<1>0. "repairs" \in Judged
  BY DEF Judged
<1>1. \A r : DOMAIN [fidelityRoute |-> r] \subseteq Judged
  BY DEF Judged
<1>2. \A r : DOMAIN [qualityRoute |-> r] \subseteq Judged
  BY DEF Judged
<1>3. DOMAIN [raise |-> TRUE] \subseteq {"raise"} /\ DOMAIN NoWrites \subseteq Judged
  BY DEF Judged, NoWrites
<1> DEFINE more == [repairs |-> st.repairs + 1]
<1>4. DOMAIN more \subseteq Judged
  BY DEF Judged
<1>5. CASE w \in FidelityGate(st)
  <2>1. w \in {[fidelityRoute |-> "passed"], [fidelityRoute |-> "candidate gate"], [raise |-> TRUE],
               RepairOr(st, [fidelityRoute |-> Composer], [fidelityRoute |-> "passed"])}
    BY <1>5 DEF FidelityGate
  <2>2. DOMAIN RepairOr(st, [fidelityRoute |-> Composer], [fidelityRoute |-> "passed"]) \subseteq Judged
    BY <1>0, <1>1, RepairFields
  <2>3. QED
    BY <2>1, <2>2, <1>1, <1>3
<1>6. CASE w \in QualityGate(st)
  <2> DEFINE repair == [qualityRoute |-> "composition_repair"]
             released == [qualityRoute |-> "passed"]
  <2>1. w \in {[raise |-> TRUE], released, RepairOr(st, repair, released), more ++ repair}
    BY <1>6, Zenon DEF QualityGate
  <2>2. DOMAIN repair \subseteq Judged /\ DOMAIN released \subseteq Judged
    BY <1>2
  <2> HIDE DEF repair, released, more
  <2>3. DOMAIN RepairOr(st, repair, released) \subseteq Judged /\ DOMAIN (more ++ repair) \subseteq Judged
    BY <1>0, <2>2, <1>4, RepairFields, JoinedWithin
  <2>4. QED
    BY <2>1, <2>2, <2>3, <1>3
<1>7. CASE w \in Projector(st)
  <2>1. w \in {NoWrites, [raise |-> TRUE]}
    BY <1>7 DEF Projector
  <2>2. QED
    BY <2>1, <1>3
<1>8. QED
  BY <1>5, <1>6, <1>7

\* The fields of each node, spelled out.
LEMMA FieldsAre ==
    /\ BodyFields("normalizer") = {"con", "planRevision", "pending", "edit", "route", "resume", "applied"}
    /\ BodyFields("draft") = {"draft", "sealed", "deadline", "gaps", "dead", "attempts"}
    /\ BodyFields("planner") = {"plan", "step", "scoped", "connector"}
    /\ BodyFields("dispatcher") = {"step", "next"}
    /\ \A n \in Workers : BodyFields(n) = {"status", "packets", "fault", "next"}
    /\ BodyFields(Composer) = {"raise", "status", "fault", "skeleton", "gate", "gateRoute", "workspace"}
    /\ \A n \in {"candidate gate", "artifact gate"} : BodyFields(n) = GateFields
    /\ \A n \in {"fidelity gate", "quality gate", "projector"} :
         BodyFields(n) = GateFields \union {"raise"}
    /\ BodyFields("finalizer") = {"raise", "committed"}
    /\ \A n \in {"clarifier", "brief", "geo", "weather", "summary", "budget"} : BodyFields(n) = {}
<1>1. BodyFields("normalizer") = {"con", "planRevision", "pending", "edit", "route", "resume", "applied"}
  BY DEF BodyFields, Workers, Composer
<1>2. BodyFields("draft") = {"draft", "sealed", "deadline", "gaps", "dead", "attempts"}
  BY DEF BodyFields, Workers, Composer
<1>3. BodyFields("planner") = {"plan", "step", "scoped", "connector"}
  BY DEF BodyFields, Workers, Composer
<1>4. BodyFields("dispatcher") = {"step", "next"}
  BY DEF BodyFields, Workers, Composer
<1>5. \A n \in Workers : BodyFields(n) = {"status", "packets", "fault", "next"}
  BY DEF BodyFields, Workers, Composer
<1>6. BodyFields(Composer) = {"raise", "status", "fault", "skeleton", "gate", "gateRoute", "workspace"}
  BY DEF BodyFields, Workers, Composer
<1>7. /\ \A n \in {"candidate gate", "artifact gate"} : BodyFields(n) = GateFields
      /\ \A n \in {"fidelity gate", "quality gate", "projector"} :
           BodyFields(n) = GateFields \union {"raise"}
  BY DEF BodyFields, Workers, Composer
<1>8. BodyFields("finalizer") = {"raise", "committed"}
  BY DEF BodyFields, Workers, Composer
<1>9. \A n \in {"clarifier", "brief", "geo", "weather", "summary", "budget"} : BodyFields(n) = {}
  BY DEF BodyFields, Workers, Composer
<1>10. QED
  BY <1>1, <1>2, <1>3, <1>4, <1>5, <1>6, <1>7, <1>8, <1>9

LEMMA BodyWithin ==
    ASSUME NEW st, NEW n \in Nodes, NEW w \in Body(st, n)
    PROVE  DOMAIN w \subseteq BodyFields(n)
<1>1. CASE n = "normalizer"
  <2>1. w \in Normalizer(st)
    BY <1>1 DEF Body, Workers, Composer
  <2>2. DOMAIN w = {"con", "planRevision", "pending", "edit", "route", "resume", "applied"}
    BY <2>1 DEF Normalizer
  <2>3. QED
    BY <1>1, <2>2, FieldsAre
<1>2. CASE n = "draft"
  <2>1. w \in DraftBuilder(st)
    BY <1>2 DEF Body, Workers, Composer
  <2>2. DOMAIN w = {} \/ DOMAIN w = {"draft", "sealed", "deadline", "gaps", "dead", "attempts"}
    BY <2>1 DEF DraftBuilder, NoWrites
  <2>3. QED
    BY <1>2, <2>2, FieldsAre
<1>3. CASE n = "planner"
  <2>1. w \in Planner(st)
    BY <1>3 DEF Body, Workers, Composer
  <2>2. DOMAIN w = {"plan", "step", "scoped", "connector"}
    BY <2>1 DEF Planner
  <2>3. QED
    BY <1>3, <2>2, FieldsAre
<1>4. CASE n = "plan gate"
  BY <1>4, PlanGateFields DEF Body, Workers, Composer
<1>5. CASE n = "dispatcher"
  <2>1. w \in Dispatcher(st)
    BY <1>5 DEF Body, Workers, Composer
  <2>2. DOMAIN w \subseteq {"step", "next"}
    <3> DEFINE first == [step |-> Min(CompositionStep(st)), next |-> ToComposition(st)]
    <3>1. DOMAIN first = {"step", "next"}
      OBVIOUS
    <3>2. \/ w \in {[next |-> agent] : agent \in {"to_check", "candidate_gate", "dispatch_group"}}
          \/ w = first
          \/ \E agent \in {"candidate_gate", "dispatch_group"} : w = [step |-> st.step + 1, next |-> agent]
      <4> HIDE DEF first
      <4>1. CASE ResearchClosed(st)
        <5>1. w = [next |-> "to_check"] \/ w = first
          BY <4>1, <2>1 DEF Dispatcher, first
        <5>2. QED
          BY <5>1
      <4>2. CASE ~ResearchClosed(st)
        BY <4>2, <2>1 DEF Dispatcher
      <4>3. QED
        BY <4>1, <4>2
    <3> HIDE DEF first
    <3>3. QED
      BY <3>1, <3>2
  <2>3. QED
    BY <1>5, <2>2, FieldsAre
<1>6. CASE n \in Workers
  BY <1>6, WorkerFields DEF Body, Workers, Composer
<1>7. CASE n = Composer
  BY <1>7, ComposerFields DEF Body, Workers, Composer
<1>8. CASE n \in {"candidate gate", "artifact gate"}
  <2>1. w \in CandidateGate(st) \union ArtifactGate(st)
    BY <1>8 DEF Body, Workers, Composer
  <2>2. DOMAIN w \subseteq GateFields
    <3>1. Judged \subseteq GateFields
      BY DEF Judged, GateFields
    <3>2. QED
      BY <2>1, <3>1, CandidateFields, ArtifactFields
  <2>3. QED
    BY <1>8, <2>2, FieldsAre
<1>13. CASE n \in {"fidelity gate", "quality gate", "projector"}
  <2>1. w \in FidelityGate(st) \union QualityGate(st) \union Projector(st)
    BY <1>13 DEF Body, Workers, Composer
  <2>2. DOMAIN w \subseteq GateFields \union {"raise"}
    <3>1. Judged \subseteq GateFields
      BY DEF Judged, GateFields
    <3>2. QED
      BY <2>1, <3>1, ReviewFields
  <2>3. QED
    BY <1>13, <2>2, FieldsAre, ZenonT(60)
<1>9. CASE n = "finalizer"
  <2>1. w \in Finalizer(st)
    BY <1>9 DEF Body, Workers, Composer
  <2>2. w = [raise |-> TRUE] \/ w = [committed |-> TRUE]
    BY <2>1 DEF Finalizer
  <2>3. DOMAIN w \subseteq {"raise", "committed"}
    BY <2>2
  <2>4. QED
    BY <1>9, <2>3, FieldsAre
<1>10. CASE n = "router"
  BY <1>10, RouterFields DEF Body, Workers, Composer
<1>11. CASE n \in {"clarifier", "brief", "geo", "weather", "summary", "budget"}
  <2>1. w = NoWrites
    BY <1>11 DEF Body, Workers, Composer
  <2>2. QED
    BY <2>1 DEF NoWrites
<1>12. QED
  <2>1. \/ n \in {"normalizer", "draft", "planner", "plan gate", "dispatcher", "finalizer",
               "router"} \union Workers
        \/ n = Composer
        \/ n \in {"candidate gate", "artifact gate"}
        \/ n \in {"fidelity gate", "quality gate", "projector"}
        \/ n \in {"clarifier", "brief", "geo", "weather", "summary", "budget"}
    BY NodesAre DEF Workers, Composer
  <2>2. QED
    BY <2>1, <1>1, <1>2, <1>3, <1>4, <1>5, <1>6, <1>7, <1>8, <1>13, <1>9, <1>10, <1>11

\* with_run_control adds no field but these three.
LEMMA WritesWithin ==
    ASSUME NEW st, NEW n \in Nodes, NEW w \in Writes(st, n)
    PROVE  DOMAIN w \subseteq BodyFields(n) \union {"pending", "resume", "deadline"}
<1> DEFINE T == BodyFields(n) \union {"pending", "resume", "deadline"}
<1>1. PICK v :
              /\ w = Kept(st, v)
              /\ \/ WindowClosed(st, n) /\ v = BlockedWorkerUpdate(st, n)
                 \/ /\ st.con # None /\ Fresh(st) # {} /\ n \notin {"normalizer", "router"}
                    /\ v = [resume |-> n, pending |-> Fresh(st)]
                 \/ (n \in {"normalizer", "router"} \/ Fresh(st) = {}) /\ v \in Body(Full(st), n)
                 \/ /\ st.con = None /\ n \notin {"normalizer", "router"}
                    /\ \E b \in Body(Full(st), n) : v = [pending |-> Fresh(st)] ++ b
  BY WritesAre
<1>2. DOMAIN v \subseteq T
  <2>1. CASE WindowClosed(st, n) /\ v = BlockedWorkerUpdate(st, n)
    <3>1. DOMAIN v \subseteq {"status", "fault"}
      BY <2>1 DEF BlockedWorkerUpdate
    <3>2. n \in Workers \/ n = Composer
      BY <2>1 DEF WindowClosed, Agents
    <3>3. CASE n \in Workers
      <4>1. BodyFields(n) = {"status", "packets", "fault", "next"}
        BY <3>3, FieldsAre
      <4>2. QED
        BY <3>1, <4>1
    <3>4. CASE n = Composer
      <4>1. BodyFields(n) = {"raise", "status", "fault", "skeleton", "gate", "gateRoute", "workspace"}
        BY <3>4, FieldsAre
      <4>2. QED
        BY <3>1, <4>1
    <3>5. QED
      BY <3>2, <3>3, <3>4
  <2>2. CASE v = [resume |-> n, pending |-> Fresh(st)]
    BY <2>2
  <2>3. CASE v \in Body(Full(st), n)
    BY <2>3, BodyWithin
  <2>4. ASSUME NEW b \in Body(Full(st), n), v = [pending |-> Fresh(st)] ++ b
        PROVE  DOMAIN v \subseteq T
    <3>1. DOMAIN [pending |-> Fresh(st)] \subseteq T
      OBVIOUS
    <3>2. DOMAIN b \subseteq T
      BY BodyWithin
    <3> HIDE DEF T
    <3>3. QED
      BY <3>1, <3>2, <2>4, JoinedWithin
  <2>5. QED
    BY <1>1, <2>1, <2>2, <2>3, <2>4
<1>3. DOMAIN [deadline |-> TRUE] \subseteq T
  OBVIOUS
<1> HIDE DEF T
<1>4. DOMAIN (v ++ [deadline |-> TRUE]) \subseteq T
  BY <1>2, <1>3, JoinedWithin
<1>5. DOMAIN w \subseteq T
  BY <1>1, <1>2, <1>4 DEF Kept
<1>6. QED
  BY <1>5 DEF T

\* Only the normalizer says what it has applied, and it says all it was given.
LEMMA OthersApplyNothing ==
    ASSUME NEW st, NEW n \in Nodes \ {"normalizer"}, NEW w \in Writes(st, n)
    PROVE  "applied" \notin DOMAIN w
<1>1. "applied" \notin ResetFields /\ "applied" \notin GateFields
  BY DEF ResetFields, GateFields
<1>2. BodyFields("plan gate") = {"raise", "cancel", "decision", "sealed", "deadline", "edit",
          "edits"} \union ResetFields
  BY DEF BodyFields, Workers, Composer
<1>3. BodyFields("router") = {"pending", "rejected", "route", "resume", "edits",
          "decision"} \union ResetFields
  BY DEF BodyFields, Workers, Composer
<1>4. "applied" \notin BodyFields(n)
  <2>1. \/ n \in {"draft", "planner", "plan gate", "dispatcher", "finalizer", "router"} \union Workers
        \/ n = Composer
        \/ n \in {"candidate gate", "artifact gate"}
        \/ n \in {"fidelity gate", "quality gate", "projector"}
        \/ n \in {"clarifier", "brief", "geo", "weather", "summary", "budget"}
    BY NodesAre DEF Workers, Composer
  <2>2. CASE n \in {"plan gate", "router"}
    BY <2>2, <1>1, <1>2, <1>3
  <2>3. CASE n \in {"draft", "planner", "dispatcher", "finalizer"}
    <3>1. \/ BodyFields(n) = {"draft", "sealed", "deadline", "gaps", "dead", "attempts"}
          \/ BodyFields(n) = {"plan", "step", "scoped", "connector"}
          \/ BodyFields(n) = {"step", "next"}
          \/ BodyFields(n) = {"raise", "committed"}
      BY <2>3, FieldsAre
    <3>2. QED
      BY <3>1
  <2>4. CASE n \in Workers \/ n = Composer
    <3>1. \/ BodyFields(n) = {"status", "packets", "fault", "next"}
          \/ BodyFields(n) = {"raise", "status", "fault", "skeleton", "gate", "gateRoute", "workspace"}
      BY <2>4, FieldsAre
    <3>2. QED
      BY <3>1
  <2>5. CASE n \in {"candidate gate", "artifact gate", "fidelity gate", "quality gate", "projector"}
    <3>1. BodyFields(n) \in {GateFields, GateFields \union {"raise"}}
      BY <2>5, FieldsAre
    <3>2. QED
      BY <3>1, <1>1
  <2>6. CASE n \in {"clarifier", "brief", "geo", "weather", "summary", "budget"}
    <3>1. BodyFields(n) = {}
      BY <2>6, FieldsAre
    <3>2. QED
      BY <3>1
  <2>7. QED
    BY <2>1, <2>2, <2>3, <2>4, <2>5, <2>6
<1>5. QED
  BY <1>4, WritesWithin

\* The normalizer applies what was pending and what has just arrived.
LEMMA NormalizerApplies ==
    ASSUME NEW st, NEW w \in Writes(st, "normalizer"), "pending" \in DOMAIN st
    PROVE  "applied" \in DOMAIN w /\ w["applied"] = st.pending \union inbox
<1>1. PICK v :
              /\ w = Kept(st, v)
              /\ \/ WindowClosed(st, "normalizer") /\ v = BlockedWorkerUpdate(st, "normalizer")
                 \/ /\ st.con # None /\ Fresh(st) # {} /\ "normalizer" \notin {"normalizer", "router"}
                    /\ v = [resume |-> "normalizer", pending |-> Fresh(st)]
                 \/ ("normalizer" \in {"normalizer", "router"} \/ Fresh(st) = {}) /\ v \in Body(Full(st), "normalizer")
                 \/ /\ st.con = None /\ "normalizer" \notin {"normalizer", "router"}
                    /\ \E b \in Body(Full(st), "normalizer") : v = [pending |-> Fresh(st)] ++ b
  BY WritesAre
<1>2. ~WindowClosed(st, "normalizer")
  BY DEF WindowClosed, Agents, Workers, Composer
<1>3. v \in Normalizer(Full(st))
  BY <1>1, <1>2 DEF Body, Workers, Composer
<1>4. "applied" \in DOMAIN v /\ v["applied"] = Full(st).pending
  BY <1>3 DEF Normalizer
<1>5. Full(st).pending = st.pending \union inbox
  BY DEF Full, Fresh
<1>6. /\ DOMAIN (v ++ [deadline |-> TRUE]) = DOMAIN v \union DOMAIN [deadline |-> TRUE]
      /\ \A x \in DOMAIN v : (v ++ [deadline |-> TRUE])[x] = v[x]
  BY Joined
<1>7. QED
  BY <1>1, <1>4, <1>5, <1>6 DEF Kept

-----------------------------------------------------------------------------
(* The receipts of the supplements. *)

\* Where a supplement is whose receipt says applied.
Placed(a) ==
    \/ a \in s.applied
    \/ a \in torn
    \/ "normalizer" \in DOMAIN out /\ a \in out["normalizer"]["applied"]
    \/ "normalizer" \in Tasks \ DOMAIN out /\ a \in s.pending

\* Every supplement whose receipt says applied has a place; the user who cancels gives it
\* up.
SettledInv ==
    /\ "normalizer" \in DOMAIN out => "applied" \in DOMAIN out["normalizer"]
    /\ outcome \notin {"failed", "refused", "cancelled"} =>
         \A a \in Supplements : verdict[a] = "applied" => Placed(a)

\* What the merge of a superstep does to the applied supplements.
LEMMA AppliedBy ==
    ASSUME NEW n, NEW w, Settle(n, w), NEW a \in Supplements, verdict'[a] = "applied"
    PROVE  verdict[a] = "applied" \/ (a \in inbox /\ "applied" \in DOMAIN w /\ a \in w["applied"])
<1> DEFINE applied == IF "applied" \in DOMAIN w THEN w.applied \intersect inbox ELSE {}
           refused == IF "rejected" \in DOMAIN w THEN w.rejected ELSE {}
<1>1. verdict' = [b \in Supplements |->
                IF b \in applied THEN "applied"
                ELSE IF b \in refused /\ verdict[b] = "none" THEN "rejected" ELSE verdict[b]]
  BY Zenon DEF Settle
<1>2. a \in applied \/ verdict[a] = "applied"
  <2> HIDE DEF applied, refused
  <2>1. QED
    BY <1>1
<1>3. QED
  BY <1>2

LEMMA AppliedGrows ==
    ASSUME StateOK(s), NEW writes
    PROVE  /\ s.applied \subseteq Merge(s, writes).applied
           /\ \A n \in DOMAIN writes : "applied" \in DOMAIN writes[n] =>
                 writes[n]["applied"] \subseteq Merge(s, writes).applied
<1> DEFINE r == Merge(s, writes)
<1>1. "applied" \in DOMAIN s
  <2>1. DOMAIN s = DOMAIN InitState
    BY DEF StateOK
  <2>2. QED
    BY <2>1 DEF InitState
<1>2. r["applied"] = s["applied"] \union UNION {writes[n]["applied"] : n \in Wrote(writes, "applied")}
  BY <1>1, MergedSet
<1> HIDE DEF r
<1>3. \A n \in DOMAIN writes : "applied" \in DOMAIN writes[n] => n \in Wrote(writes, "applied")
  BY ToldIs
<1>4. \A n \in DOMAIN writes : "applied" \in DOMAIN writes[n] => writes[n]["applied"] \subseteq r["applied"]
  BY <1>2, <1>3
<1>5. s["applied"] \subseteq r["applied"]
  BY <1>2
<1>6. QED
  BY <1>4, <1>5 DEF r

\* The writes after the return of node n: those of n, and those that waited.
LEMMA WritesWithAre ==
    ASSUME NEW n, NEW w
    PROVE  /\ DOMAIN WritesWith(n, w) = {n} \union DOMAIN out
           /\ WritesWith(n, w)[n] = w
<1> DEFINE own == Entry(n, w)
<1>1. DOMAIN own = {n} /\ own[n] = w
  BY EntryIs
<1>2. WritesWith(n, w) = own ++ out
  BY Zenon DEF WritesWith
<1> HIDE DEF own
<1>3. DOMAIN (own ++ out) = DOMAIN own \union DOMAIN out
  BY Joined
<1>4. \A m \in DOMAIN own : (own ++ out)[m] = own[m]
  BY Joined
<1>5. QED
  BY <1>1, <1>2, <1>3, <1>4

LEMMA WaitingKept ==
    ASSUME NEW n, NEW w, NEW m \in DOMAIN out, m # n
    PROVE  WritesWith(n, w)[m] = out[m]
<1> DEFINE own == Entry(n, w)
<1>1. DOMAIN own = {n}
  BY EntryIs
<1>2. WritesWith(n, w) = own ++ out
  BY Zenon DEF WritesWith
<1> HIDE DEF own
<1>3. (own ++ out)[m] = out[m]
  <2>1. m \in DOMAIN out \ DOMAIN own
    BY <1>1
  <2>2. \A x \in DOMAIN out \ DOMAIN own : (own ++ out)[x] = out[x]
    BY Joined
  <2>3. QED
    BY <2>1, <2>2
<1>4. QED
  BY <1>2, <1>3

\* The end of a superstep, spelled out.
LEMMA EndClears == ASSUME NEW how, End(how) PROVE DOMAIN out' = {} /\ Tasks' = {}
<1>1. Superstep({})
  BY DEF End
<1>2. QED
  BY <1>1 DEF Superstep, Tasks

LEMMA NextStepIs ==
    ASSUME NEW writes, NEW targets, NEW now, NextStep(writes, targets, now)
    PROVE  /\ DOMAIN out' = {}
           /\ \/ Conflict(writes) /\ outcome' = "failed" /\ s' = s /\ Tasks' = {}
              \/ ~Conflict(writes) /\ outcome' = "refused" /\ s' = Merge(s, writes) /\ Tasks' = {}
              \/ /\ ~Conflict(writes) /\ s' = Merge(s, writes)
                 /\ "dispatcher" \notin Tasks /\ Tasks' # {} => Coherent(Merge(s, writes))
                 /\ clock' = IF Merge(s, writes).deadline /\ s.deadline THEN now ELSE 0
                 /\ Tasks' = UNION Range(targets)
                 /\ \A m \in Tasks' : at'[m] = "ready"
                 /\ outcome' = IF Tasks' # {} THEN outcome
                               ELSE IF Merge(s, writes).committed THEN "delivered" ELSE "halted"
<1> DEFINE st == Merge(s, writes)
           next == UNION Range(targets)
           fanOut == "dispatcher" \in Tasks /\ Cardinality(targets["dispatcher"]) > 1
           pulled == UNION {targets[n] : n \in DOMAIN targets \ (IF fanOut THEN {"dispatcher"} ELSE {})}
           carried == Merge(s, Entry("dispatcher", writes["dispatcher"]))
<1>1. CASE Conflict(writes)
  <2>1. End("failed") /\ UNCHANGED <<s, clock>>
    BY <1>1, Zenon DEF NextStep
  <2>2. QED
    BY <1>1, <2>1, EndOK, EndClears
<1>2. CASE ~Conflict(writes)
  <2>1. /\ s' = st
        /\ clock' = IF st.deadline /\ s.deadline THEN now ELSE 0
        /\ IF next = {}
           THEN End(IF st.committed THEN "delivered" ELSE "halted")
           ELSE IF pulled # {} /\ ~Coherent(st)
           THEN End("refused")
           ELSE /\ Superstep(next)
                /\ sent' = IF fanOut /\ carried # st THEN carried ELSE NoWrites
                /\ UNCHANGED outcome
    BY <1>2, Zenon DEF NextStep
  <2>5. ~fanOut => pulled = next
    BY DEF Range
  <2> HIDE DEF next, carried, fanOut, pulled
  <2>2. CASE next = {}
    <3> DEFINE how == IF st.committed THEN "delivered" ELSE "halted"
    <3>1. End(how)
      BY <2>1, <2>2
    <3>2. DOMAIN out' = {} /\ Tasks' = {} /\ outcome' = how
      <4> HIDE DEF how
      <4>1. QED
        BY <3>1, EndOK, EndClears
    <3>3. QED
      BY <1>2, <2>1, <2>2, <3>2 DEF next
  <2>3. CASE next # {} /\ pulled # {} /\ ~Coherent(st)
    <3>1. End("refused")
      BY <2>1, <2>3
    <3>2. DOMAIN out' = {} /\ Tasks' = {} /\ outcome' = "refused"
      BY <3>1, EndOK, EndClears
    <3>3. QED
      BY <1>2, <2>1, <3>2
  <2>4. CASE next # {} /\ ~(pulled # {} /\ ~Coherent(st))
    <3>1. Superstep(next) /\ UNCHANGED outcome
      BY <2>1, <2>4
    <3>2. DOMAIN out' = {} /\ Tasks' = next /\ \A m \in next : at'[m] = "ready"
      BY <3>1 DEF Superstep, Tasks
    <3>3. "dispatcher" \notin Tasks => Coherent(st)
      BY <2>4, <2>5 DEF fanOut
    <3>4. QED
      BY <1>2, <2>1, <2>4, <3>1, <3>2, <3>3 DEF next
  <2>6. QED
    BY <2>2, <2>3, <2>4
<1>3. QED
  BY <1>1, <1>2

\* A return keeps every such supplement in its place.
LEMMA SettledReturn ==
    ASSUME TypeInv, SettledInv, outcome = "running", NEW n \in Tasks, at[n] # "done",
           NEW w \in Writes(StateOf(n), n), NEW now, Return(n, w, now), torn' = torn
    PROVE  SettledInv'
<1> DEFINE writes == WritesWith(n, w)
           targets == TargetsWith(n, w, now)
           Held(a) == \/ a \in s.applied \/ a \in torn
                      \/ "normalizer" \in DOMAIN writes /\ a \in writes["normalizer"]["applied"]
                      \/ "normalizer" \in Tasks \ DOMAIN writes /\ a \in s.pending
<1>0. /\ n \in Nodes /\ DOMAIN out = {m \in Tasks : at[m] = "done"}
      /\ StateOK(s)
  BY DEF TypeInv, TasksOK
<1>1. CASE \E how \in {"failed", "refused", "cancelled"} : End(how)
  BY <1>1, EndOK, EndClears DEF SettledInv
<1>2. /\ DOMAIN writes = {n} \union DOMAIN out /\ writes[n] = w
      /\ \A m \in DOMAIN out : m # n => writes[m] = out[m]
  <2>1. DOMAIN writes = {n} \union DOMAIN out
    BY WritesWithAre
  <2>2. writes[n] = w
    BY WritesWithAre
  <2>3. ASSUME NEW m \in DOMAIN out, m # n PROVE writes[m] = out[m]
    BY <2>3, WaitingKept
  <2>4. QED
    BY <2>1, <2>2, <2>3, Zenon
<1>3. n = "normalizer" => "applied" \in DOMAIN w /\ w["applied"] = s.pending \union inbox
  <2> SUFFICES ASSUME n = "normalizer"
               PROVE  "applied" \in DOMAIN w /\ w["applied"] = s.pending \union inbox
    OBVIOUS
  <2>1. StateOf("normalizer") = [s EXCEPT !.now = clock]
    BY DEF StateOf, Agents, Workers, Composer
  <2>2. DOMAIN s = DOMAIN InitState /\ "pending" \in DOMAIN InitState
    BY <1>0 DEF StateOK, InitState
  <2>3. StateOf("normalizer").pending = s.pending /\ "pending" \in DOMAIN StateOf("normalizer")
    BY <2>1, <2>2
  <2>4. QED
    BY <2>3, NormalizerApplies
<1>4. "applied" \in DOMAIN w => n = "normalizer"
  BY <1>0, OthersApplyNothing
<1> HIDE DEF writes, targets
<1>5. "normalizer" \in DOMAIN writes => "applied" \in DOMAIN writes["normalizer"]
  BY <1>2, <1>3 DEF SettledInv
<1>6. ASSUME Settle(n, w), NEW a \in Supplements, verdict'[a] = "applied" PROVE Held(a)
  <2>1. CASE a \in inbox /\ "applied" \in DOMAIN w /\ a \in w["applied"]
    BY <2>1, <1>2, <1>4
  <2>2. CASE verdict[a] = "applied"
    <3>1. Placed(a)
      BY <2>2 DEF SettledInv
    <3>2. CASE "normalizer" \in DOMAIN out /\ a \in out["normalizer"]["applied"]
      <4>1. n # "normalizer"
        BY <3>2, <1>0
      <4>2. QED
        BY <3>2, <4>1, <1>2
    <3>3. CASE "normalizer" \in Tasks \ DOMAIN out /\ a \in s.pending
      <4>1. CASE n = "normalizer"
        BY <4>1, <3>3, <1>2, <1>3
      <4>2. CASE n # "normalizer"
        BY <4>2, <3>3, <1>2
      <4>3. QED
        BY <4>1, <4>2
    <3>4. QED
      BY <3>1, <3>2, <3>3 DEF Placed
  <2>3. QED
    BY <2>1, <2>2, <1>6, AppliedBy
<1>7. ASSUME Settle(n, w), \A m \in Tasks \ {n} : at[m] = "done", NextStep(writes, targets, now)
      PROVE  SettledInv'
  <2>1. DOMAIN out' = {} /\ (outcome' = "failed" \/ s' = Merge(s, writes))
    BY <1>7, NextStepIs, Zenon
  <2>2. Tasks \ DOMAIN writes = {}
    BY <1>0, <1>2, <1>7
  <2>3. /\ s.applied \subseteq Merge(s, writes).applied
        /\ \A m \in DOMAIN writes : "applied" \in DOMAIN writes[m] =>
              writes[m]["applied"] \subseteq Merge(s, writes).applied
    BY <1>0, AppliedGrows
  <2>4. ASSUME s' = Merge(s, writes), NEW a \in Supplements, verdict'[a] = "applied"
        PROVE  a \in s'.applied \/ a \in torn'
    <3>1. Held(a)
      BY <1>6, <1>7, <2>4
    <3>2. QED
      BY <3>1, <2>2, <2>3, <2>4, <1>5
  <2>5. QED
    BY <2>1, <2>4 DEF SettledInv, Placed
<1>8. ASSUME Settle(n, w), at' = [at EXCEPT ![n] = "done"], out' = writes, UNCHANGED <<s, outcome>>
      PROVE  SettledInv'
  <2>1. Tasks' = Tasks
    BY <1>8 DEF Tasks
  <2>2. \A a \in Supplements : verdict'[a] = "applied" => Held(a)
    BY <1>6, <1>8
  <2>3. \A a \in Supplements : verdict'[a] = "applied" => Placed(a)'
    BY <2>1, <2>2, <1>8 DEF Placed
  <2>4. QED
    BY <2>3, <1>5, <1>8 DEF SettledInv
<1>9. EdgeVerdict(n, w, now) # "running" => EdgeVerdict(n, w, now) \in {"failed", "refused"}
  BY VerdictIs
<1>10. QED
  BY <1>1, <1>7, <1>8, <1>9, ReturnIs DEF writes, targets

\* A task that runs is not done.
LEMMA RunsUndone == ASSUME NEW n, Runs(n) PROVE at[n] # "done"
  BY DEF Runs

\* A step that moves neither the state nor the writes keeps every supplement in place.
LEMMA SettledStands ==
    ASSUME SettledInv, Tasks' = Tasks, UNCHANGED <<s, out, verdict, outcome>>, torn \subseteq torn'
    PROVE  SettledInv'
<1>1. ASSUME NEW a, Placed(a) PROVE Placed(a)'
  BY <1>1 DEF Placed
<1>2. QED
  BY <1>1 DEF SettledInv

\* So do a crash after the receipts, which names what it tears, and every other step.
LEMMA SettledCrash ==
    ASSUME TypeInv, SettledInv, NEW n \in Nodes, CrashAfterSettling(n)
    PROVE  SettledInv'
<1>1. /\ n \in Tasks /\ at[n] # "done"
      /\ Restart
      /\ \E w \in Writes(StateOf(n), n) :
            Settle(n, w) /\ torn' = torn \union {a \in inbox \ s.pending : verdict'[a] = "applied"}
  BY DEF CrashAfterSettling
<1>2. PICK w \in Writes(StateOf(n), n) :
         Settle(n, w) /\ torn' = torn \union {a \in inbox \ s.pending : verdict'[a] = "applied"}
  BY <1>1
<1>3. Tasks' = Tasks /\ UNCHANGED <<s, out, outcome>>
  BY <1>1 DEF Restart, Tasks
<1>4. "applied" \in DOMAIN w => n = "normalizer"
  BY OthersApplyNothing
<1>5. DOMAIN out = {m \in Tasks : at[m] = "done"}
  BY DEF TypeInv, TasksOK
<1>6. ASSUME NEW a, Placed(a) PROVE Placed(a)'
  BY <1>2, <1>3, <1>6 DEF Placed
<1>7. ASSUME NEW a \in Supplements, verdict'[a] = "applied", outcome \notin {"failed", "refused", "cancelled"}
      PROVE  Placed(a)'
  <2>1. CASE verdict[a] = "applied"
    BY <2>1, <1>6, <1>7 DEF SettledInv
  <2>2. CASE a \in inbox /\ "applied" \in DOMAIN w
    <3>1. "normalizer" \in Tasks \ DOMAIN out
      BY <2>2, <1>1, <1>4, <1>5
    <3>2. a \in s.pending \/ a \in torn'
      BY <2>2, <1>2, <1>7
    <3>3. QED
      BY <3>1, <3>2, <1>3 DEF Placed
  <2>3. QED
    BY <2>1, <2>2, <1>2, <1>7, AppliedBy
<1>8. QED
  BY <1>3, <1>7 DEF SettledInv

LEMMA SettledInitially == ASSUME Init PROVE SettledInv
<1>1. out = <<>> /\ \A a \in Supplements : verdict[a] = "none"
  BY DEF Init
<1>2. QED
  BY <1>1 DEF SettledInv

LEMMA SettledKept == ASSUME TypeInv, SettledInv, [Next]_vars PROVE SettledInv'
<1>1. CASE Machine \/ Decide
  <2>1. ASSUME NEW n, Runs(n) PROVE SettledInv'
    <3>1. PICK w \in Writes(StateOf(n), n) : \E now \in Later : Return(n, w, now)
      BY <2>1, RunsIs
    <3>2. n \in Tasks /\ torn' = torn /\ outcome = "running" /\ at[n] # "done"
      BY <2>1, RunsIs, RunsUndone
    <3>3. QED
      BY <3>1, <3>2, SettledReturn
  <2>2. ASSUME NEW n, Seed(n) PROVE SettledInv'
    <3>1. at' = [at EXCEPT ![n] = "seeding"] /\ UNCHANGED <<s, out, verdict, outcome, torn>>
      BY <2>2 DEF Seed
    <3>2. Tasks' = Tasks
      BY <3>1 DEF Tasks
    <3>3. QED
      BY <3>1, <3>2, SettledStands
  <2>3. QED
    BY <1>1, <2>1, <2>2 DEF Machine, Step, Decide
<1>2. CASE Tick \/ Crash \/ Finished \/ UNCHANGED vars \/ (\E a \in Supplements : Arrive(a))
  <2>1. Tasks' = Tasks /\ UNCHANGED <<s, out, verdict, outcome, torn>>
    BY <1>2 DEF Tick, Arrive, Crash, Restart, Finished, vars, taskVars, Tasks
  <2>2. QED
    BY <2>1, SettledStands
<1>3. ASSUME NEW n \in Nodes, CrashAfterSettling(n) PROVE SettledInv'
  BY <1>3, SettledCrash
<1>4. QED
  BY <1>1, <1>2, <1>3 DEF Next

LEMMA SettledHold == Spec => [](TypeInv /\ SettledInv)
<1>1. Init => SettledInv
  BY SettledInitially
<1>2. TypeInv /\ SettledInv /\ [Next]_vars => SettledInv'
  BY SettledKept
<1>3. QED
  BY <1>1, <1>2, TypesHold, PTL DEF Spec

\* While its run has not failed, a supplement whose receipt says applied is in the contract
\* or on its way there, unless the process died between the receipt and the checkpoint, or
\* the user cancelled the run (with_run_control): with any number of supplements, lanes and
\* crashes.
THEOREM GraphSettled == Spec => [](outcome = "cancelled" \/ SupplementsSettled)
<1>1. SettledInv => outcome = "cancelled" \/ SupplementsSettled
  <2> SUFFICES ASSUME SettledInv, outcome \notin {"failed", "refused", "cancelled"},
                      NEW a \in Supplements, verdict[a] = "applied"
               PROVE  a \in UNION {s.applied, s.pending, torn,
                                   IF "normalizer" \in DOMAIN out THEN out["normalizer"].applied ELSE {}}
    BY DEF SupplementsSettled
  <2>1. Placed(a)
    BY DEF SettledInv
  <2>2. QED
    BY <2>1 DEF Placed
<1>2. QED
  BY <1>1, SettledHold, PTL

-----------------------------------------------------------------------------
(* One lane. *)

\* The tasks of a superstep are one node, or agents of one group.
OneLane == (\E n \in Nodes : Tasks \subseteq {n}) \/ Tasks \subseteq Agents

\* An edge leads to one node, unless it is the edge of the dispatcher.
LEMMA EdgeOne ==
    ASSUME NEW st, StateOK(st), NEW n \in Nodes \ {"clarifier", "normalizer", "router"}
    PROVE  \/ \E m : Edge(st, n) \subseteq {m}
           \/ n = "dispatcher" /\ Edge(st, n) \subseteq Plan[st.step]
<1>0. DOMAIN After = {"brief", "draft", "geo", "weather", "summary", "planner", "budget", "projector"}
  BY DEF After
<1>1. CASE n \in DOMAIN After
  <2>1. Edge(st, n) = {After[n]}
    BY <1>1, <1>0 DEF Edge, Agents, Workers, Composer
  <2>2. QED
    BY <2>1
<1>2. CASE n = "finalizer"
  BY <1>2, <1>0 DEF Edge, Agents, Workers, Composer
<1>3. CASE n = "plan gate"
  <2>1. Edge(st, n) \in {{"normalizer"}, {"dispatcher"}}
    BY <1>3, <1>0 DEF Edge, Agents, Workers, Composer
  <2>2. QED
    BY <2>1
<1>4. CASE n = "dispatcher"
  <2> DEFINE waiting == {a \in Plan[st.step] : st.status[a] \notin Done}
  <2>1. Edge(st, n) = DispatcherEdge(st)
    BY <1>4, <1>0 DEF Edge, Agents, Workers, Composer
  <2>2. DispatcherEdge(st) \in {{"candidate gate"}, waiting, {"artifact gate"}}
    BY DEF DispatcherEdge
  <2>3. waiting \subseteq Plan[st.step]
    OBVIOUS
  <2> HIDE DEF waiting
  <2>4. QED
    BY <1>4, <2>1, <2>2, <2>3
<1>5. CASE n \in Agents
  <2>1. Edge(st, n) \in {{}, {"dispatcher"}}
    BY <1>5, <1>0 DEF Edge, Agents, Workers, Composer
  <2>2. QED
    BY <2>1
<1>6. CASE n = "candidate gate"
  <2>1. Edge(st, n) = CandidateEdge(st)
    BY <1>6, <1>0 DEF Edge, Agents, Workers, Composer
  <2>2. CandidateEdge(st) \in {{"dispatcher"}, {Composer}, {st.gateRoute}}
    BY DEF CandidateEdge
  <2>3. QED
    BY <2>1, <2>2
<1>7. CASE n = "artifact gate"
  <2>1. Edge(st, n) = ArtifactEdge(st)
    BY <1>7, <1>0 DEF Edge, Agents, Workers, Composer
  <2>2. ArtifactEdge(st) \in {{"fidelity gate"}, {st.artifactRoute}}
    BY DEF ArtifactEdge
  <2>3. QED
    BY <2>1, <2>2
<1>8. CASE n = "fidelity gate"
  <2>1. Edge(st, n) = FidelityEdge(st)
    BY <1>8, <1>0 DEF Edge, Agents, Workers, Composer
  <2>2. QED
    BY <2>1 DEF FidelityEdge
<1>9. CASE n = "quality gate"
  <2>1. Edge(st, n) = QualityEdge(st)
    BY <1>9, <1>0 DEF Edge, Agents, Workers, Composer
  <2>2. QED
    BY <2>1 DEF QualityEdge
<1>10. QED
  <2>1. n \in DOMAIN After \union Agents \union {"finalizer", "plan gate", "dispatcher",
           "candidate gate", "artifact gate", "fidelity gate", "quality gate"}
    BY NodesAre, <1>0 DEF Agents, Workers, Composer
  <2>2. QED
    BY <2>1, <1>1, <1>2, <1>3, <1>4, <1>5, <1>6, <1>7, <1>8, <1>9

LEMMA TargetsOne ==
    ASSUME NEW st, StateOK(st), NEW n \in Nodes
    PROVE  \/ \E m : Targets(st, n) \subseteq {m}
           \/ Targets(st, n) \subseteq Plan[st.step]
<1>1. CASE n \in {"clarifier", "normalizer", "router"}
  <2>1. Targets(st, n) \in {{"normalizer"}, {"brief"}, {st.route}}
    BY <1>1 DEF Targets
  <2>2. QED
    BY <2>1
<1>2. CASE n \notin {"clarifier", "normalizer", "router"}
  <2>1. Targets(st, n) = IF st.pending # {} THEN {"router"} ELSE Edge(st, n)
    BY <1>2 DEF Targets
  <2>2. QED
    BY <2>1, <1>2, EdgeOne
<1>3. QED
  BY <1>1, <1>2

\* The agents report to the dispatcher.
LEMMA AgentTargets ==
    ASSUME NEW st, NEW n \in Agents, st.pending = {}
    PROVE  Targets(st, n) \subseteq {"dispatcher"}
<1>0. DOMAIN After = {"brief", "draft", "geo", "weather", "summary", "planner", "budget", "projector"}
  BY DEF After
<1>1. n \notin {"clarifier", "normalizer", "router"}
  BY DEF Agents, Workers, Composer
<1>2. Targets(st, n) = Edge(st, n)
  BY <1>1 DEF Targets
<1>3. Edge(st, n) \in {{}, {"dispatcher"}}
  BY <1>0 DEF Edge, Agents, Workers, Composer
<1>4. QED
  BY <1>2, <1>3

\* The state an edge reads is a state.
LEMMA EdgeStateOK ==
    ASSUME TypeInv, NEW n \in Nodes, NEW w, WriteOK(w), NEW now
    PROVE  StateOK(EdgeState(n, w, now))
<1> DEFINE merged == Merge(s, Entry(n, w))
<1>1. StateOK(merged)
  BY OneMergeOK DEF TypeInv
<1>2. EdgeState(n, w, now) = [merged EXCEPT !.now = now]
  BY Zenon DEF EdgeState
<1> HIDE DEF merged
<1>3. QED
  BY <1>1, <1>2, ClockRead

\* f is g with the value v at k.
Extended(f, k, v, g) ==
    /\ DOMAIN f = {k} \union DOMAIN g
    /\ f[k] = v
    /\ \A x \in DOMAIN g : x # k => f[x] = g[x]

\* One more entry.
LEMMA JoinedEntry ==
    ASSUME NEW k, NEW v, NEW g
    PROVE  Extended(Entry(k, v) ++ g, k, v, g)
<1> DEFINE e == Entry(k, v)
           f == e ++ g
<1>1. DOMAIN e = {k} /\ e[k] = v
  BY EntryIs
<1> HIDE DEF e
<1>2. DOMAIN f = DOMAIN e \union DOMAIN g
  BY Joined
<1>3. \A x \in DOMAIN e : f[x] = e[x]
  BY Joined
<1>4. \A x \in DOMAIN g \ DOMAIN e : f[x] = g[x]
  BY Joined
<1> HIDE DEF f
<1>5. Extended(f, k, v, g)
  BY <1>1, <1>2, <1>3, <1>4 DEF Extended
<1>6. QED
  BY <1>5 DEF e, f

LEMMA TargetsWithAre ==
    ASSUME NEW n, NEW w, NEW now
    PROVE  Extended(TargetsWith(n, w, now), n, Targets(EdgeState(n, w, now), n), to)
<1> DEFINE own == Targets(EdgeState(n, w, now), n)
<1>1. TargetsWith(n, w, now) = Entry(n, own) ++ to
  BY Zenon DEF TargetsWith
<1> HIDE DEF own
<1>2. Extended(Entry(n, own) ++ to, n, own, to)
  BY JoinedEntry
<1>3. Extended(TargetsWith(n, w, now), n, own, to)
  BY <1>1, <1>2, Zenon
<1>4. QED
  BY <1>3 DEF own

\* How a return moves the tasks on.
LEMMA TasksMove ==
    ASSUME TypeInv, NEW n \in Tasks \ DOMAIN out,
           NEW w \in Writes(StateOf(n), n), NEW now, Return(n, w, now)
    PROVE  LET targets == TargetsWith(n, w, now)
           IN  \/ Tasks' = {} /\ DOMAIN out' = {}
               \/ Tasks' = UNION Range(targets) /\ DOMAIN out' = {} /\ \A m \in Tasks \ {n} : at[m] = "done"
               \/ Tasks' = Tasks /\ to' = targets
<1> DEFINE targets == TargetsWith(n, w, now)
<1>1. CASE \E how : End(how)
  BY <1>1, EndClears
<1>2. ASSUME NEW writes, NextStep(writes, targets, now), \A m \in Tasks \ {n} : at[m] = "done"
      PROVE  /\ DOMAIN out' = {}
             /\ Tasks' = {} \/ Tasks' = UNION Range(targets)
             /\ \A m \in Tasks \ {n} : at[m] = "done"
  <2> HIDE DEF targets
  <2>1. QED
    BY <1>2, NextStepIs
<1>3. ASSUME at' = [at EXCEPT ![n] = "done"], to' = targets PROVE Tasks' = Tasks /\ to' = targets
  BY <1>3 DEF Tasks
<1> HIDE DEF targets
<1>4. QED
  BY <1>1, <1>2, <1>3, ReturnIs DEF targets

\* Where the plan has no group of two agents, no superstep has two tasks.
OneTask == \E n \in Nodes : Tasks \subseteq {n}

\* A task that is alone goes on to one node or to one group.
LEMMA AloneReturns ==
    ASSUME TypeInv, NEW n \in Tasks \ DOMAIN out, Tasks \subseteq {n},
           NEW w \in Writes(StateOf(n), n), NEW now, Return(n, w, now)
    PROVE  \/ Tasks' \subseteq {n}
           \/ \E m : Tasks' \subseteq {m}
           \/ \E i \in DOMAIN Plan : Tasks' \subseteq Plan[i]
<1> DEFINE st == EdgeState(n, w, now)
           targets == TargetsWith(n, w, now)
<1>1. n \in Nodes /\ DOMAIN to = {} /\ inbox \subseteq Supplements
  BY DEF TypeInv, TasksOK, ReceiptsOK
<1>3. StateOK(st)
  BY <1>1, StateOfOK, WritesOK, EdgeStateOK
<1>4. Extended(targets, n, Targets(st, n), to)
  BY TargetsWithAre
<1>5. \/ \E m : Targets(st, n) \subseteq {m}
      \/ Targets(st, n) \subseteq Plan[st.step]
  BY <1>1, <1>3, TargetsOne
<1>6. st.step \in DOMAIN Plan
  BY <1>3, StateIs
<1>7. Tasks' = {} \/ Tasks' = Tasks \/ Tasks' = UNION Range(targets)
  BY TasksMove
<1> HIDE DEF targets, st
<1>8. UNION Range(targets) = Targets(st, n)
  <2>1. DOMAIN targets = {n} /\ targets[n] = Targets(st, n)
    BY <1>1, <1>4 DEF Extended
  <2>2. QED
    BY <2>1 DEF Range
<1>9. QED
  BY <1>5, <1>6, <1>7, <1>8

LEMMA OneTaskReturns ==
    ASSUME TypeInv, TypeInv', OneTask, \A i \in DOMAIN Plan : \E a : Plan[i] = {a},
           NEW n \in Tasks \ DOMAIN out,
           NEW w \in Writes(StateOf(n), n), NEW now, Return(n, w, now)
    PROVE  OneTask'
<1>1. n \in Nodes /\ Tasks \subseteq {n}
  BY DEF OneTask
<1>2. \E m : Tasks' \subseteq {m}
  BY <1>1, AloneReturns
<1>3. Tasks' \subseteq Nodes
  BY DEF TypeInv, TasksOK
<1>4. QED
  BY <1>1, <1>2, <1>3 DEF OneTask

\* Without supplements the agents of a group come back to the dispatcher together.
LaneInvQuiet ==
    /\ OneLane
    /\ \A m \in DOMAIN to \intersect Agents : to[m] \subseteq {"dispatcher"}

\* Without supplements one lane stays one lane.
LEMMA QuietReturns ==
    ASSUME TypeInv, TypeInv', LaneInvQuiet, Supplements = {},
           NEW n \in Tasks \ DOMAIN out,
           NEW w \in Writes(StateOf(n), n), NEW now, Return(n, w, now)
    PROVE  LaneInvQuiet'
<1> DEFINE st == EdgeState(n, w, now)
           targets == TargetsWith(n, w, now)
<1>1. n \in Nodes /\ DOMAIN to = DOMAIN out /\ inbox \subseteq Supplements
      /\ DOMAIN out = {m \in Tasks : at[m] = "done"}
  BY DEF TypeInv, TasksOK, ReceiptsOK
<1>3. StateOK(st)
  BY <1>1, StateOfOK, WritesOK, EdgeStateOK
<1>4. Extended(targets, n, Targets(st, n), to)
  BY TargetsWithAre
<1>5. st.pending = {}
  BY <1>3, StateIs
<1>6. n \in Agents => Targets(st, n) \subseteq {"dispatcher"}
  BY <1>5, AgentTargets
<1>7. \/ Tasks' = {} /\ DOMAIN out' = {}
      \/ Tasks' = UNION Range(targets) /\ DOMAIN out' = {}
      \/ Tasks' = Tasks /\ to' = targets
  BY TasksMove
<1>8. DOMAIN to' = DOMAIN out' /\ Tasks' \subseteq Nodes
  BY DEF TypeInv, TasksOK
<1> HIDE DEF targets, st
<1>9. \A m \in DOMAIN to' \intersect Agents : to'[m] \subseteq {"dispatcher"}
  <2>1. ASSUME to' = targets, NEW m \in DOMAIN to' \intersect Agents PROVE to'[m] \subseteq {"dispatcher"}
    BY <2>1, <1>4, <1>6 DEF LaneInvQuiet, Extended
  <2>2. QED
    BY <2>1, <1>7, <1>8
<1>10. OneLane'
  <2>1. CASE \E m \in Nodes : Tasks \subseteq {m}
    <3>1. Tasks \subseteq {n}
      BY <2>1
    <3>2. \/ \E m : Tasks' \subseteq {m}
          \/ \E i \in DOMAIN Plan : Tasks' \subseteq Plan[i]
      BY <3>1, AloneReturns
    <3>3. \A i \in DOMAIN Plan : Plan[i] \subseteq Agents
      BY PlanIs
    <3>4. QED
      BY <3>2, <3>3, <1>1, <1>8 DEF OneLane
  <2>2. CASE Tasks \subseteq Agents
    <3>1. \A m \in DOMAIN targets : targets[m] \subseteq {"dispatcher"}
      BY <2>2, <1>1, <1>4, <1>6 DEF LaneInvQuiet, Extended
    <3>2. UNION Range(targets) \subseteq {"dispatcher"}
      BY <3>1 DEF Range
    <3>3. "dispatcher" \in Nodes
      BY NodesAre
    <3>4. QED
      BY <3>2, <3>3, <2>2, <1>7 DEF OneLane
  <2>3. QED
    BY <2>1, <2>2 DEF LaneInvQuiet, OneLane
<1>11. QED
  BY <1>9, <1>10 DEF LaneInvQuiet

\* A step that is no return of a node leaves the tasks and their targets.
LEMMA TasksStay ==
    ASSUME TypeInv, [Next]_vars
    PROVE  \/ /\ Tasks' = Tasks /\ UNCHANGED <<s, out, to, sent, outcome>>
              /\ clock' = clock \/ clock' = clock + 1
           \/ /\ outcome = "running"
              /\ \E n \in Tasks \ DOMAIN out :
                   \E w \in Writes(StateOf(n), n) : \E now \in Later : Return(n, w, now)
<1>1. ASSUME NEW n, Runs(n)
      PROVE  /\ outcome = "running" /\ n \in Tasks \ DOMAIN out
             /\ \E w \in Writes(StateOf(n), n) : \E now \in Later : Return(n, w, now)
  <2>1. n \in Tasks /\ at[n] # "done"
    BY <1>1, RunsIs, RunsUndone
  <2>2. DOMAIN out = {m \in Tasks : at[m] = "done"}
    BY DEF TypeInv, TasksOK
  <2>3. n \in Tasks \ DOMAIN out
    BY <2>1, <2>2
  <2>4. QED
    BY <2>3, <1>1, RunsIs
<1>2. ASSUME NEW n, Seed(n) PROVE Tasks' = Tasks /\ UNCHANGED <<s, out, to, sent, clock, outcome>>
  BY <1>2 DEF Seed, Tasks
<1>3. CASE Tick \/ Crash \/ Finished \/ UNCHANGED vars \/ (\E a \in Supplements : Arrive(a))
  BY <1>3 DEF Tick, Arrive, Crash, Restart, Finished, vars, taskVars, Tasks
<1>4. ASSUME NEW n \in Nodes, CrashAfterSettling(n)
      PROVE  Tasks' = Tasks /\ UNCHANGED <<s, out, to, sent, clock, outcome>>
  BY <1>4 DEF CrashAfterSettling, Restart, Tasks
<1>5. CASE Machine \/ Decide
  BY <1>5, <1>1, <1>2 DEF Machine, Step, Decide
<1>6. QED
  BY <1>3, <1>4, <1>5 DEF Next

\* The first task.
LEMMA FirstTask == ASSUME Init PROVE Tasks = {"clarifier"} /\ DOMAIN to = {}
<1>1. DOMAIN at = {"clarifier"} /\ to = <<>>
  BY EntryIs DEF Init
<1>2. QED
  BY <1>1 DEF Tasks

\* A run without supplements stays in one lane: whatever the workers of a group return, and
\* in whatever order, they come back to the dispatcher together (with_run_control, the
\* edges of build_travel_workflow).
THEOREM GraphQuietLane == ASSUME Supplements = {} PROVE Spec => []OneLane
<1>1. Init => LaneInvQuiet
  <2>1. "clarifier" \in Nodes
    BY NodesAre
  <2>2. QED
    BY <2>1, FirstTask DEF LaneInvQuiet, OneLane
<1>2. TypeInv /\ TypeInv' /\ LaneInvQuiet /\ [Next]_vars => LaneInvQuiet'
  <2> SUFFICES ASSUME TypeInv, TypeInv', LaneInvQuiet, [Next]_vars PROVE LaneInvQuiet'
    OBVIOUS
  <2>1. CASE Tasks' = Tasks /\ UNCHANGED <<s, out, to, sent, outcome>>
    BY <2>1 DEF LaneInvQuiet, OneLane
  <2>2. QED
    BY <2>1, TasksStay, QuietReturns
<1>3. LaneInvQuiet => OneLane
  BY DEF LaneInvQuiet
<1>4. QED
  BY <1>1, <1>2, <1>3, TypesHold, PTL DEF Spec

\* A plan that starts one agent at a time keeps its run in one lane, whatever supplements
\* arrive.
THEOREM GraphSingleLane ==
    ASSUME \A i \in DOMAIN Plan : \E a : Plan[i] = {a}
    PROVE  Spec => []OneLane
<1>1. Init => OneTask
  <2>1. "clarifier" \in Nodes
    BY NodesAre
  <2>2. QED
    BY <2>1, FirstTask DEF OneTask
<1>2. TypeInv /\ TypeInv' /\ OneTask /\ [Next]_vars => OneTask'
  <2> SUFFICES ASSUME TypeInv, TypeInv', OneTask, [Next]_vars PROVE OneTask'
    OBVIOUS
  <2>1. CASE Tasks' = Tasks /\ UNCHANGED <<s, out, to, sent, outcome>>
    BY <2>1 DEF OneTask
  <2>2. QED
    BY <2>1, TasksStay, OneTaskReturns
<1>3. OneTask => OneLane
  BY DEF OneTask, OneLane
<1>4. QED
  BY <1>1, <1>2, <1>3, TypesHold, PTL DEF Spec

-----------------------------------------------------------------------------
(* The course of a task that is alone. *)

\* What a field holds after a task that ran alone has returned w.
Written(st, w, f) == IF f \in DOMAIN w THEN w[f] ELSE st[f]

\* The fields that say where the run stands and what it works on.
Course ==
    {"con", "draft", "plan", "sealed", "workspace", "resume", "pending", "route", "decision",
     "gateRoute", "artifactRoute", "fidelityRoute", "qualityRoute", "next", "edits", "planRevision"}

\* These fields have no reducer of their own.
LEMMA CourseIs ==
    /\ Course \subseteq DOMAIN InitState
    /\ Course \intersect {"status", "packets", "applied", "rejected", "committed", "now", "deadline"} = {}
  BY DEF Course, InitState

LEMMA WrittenAlone ==
    ASSUME NEW st, NEW n \in Nodes, NEW w, NEW writes, DOMAIN writes = {n}, writes[n] = w,
           NEW f \in DOMAIN st, f \notin {"status", "packets", "applied", "rejected", "committed"}
    PROVE  Merge(st, writes)[f] = Written(st, w, f)
<1>1. \/ /\ \A m \in DOMAIN writes : f \notin DOMAIN writes[m]
         /\ Merge(st, writes)[f] = st[f]
      \/ \E m \in DOMAIN writes : f \in DOMAIN writes[m] /\ Merge(st, writes)[f] = writes[m][f]
  BY MergedPlain
<1>2. QED
  BY <1>1 DEF Written

\* A field nobody wrote stays.
LEMMA UnwrittenStays ==
    ASSUME NEW st, NEW writes, NEW f \in DOMAIN st, \A n \in DOMAIN writes : f \notin DOMAIN writes[n]
    PROVE  Merge(st, writes)[f] = st[f]
<1>1. Wrote(writes, f) = {}
  BY DEF Wrote
<1>2. QED
  BY <1>1, MergedFields

\* A run is completed by a node that says so.
LEMMA CommittedBy ==
    ASSUME NEW st, "committed" \in DOMAIN st, NEW writes, Merge(st, writes)["committed"], ~st["committed"]
    PROVE  \E n \in DOMAIN writes : "committed" \in DOMAIN writes[n] /\ writes[n]["committed"] = TRUE
<1> DEFINE f == "committed"
<1>1. Merge(st, writes)[f] =
         IF Wrote(writes, f) = {} THEN st[f] ELSE Reduce(f, st[f], Told(writes, f))
  BY MergedFields
<1>2. Wrote(writes, f) # {}
  <2> SUFFICES ASSUME Wrote(writes, f) = {} PROVE FALSE
    OBVIOUS
  <2>1. Merge(st, writes)[f] = st[f]
    BY <1>1
  <2>2. QED
    BY <2>1
<1>3. Reduce(f, st[f], Told(writes, f)) = (st[f] \/ TRUE \in Range(Told(writes, f)))
  BY DEF Reduce
<1>4. Merge(st, writes)[f] = (st[f] \/ TRUE \in Range(Told(writes, f)))
  BY <1>1, <1>2, <1>3
<1>5. TRUE \in Range(Told(writes, f))
  BY <1>4, Zenon
<1>6. \E n \in Wrote(writes, f) : Told(writes, f)[n] = TRUE
  BY <1>5, ToldIs DEF Range
<1>7. QED
  BY <1>6, ToldIs

\* What a node returns besides the deadline it has observed.
LEMMA KeptIs ==
    ASSUME NEW st, NEW v, NEW f, f # "deadline"
    PROVE  /\ f \in DOMAIN Kept(st, v) <=> f \in DOMAIN v
           /\ f \in DOMAIN v => Kept(st, v)[f] = v[f]
<1> DEFINE d == [deadline |-> TRUE]
<1>1. DOMAIN d = {"deadline"}
  OBVIOUS
<1> HIDE DEF d
<1>2. DOMAIN (v ++ d) = DOMAIN v \union DOMAIN d
  BY Joined
<1>3. \A x \in DOMAIN v : (v ++ d)[x] = v[x]
  BY Joined
<1>4. Kept(st, v) \in {v, v ++ d}
  BY DEF Kept, d
<1>5. QED
  BY <1>1, <1>2, <1>3, <1>4

\* The deadline a boundary keeps does not touch them.
LEMMA KeptWritten ==
    ASSUME NEW st, NEW v, NEW read, NEW f, f # "deadline"
    PROVE  Written(st, Kept(read, v), f) = Written(st, v, f)
<1>1. /\ f \in DOMAIN Kept(read, v) <=> f \in DOMAIN v
      /\ f \in DOMAIN v => Kept(read, v)[f] = v[f]
  BY KeptIs
<1> DEFINE k == Kept(read, v)
<1> HIDE DEF k
<1>2. Written(st, k, f) = Written(st, v, f)
  BY <1>1 DEF Written, k
<1>3. QED
  BY <1>2 DEF k

LEMMA JoinedNothing ==
    ASSUME NEW k, NEW v, NEW g, DOMAIN g = {}
    PROVE  Entry(k, v) ++ g = Entry(k, v)
<1> DEFINE one(p) == [x \in DOMAIN p[1] \union DOMAIN p[2] |->
                        IF x \in DOMAIN p[1] THEN p[1][x] ELSE p[2][x]]
           e == Entry(k, v)
<1>1. DOMAIN e = {k} /\ e[k] = v
  BY EntryIs
<1>2. e = [x \in {k} |-> v]
  BY DEF Entry
<1>3. one(<<e, g>>) = [x \in {k} |-> v]
  <2> HIDE DEF e
  <2>1. one(<<e, g>>) = [x \in DOMAIN e \union DOMAIN g |-> IF x \in DOMAIN e THEN e[x] ELSE g[x]]
    OBVIOUS
  <2>2. QED
    BY <2>1, <1>1
<1>4. e ++ g = one(<<e, g>>)
  <2> HIDE DEF e
  <2>1. {[x \in DOMAIN p[1] \union DOMAIN p[2] |->
                    IF x \in DOMAIN p[1] THEN p[1][x] ELSE p[2][x]] : p \in {<<e, g>>}} = {one(<<e, g>>)}
    <3>1. {one(p) : p \in {<<e, g>>}} = {one(<<e, g>>)}
      <4> HIDE DEF one
      <4>1. QED
        BY Zenon
    <3>2. QED
      BY <3>1, Zenon
  <2>2. QED
    BY <2>1, Zenon DEF ++
<1>5. QED
  BY <1>2, <1>3, <1>4, Zenon

\* The Sends carry another state only if the dispatcher was not alone.
LEMMA SentIs ==
    ASSUME NEW writes, NEW targets, NEW now, NextStep(writes, targets, now),
           \/ "dispatcher" \notin Tasks
           \/ Entry("dispatcher", writes["dispatcher"]) = writes
    PROVE  sent' = NoWrites
<1> DEFINE st == Merge(s, writes)
           next == UNION Range(targets)
           fanOut == "dispatcher" \in Tasks /\ Cardinality(targets["dispatcher"]) > 1
           pulled == UNION {targets[n] : n \in DOMAIN targets \ (IF fanOut THEN {"dispatcher"} ELSE {})}
           carried == Merge(s, Entry("dispatcher", writes["dispatcher"]))
<1>1. CASE Conflict(writes)
  <2>1. End("failed")
    BY <1>1, Zenon DEF NextStep
  <2>2. QED
    BY <2>1, EndOK
<1>2. CASE ~Conflict(writes)
  <2>1. IF next = {}
        THEN End(IF st.committed THEN "delivered" ELSE "halted")
        ELSE IF pulled # {} /\ ~Coherent(st)
        THEN End("refused")
        ELSE /\ Superstep(next)
             /\ sent' = IF fanOut /\ carried # st THEN carried ELSE NoWrites
             /\ UNCHANGED outcome
    BY <1>2, Zenon DEF NextStep
  <2>2. ~(fanOut /\ carried # st)
    BY Zenon
  <2>3. CASE next = {}
    <3> DEFINE how == IF st.committed THEN "delivered" ELSE "halted"
    <3>1. End(how)
      BY <2>1, <2>3
    <3> HIDE DEF how
    <3>2. QED
      BY <3>1, EndOK
  <2>4. CASE next # {} /\ pulled # {} /\ ~Coherent(st)
    <3>1. End("refused")
      BY <2>1, <2>4, Zenon
    <3>2. QED
      BY <3>1, EndOK
  <2>6. CASE next # {} /\ ~(pulled # {} /\ ~Coherent(st))
    <3> HIDE DEF next, fanOut, carried, st, pulled
    <3>1. QED
      BY <2>1, <2>2, <2>6
  <2>5. QED
    BY <2>3, <2>4, <2>6
<1>3. QED
  BY <1>1, <1>2

\* The fields a task alone in its superstep decides.
Plain == DOMAIN InitState \ {"status", "packets", "applied", "rejected", "committed", "now"}

LEMMA PlainIs ==
    /\ Plain \subseteq DOMAIN InitState
    /\ Course \union {"deadline", "catalog", "selection", "repairs"} \subseteq Plain
  BY DEF Plain, Course, InitState

LEMMA WrittenPlain ==
    ASSUME NEW st, DOMAIN st = DOMAIN InitState, NEW n \in Nodes, NEW w, NEW writes, DOMAIN writes = {n},
           writes[n] = w, NEW f \in Plain
    PROVE  Merge(st, writes)[f] = Written(st, w, f)
<1>1. f \in DOMAIN st /\ f \notin {"status", "packets", "applied", "rejected", "committed"}
  BY DEF Plain
<1>2. \/ /\ \A m \in DOMAIN writes : f \notin DOMAIN writes[m]
         /\ Merge(st, writes)[f] = st[f]
      \/ \E m \in DOMAIN writes : f \in DOMAIN writes[m] /\ Merge(st, writes)[f] = writes[m][f]
  BY <1>1, MergedPlain
<1>3. QED
  BY <1>2 DEF Written

\* What the validator looks at.
LEMMA CoherentSame ==
    ASSUME NEW st, NEW other, \A f \in Plain : other[f] = st[f], Coherent(st)
    PROVE  Coherent(other)
<1>1. {"con", "plan", "selection", "catalog", "draft", "planRevision", "edits", "deadline", "sealed"}
         \subseteq Plain
  BY DEF Plain, InitState
<1>2. /\ other["con"] = st["con"] /\ other["plan"] = st["plan"]
      /\ other["selection"] = st["selection"] /\ other["catalog"] = st["catalog"]
      /\ other["draft"] = st["draft"]
  BY <1>1
<1>3. /\ other["planRevision"] = st["planRevision"] /\ other["edits"] = st["edits"]
      /\ other["deadline"] = st["deadline"] /\ other["sealed"] = st["sealed"]
  BY <1>1
<1>4. QED
  BY <1>2, <1>3 DEF Coherent

\* A task that was alone has returned, and the run ends with that: it failed because the
\* task raised or its router knew no way on.
Stops(n, w) ==
    /\ outcome' \in {"failed", "cancelled", "refused"} /\ Tasks' = {} /\ DOMAIN out' = {}
    /\ sent' = NoWrites
    /\ outcome' = "failed" => UNCHANGED <<s, clock>> /\ (Raises(w) \/ n = "router")

\* Or it goes where the edge of the task leads.

Moves(n, w, now) ==
    /\ ~Raises(w) /\ ~Cancels(w)
    /\ DOMAIN out' = {} /\ sent' = NoWrites
    /\ \A f \in Plain : s'[f] = Written(s, w, f)
    /\ clock' = IF s'.deadline /\ s.deadline THEN now ELSE 0
    /\ \E x : /\ StateOK(x) /\ x.now = now
              /\ \A f \in Plain : x[f] = Written(s, w, f)
              /\ Tasks' = Targets(x, n)
              /\ Verdict(n, x) = "running"
    /\ Tasks' # {} => Coherent(s')
    /\ outcome' = IF Tasks' # {} THEN outcome ELSE IF s'.committed THEN "delivered" ELSE "halted"
    /\ s'["committed"] => s["committed"] \/ ("committed" \in DOMAIN w /\ w["committed"] = TRUE)

\* What becomes of the course when a task alone returns w.
LEMMA AloneStep ==
    ASSUME TypeInv, NEW n \in Nodes \ DOMAIN out, Tasks = {n},
           NEW w, WriteOK(w), NEW now, Return(n, w, now)
    PROVE  Stops(n, w) \/ Moves(n, w, now)
<1> DEFINE writes == WritesWith(n, w)
           targets == TargetsWith(n, w, now)
           st == EdgeState(n, w, now)
<1>1. /\ DOMAIN out = {} /\ DOMAIN to = {}
      /\ StateOK(s) /\ DOMAIN s = DOMAIN InitState
  BY DEF TypeInv, TasksOK, StateOK
<1>2. DOMAIN writes = {n} /\ writes[n] = w /\ writes = Entry(n, w)
  <2>1. DOMAIN writes = {n} \union DOMAIN out
    BY WritesWithAre
  <2>2. writes[n] = w
    BY WritesWithAre
  <2>3. writes = Entry(n, w) ++ out
    BY Zenon DEF WritesWith
  <2> HIDE DEF writes
  <2>4. QED
    BY <1>1, <2>1, <2>2, <2>3, JoinedNothing
<1>3. CASE \/ Raises(w) /\ End("failed") /\ UNCHANGED <<s, clock>>
           \/ Cancels(w) /\ End("cancelled") /\ UNCHANGED <<s, clock>>
  BY <1>3, EndOK, EndClears DEF Stops
<1>11. ASSUME NEW how \in {"failed", "refused"}, how = "failed" => n = "router", End(how),
              UNCHANGED <<s, clock>>
       PROVE  Stops(n, w)
  BY <1>11, EndOK, EndClears DEF Stops
<1>4. StateOK(st) /\ st.now = now
  <2>1. StateOK(st)
    BY EdgeStateOK
  <2>2. "now" \in DOMAIN Merge(s, Entry(n, w))
    <3>1. DOMAIN Merge(s, Entry(n, w)) = DOMAIN InitState
      BY <1>1, MergedFields
    <3>2. QED
      BY <3>1 DEF InitState
  <2> DEFINE merged == Merge(s, Entry(n, w))
  <2>3. st = [merged EXCEPT !.now = now]
    BY Zenon DEF EdgeState
  <2> HIDE DEF merged, st
  <2>4. st.now = now
    BY <2>2, <2>3 DEF merged
  <2>5. QED
    BY <2>1, <2>4 DEF st
<1>5. \A f \in Plain : st[f] = Written(s, w, f)
  <2> SUFFICES ASSUME NEW f \in Plain PROVE st[f] = Written(s, w, f)
    OBVIOUS
  <2> DEFINE e == Entry(n, w)
             merged == Merge(s, e)
  <2>1. f \in DOMAIN s /\ f # "now" /\ f \notin {"status", "packets", "applied", "rejected", "committed"}
    BY <1>1 DEF Plain
  <2>3. DOMAIN e = {n} /\ e[n] = w
    BY EntryIs
  <2>4. st = [merged EXCEPT !.now = now]
    BY Zenon DEF EdgeState
  <2> HIDE DEF e
  <2>5. merged[f] = Written(s, w, f)
    <3>1. DOMAIN s = DOMAIN InitState
      BY <1>1
    <3>2. n \in Nodes
      OBVIOUS
    <3>3. QED
      BY <3>1, <3>2, <2>3, WrittenPlain
  <2>6. DOMAIN merged = DOMAIN s
    BY MergedFields
  <2> HIDE DEF merged, st
  <2>7. st[f] = merged[f]
    <3>1. f # "now" /\ f \in DOMAIN merged
      BY <2>1, <2>6
    <3>2. QED
      BY <2>4, <3>1
  <2>8. QED
    BY <2>5, <2>7
<1>6. Extended(targets, n, Targets(st, n), to)
  BY TargetsWithAre
<1> HIDE DEF targets, st
<1>7. UNION Range(targets) = Targets(st, n)
  <2>1. DOMAIN targets = {n} /\ targets[n] = Targets(st, n)
    BY <1>1, <1>6 DEF Extended
  <2>2. QED
    BY <2>1 DEF Range
<1> HIDE DEF writes
<1>12. EdgeVerdict(n, w, now) = Verdict(n, st)
  BY Zenon DEF EdgeVerdict, st
<1>8. ASSUME ~Raises(w), ~Cancels(w), NextStep(writes, targets, now),
             EdgeVerdict(n, w, now) = "running"
      PROVE  Stops(n, w) \/ Moves(n, w, now)
  <2>1. sent' = NoWrites
    <3>1. "dispatcher" \in Tasks => Entry("dispatcher", writes["dispatcher"]) = writes
      BY <1>2
    <3>2. QED
      BY <3>1, <1>8, SentIs
  <2>9. CASE outcome' = "refused" /\ Tasks' = {} /\ DOMAIN out' = {}
    BY <2>1, <2>9 DEF Stops
  <2> SUFFICES ASSUME ~(outcome' = "refused" /\ Tasks' = {} /\ DOMAIN out' = {})
               PROVE  Moves(n, w, now)
    BY <2>9
  <2>2. /\ DOMAIN out' = {}
        /\ s' = Merge(s, writes)
        /\ clock' = IF Merge(s, writes).deadline /\ s.deadline THEN now ELSE 0
        /\ Tasks' = UNION Range(targets)
        /\ outcome' = IF Tasks' # {} THEN outcome
                      ELSE IF Merge(s, writes).committed THEN "delivered" ELSE "halted"
        /\ "dispatcher" \notin Tasks /\ Tasks' # {} => Coherent(Merge(s, writes))
    <3>1. ~Conflict(writes)
      BY <1>2 DEF Conflict
    <3>2. QED
      BY <3>1, <1>8, NextStepIs
  <2>3. \A f \in Plain : s'[f] = Written(s, w, f)
    <3> SUFFICES ASSUME NEW f \in Plain PROVE s'[f] = Written(s, w, f)
      OBVIOUS
    <3>1. DOMAIN writes = {n} /\ writes[n] = w /\ n \in Nodes
      BY <1>2
    <3>2. Merge(s, writes)[f] = Written(s, w, f)
      BY <1>1, <3>1, WrittenPlain, SMTT(30)
    <3>3. QED
      BY <2>2, <3>2
  <2>4. ASSUME s'["committed"], ~s["committed"]
        PROVE  "committed" \in DOMAIN w /\ w["committed"] = TRUE
    <3>1. "committed" \in DOMAIN s
      BY <1>1 DEF InitState
    <3>2. \E m \in DOMAIN writes : "committed" \in DOMAIN writes[m] /\ writes[m]["committed"] = TRUE
      BY <2>2, <2>4, <3>1, CommittedBy
    <3>3. QED
      BY <3>2, <1>2
  <2>5. \E x : /\ StateOK(x) /\ x.now = now
               /\ (\A f \in Plain : x[f] = Written(s, w, f))
               /\ Tasks' = Targets(x, n)
               /\ Verdict(n, x) = "running"
    BY <1>8, <2>2, <1>4, <1>5, <1>7, <1>12, Zenon
  <2>6. outcome' = IF Tasks' # {} THEN outcome ELSE IF s'.committed THEN "delivered" ELSE "halted"
    BY <2>2, Zenon
  <2>7. clock' = IF s'.deadline /\ s.deadline THEN now ELSE 0
    BY <2>2, Zenon
  <2>10. Tasks' # {} => Coherent(s')
    <3>1. CASE n = "dispatcher"
      <4>1. Coherent(st)
        BY <1>8, <1>12, <3>1 DEF Verdict
      <4>2. \A f \in Plain : s'[f] = st[f]
        BY <1>5, <2>3
      <4>3. QED
        BY <4>1, <4>2, CoherentSame
    <3>2. CASE n # "dispatcher"
      <4>1. "dispatcher" \notin Tasks
        BY <3>2
      <4>2. QED
        BY <2>2, <4>1
    <3>3. QED
      BY <3>1, <3>2
  <2>8. QED
    BY <1>8, <2>1, <2>2, <2>3, <2>4, <2>5, <2>6, <2>7, <2>10 DEF Moves
<1>9. \/ Raises(w) /\ End("failed") /\ UNCHANGED <<s, clock>>
      \/ Cancels(w) /\ End("cancelled") /\ UNCHANGED <<s, clock>>
      \/ /\ EdgeVerdict(n, w, now) # "running"
         /\ End(EdgeVerdict(n, w, now)) /\ UNCHANGED <<s, clock>>
      \/ /\ ~Raises(w) /\ ~Cancels(w) /\ EdgeVerdict(n, w, now) = "running"
         /\ NextStep(writes, targets, now)
  <2>1. ~ \E m \in Tasks \ {n} : at[m] # "done"
    OBVIOUS
  <2>2. QED
    BY <2>1, ReturnIs, Zenon DEF writes, targets
<1>13. CASE /\ EdgeVerdict(n, w, now) # "running"
            /\ End(EdgeVerdict(n, w, now)) /\ UNCHANGED <<s, clock>>
  <2> DEFINE how == EdgeVerdict(n, w, now)
  <2>1. how \in {"running", "failed", "refused"} /\ (how = "failed" => n = "router")
    BY VerdictIs
  <2>2. how # "running" /\ End(how) /\ UNCHANGED <<s, clock>>
    BY <1>13
  <2> HIDE DEF how
  <2>3. QED
    BY <2>1, <2>2, <1>11
<1>10. QED
  BY <1>3, <1>8, <1>9, <1>13

-----------------------------------------------------------------------------
(* The approval in one lane. *)

\* The nodes before the approval gate with the gate, and those behind it.
Chain == {"clarifier", "normalizer", "brief", "draft", "geo", "weather", "summary", "planner", "plan gate"}
AfterGate ==
    Agents \union {"dispatcher", "candidate gate", "artifact gate", "fidelity gate",
                   "quality gate", "budget", "projector", "finalizer"}

\* The contract in force was drafted, planned and sealed, and nothing is composed for another.
Approved(st) ==
    /\ st.sealed = TRUE /\ st.draft = st.con /\ st.plan = st.con
    /\ st.workspace \in {None, st.con}

\* Node n is a task, or the router will go on to it.
Due(st, tasks, n) == n \in tasks \/ ("router" \in tasks /\ st.resume = n)

\* What a run in one lane may rely on.
LaneAt(st, tasks) ==
    /\ \A n \in AfterGate : Due(st, tasks, n) => Approved(st)
    /\ \A n \in Chain : Due(st, tasks, n) => st.workspace = None
    /\ "router" \in tasks => st.workspace = None \/ Approved(st)
    /\ Due(st, tasks, "finalizer") => st.workspace = st.con
    /\ Due(st, tasks, "clarifier") => st.con = None
    /\ st.resume # "none" => tasks = {"router"}
    /\ st.pending # {} => tasks \subseteq {"router", "normalizer"}
    /\ st.con = None => tasks \subseteq {"clarifier", "normalizer"}

\* st is old after a task alone has returned v.
Moved(old, v, st) == \A f \in Course : st[f] = Written(old, v, f)

\* The fields of the course after such a task.
LEMMA MovedFields ==
    ASSUME NEW old, NEW v, NEW st, Moved(old, v, st), NEW f \in Course
    PROVE  /\ f \notin DOMAIN v => st[f] = old[f]
           /\ f \in DOMAIN v => st[f] = v[f]
<1>1. st[f] = Written(old, v, f)
  BY DEF Moved
<1>2. QED
  BY <1>1 DEF Written

\* A task that did not touch the contract, its draft, its plan and the seal.
LEMMA MovedOn ==
    ASSUME NEW old, NEW v, NEW st, Moved(old, v, st)
    PROVE  /\ "con" \notin DOMAIN v => st.con = old.con
           /\ "draft" \notin DOMAIN v => st.draft = old.draft
           /\ "plan" \notin DOMAIN v => st.plan = old.plan
           /\ "sealed" \notin DOMAIN v => st.sealed = old.sealed
           /\ "workspace" \notin DOMAIN v => st.workspace = old.workspace
           /\ "resume" \notin DOMAIN v => st.resume = old.resume
           /\ "pending" \notin DOMAIN v => st.pending = old.pending
<1>1. {"con", "draft", "plan", "sealed", "workspace", "resume", "pending"} \subseteq Course
  BY DEF Course
<1>2. QED
  BY <1>1, MovedFields

\* Where the nodes stand.
LEMMA PlacesAre ==
    /\ Chain \intersect AfterGate = {} /\ "clarifier" \in Chain
    /\ {"router", "none"} \intersect (Chain \union AfterGate) = {}
    /\ "finalizer" \in AfterGate
    /\ Nodes = Chain \union AfterGate \union {"router"}
<1>1. /\ Chain \intersect AfterGate = {} /\ "clarifier" \in Chain
      /\ {"router", "none"} \intersect (Chain \union AfterGate) = {}
      /\ "finalizer" \in AfterGate
  BY DEF Chain, AfterGate, Agents, Workers, Composer
<1>2. Nodes = Chain \union AfterGate \union {"router"}
  BY NodesAre DEF Chain, AfterGate, Agents, Workers, Composer
<1>3. QED
  BY <1>1, <1>2

\* A supplement sends the lane to the router, which knows where to go on.
LEMMA LaneDiverted ==
    ASSUME NEW old, NEW st, NEW n \in Nodes \ {"normalizer", "router"}, LaneAt(old, {n}),
           old.con # None, NEW fresh, fresh # {},
           Moved(old, [resume |-> n, pending |-> fresh], st)
    PROVE  /\ st.pending = fresh
           /\ Targets(st, n) = {"router"}
           /\ LaneAt(st, {"router"})
<1> DEFINE v == [resume |-> n, pending |-> fresh]
<1>1. st.resume = n /\ st.pending = fresh
  <2>1. {"resume", "pending"} \subseteq Course
    BY DEF Course
  <2>2. DOMAIN v = {"resume", "pending"} /\ v["resume"] = n /\ v["pending"] = fresh
    OBVIOUS
  <2> HIDE DEF v
  <2>3. Moved(old, v, st)
    BY DEF v
  <2>4. QED
    BY <2>1, <2>2, <2>3, MovedFields
<1>2. /\ st.con = old.con /\ st.draft = old.draft /\ st.plan = old.plan
      /\ st.sealed = old.sealed /\ st.workspace = old.workspace
  <2>1. DOMAIN v = {"resume", "pending"}
    OBVIOUS
  <2> HIDE DEF v
  <2>2. Moved(old, v, st)
    BY DEF v
  <2>3. QED
    BY <2>1, <2>2, MovedOn
<1>3. n # "clarifier"
  BY DEF LaneAt, Due
<1>4. Targets(st, n) = {"router"}
  BY <1>1, <1>3 DEF Targets
<1>5. Approved(old) => Approved(st)
  BY <1>2 DEF Approved
<1>6. \A m \in Chain \union AfterGate : Due(st, {"router"}, m) => m = n
  <2>1. \A m \in Chain \union AfterGate : m # "router"
    BY PlacesAre
  <2>2. QED
    BY <2>1, <1>1 DEF Due
<1>7. LaneAt(st, {"router"})
  <2>0. Due(old, {n}, n)
    BY DEF Due
  <2>1. \A m \in AfterGate : Due(st, {"router"}, m) => Approved(st)
    BY <1>5, <1>6, <2>0 DEF LaneAt
  <2>2. \A m \in Chain : Due(st, {"router"}, m) => st.workspace = None
    BY <1>2, <1>6, <2>0 DEF LaneAt
  <2>3. Due(st, {"router"}, "finalizer") => st.workspace = st.con
    BY <1>2, <1>6, <2>0, PlacesAre DEF LaneAt
  <2>4. ~Due(st, {"router"}, "clarifier")
    BY <1>1, <1>3 DEF Due
  <2>5. st.workspace = None \/ Approved(st)
    <3>1. n \in Chain \union AfterGate
      BY PlacesAre
    <3>2. old.workspace = None \/ Approved(old)
      BY <2>0, <3>1 DEF LaneAt
    <3>3. QED
      BY <1>2, <1>5, <3>2
  <2>6. QED
    BY <1>2, <2>1, <2>2, <2>3, <2>4, <2>5 DEF LaneAt
<1>8. QED
  BY <1>1, <1>4, <1>7

\* Before the gate nothing is promised.
LEMMA LaneBefore ==
    ASSUME NEW st, NEW m \in Chain, m # "clarifier", st.resume = "none", st.workspace = None,
           st.pending = {} \/ m = "normalizer", st.con # None \/ m = "normalizer"
    PROVE  LaneAt(st, {m})
<1>1. m \notin AfterGate \union {"clarifier", "router"}
  BY PlacesAre
<1>2. \A x \in AfterGate \union {"clarifier"} : ~Due(st, {m}, x)
  BY <1>1 DEF Due
<1>3. "finalizer" \in AfterGate
  BY PlacesAre
<1>4. QED
  BY <1>1, <1>2, <1>3 DEF LaneAt

\* The nodes of the planning chain lead to the gate.
LEMMA LaneClarifier ==
    ASSUME NEW old, NEW st, NEW v, LaneAt(old, {"clarifier"}), Moved(old, v, st),
        DOMAIN v \subseteq {"pending"}
    PROVE  LaneAt(st, Targets(st, "clarifier"))
<1>1. Targets(st, "clarifier") = {"normalizer"}
  BY DEF Targets
<1>2. st.resume = "none" /\ st.workspace = None
  <2>1. st.resume = old.resume /\ st.workspace = old.workspace
    BY MovedOn
  <2>2. "clarifier" \in Chain
    BY PlacesAre
  <2>3. QED
    BY <2>1, <2>2 DEF LaneAt, Due
<1>3. "normalizer" \in Chain /\ "normalizer" # "clarifier"
  BY DEF Chain
<1>4. QED
  BY <1>1, <1>2, <1>3, LaneBefore

LEMMA LaneNormalizer ==
    ASSUME NEW old, LaneAt(old, {"normalizer"}), NEW st, NEW full, full.con \in Contracts,
           NEW v \in Normalizer(full), Moved(old, v, st)
    PROVE  LaneAt(st, Targets(st, "normalizer"))
<1>1. Targets(st, "normalizer") = {"brief"}
  BY DEF Targets
<1>2. PICK c \in NewContract(full) :
         v = [con |-> c, planRevision |-> full.edits, pending |-> {}, applied |-> full.pending,
              edit |-> "none", route |-> "none", resume |-> "none"]
  BY DEF Normalizer
<1>3. c # None
  <2> DEFINE g == full.con[1]
             r == full.con[2]
  <2>1. r \in Nat /\ g \in Nat
    BY DEF Contracts
  <2>2. c = <<g + 1, r + 1>> \/ c = <<g, r + 1>>
    BY DEF NewContract
  <2> HIDE DEF g, r
  <2>3. QED
    BY <2>1, <2>2 DEF None
<1>4. st.con = c /\ st.pending = {} /\ st.resume = "none"
  <2>1. {"con", "pending", "resume"} \subseteq Course
    BY DEF Course
  <2>2. /\ {"con", "pending", "resume"} \subseteq DOMAIN v
        /\ v["con"] = c /\ v["pending"] = {} /\ v["resume"] = "none"
    BY <1>2
  <2>3. QED
    BY <2>1, <2>2, MovedFields
<1>5. "brief" \in Chain /\ "brief" # "clarifier"
  BY DEF Chain
<1>6. st.workspace = None
  <2>1. "workspace" \notin DOMAIN v
    BY <1>2
  <2>2. st.workspace = old.workspace
    BY <2>1, MovedOn
  <2>3. "normalizer" \in Chain
    BY DEF Chain
  <2>4. QED
    BY <2>2, <2>3 DEF LaneAt, Due
<1>7. QED
  BY <1>1, <1>3, <1>4, <1>5, <1>6, LaneBefore

LEMMA LaneChain ==
    ASSUME NEW old, NEW st, NEW v, NEW n \in {"brief", "draft", "geo", "weather", "summary", "planner"},
           LaneAt(old, {n}), Moved(old, v, st),
           DOMAIN v \intersect {"con", "resume", "pending", "workspace"} = {}
    PROVE  LaneAt(st, Targets(st, n))
<1>1. /\ st.con = old.con /\ st.resume = old.resume /\ st.pending = old.pending
      /\ st.workspace = old.workspace
  BY MovedOn
<1>2. st.con # None /\ st.resume = "none" /\ st.pending = {} /\ st.workspace = None
  <2>1. n \in Chain
    BY DEF Chain
  <2>2. old.workspace = None
    BY <2>1 DEF LaneAt, Due
  <2>3. QED
    BY <1>1, <2>2 DEF LaneAt
<1>3. /\ After["brief"] = "draft" /\ After["draft"] = "geo" /\ After["geo"] = "weather"
      /\ After["weather"] = "summary" /\ After["summary"] = "planner"
      /\ After["planner"] = "plan gate"
      /\ n \in DOMAIN After
  BY DEF After
<1>4. Edge(st, n) = {After[n]}
  BY <1>3 DEF Edge, Agents, Workers, Composer
<1>5. Targets(st, n) = {After[n]}
  BY <1>2, <1>4 DEF Targets
<1>6. After[n] \in Chain /\ After[n] # "clarifier"
  <2>1. After[n] \in {"draft", "geo", "weather", "summary", "planner", "plan gate"}
    BY <1>3
  <2>2. QED
    BY <2>1 DEF Chain
<1>7. QED
  BY <1>2, <1>5, <1>6, LaneBefore

\* An invalidation that keeps what was composed keeps everything else too.
LEMMA InvalidateClears ==
    ASSUME NEW strength \in {"projection", "composition", "research"}
    PROVE  LET g == Invalidate(strength)
           IN  \/ DOMAIN g = {"committed"}
               \/ "workspace" \in DOMAIN g /\ g["workspace"] = None
<1> DEFINE c == [committed |-> FALSE]
<1>1. DOMAIN c = {"committed"}
  OBVIOUS
<1>2. "workspace" \in DOMAIN ResetComposition /\ ResetComposition["workspace"] = None
  BY DEF ResetComposition
<1> HIDE DEF c
<1> DEFINE d == c ++ ResetComposition
<1>3. "workspace" \in DOMAIN d /\ d["workspace"] = None
  <2>1. \A x \in DOMAIN ResetComposition \ DOMAIN c : d[x] = ResetComposition[x]
    BY Joined
  <2>2. DOMAIN d = DOMAIN c \union DOMAIN ResetComposition
    BY Joined
  <2>3. QED
    BY <1>1, <1>2, <2>1, <2>2
<1> HIDE DEF d
<1>4. "workspace" \in DOMAIN (d ++ ResetResearch) /\ (d ++ ResetResearch)["workspace"] = None
  <2>1. \A x \in DOMAIN d : (d ++ ResetResearch)[x] = d[x]
    BY Joined
  <2>2. QED
    BY <1>3, <2>1, JoinedHas
<1>5. CASE strength = "projection"
  <2>1. Invalidate(strength) = c
    BY <1>5 DEF Invalidate, c
  <2>2. QED
    BY <1>1, <2>1
<1>6. CASE strength = "composition"
  <2>1. Invalidate(strength) = d
    BY <1>6 DEF Invalidate, c, d
  <2>2. QED
    BY <1>3, <2>1
<1>7. CASE strength = "research"
  <2>1. Invalidate(strength) = d ++ ResetResearch
    BY <1>7 DEF Invalidate, c, d
  <2>2. QED
    BY <1>4, <2>1
<1>8. QED
  BY <1>5, <1>6, <1>7

\* So does a write that goes with it.
LEMMA JoinedClears ==
    ASSUME NEW e, "workspace" \notin DOMAIN e, NEW strength \in {"projection", "composition", "research"},
           NEW v, v = e ++ Invalidate(strength)
    PROVE  \/ DOMAIN v = DOMAIN e \union {"committed"}
           \/ "workspace" \in DOMAIN v /\ v["workspace"] = None
<1> DEFINE g == Invalidate(strength)
<1>1. \/ DOMAIN g = {"committed"}
      \/ "workspace" \in DOMAIN g /\ g["workspace"] = None
  BY InvalidateClears
<1> HIDE DEF g
<1>2. DOMAIN (e ++ g) = DOMAIN e \union DOMAIN g
  BY Joined
<1>3. \A x \in DOMAIN g \ DOMAIN e : (e ++ g)[x] = g[x]
  BY Joined
<1>4. v = e ++ g
  BY DEF g
<1>5. CASE DOMAIN g = {"committed"}
  BY <1>2, <1>4, <1>5
<1>6. CASE "workspace" \in DOMAIN g /\ g["workspace"] = None
  BY <1>2, <1>3, <1>4, <1>6
<1>7. QED
  BY <1>1, <1>5, <1>6

\* What the router writes when it has accepted a supplement: it counts a revision of the
\* plan, and what was composed is reset or the draft and its seal are left alone.
Amends(full, v) ==
    /\ "con" \notin DOMAIN v /\ v["route"] = "normalizer"
    /\ "edits" \in DOMAIN v /\ v["edits"] = full.edits + 1
    /\ \/ "workspace" \in DOMAIN v /\ v["workspace"] = None
       \/ DOMAIN v \intersect {"workspace", "draft", "plan", "sealed", "planRevision"} = {}

\* The router goes on where the lane was diverted, or back to the normalizer.
LEMMA RouterWrites ==
    ASSUME NEW full, NEW v \in Router(full)
    PROVE  /\ "route" \in DOMAIN v /\ "resume" \in DOMAIN v /\ v["resume"] = "none"
           /\ \/ /\ DOMAIN v \subseteq {"pending", "rejected", "route", "resume"}
                 /\ v["route"] = full.resume
                 /\ \/ full.pending = {} /\ "pending" \notin DOMAIN v
                    \/ "pending" \in DOMAIN v /\ v["pending"] = {}
              \/ Amends(full, v)
<1> DEFINE refused == {a \in full.pending : TooLate(full, a)}
           accepted == full.pending \ refused
           goOn == [route |-> full.resume, resume |-> "none"]
           turned == [pending |-> {}, rejected |-> refused]
           amended == [pending |-> accepted, rejected |-> refused, route |-> "normalizer",
                       resume |-> "none", edits |-> full.edits + 1, decision |-> "runtime_amendment"]
           rest == Invalidate(Strongest(accepted))
<1>1. \/ full.pending = {} /\ v = goOn
      \/ v = turned ++ goOn
      \/ v = amended ++ rest
  BY Zenon DEF Router
<1>2. /\ DOMAIN goOn = {"route", "resume"}
      /\ goOn["route"] = full.resume /\ goOn["resume"] = "none"
  OBVIOUS
<1>3. DOMAIN turned = {"pending", "rejected"} /\ turned["pending"] = {}
  OBVIOUS
<1>4. /\ DOMAIN amended = {"pending", "rejected", "route", "resume", "edits", "decision"}
      /\ amended["route"] = "normalizer" /\ amended["resume"] = "none"
      /\ amended["edits"] = full.edits + 1
  OBVIOUS
<1> DEFINE strength == Strongest(accepted)
<1>9. strength \in {"projection", "composition", "research"}
  <2> HIDE DEF accepted
  <2>1. QED
    BY Zenon DEF Strongest
<1>10. rest = Invalidate(strength)
  OBVIOUS
<1> HIDE DEF goOn, turned, amended, rest, strength
<1>5. CASE full.pending = {} /\ v = goOn
  BY <1>2, <1>5
<1>6. CASE v = turned ++ goOn
  <2>1. DOMAIN (turned ++ goOn) = DOMAIN turned \union DOMAIN goOn
    BY Joined
  <2>2. \A x \in DOMAIN turned : (turned ++ goOn)[x] = turned[x]
    BY Joined
  <2>3. \A x \in DOMAIN goOn \ DOMAIN turned : (turned ++ goOn)[x] = goOn[x]
    BY Joined
  <2>4. v["route"] = full.resume /\ v["resume"] = "none"
    BY <1>2, <1>3, <1>6, <2>3
  <2>5. v["pending"] = {}
    BY <1>3, <1>6, <2>2
  <2>6. QED
    BY <1>2, <1>3, <1>6, <2>1, <2>4, <2>5
<1>7. CASE v = amended ++ rest
  <2>1. DOMAIN (amended ++ rest) = DOMAIN amended \union DOMAIN rest
    BY Joined
  <2>2. \A x \in DOMAIN amended : (amended ++ rest)[x] = amended[x]
    BY Joined
  <2>3. "con" \notin DOMAIN v
    <3>1. BodyFields("router") = {"pending", "rejected", "route", "resume", "edits",
              "decision"} \union ResetFields
      BY DEF BodyFields, Workers, Composer
    <3>2. "con" \notin BodyFields("router")
      BY <3>1 DEF ResetFields
    <3>3. QED
      BY <3>2, RouterFields
  <2>4. \/ DOMAIN v = DOMAIN amended \union {"committed"}
        \/ "workspace" \in DOMAIN v /\ v["workspace"] = None
    BY <1>4, <1>7, <1>9, <1>10, JoinedClears
  <2>5. /\ {"route", "resume", "edits"} \subseteq DOMAIN v
        /\ v["route"] = "normalizer" /\ v["resume"] = "none" /\ v["edits"] = full.edits + 1
    BY <1>4, <1>7, <2>1, <2>2
  <2>6. DOMAIN v = DOMAIN amended \union {"committed"} =>
            DOMAIN v \intersect {"workspace", "draft", "plan", "sealed", "planRevision"} = {}
    BY <1>4
  <2>7. Amends(full, v)
    BY <2>3, <2>4, <2>5, <2>6 DEF Amends
  <2>8. QED
    BY <2>5, <2>7
<1>8. QED
  BY <1>1, <1>5, <1>6, <1>7

LEMMA SealedIs ==
    ASSUME NEW st, Coherent(st), st.sealed = TRUE, st.draft = st.con, st.con # None
    PROVE  st.planRevision = st.edits
  BY DEF Coherent

\* What is composed never outlives the seal: an amendment that would keep both is refused
\* by the validator, for it counts a revision of the plan.
LEMMA LaneAmended ==
    ASSUME NEW old, LaneAt(old, {"router"}), Coherent(old), old.edits \in Nat,
           NEW full, full.edits = old.edits, NEW v, Amends(full, v),
           NEW st, Moved(old, v, st), Coherent(st)
    PROVE  st.workspace = None
<1>1. CASE "workspace" \in DOMAIN v /\ v["workspace"] = None
  <2>1. "workspace" \in Course
    BY DEF Course
  <2>2. QED
    BY <1>1, <2>1, MovedFields
<1>2. CASE DOMAIN v \intersect {"workspace", "draft", "plan", "sealed", "planRevision"} = {}
  <2>1. /\ st.workspace = old.workspace /\ st.con = old.con /\ st.draft = old.draft
        /\ st.sealed = old.sealed
    <3>1. /\ "workspace" \notin DOMAIN v /\ "draft" \notin DOMAIN v /\ "sealed" \notin DOMAIN v
          /\ "con" \notin DOMAIN v
      BY <1>2 DEF Amends
    <3>2. QED
      BY <3>1, MovedOn
  <2>2. st.planRevision = old.planRevision /\ st.edits = old.edits + 1
    <3>1. {"planRevision", "edits"} \subseteq Course
      BY DEF Course
    <3>2. "planRevision" \notin DOMAIN v
      BY <1>2
    <3>3. "edits" \in DOMAIN v /\ v["edits"] = old.edits + 1
      BY DEF Amends
    <3>4. st["planRevision"] = old["planRevision"]
      BY <3>1, <3>2, MovedFields
    <3>5. st["edits"] = v["edits"]
      BY <3>1, <3>3, MovedFields
    <3>6. QED
      BY <3>3, <3>4, <3>5
  <2>3. ASSUME Approved(old) PROVE FALSE
    <3>1. old.con # None
      BY DEF LaneAt
    <3>2. old.sealed = TRUE /\ old.draft = old.con
      BY <2>3 DEF Approved
    <3>3. old.planRevision = old.edits
      BY <3>1, <3>2, SealedIs
    <3>4. st.planRevision = st.edits
      BY <2>1, <3>1, <3>2, SealedIs
    <3>5. QED
      BY <2>2, <3>3, <3>4
  <2>4. QED
    BY <2>1, <2>3 DEF LaneAt
<1>3. QED
  BY <1>1, <1>2 DEF Amends

LEMMA LaneRouter ==
    ASSUME NEW old, LaneAt(old, {"router"}), Coherent(old), old.edits \in Nat,
           NEW full, full.resume = old.resume, full.edits = old.edits,
           old.pending \subseteq full.pending, NEW v \in Router(full),
           NEW st, Moved(old, v, st), st.route # "none", Coherent(st)
    PROVE  LaneAt(st, Targets(st, "router"))
<1>1. Targets(st, "router") = {st.route}
  BY DEF Targets
<1>2. st.resume = "none" /\ st.route = v["route"]
  <2>1. {"route", "resume"} \subseteq Course
    BY DEF Course
  <2>2. QED
    BY <2>1, RouterWrites, MovedFields
<1>3. CASE /\ DOMAIN v \subseteq {"pending", "rejected", "route", "resume"}
           /\ v["route"] = full.resume
           /\ \/ full.pending = {} /\ "pending" \notin DOMAIN v
              \/ "pending" \in DOMAIN v /\ v["pending"] = {}
  <2> DEFINE m == old.resume
  <2>1. st.route = m /\ m # "none"
    BY <1>2, <1>3
  <2>2. /\ st.con = old.con /\ st.draft = old.draft /\ st.plan = old.plan
        /\ st.sealed = old.sealed /\ st.workspace = old.workspace
    BY <1>3, MovedOn
  <2>3. st.pending = {}
    <3>1. CASE "pending" \notin DOMAIN v
      BY <3>1, <1>3, MovedOn
    <3>2. CASE "pending" \in DOMAIN v
      <4>1. "pending" \in Course
        BY DEF Course
      <4>2. QED
        BY <3>2, <4>1, <1>3, MovedFields
    <3>3. QED
      BY <3>1, <3>2
  <2>4. Due(old, {"router"}, m)
    BY DEF Due
  <2>5. st.con # None
    BY <2>2 DEF LaneAt
  <2>6. \A x : x # "none" /\ Due(st, {m}, x) => x = m
    BY <1>2 DEF Due
  <2>13. Approved(old) => Approved(st)
    BY <2>2 DEF Approved
  <2>14. "none" \notin AfterGate \union Chain
    BY PlacesAre
  <2> HIDE DEF m
  <2>7. \A x \in AfterGate : Due(st, {m}, x) => Approved(st)
    BY <2>4, <2>6, <2>13, <2>14 DEF LaneAt
  <2>8. \A x \in Chain : Due(st, {m}, x) => st.workspace = None
    BY <2>2, <2>4, <2>6, <2>14 DEF LaneAt
  <2>15. "router" \in {m} => st.workspace = None \/ Approved(st)
    BY <2>2, <2>13 DEF LaneAt
  <2>9. Due(st, {m}, "finalizer") => st.workspace = st.con
    BY <2>2, <2>4, <2>6 DEF LaneAt
  <2>10. Due(st, {m}, "clarifier") => st.con = None
    BY <2>2, <2>4, <2>6 DEF LaneAt
  <2>11. LaneAt(st, {m})
    BY <1>2, <2>3, <2>5, <2>7, <2>8, <2>9, <2>10, <2>15 DEF LaneAt
  <2>12. QED
    BY <1>1, <2>1, <2>11
<1>4. CASE Amends(full, v)
  <2>1. "normalizer" \in Chain /\ "normalizer" # "clarifier"
    BY DEF Chain
  <2>4. st.workspace = None
    BY <1>4, LaneAmended
  <2>2. LaneAt(st, {"normalizer"})
    BY <1>2, <2>1, <2>4, LaneBefore
  <2>3. QED
    BY <1>1, <1>2, <1>4, <2>2 DEF Amends
<1>5. QED
  BY <1>3, <1>4, RouterWrites

\* Behind the gate the lane goes on with what was approved.
LEMMA LaneOn ==
    ASSUME NEW st, NEW tasks, tasks \subseteq AfterGate, Approved(st), st.resume = "none",
           st.pending = {}, st.con # None,
           "finalizer" \in tasks => st.workspace = st.con
    PROVE  LaneAt(st, tasks)
<1>1. \A x : x # "none" /\ Due(st, tasks, x) => x \in tasks
  BY DEF Due
<1>2. \A x \in Chain : x \notin tasks /\ x # "none"
  BY PlacesAre
<1>3. \A x \in Chain : ~Due(st, tasks, x)
  BY <1>1, <1>2
<1>4. Due(st, tasks, "finalizer") => st.workspace = st.con
  BY <1>1
<1>5. ~Due(st, tasks, "clarifier")
  BY <1>3, PlacesAre
<1>6. "router" \notin tasks
  BY PlacesAre
<1>7. QED
  BY <1>3, <1>4, <1>5, <1>6 DEF LaneAt

\* The fields the gates write.
LEMMA MovedSeal ==
    ASSUME NEW old, NEW v, NEW st, Moved(old, v, st)
    PROVE  /\ "decision" \in DOMAIN v => st.decision = v["decision"]
           /\ "sealed" \in DOMAIN v => st.sealed = v["sealed"]
<1>1. {"decision", "sealed"} \subseteq Course
  BY DEF Course
<1>2. QED
  BY <1>1, MovedFields

LEMMA MovedRoutes ==
    ASSUME NEW old, NEW v, NEW st, Moved(old, v, st)
    PROVE  /\ "workspace" \in DOMAIN v => st.workspace = v["workspace"]
           /\ "next" \in DOMAIN v => st.next = v["next"]
           /\ "gateRoute" \in DOMAIN v => st.gateRoute = v["gateRoute"]
           /\ "artifactRoute" \in DOMAIN v => st.artifactRoute = v["artifactRoute"]
           /\ "fidelityRoute" \in DOMAIN v => st.fidelityRoute = v["fidelityRoute"]
           /\ "qualityRoute" \in DOMAIN v => st.qualityRoute = v["qualityRoute"]
<1>1. {"workspace", "next", "gateRoute", "artifactRoute", "fidelityRoute",
       "qualityRoute"} \subseteq Course
  BY DEF Course
<1>2. QED
  BY <1>1, MovedFields

\* A return by which the run goes on.
GoesOn(n, w) == ~Raises(w) /\ ~Cancels(w)

Approves(full, v) == v = Seal /\ full.draft = full.con /\ full.plan = full.con
Edits(full, v) ==
    \E kind \in {"projection", "research"} :
      \E decision \in {"amendment", "projection_amendment_pending"} : v = EditPlan(full, kind, decision)

\* An approved plan goes to the dispatcher, an edited one to the normalizer.
LEMMA PlanGateLeads ==
    ASSUME NEW full, NEW v \in PlanGate(full), GoesOn("plan gate", v),
           NEW old, NEW st, Moved(old, v, st), st.pending = {}
    PROVE  \/ Approves(full, v) /\ Targets(st, "plan gate") = {"dispatcher"}
           \/ Edits(full, v) /\ Targets(st, "plan gate") = {"normalizer"}
<1>1. Edge(st, "plan gate") = {IF st.decision \in {"amendment", "projection_amendment_pending"}
                               THEN "normalizer" ELSE "dispatcher"}
  <2>1. "plan gate" \notin DOMAIN After
    BY DEF After
  <2>2. QED
    BY <2>1 DEF Edge, Agents, Workers, Composer
<1>2. Targets(st, "plan gate") = Edge(st, "plan gate")
  BY DEF Targets
<1>3. "decision" \in DOMAIN v => st.decision = v["decision"]
  BY MovedSeal
<1>4. ASSUME Approves(full, v) PROVE Targets(st, "plan gate") = {"dispatcher"}
  <2>1. "decision" \in DOMAIN v /\ v["decision"] = "approve"
    BY <1>4 DEF Seal, Approves
  <2>2. st.decision = "approve"
    BY <2>1, <1>3
  <2>3. QED
    BY <1>1, <1>2, <2>2
<1>5. ASSUME NEW kind \in {"projection", "research"},
             NEW decision \in {"amendment", "projection_amendment_pending"},
             v = EditPlan(full, kind, decision)
      PROVE  Targets(st, "plan gate") = {"normalizer"}
  <2> DEFINE e == [edit |-> kind, decision |-> decision, edits |-> full.edits + 1]
             rest == Invalidate(kind)
  <2>1. "decision" \in DOMAIN e /\ e["decision"] = decision
    OBVIOUS
  <2>2. v = e ++ rest
    BY <1>5, Zenon DEF EditPlan
  <2> HIDE DEF e, rest
  <2>3. "decision" \in DOMAIN v
    BY <2>1, <2>2, JoinedHas
  <2>4. \A x \in DOMAIN e : (e ++ rest)[x] = e[x]
    BY Joined
  <2>5. v["decision"] = decision
    BY <2>1, <2>2, <2>4
  <2>6. st.decision = decision
    BY <2>3, <2>5, <1>3
  <2>7. QED
    BY <1>1, <1>2, <2>6
<1>6. v = [raise |-> TRUE] \/ v = [cancel |-> TRUE] \/ Approves(full, v) \/ Edits(full, v)
  BY DEF PlanGate, Approves, Edits
<1>7. v # [raise |-> TRUE] /\ v # [cancel |-> TRUE]
  <2>1. "raise" \in DOMAIN [raise |-> TRUE] /\ "cancel" \in DOMAIN [cancel |-> TRUE]
    OBVIOUS
  <2>2. QED
    BY <2>1, Zenon DEF GoesOn, Raises, Cancels
<1>8. Edits(full, v) => Targets(st, "plan gate") = {"normalizer"}
  BY <1>5 DEF Edits
<1>9. QED
  BY <1>4, <1>6, <1>7, <1>8

LEMMA EditClears ==
    ASSUME NEW full, NEW v, Edits(full, v)
    PROVE  "workspace" \in DOMAIN v => v["workspace"] = None
<1>1. PICK kind \in {"projection", "research"} :
        \E decision \in {"amendment", "projection_amendment_pending"} : v = EditPlan(full, kind, decision)
  BY DEF Edits
<1>2. PICK decision \in {"amendment", "projection_amendment_pending"} : v = EditPlan(full, kind, decision)
  BY <1>1
<1> DEFINE e == [edit |-> kind, decision |-> decision, edits |-> full.edits + 1]
<1>3. v = e ++ Invalidate(kind)
  BY <1>2, Zenon DEF EditPlan
<1>4. DOMAIN e = {"edit", "decision", "edits"}
  OBVIOUS
<1> HIDE DEF e
<1>5. \/ DOMAIN v = DOMAIN e \union {"committed"}
      \/ "workspace" \in DOMAIN v /\ v["workspace"] = None
  BY <1>3, <1>4, JoinedClears
<1>6. QED
  BY <1>4, <1>5

\* The approval: only what was drafted and planned for this contract passes.
LEMMA LanePlanGate ==
    ASSUME NEW old, LaneAt(old, {"plan gate"}), NEW full, full.con = old.con, full.draft = old.draft,
           full.plan = old.plan, NEW v \in PlanGate(full), NEW st, Moved(old, v, st),
           GoesOn("plan gate", v)
    PROVE  LaneAt(st, Targets(st, "plan gate"))
<1>1. DOMAIN v \intersect {"con", "resume", "pending"} = {}
  <2>1. BodyFields("plan gate") =
          {"raise", "cancel", "decision", "sealed", "deadline", "edit", "edits"} \union ResetFields
    BY DEF BodyFields, Workers, Composer
  <2>2. BodyFields("plan gate") \intersect {"con", "resume", "pending"} = {}
    BY <2>1 DEF ResetFields
  <2>3. QED
    BY <2>2, PlanGateFields
<1>2. st.con = old.con /\ st.resume = old.resume /\ st.pending = old.pending
  BY <1>1, MovedOn, ZenonT(60)
<1>3. st.con # None /\ st.resume = "none" /\ st.pending = {}
  BY <1>2 DEF LaneAt
<1>8. old.workspace = None
  <2>1. "plan gate" \in Chain
    BY DEF Chain
  <2>2. QED
    BY <2>1 DEF LaneAt, Due
<1>4. ASSUME Approves(full, v) PROVE LaneAt(st, {"dispatcher"})
  <2>1. DOMAIN v = {"decision", "sealed", "deadline"}
    BY <1>4 DEF Seal, Approves
  <2>2. st.sealed = TRUE
    <3>1. v["sealed"] = TRUE
      BY <1>4 DEF Seal, Approves
    <3>2. QED
      BY <2>1, <3>1, MovedSeal
  <2>3. st.draft = old.draft /\ st.plan = old.plan /\ st.workspace = old.workspace
    <3>1. "draft" \notin DOMAIN v /\ "plan" \notin DOMAIN v /\ "workspace" \notin DOMAIN v
      BY <2>1
    <3>2. QED
      BY <3>1, MovedOn, ZenonT(60)
  <2>4. Approved(st)
    BY <1>2, <1>4, <1>8, <2>2, <2>3 DEF Approved, Approves
  <2>5. {"dispatcher"} \subseteq AfterGate /\ "finalizer" \notin {"dispatcher"}
    BY DEF AfterGate
  <2>6. QED
    BY <1>3, <2>4, <2>5, LaneOn
<1>5. ASSUME Edits(full, v) PROVE LaneAt(st, {"normalizer"})
  <2>1. "normalizer" \in Chain /\ "normalizer" # "clarifier"
    BY DEF Chain
  <2>2. "workspace" \in DOMAIN v => v["workspace"] = None
    BY <1>5, EditClears
  <2>3. st.workspace = None
    <3>1. CASE "workspace" \notin DOMAIN v
      BY <1>8, <3>1, MovedOn, ZenonT(60)
    <3>2. CASE "workspace" \in DOMAIN v
      <4>1. st["workspace"] = Written(old, v, "workspace")
        BY DEF Moved, Course
      <4>2. st["workspace"] = v["workspace"]
        BY <3>2, <4>1 DEF Written
      <4>3. QED
        BY <2>2, <3>2, <4>2
    <3>3. QED
      BY <3>1, <3>2
  <2>4. QED
    BY <1>3, <2>1, <2>3, LaneBefore
<1>6. \/ Approves(full, v) /\ Targets(st, "plan gate") = {"dispatcher"}
      \/ Edits(full, v) /\ Targets(st, "plan gate") = {"normalizer"}
  <2>1. st.pending = {}
    BY <1>3
  <2>2. QED
    BY <2>1, PlanGateLeads
<1>7. QED
  BY <1>4, <1>5, <1>6

\* The nodes behind the gate that are no agents.
OnwardNodes == {"dispatcher", "candidate gate", "artifact gate", "fidelity gate", "quality gate",
                "budget", "projector", "finalizer"}

\* What a node behind the gate leaves alone.
Ruled == {"con", "draft", "plan", "sealed", "workspace", "resume", "pending"}

\* A write that touches none of it.
Unruled(v) == DOMAIN v \intersect Ruled = {}

\* Where they stand, what they write, and what still holds behind them.
LEMMA OnwardIs ==
    /\ OnwardNodes \subseteq AfterGate \intersect Nodes
    /\ OnwardNodes \intersect Agents = {}
    /\ Agents \subseteq AfterGate \ {"finalizer"}
    /\ "itinerary" \in Agents /\ Composer \in Agents
    /\ {"clarifier", "normalizer", "router"} \intersect OnwardNodes = {}
  BY NodesAre DEF OnwardNodes, AfterGate, Agents, Workers, Composer

LEMMA OnwardFields ==
    ASSUME NEW full, NEW n \in OnwardNodes, NEW v \in Body(full, n)
    PROVE  Unruled(v)
<1>1. DOMAIN v \subseteq BodyFields(n)
  BY OnwardIs, BodyWithin
<1>2. BodyFields(n) \in {{"step", "next"}, GateFields, GateFields \union {"raise"}, {}, {"raise",
          "committed"}}
  BY FieldsAre DEF OnwardNodes
<1>3. GateFields \intersect Ruled = {}
  BY DEF GateFields, Ruled
<1>4. BodyFields(n) \intersect Ruled = {}
  BY <1>2, <1>3 DEF Ruled
<1>5. QED
  BY <1>1, <1>4 DEF Unruled

\* What still holds when such a node has returned.
StillOn(old, n, st) ==
    /\ Approved(st) /\ st.resume = "none" /\ st.pending = {} /\ st.con # None
    /\ Targets(st, n) = Edge(st, n)
    /\ n = "finalizer" => st.workspace = st.con
    /\ st.workspace = old.workspace /\ st.con = old.con

LEMMA OnwardState ==
    ASSUME NEW old, NEW n \in OnwardNodes, LaneAt(old, {n}), NEW v, NEW st, Moved(old, v, st),
           Unruled(v)
    PROVE  StillOn(old, n, st)
<1>1. /\ st.con = old.con /\ st.draft = old.draft /\ st.plan = old.plan /\ st.sealed = old.sealed
      /\ st.workspace = old.workspace /\ st.resume = old.resume /\ st.pending = old.pending
  BY MovedOn DEF Ruled, Unruled
<1>2. n \in AfterGate /\ n \notin {"clarifier", "normalizer", "router"}
  BY OnwardIs
<1>3. Approved(old)
  BY <1>2 DEF LaneAt, Due
<1>4. old.resume = "none" /\ old.pending = {} /\ old.con # None
  BY <1>2 DEF LaneAt
<1>6. n = "finalizer" => old.workspace = old.con
  BY DEF LaneAt, Due
<1>7. Approved(st)
  BY <1>1, <1>3 DEF Approved
<1>8. Targets(st, n) = Edge(st, n)
  BY <1>1, <1>2, <1>4 DEF Targets
<1>9. QED
  BY <1>1, <1>4, <1>6, <1>7, <1>8 DEF StillOn

\* Where the edges behind the gate lead.
Onward(n) ==
    CASE n \in {"dispatcher", "candidate gate", "artifact gate"} ->
            {"dispatcher", "candidate gate", "artifact gate", "fidelity gate"} \union Agents
      [] n = "fidelity gate" -> {"quality gate", "candidate gate", Composer}
      [] n = "quality gate" -> {"budget", Composer}
      [] n = "budget" -> {"projector"}
      [] n = "projector" -> {"finalizer"}
      [] n = "finalizer" -> {}

\* They lead on behind the gate, and only the projector leads to the finalizer.
LEMMA OnwardAre ==
    ASSUME NEW n \in OnwardNodes
    PROVE  /\ Onward(n) \subseteq AfterGate
           /\ "finalizer" \in Onward(n) => n = "projector"
<1>1. CASE n \in {"dispatcher", "candidate gate", "artifact gate"}
  <2>1. Onward(n) = {"dispatcher", "candidate gate", "artifact gate", "fidelity gate"} \union Agents
    BY <1>1 DEF Onward
  <2>2. {"dispatcher", "candidate gate", "artifact gate", "fidelity gate"} \subseteq AfterGate \ {"finalizer"}
    BY DEF AfterGate
  <2>3. QED
    BY <2>1, <2>2, OnwardIs
<1>2. CASE n = "fidelity gate"
  <2>1. Onward(n) = {"quality gate", "candidate gate", Composer}
    BY <1>2 DEF Onward
  <2>2. {"quality gate", "candidate gate"} \subseteq AfterGate \ {"finalizer"}
    BY DEF AfterGate
  <2>3. QED
    BY <1>2, <2>1, <2>2, OnwardIs
<1>3. CASE n = "quality gate"
  <2>1. Onward(n) = {"budget", Composer}
    BY <1>3 DEF Onward
  <2>2. "budget" \in AfterGate \ {"finalizer"}
    BY DEF AfterGate
  <2>3. QED
    BY <2>1, <2>2, OnwardIs
<1>4. CASE n = "budget"
  <2>1. Onward(n) = {"projector"}
    BY <1>4 DEF Onward
  <2>2. "projector" \in AfterGate \ {"finalizer"}
    BY DEF AfterGate
  <2>3. QED
    BY <2>1, <2>2
<1>5. CASE n = "projector"
  <2>1. Onward(n) = {"finalizer"}
    BY <1>5 DEF Onward
  <2>2. "finalizer" \in AfterGate
    BY DEF AfterGate
  <2>3. QED
    BY <1>5, <2>1, <2>2
<1>6. CASE n = "finalizer"
  <2>1. Onward(n) = {}
    BY <1>6 DEF Onward
  <2>2. QED
    BY <2>1
<1>7. QED
  BY <1>1, <1>2, <1>3, <1>4, <1>5, <1>6 DEF OnwardNodes

LEMMA OnwardEdges ==
    ASSUME NEW st, StateOK(st), NEW n \in OnwardNodes
    PROVE  Edge(st, n) \subseteq Onward(n)
<1>0. DOMAIN After = {"brief", "draft", "geo", "weather", "summary", "planner", "budget", "projector"}
      /\ After["budget"] = "projector" /\ After["projector"] = "finalizer"
  BY DEF After
<1>1. CASE n = "dispatcher"
  <2>1. Edge(st, n) = DispatcherEdge(st)
    BY <1>1, <1>0 DEF Edge, Agents, Workers, Composer
  <2>2. QED
    BY <1>1, <2>1, DispatcherEdgeOK DEF Onward
<1>2. CASE n = "candidate gate"
  <2>1. Edge(st, n) = CandidateEdge(st)
    BY <1>2, <1>0 DEF Edge, Agents, Workers, Composer
  <2>2. st.gateRoute \in Agents \union {"passed", "candidate gate", "composition_repair"}
    BY StateIs
  <2>3. CandidateEdge(st) \subseteq Agents \union {"candidate gate", "dispatcher"}
    BY <2>2 DEF CandidateEdge, Agents
  <2>4. Onward(n) = {"dispatcher", "candidate gate", "artifact gate", "fidelity gate"} \union Agents
    BY <1>2 DEF Onward
  <2>5. QED
    BY <2>1, <2>3, <2>4
<1>3. CASE n = "artifact gate"
  <2>1. Edge(st, n) = ArtifactEdge(st)
    BY <1>3, <1>0 DEF Edge, Agents, Workers, Composer
  <2>2. st.artifactRoute \in {"accepted", "candidate gate", Composer}
    BY StateIs
  <2>3. ArtifactEdge(st) \subseteq {"fidelity gate", "candidate gate", Composer}
    BY <2>2 DEF ArtifactEdge
  <2>4. Onward(n) = {"dispatcher", "candidate gate", "artifact gate", "fidelity gate"} \union Agents
    BY <1>3 DEF Onward
  <2>5. QED
    BY <2>1, <2>3, <2>4 DEF Agents
<1>4. CASE n = "fidelity gate"
  <2>1. Edge(st, n) = FidelityEdge(st)
    BY <1>4, <1>0 DEF Edge, Agents, Workers, Composer
  <2>2. st.fidelityRoute \in {"passed", "candidate gate", Composer}
    BY StateIs
  <2>3. FidelityEdge(st) \subseteq {"quality gate", "candidate gate", Composer}
    BY <2>2 DEF FidelityEdge
  <2>4. QED
    BY <1>4, <2>1, <2>3 DEF Onward
<1>5. CASE n = "quality gate"
  <2>1. Edge(st, n) = QualityEdge(st)
    BY <1>5, <1>0 DEF Edge, Agents, Workers, Composer
  <2>2. QED
    BY <1>5, <2>1 DEF QualityEdge, Onward
<1>6. CASE n = "budget"
  BY <1>6, <1>0 DEF Edge, Onward, Agents, Workers, Composer
<1>7. CASE n = "projector"
  BY <1>7, <1>0 DEF Edge, Onward, Agents, Workers, Composer
<1>8. CASE n = "finalizer"
  BY <1>8, <1>0 DEF Edge, Onward, Agents, Workers, Composer
<1>9. QED
  BY <1>1, <1>2, <1>3, <1>4, <1>5, <1>6, <1>7, <1>8 DEF OnwardNodes

\* The projector raises without a workspace.
LEMMA WorkspaceChecked ==
    ASSUME NEW full, NEW n, n = "projector", NEW v \in Body(full, n), "raise" \notin DOMAIN v
    PROVE  full.workspace # None
<1>1. "raise" \in DOMAIN [raise |-> TRUE]
  OBVIOUS
<1>2. Body(full, n) = Projector(full)
  BY Zenon DEF Body, Workers, Composer
<1>3. full.workspace = None => Projector(full) = {[raise |-> TRUE]}
  BY DEF Projector
<1>4. QED
  BY <1>1, <1>2, <1>3

\* So the lane stays approved.
LEMMA LaneOnwardStep ==
    ASSUME NEW old, NEW n \in OnwardNodes, LaneAt(old, {n}), NEW full, full.con = old.con,
           full.workspace = old.workspace, NEW v \in Body(full, n), "raise" \notin DOMAIN v,
           NEW st, StateOK(st), Moved(old, v, st)
    PROVE  /\ LaneAt(st, Targets(st, n))
           /\ n = "finalizer" => Approved(st) /\ st.workspace = st.con
<1>1. StillOn(old, n, st)
  <2>1. Unruled(v)
    BY OnwardFields, Zenon
  <2>2. QED
    BY <2>1, OnwardState, Zenon
<1>3. n = "projector" => st.workspace = st.con
  <2>1. n = "projector" => full.workspace # None
    BY WorkspaceChecked, Zenon
  <2>2. QED
    BY <1>1, <2>1 DEF StillOn, Approved
<1>4. /\ Onward(n) \subseteq AfterGate
      /\ "finalizer" \in Onward(n) => n = "projector"
  BY OnwardAre
<1>5. Edge(st, n) \subseteq Onward(n)
  BY OnwardEdges, Zenon
<1>7. "finalizer" \in Edge(st, n) => st.workspace = st.con
  BY <1>3, <1>4, <1>5
<1>8. LaneAt(st, Edge(st, n))
  <2>1. Edge(st, n) \subseteq AfterGate
    BY <1>4, <1>5
  <2>2. Approved(st) /\ st.resume = "none" /\ st.pending = {} /\ st.con # None
    BY <1>1 DEF StillOn
  <2> DEFINE next == Edge(st, n)
  <2> HIDE DEF next
  <2>3. LaneAt(st, next)
    BY <2>1, <2>2, <1>7, LaneOn DEF next
  <2>4. QED
    BY <2>3 DEF next
<1>9. QED
  BY <1>1, <1>8 DEF StillOn

\* The write by which a run is delivered.
Commits(v) == "committed" \in DOMAIN v /\ v["committed"] = TRUE

\* Where the run stands when a task alone has returned v.
LaneGoes(n, v, st) ==
    /\ LaneAt(st, Targets(st, n))
    /\ Commits(v) => Targets(st, n) = {} /\ Approved(st) /\ st.workspace = st.con

\* No node but the finalizer commits.
LEMMA InvalidateUncommits ==
    ASSUME NEW strength \in {"projection", "composition", "research"}
    PROVE  "committed" \in DOMAIN Invalidate(strength) /\ Invalidate(strength)["committed"] = FALSE
<1> DEFINE c == [committed |-> FALSE]
<1>1. DOMAIN c = {"committed"} /\ c["committed"] = FALSE
  OBVIOUS
<1> HIDE DEF c
<1>2. ASSUME NEW f, "committed" \in DOMAIN f, NEW g
      PROVE  "committed" \in DOMAIN (f ++ g) /\ (f ++ g)["committed"] = f["committed"]
  <2>1. \A x \in DOMAIN f : (f ++ g)[x] = f[x]
    BY Joined
  <2>2. "committed" \in DOMAIN (f ++ g)
    BY <1>2, JoinedHas
  <2>3. QED
    BY <1>2, <2>1, <2>2
<1>3. CASE strength = "projection"
  <2>1. Invalidate(strength) = c
    BY <1>3 DEF Invalidate, c
  <2>2. QED
    BY <1>1, <2>1
<1>4. CASE strength = "composition"
  <2>1. Invalidate(strength) = c ++ ResetComposition
    BY <1>4 DEF Invalidate, c
  <2>2. QED
    BY <1>1, <1>2, <2>1
<1>5. CASE strength = "research"
  <2>1. Invalidate(strength) = c ++ ResetComposition ++ ResetResearch
    BY <1>5 DEF Invalidate, c
  <2> DEFINE d == c ++ ResetComposition
  <2>2. "committed" \in DOMAIN d /\ d["committed"] = FALSE
    BY <1>1, <1>2
  <2> HIDE DEF d
  <2>3. "committed" \in DOMAIN (d ++ ResetResearch) /\ (d ++ ResetResearch)["committed"] = d["committed"]
    BY <2>2, <1>2
  <2>4. Invalidate(strength) = d ++ ResetResearch
    BY <2>1 DEF d
  <2>5. QED
    BY <2>2, <2>3, <2>4
<1>6. QED
  BY <1>3, <1>4, <1>5

LEMMA JoinedUncommits ==
    ASSUME NEW e, "committed" \notin DOMAIN e, NEW strength \in {"projection", "composition", "research"}
    PROVE  ~Commits(e ++ Invalidate(strength))
<1> DEFINE g == Invalidate(strength)
<1>1. "committed" \in DOMAIN g /\ g["committed"] = FALSE
  BY InvalidateUncommits
<1> HIDE DEF g
<1>2. (e ++ g)["committed"] = g["committed"]
  <2>1. \A x \in DOMAIN g \ DOMAIN e : (e ++ g)[x] = g[x]
    BY Joined
  <2>2. "committed" \in DOMAIN g \ DOMAIN e
    BY <1>1
  <2>3. QED
    BY <2>1, <2>2
<1>3. (e ++ g)["committed"] # TRUE
  BY <1>1, <1>2
<1>4. QED
  BY <1>3 DEF Commits, g

LEMMA PlanGateUncommits ==
    ASSUME NEW full, NEW v \in PlanGate(full)
    PROVE  ~Commits(v)
<1>1. \/ v = [raise |-> TRUE] \/ v = [cancel |-> TRUE] \/ v = Seal
      \/ \E kind \in {"projection", "research"} :
           \E decision \in {"amendment", "projection_amendment_pending"} : v = EditPlan(full, kind, decision)
  BY DEF PlanGate
<1>2. CASE v = [raise |-> TRUE] \/ v = [cancel |-> TRUE] \/ v = Seal
  <2>1. DOMAIN v \subseteq {"raise", "cancel", "decision", "sealed", "deadline"}
    BY <1>2 DEF Seal
  <2>2. QED
    BY <2>1 DEF Commits
<1>3. ASSUME NEW kind \in {"projection", "research"},
             NEW decision \in {"amendment", "projection_amendment_pending"},
             v = EditPlan(full, kind, decision)
      PROVE  ~Commits(v)
  <2> DEFINE e == [edit |-> kind, decision |-> decision, edits |-> full.edits + 1]
  <2>1. "committed" \notin DOMAIN e
    OBVIOUS
  <2>2. v = e ++ Invalidate(kind)
    BY <1>3, Zenon DEF EditPlan
  <2> HIDE DEF e
  <2>3. kind \in {"projection", "composition", "research"}
    OBVIOUS
  <2>4. ~Commits(e ++ Invalidate(kind))
    BY <2>1, <2>3, JoinedUncommits
  <2>5. QED
    BY <2>2, <2>4
<1>4. QED
  BY <1>1, <1>2, <1>3

LEMMA RouterUncommits ==
    ASSUME NEW full, NEW v \in Router(full)
    PROVE  ~Commits(v)
<1> DEFINE refused == {a \in full.pending : TooLate(full, a)}
           accepted == full.pending \ refused
           goOn == [route |-> full.resume, resume |-> "none"]
           turned == [pending |-> {}, rejected |-> refused]
           amended == [pending |-> accepted, rejected |-> refused, route |-> "normalizer",
                       resume |-> "none", edits |-> full.edits + 1, decision |-> "runtime_amendment"]
<1>1. \/ v = goOn
      \/ v = turned ++ goOn
      \/ v = amended ++ Invalidate(Strongest(accepted))
  BY Zenon DEF Router
<1>2. DOMAIN goOn = {"route", "resume"} /\ DOMAIN turned = {"pending", "rejected"}
  OBVIOUS
<1>3. "committed" \notin DOMAIN amended
  OBVIOUS
<1> HIDE DEF goOn, turned, amended, accepted
<1>4. Strongest(accepted) \in {"projection", "composition", "research"}
  BY DEF Strongest
<1>5. CASE v = amended ++ Invalidate(Strongest(accepted))
  <2>1. ~Commits(amended ++ Invalidate(Strongest(accepted)))
    BY <1>3, <1>4, JoinedUncommits
  <2>2. QED
    BY <1>5, <2>1
<1>6. CASE v = goOn \/ v = turned ++ goOn
  <2>1. "committed" \notin DOMAIN (turned ++ goOn) /\ "committed" \notin DOMAIN goOn
    BY <1>2, JoinedHas
  <2>2. QED
    BY <1>6, <2>1 DEF Commits
<1>7. QED
  BY <1>1, <1>5, <1>6

LEMMA BodyOfNormalizer ==
    ASSUME NEW full, NEW n, n = "normalizer", NEW v \in Body(full, n)
    PROVE  v \in Normalizer(full)
  BY DEF Body, Workers, Composer

LEMMA BodyOfPlanGate ==
    ASSUME NEW full, NEW n, n = "plan gate", NEW v \in Body(full, n)
    PROVE  v \in PlanGate(full)
  BY DEF Body, Workers, Composer

LEMMA BodyOfRouter ==
    ASSUME NEW full, NEW n, n = "router", NEW v \in Body(full, n)
    PROVE  v \in Router(full)
  BY DEF Body, Workers, Composer

LEMMA CommitsLast ==
    ASSUME NEW full, NEW n \in Nodes, NEW v \in Body(full, n), Commits(v)
    PROVE  n = "finalizer"
<1>1. "committed" \in BodyFields(n)
  <2>1. "committed" \in DOMAIN v
    BY DEF Commits
  <2>2. QED
    BY <2>1, BodyWithin
<1>2. "committed" \notin GateFields
  BY DEF GateFields
<1>3. n \in {"plan gate", "router", "finalizer"}
  <2>1. n \notin {"normalizer", "draft", "planner", "dispatcher"} \union Workers \union {Composer}
    <3>1. ASSUME NEW m \in Workers PROVE "committed" \notin BodyFields(m)
      <4>1. BodyFields(m) = {"status", "packets", "fault", "next"}
        BY FieldsAre, Zenon
      <4>2. QED
        BY <4>1
    <3>2. n \notin {"normalizer", "draft", "planner", "dispatcher", Composer}
      BY <1>1, FieldsAre, ZenonT(60)
    <3>3. QED
      BY <1>1, <3>1, <3>2
  <2>2. n \notin {"candidate gate", "artifact gate", "fidelity gate", "quality gate", "projector"}
    <3>1. n \notin {"candidate gate", "artifact gate"}
      <4>1. n \in {"candidate gate", "artifact gate"} => BodyFields(n) = GateFields
        BY FieldsAre, Zenon
      <4>2. QED
        BY <1>1, <1>2, <4>1
    <3>2. n \notin {"fidelity gate", "quality gate", "projector"}
      <4>1. n \in {"fidelity gate", "quality gate", "projector"} => BodyFields(n) = GateFields \union {"raise"}
        BY FieldsAre, Zenon
      <4>2. "committed" \notin GateFields \union {"raise"}
        BY <1>2
      <4>3. QED
        BY <1>1, <4>1, <4>2
    <3>3. QED
      BY <3>1, <3>2
  <2>3. n \notin {"clarifier", "brief", "geo", "weather", "summary", "budget"}
    BY <1>1, FieldsAre
  <2>4. QED
    BY <2>1, <2>2, <2>3, NodesAre DEF Workers, Composer
<1>4. n # "router"
  BY BodyOfRouter, RouterUncommits
<1>5. n # "plan gate"
  BY BodyOfPlanGate, PlanGateUncommits
<1>6. QED
  BY <1>3, <1>4, <1>5

\* What the body of a node reads of the state it is given.
Reads(full, old) ==
    /\ full.con = old.con /\ full.draft = old.draft /\ full.plan = old.plan
    /\ full.workspace = old.workspace /\ full.resume = old.resume /\ full.edits = old.edits
    /\ old.pending \subseteq full.pending

\* Each node by its body.
LEMMA LaneChainBody ==
    ASSUME NEW old, NEW n \in {"brief", "draft", "geo", "weather", "summary", "planner"},
           LaneAt(old, {n}), NEW full, NEW v \in Body(full, n), NEW st, Moved(old, v, st)
    PROVE  LaneAt(st, Targets(st, n))
<1>1. n \in Nodes
  BY NodesAre
<1>2. DOMAIN v \subseteq BodyFields(n)
  BY <1>1, BodyWithin
<1>3. BodyFields(n) \intersect {"con", "resume", "pending", "workspace"} = {}
  BY FieldsAre
<1>4. DOMAIN v \intersect {"con", "resume", "pending", "workspace"} = {}
  BY <1>2, <1>3
<1>5. QED
  BY <1>4, LaneChain

LEMMA LanePlanGateBody ==
    ASSUME NEW old, NEW n, n = "plan gate", LaneAt(old, {n}), NEW full, Reads(full, old),
           NEW v \in PlanGate(full), GoesOn(n, v), NEW st, Moved(old, v, st)
    PROVE  LaneAt(st, Targets(st, n))
  BY LanePlanGate DEF Reads

LEMMA LaneRouterBody ==
    ASSUME NEW old, NEW n, n = "router", LaneAt(old, {n}), Coherent(old), old.edits \in Nat,
           NEW full, Reads(full, old), NEW v \in Router(full),
           NEW st, Moved(old, v, st), Verdict(n, st) = "running"
    PROVE  LaneAt(st, Targets(st, n))
<1>1. st.route # "none" /\ Coherent(st)
  BY DEF Verdict
<1>2. QED
  BY <1>1, LaneRouter DEF Reads

\* Whatever the node: the lane goes on as promised, and a run that commits ends there.
LEMMA LaneBody ==
    ASSUME NEW old, NEW n \in Nodes \ Agents, LaneAt(old, {n}), Coherent(old), old.edits \in Nat,
           NEW full, StateOK(full), Reads(full, old), NEW v \in Body(full, n), GoesOn(n, v),
           NEW st, StateOK(st), Moved(old, v, st), Verdict(n, st) = "running"
    PROVE  LaneGoes(n, v, st)
<1>1. \/ n \in {"clarifier", "normalizer", "plan gate", "router"}
      \/ n \in {"brief", "draft", "geo", "weather", "summary", "planner"}
      \/ n \in OnwardNodes
  BY NodesAre DEF OnwardNodes, Agents, Workers, Composer
<1>2. LaneAt(st, Targets(st, n))
  <2>1. CASE n = "clarifier"
    <3>1. DOMAIN v \subseteq {"pending"}
      BY <2>1, BodyWithin, FieldsAre
    <3>2. LaneAt(old, {"clarifier"})
      BY <2>1
    <3>3. QED
      BY <2>1, <3>1, <3>2, LaneClarifier
  <2>2. CASE n = "normalizer"
    <3>1. v \in Normalizer(full)
      BY <2>2, BodyOfNormalizer
    <3>2. full.con \in Contracts
      BY StateIs
    <3>3. LaneAt(old, {"normalizer"})
      BY <2>2
    <3>4. QED
      BY <2>2, <3>1, <3>2, <3>3, LaneNormalizer
  <2>3. CASE n = "plan gate"
    <3>1. v \in PlanGate(full)
      BY <2>3, BodyOfPlanGate
    <3>2. QED
      BY <2>3, <3>1, LanePlanGateBody
  <2>4. CASE n = "router"
    <3>1. Body(full, n) = Router(full)
      BY <2>4, Zenon DEF Body, Workers, Composer
    <3>2. QED
      BY <2>4, <3>1, LaneRouterBody
  <2>5. CASE n \in {"brief", "draft", "geo", "weather", "summary", "planner"}
    BY <2>5, LaneChainBody
  <2>6. CASE n \in OnwardNodes
    <3>1. full.con = old.con /\ full.workspace = old.workspace
      BY DEF Reads
    <3>2. "raise" \notin DOMAIN v
      BY DEF GoesOn, Raises
    <3>3. QED
      BY <2>6, <3>1, <3>2, LaneOnwardStep
  <2>7. QED
    BY <1>1, <2>1, <2>2, <2>3, <2>4, <2>5, <2>6
<1>3. ASSUME Commits(v)
      PROVE  Targets(st, n) = {} /\ Approved(st) /\ st.workspace = st.con
  <2>1. n = "finalizer"
    BY <1>3, CommitsLast
  <2>2. n \in OnwardNodes
    BY <2>1 DEF OnwardNodes
  <2>3. StillOn(old, n, st)
    <3>1. Unruled(v)
      BY <2>2, OnwardFields, Zenon
    <3>2. QED
      BY <2>2, <3>1, OnwardState, Zenon
  <2>4. Edge(st, n) \subseteq {}
    <3>1. Edge(st, n) \subseteq Onward(n)
      BY <2>2, OnwardEdges, Zenon
    <3>2. Onward(n) = {}
      BY <2>1 DEF Onward
    <3>3. QED
      BY <3>1, <3>2
  <2>5. QED
    BY <2>1, <2>3, <2>4 DEF StillOn
<1>4. QED
  BY <1>2, <1>3 DEF LaneGoes

\* with_run_control around the body.
LEMMA MovedKept ==
    ASSUME NEW old, NEW read, NEW v, NEW st, \A f \in Course : st[f] = Written(old, Kept(read, v), f)
    PROVE  Moved(old, v, st)
<1>1. ASSUME NEW f \in Course PROVE st[f] = Written(old, v, f)
  <2>1. f # "deadline"
    BY CourseIs
  <2>2. QED
    BY <2>1, KeptWritten
<1>2. QED
  BY <1>1 DEF Moved

LEMMA GoesKept ==
    ASSUME NEW n, NEW read, NEW v, GoesOn(n, Kept(read, v))
    PROVE  GoesOn(n, v)
<1>1. "raise" \notin DOMAIN v
  <2>1. "raise" \in DOMAIN Kept(read, v) <=> "raise" \in DOMAIN v
    BY KeptIs
  <2>2. QED
    BY <2>1 DEF GoesOn, Raises
<1>2. "cancel" \notin DOMAIN v
  <2>1. "cancel" \in DOMAIN Kept(read, v) <=> "cancel" \in DOMAIN v
    BY KeptIs
  <2>2. QED
    BY <2>1 DEF GoesOn, Cancels
<1>3. QED
  BY <1>1, <1>2 DEF GoesOn, Raises, Cancels

\* Node n returned w, and v is what it wrote before its boundary kept the deadline.
WrittenBy(read, n, w, v) ==
    /\ w = Kept(read, v)
    /\ \/ WindowClosed(read, n) /\ v = BlockedWorkerUpdate(read, n)
       \/ /\ read.con # None /\ Fresh(read) # {} /\ n \notin {"normalizer", "router"}
          /\ v = [resume |-> n, pending |-> Fresh(read)]
       \/ (n \in {"normalizer", "router"} \/ Fresh(read) = {}) /\ v \in Body(Full(read), n)
       \/ /\ read.con = None /\ n \notin {"normalizer", "router"}
          /\ \E b \in Body(Full(read), n) : v = [pending |-> Fresh(read)] ++ b

LEMMA WritesBy ==
    ASSUME NEW read, NEW n, NEW w \in Writes(read, n)
    PROVE  \E v : WrittenBy(read, n, w, v)
  BY WritesAre, Zenon DEF WrittenBy

LEMMA FullOK ==
    ASSUME NEW read, StateOK(read), inbox \subseteq Supplements
    PROVE  StateOK(Full(read))
<1>1. Fresh(read) \subseteq Supplements
  BY DEF Fresh
<1>2. StateOK([read EXCEPT !.pending = @ \union Fresh(read)])
  BY <1>1, SupplementsRead
<1>3. QED
  BY <1>2, Zenon DEF Full

\* A node other than the agents, alone in its superstep.
LEMMA LaneWrite ==
    ASSUME NEW old, StateOK(old), NEW n \in Nodes \ Agents, LaneAt(old, {n}), Coherent(old),
           inbox \subseteq Supplements,
           NEW c, NEW read, read = [old EXCEPT !.now = c], NEW w \in Writes(read, n), GoesOn(n, w),
           NEW st, StateOK(st), \A f \in Course : st[f] = Written(old, w, f),
           Verdict(n, st) = "running"
    PROVE  \E v : w = Kept(read, v) /\ LaneGoes(n, v, st)
<1> DEFINE fresh == Fresh(read)
           full == Full(read)
<1>1. /\ StateOK(read) /\ fresh \subseteq Supplements
      /\ DOMAIN old = DOMAIN InitState
  BY ClockRead DEF Fresh, StateOK
<1>2. /\ read.con = old.con /\ read.draft = old.draft /\ read.plan = old.plan
      /\ read.workspace = old.workspace /\ read.resume = old.resume /\ read.pending = old.pending
      /\ read.edits = old.edits
  <2>1. {"con", "draft", "plan", "workspace", "resume", "pending", "edits"} \subseteq DOMAIN old
    BY <1>1 DEF InitState
  <2>2. QED
    BY <2>1
<1>3. StateOK(full) /\ Reads(full, old)
  <2>1. full = [read EXCEPT !.pending = @ \union fresh]
    BY DEF Full
  <2>2. StateOK(full)
    BY <1>1, FullOK
  <2>3. {"con", "draft", "plan", "workspace", "resume", "pending", "edits"} \subseteq DOMAIN read
    BY <1>1 DEF StateOK, InitState
  <2> HIDE DEF full, fresh
  <2>4. /\ full.con = read.con /\ full.draft = read.draft /\ full.plan = read.plan
        /\ full.workspace = read.workspace /\ full.resume = read.resume /\ full.edits = read.edits
    BY <2>1, <2>3
  <2>5. full.pending = read.pending \union fresh
    BY <2>1, <2>3
  <2>6. QED
    BY <1>2, <2>2, <2>4, <2>5 DEF Reads
<1>12. PICK v : WrittenBy(read, n, w, v)
  BY WritesBy, Zenon
<1>4. /\ w = Kept(read, v)
      /\ \/ WindowClosed(read, n) /\ v = BlockedWorkerUpdate(read, n)
         \/ /\ read.con # None /\ fresh # {} /\ n \notin {"normalizer", "router"}
            /\ v = [resume |-> n, pending |-> fresh]
         \/ (n \in {"normalizer", "router"} \/ fresh = {}) /\ v \in Body(full, n)
         \/ /\ read.con = None /\ n \notin {"normalizer", "router"}
            /\ \E b \in Body(full, n) : v = [pending |-> fresh] ++ b
  BY <1>12, Zenon DEF WrittenBy
<1>5. Moved(old, v, st)
  BY <1>4, MovedKept
<1> HIDE DEF full, fresh
<1>6. ~WindowClosed(read, n)
  BY DEF WindowClosed
<1>7. CASE /\ read.con # None /\ fresh # {} /\ n \notin {"normalizer", "router"}
           /\ v = [resume |-> n, pending |-> fresh]
  <2>1. Targets(st, n) = {"router"} /\ LaneAt(st, {"router"})
    BY <1>2, <1>5, <1>7, LaneDiverted, SMTT(30)
  <2>2. ~Commits(v)
    <3>1. DOMAIN v = {"resume", "pending"}
      BY <1>7
    <3>2. QED
      BY <3>1 DEF Commits
  <2>3. LaneGoes(n, v, st)
    BY <2>1, <2>2 DEF LaneGoes
  <2>4. QED
    BY <1>4, <2>3
<1>8. CASE (n \in {"normalizer", "router"} \/ fresh = {}) /\ v \in Body(full, n)
  <2>1. old.edits \in Nat
    BY StateIs
  <2>2. GoesOn(n, v)
    BY <1>4, GoesKept
  <2>3. LaneGoes(n, v, st)
    BY <1>3, <1>5, <1>8, <2>1, <2>2, LaneBody
  <2>4. QED
    BY <1>4, <2>3
<1>9. CASE /\ read.con = None /\ n \notin {"normalizer", "router"}
           /\ \E b \in Body(full, n) : v = [pending |-> fresh] ++ b
  <2>1. n = "clarifier"
    BY <1>2, <1>9 DEF LaneAt
  <2>2. PICK b \in Body(full, n) : v = [pending |-> fresh] ++ b
    BY <1>9
  <2>3. DOMAIN b = {}
    BY <2>1, BodyWithin, FieldsAre
  <2>4. DOMAIN v \subseteq {"pending"}
    <3> DEFINE p == [pending |-> fresh]
    <3>1. DOMAIN p = {"pending"}
      OBVIOUS
    <3> HIDE DEF p
    <3>2. DOMAIN (p ++ b) = DOMAIN p \union DOMAIN b
      BY Joined
    <3>3. v = p ++ b
      BY <2>2 DEF p
    <3>4. QED
      BY <2>3, <3>1, <3>2, <3>3
  <2>5. LaneAt(st, Targets(st, n))
    <3>1. LaneAt(old, {"clarifier"})
      BY <2>1
    <3>2. LaneAt(st, Targets(st, "clarifier"))
      BY <1>5, <2>4, <3>1, LaneClarifier, Zenon
    <3>3. QED
      BY <2>1, <3>2
  <2>6. ~Commits(v)
    BY <2>4 DEF Commits
  <2>7. LaneGoes(n, v, st)
    BY <2>5, <2>6 DEF LaneGoes
  <2>8. QED
    BY <1>4, <2>7
<1>10. QED
  BY <1>4, <1>6, <1>7, <1>8, <1>9

-----------------------------------------------------------------------------
(* The agents of a group. *)

\* The fields of the approval, and the commit.
Approval == {"con", "draft", "plan", "sealed", "committed"}

\* What is composed is composed for contract c.
ComposedFor(w, c) == "workspace" \in DOMAIN w => w["workspace"] = c

\* What agent n leaves behind when it has returned w under contract c and its edge has
\* chosen t.
Waits(n, w, t, c) ==
    /\ n \in Agents
    /\ DOMAIN w \intersect Approval = {}
    /\ ComposedFor(w, c)
    /\ "resume" \in DOMAIN w => w["resume"] = n
    /\ t \subseteq {"dispatcher", "router"}
    /\ "resume" \in DOMAIN w \/ "pending" \in DOMAIN w => t = {"router"}

\* No agent writes them.
LEMMA AgentFields ==
    ASSUME NEW n \in Agents
    PROVE  BodyFields(n) \intersect (Approval \union {"resume", "pending"}) = {}
<1>1. CASE n \in Workers
  <2>1. BodyFields(n) = {"status", "packets", "fault", "next"}
    BY <1>1, FieldsAre, Zenon
  <2>2. QED
    BY <2>1 DEF Approval
<1>2. CASE n = Composer
  <2>1. BodyFields(n) = {"raise", "status", "fault", "skeleton", "gate", "gateRoute", "workspace"}
    BY <1>2, FieldsAre, Zenon
  <2>2. QED
    BY <2>1 DEF Approval
<1>3. QED
  BY <1>1, <1>2 DEF Agents

LEMMA AgentComposes ==
    ASSUME NEW full, NEW n \in Agents, NEW v \in Body(full, n)
    PROVE  ComposedFor(v, full.con)
<1>1. CASE n = Composer
  <2>1. v \in Compose(full)
    BY <1>1 DEF Body, Workers, Composer
  <2>2. \/ v = [raise |-> TRUE] \/ v = Composed(full)
        \/ \E f \in BOOLEAN : v = [status |-> Entry(Composer, "failed"), fault |-> f]
    BY <2>1 DEF Compose
  <2>3. CASE v = Composed(full)
    BY <2>3 DEF Composed, ComposedFor
  <2>4. CASE v = [raise |-> TRUE]
    BY <2>4 DEF ComposedFor
  <2>5. ASSUME NEW f, v = [status |-> Entry(Composer, "failed"), fault |-> f]
        PROVE  ComposedFor(v, full.con)
    BY <2>5 DEF ComposedFor
  <2>6. QED
    BY <2>2, <2>3, <2>4, <2>5
<1>2. CASE n \in Workers
  <2>1. BodyFields(n) = {"status", "packets", "fault", "next"}
    BY <1>2, FieldsAre, Zenon
  <2>2. DOMAIN v \subseteq BodyFields(n)
    BY AgentsAreNodes, BodyWithin
  <2>3. QED
    BY <2>1, <2>2 DEF ComposedFor
<1>3. QED
  BY <1>1, <1>2 DEF Agents

\* What an agent may write: it is sent to the router, or leaves the course alone.
OwnOnly(n, w) ==
    \/ DOMAIN w \intersect (Approval \union {"resume", "pending"}) = {}
    \/ /\ DOMAIN w \intersect Approval = {}
       /\ "resume" \in DOMAIN w /\ w["resume"] = n
       /\ "pending" \in DOMAIN w /\ w["pending"] # {}

LEMMA AgentWrites ==
    ASSUME NEW read, NEW n \in Agents, read.con # None, NEW w \in Writes(read, n)
    PROVE  OwnOnly(n, w)
<1> DEFINE fresh == Fresh(read)
           full == Full(read)
           T == Approval \union {"resume", "pending"}
<1>1. PICK v : WrittenBy(read, n, w, v)
  BY WritesBy, Zenon
<1>2. /\ w = Kept(read, v)
      /\ \/ v = BlockedWorkerUpdate(read, n)
         \/ fresh # {} /\ v = [resume |-> n, pending |-> fresh]
         \/ v \in Body(full, n)
  BY <1>1, Zenon DEF WrittenBy
<1> HIDE DEF fresh, full
<1>3. ASSUME NEW f \in T PROVE f \in DOMAIN w => f \in DOMAIN v /\ w[f] = v[f]
  <2>1. f # "deadline"
    BY DEF Approval
  <2>2. QED
    BY <1>2, <2>1, KeptIs
<1>4. ASSUME NEW f \in T PROVE f \in DOMAIN v => f \in DOMAIN w /\ w[f] = v[f]
  <2>1. f # "deadline"
    BY DEF Approval
  <2>2. QED
    BY <1>2, <2>1, KeptIs
<1>5. CASE DOMAIN v \intersect T = {}
  <2>1. DOMAIN w \intersect T = {}
    BY <1>3, <1>5
  <2>2. QED
    BY <2>1 DEF OwnOnly
<1>6. CASE v = BlockedWorkerUpdate(read, n)
  <2>1. DOMAIN v \subseteq {"status", "fault"}
    BY <1>6 DEF BlockedWorkerUpdate
  <2>2. DOMAIN v \intersect T = {}
    BY <2>1 DEF Approval
  <2>3. QED
    BY <2>2, <1>5
<1>7. CASE v \in Body(full, n)
  <2>1. DOMAIN v \subseteq BodyFields(n)
    BY <1>7, AgentsAreNodes, BodyWithin
  <2>2. DOMAIN v \intersect T = {}
    BY <2>1, AgentFields
  <2>3. QED
    BY <2>2, <1>5
<1>8. CASE fresh # {} /\ v = [resume |-> n, pending |-> fresh]
  <2>1. DOMAIN v = {"resume", "pending"} /\ v["resume"] = n /\ v["pending"] = fresh
    BY <1>8
  <2>2. {"resume", "pending"} \subseteq T
    OBVIOUS
  <2>3. "resume" \in DOMAIN w /\ w["resume"] = n /\ "pending" \in DOMAIN w /\ w["pending"] # {}
    BY <1>4, <1>8, <2>1, <2>2
  <2>4. {"resume", "pending"} \intersect Approval = {}
    BY DEF Approval
  <2>5. DOMAIN w \intersect Approval = {}
    BY <1>3, <2>1, <2>4
  <2>6. QED
    BY <2>3, <2>5 DEF OwnOnly
<1>9. QED
  BY <1>2, <1>6, <1>7, <1>8

LEMMA AgentComposed ==
    ASSUME NEW old, StateOK(old), NEW n \in Agents, NEW c, NEW read, read = [old EXCEPT !.now = c],
           NEW w \in Writes(read, n)
    PROVE  ComposedFor(w, old.con)
<1> DEFINE fresh == Fresh(read)
           full == Full(read)
<1>1. PICK v : WrittenBy(read, n, w, v)
  BY WritesBy, Zenon
<1>2. n \notin {"normalizer", "router"}
  BY DEF Agents, Workers, Composer
<1>3. full.con = old.con
  <2>1. {"con", "pending", "now"} \subseteq DOMAIN old
    BY DEF StateOK, InitState
  <2>2. read.con = old.con /\ {"con", "pending"} \subseteq DOMAIN read
    BY <2>1
  <2>3. QED
    BY <2>2 DEF Full
<1>4. /\ w = Kept(read, v)
      /\ \/ v = BlockedWorkerUpdate(read, n)
         \/ v = [resume |-> n, pending |-> fresh]
         \/ v \in Body(full, n)
         \/ \E b \in Body(full, n) : v = [pending |-> fresh] ++ b
  BY <1>1, <1>2, Zenon DEF WrittenBy
<1> HIDE DEF full, fresh
<1>5. ComposedFor(v, old.con)
  <2>1. CASE v = BlockedWorkerUpdate(read, n)
    <3>1. DOMAIN v \subseteq {"status", "fault"}
      BY <2>1 DEF BlockedWorkerUpdate
    <3>2. QED
      BY <3>1 DEF ComposedFor
  <2>2. CASE v = [resume |-> n, pending |-> fresh]
    <3>1. DOMAIN v = {"resume", "pending"}
      BY <2>2
    <3>2. QED
      BY <3>1 DEF ComposedFor
  <2>3. ASSUME NEW b \in Body(full, n) PROVE ComposedFor(b, old.con)
    BY <1>3, AgentComposes
  <2>4. ASSUME NEW b \in Body(full, n), v = [pending |-> fresh] ++ b
        PROVE  ComposedFor(v, old.con)
    <3> DEFINE p == [pending |-> fresh]
    <3>1. DOMAIN p = {"pending"}
      OBVIOUS
    <3> HIDE DEF p
    <3>2. DOMAIN (p ++ b) = DOMAIN p \union DOMAIN b /\ \A x \in DOMAIN b \ DOMAIN p : (p ++ b)[x] = b[x]
      BY Joined
    <3>3. v = p ++ b
      BY <2>4 DEF p
    <3>4. QED
      BY <2>3, <3>1, <3>2, <3>3 DEF ComposedFor
  <2>5. QED
    BY <1>4, <2>1, <2>2, <2>3, <2>4
<1>6. /\ "workspace" \in DOMAIN w => "workspace" \in DOMAIN v /\ w["workspace"] = v["workspace"]
  BY <1>4, KeptIs
<1>7. QED
  BY <1>5, <1>6 DEF ComposedFor

LEMMA AgentWaits ==
    ASSUME NEW old, StateOK(old), NEW n \in Agents, old.con # None, old.pending = {},
           NEW c, NEW read, read = [old EXCEPT !.now = c], NEW w \in Writes(read, n), NEW now
    PROVE  Waits(n, w, Targets([Merge(old, Entry(n, w)) EXCEPT !.now = now], n), old.con)
<1> DEFINE merged == Merge(old, Entry(n, w))
           st == [merged EXCEPT !.now = now]
<1>1. DOMAIN old = DOMAIN InitState /\ {"con", "pending", "now"} \subseteq DOMAIN old
  <2>1. {"con", "pending", "now"} \subseteq DOMAIN InitState
    BY DEF InitState
  <2>2. QED
    BY <2>1 DEF StateOK
<1>2. read.con = old.con
  BY <1>1
<1>3. n \in Nodes
  BY AgentsAreNodes
<1>4. st = [merged EXCEPT !.now = now]
  OBVIOUS
<1>5. DOMAIN merged = DOMAIN old
  BY MergedFields
<1>15. ComposedFor(w, old.con)
  BY AgentComposed
<1>6. DOMAIN Entry(n, w) = {n} /\ Entry(n, w)[n] = w
  BY EntryIs
<1>7. merged["pending"] = Written(old, w, "pending")
  <2> DEFINE e == Entry(n, w)
  <2>1. DOMAIN e = {n} /\ e[n] = w
    BY <1>6
  <2>2. "pending" \in DOMAIN old
    BY <1>1
  <2> HIDE DEF e
  <2>3. Merge(old, e)["pending"] = Written(old, w, "pending")
    BY <1>3, <2>1, <2>2, WrittenAlone
  <2>4. QED
    BY <2>3 DEF e
<1> HIDE DEF merged, st
<1>8. st.pending = Written(old, w, "pending")
  BY <1>1, <1>4, <1>5, <1>7
<1>9. n \notin {"clarifier", "normalizer", "router"}
  BY DEF Agents, Workers, Composer
<1>10. CASE DOMAIN w \intersect (Approval \union {"resume", "pending"}) = {}
  <2>1. st.pending = {}
    BY <1>8, <1>10 DEF Written
  <2>2. Targets(st, n) \subseteq {"dispatcher"}
    BY <2>1, AgentTargets
  <2>3. Waits(n, w, Targets(st, n), old.con)
    BY <1>10, <1>15, <2>2 DEF Waits
  <2>4. QED
    BY <2>3 DEF st, merged
<1>11. CASE /\ DOMAIN w \intersect Approval = {}
            /\ "resume" \in DOMAIN w /\ w["resume"] = n
            /\ "pending" \in DOMAIN w /\ w["pending"] # {}
  <2>1. st.pending # {}
    BY <1>8, <1>11 DEF Written
  <2>2. Targets(st, n) = {"router"}
    BY <1>9, <2>1 DEF Targets
  <2>3. Waits(n, w, Targets(st, n), old.con)
    BY <1>11, <1>15, <2>2 DEF Waits
  <2>4. QED
    BY <2>3 DEF st, merged
<1>12. read.con # None
  BY <1>2
<1>13. OwnOnly(n, w)
  BY <1>12, AgentWrites, Zenon
<1>14. QED
  BY <1>10, <1>11, <1>13 DEF OwnOnly

\* All the agents of a superstep have returned.
AllWait(writes, targets, c) == \A m \in DOMAIN writes : Waits(m, writes[m], targets[m], c)

\* Their merge leaves the approval alone, and names at most one node to resume.
LEMMA AgentsMerge ==
    ASSUME NEW old, StateOK(old), NEW writes, DOMAIN writes \subseteq Agents,
           NEW targets, AllWait(writes, targets, old.con), NEW st, st = Merge(old, writes)
    PROVE  /\ st.con = old.con /\ st.draft = old.draft /\ st.plan = old.plan /\ st.sealed = old.sealed
           /\ st.committed = old.committed /\ st.workspace \in {old.workspace, old.con}
           /\ \/ st.resume = old.resume
              \/ \E m \in DOMAIN writes : st.resume = m
           /\ (\A m \in DOMAIN writes : targets[m] # {"router"}) =>
                st.resume = old.resume /\ st.pending = old.pending
<1>1. {"con", "draft", "plan", "sealed", "committed", "resume", "pending", "workspace"} \subseteq DOMAIN old
  <2>1. {"con", "draft", "plan", "sealed", "committed", "resume", "pending", "workspace"}
          \subseteq DOMAIN InitState
    BY DEF InitState
  <2>2. QED
    BY <2>1 DEF StateOK
<1>2. ASSUME NEW f \in Approval PROVE st[f] = old[f]
  <2>1. \A m \in DOMAIN writes : f \notin DOMAIN writes[m]
    BY DEF AllWait, Waits
  <2>2. f \in DOMAIN old
    BY <1>1 DEF Approval
  <2>3. QED
    BY <2>1, <2>2, UnwrittenStays
<1>3. {"con", "draft", "plan", "sealed", "committed"} \subseteq Approval
  BY DEF Approval
<1>4. DOMAIN writes \subseteq Nodes
  BY AgentsAreNodes
<1>5. st.resume = old.resume \/ \E m \in DOMAIN writes : st.resume = m
  <2>1. \/ st["resume"] = old["resume"]
        \/ \E m \in DOMAIN writes : "resume" \in DOMAIN writes[m] /\ st["resume"] = writes[m]["resume"]
    <3>1. "resume" \in DOMAIN old /\ "resume" \notin {"status", "packets", "applied", "rejected", "committed"}
      BY <1>1
    <3>2. QED
      BY <1>4, <3>1, MergedPlain
  <2>2. \A m \in DOMAIN writes : "resume" \in DOMAIN writes[m] => writes[m]["resume"] = m
    BY DEF AllWait, Waits
  <2>3. QED
    BY <2>1, <2>2
<1>6. ASSUME \A m \in DOMAIN writes : targets[m] # {"router"}
      PROVE  st.resume = old.resume /\ st.pending = old.pending
  <2>1. \A m \in DOMAIN writes : "resume" \notin DOMAIN writes[m] /\ "pending" \notin DOMAIN writes[m]
    BY <1>6 DEF AllWait, Waits
  <2>2. "resume" \in DOMAIN old /\ "pending" \in DOMAIN old
    BY <1>1
  <2>3. st["resume"] = old["resume"]
    BY <2>1, <2>2, UnwrittenStays
  <2>4. st["pending"] = old["pending"]
    BY <2>1, <2>2, UnwrittenStays
  <2>5. QED
    BY <2>3, <2>4
<1>7. st["con"] = old["con"] /\ st["draft"] = old["draft"] /\ st["plan"] = old["plan"]
      /\ st["sealed"] = old["sealed"] /\ st["committed"] = old["committed"]
  BY <1>2, <1>3
<1>9. st["workspace"] \in {old["workspace"], old["con"]}
  <2>1. \/ st["workspace"] = old["workspace"]
        \/ \E m \in DOMAIN writes :
              "workspace" \in DOMAIN writes[m] /\ st["workspace"] = writes[m]["workspace"]
    <3>1. /\ "workspace" \in DOMAIN old
          /\ "workspace" \notin {"status", "packets", "applied", "rejected", "committed"}
      BY <1>1
    <3>2. QED
      BY <1>4, <3>1, MergedPlain
  <2>2. \A m \in DOMAIN writes : "workspace" \in DOMAIN writes[m] => writes[m]["workspace"] = old["con"]
    BY DEF AllWait, Waits, ComposedFor
  <2>3. QED
    BY <2>1, <2>2
<1>8. QED
  BY <1>5, <1>6, <1>7, <1>9

\* So the lane goes on to the dispatcher or to the router.
LEMMA LaneAgents ==
    ASSUME NEW old, StateOK(old), NEW writes, DOMAIN writes \subseteq Agents, DOMAIN writes # {},
           LaneAt(old, DOMAIN writes), NEW targets, DOMAIN targets = DOMAIN writes,
           AllWait(writes, targets, old.con), NEW st, st = Merge(old, writes),
           NEW next, next = UNION Range(targets), (\E n : next \subseteq {n}) \/ next \subseteq Agents
    PROVE  LaneAt(st, next) /\ st.committed = old.committed
<1>1. PICK a \in DOMAIN writes : a \in AfterGate /\ a \notin {"clarifier", "normalizer", "router"}
  <2>1. \A a \in Agents : a \in AfterGate /\ a \notin {"clarifier", "normalizer", "router"}
    BY OnwardIs DEF Agents, Workers, Composer
  <2>2. QED
    BY <2>1
<1>2. Approved(old) /\ old.resume = "none" /\ old.pending = {} /\ old.con # None
  <2>1. Approved(old)
    BY <1>1 DEF LaneAt, Due
  <2>2. old.resume = "none"
    BY <1>1 DEF LaneAt
  <2>3. old.pending = {}
    BY <1>1 DEF LaneAt
  <2>4. old.con # None
    BY <1>1 DEF LaneAt
  <2>5. QED
    BY <2>1, <2>2, <2>3, <2>4
<1>3. /\ st.con = old.con /\ st.draft = old.draft /\ st.plan = old.plan /\ st.sealed = old.sealed
      /\ st.committed = old.committed /\ st.workspace \in {old.workspace, old.con}
      /\ \/ st.resume = old.resume
         \/ \E m \in DOMAIN writes : st.resume = m
      /\ (\A m \in DOMAIN writes : targets[m] # {"router"}) =>
           st.resume = old.resume /\ st.pending = old.pending
  BY AgentsMerge
<1>4. Approved(st) /\ st.con # None
  BY <1>2, <1>3 DEF Approved
<1>5. next \subseteq {"dispatcher", "router"}
  <2>1. \A m \in DOMAIN targets : targets[m] \subseteq {"dispatcher", "router"}
    BY DEF AllWait, Waits
  <2>2. QED
    BY <2>1 DEF Range
<1>6. CASE "router" \notin next
  <2>1. \A m \in DOMAIN writes : targets[m] # {"router"}
    BY <1>6 DEF Range
  <2>2. st.resume = "none" /\ st.pending = {}
    BY <1>2, <1>3, <2>1
  <2>3. next \subseteq AfterGate /\ "finalizer" \notin next
    <3>1. next \subseteq {"dispatcher"}
      BY <1>5, <1>6
    <3>2. "dispatcher" \in AfterGate
      BY DEF AfterGate
    <3>3. QED
      BY <3>1, <3>2
  <2>4. QED
    BY <1>3, <1>4, <2>2, <2>3, LaneOn
<1>7. CASE "router" \in next
  <2>1. next = {"router"}
    <3>1. "router" \notin Agents
      BY DEF Agents, Workers, Composer
    <3>2. "dispatcher" \notin next
      BY <1>5, <1>7, <3>1
    <3>3. QED
      BY <1>5, <1>7, <3>2
  <2>2. st.resume \in Agents \union {"none"}
    BY <1>2, <1>3
  <2>3. st.resume \notin Chain \union {"finalizer", "clarifier"}
    BY <2>2 DEF Chain, Agents, Workers, Composer
  <2>4. \A x : Due(st, next, x) => x = "router" \/ x = st.resume
    BY <2>1 DEF Due
  <2>5. \A x \in Chain \union {"finalizer", "clarifier"} : ~Due(st, next, x)
    <3>1. "router" \notin Chain \union {"finalizer", "clarifier"}
      BY DEF Chain
    <3>2. QED
      BY <2>3, <2>4, <3>1
  <2>6. LaneAt(st, next)
    BY <1>4, <2>1, <2>5 DEF LaneAt
  <2>7. QED
    BY <1>3, <2>6
<1>8. QED
  BY <1>6, <1>7

-----------------------------------------------------------------------------
(* The invariant of one lane. *)

\* The invariant of a run in one lane.
LaneInv ==
    /\ outcome # "running" => Tasks = {}
    /\ outcome = "running" =>
          /\ LaneAt(s, Tasks)
          /\ Coherent(s)
          /\ s.committed # TRUE
          /\ sent = NoWrites
          /\ \A n \in DOMAIN out : Waits(n, out[n], to[n], s.con)
    /\ outcome = "delivered" => Approved(s) /\ s.workspace = s.con

\* Two states that agree on the course are at the same place.
LEMMA LaneSame ==
    ASSUME NEW st, NEW other, \A f \in Course : other[f] = st[f], NEW tasks, LaneAt(st, tasks)
    PROVE  LaneAt(other, tasks)
<1>1. {"con", "draft", "plan", "sealed", "workspace", "resume", "pending"} \subseteq Course
  BY DEF Course
<1>2. /\ other["con"] = st["con"] /\ other["draft"] = st["draft"] /\ other["plan"] = st["plan"]
      /\ other["workspace"] = st["workspace"] /\ other["resume"] = st["resume"]
      /\ other["pending"] = st["pending"]
  BY <1>1
<1>3. other["sealed"] = st["sealed"]
  BY <1>1
<1>4. \A n : Due(other, tasks, n) <=> Due(st, tasks, n)
  BY <1>2 DEF Due
<1>5. Approved(st) => Approved(other)
  BY <1>2, <1>3 DEF Approved
<1>6. QED
  BY <1>2, <1>4, <1>5 DEF LaneAt

LEMMA ApprovedSame ==
    ASSUME NEW st, NEW other, \A f \in Course : other[f] = st[f], Approved(st), st.workspace = st.con
    PROVE  Approved(other) /\ other.workspace = other.con
<1>1. {"con", "draft", "plan", "sealed", "workspace"} \subseteq Course
  BY DEF Course
<1>2. /\ other["con"] = st["con"] /\ other["draft"] = st["draft"] /\ other["plan"] = st["plan"]
      /\ other["workspace"] = st["workspace"] /\ other["sealed"] = st["sealed"]
  BY <1>1
<1>3. QED
  BY <1>2 DEF Approved

\* The run starts in its lane.
LEMMA LaneInitially == ASSUME Init PROVE LaneInv
<1>1. Tasks = {"clarifier"} /\ out = <<>> /\ sent = NoWrites /\ outcome = "running" /\ s = InitState
  BY FirstTask DEF Init
<1>2. s.con = None /\ s.resume = "none" /\ s.pending = {} /\ s.committed = FALSE
  BY <1>1 DEF InitState
<1>3. "clarifier" \notin AfterGate /\ "finalizer" \in AfterGate
  BY PlacesAre
<1>4. \A n : Due(s, Tasks, n) => n = "clarifier"
  BY <1>1 DEF Due
<1>5. LaneAt(s, Tasks)
  <2>1. \A n \in AfterGate : ~Due(s, Tasks, n)
    BY <1>3, <1>4
  <2>2. s.workspace = None
    BY <1>1 DEF InitState
  <2>3. QED
    BY <1>1, <1>2, <1>3, <2>1, <2>2 DEF LaneAt
<1>6. DOMAIN out = {}
  BY <1>1
<1>8. Coherent(s)
  BY <1>1 DEF Coherent, InitState
<1>7. QED
  BY <1>1, <1>2, <1>5, <1>6, <1>8 DEF LaneInv

LEMMA LaneEnded ==
    ASSUME outcome' \in {"failed", "cancelled", "halted", "refused"}, Tasks' = {}
    PROVE  LaneInv'
  BY DEF LaneInv

\* A node other than the agents has returned.
LEMMA LaneAlone ==
    ASSUME TypeInv, LaneInv, outcome = "running", NEW n \in Nodes \ DOMAIN out, n \notin Agents, Tasks = {n},
           NEW read, read = [s EXCEPT !.now = clock], NEW w \in Writes(read, n), NEW now,
           Return(n, w, now)
    PROVE  LaneInv'
<1>1. StateOK(s) /\ inbox \subseteq Supplements
  BY DEF TypeInv, ReceiptsOK
<1>2. StateOK(read)
  BY <1>1, ClockRead
<1>3. WriteOK(w)
  BY <1>1, <1>2, WritesOK
<1>4. Stops(n, w) \/ Moves(n, w, now)
  BY <1>3, AloneStep
<1>5. CASE Stops(n, w)
  BY <1>5, LaneEnded DEF Stops
<1>6. CASE Moves(n, w, now)
  <2> Course \subseteq Plain
    BY PlainIs
  <2>1. PICK st : /\ StateOK(st) /\ (\A f \in Course : st[f] = Written(s, w, f))
                  /\ Tasks' = Targets(st, n) /\ Verdict(n, st) = "running"
    BY <1>6 DEF Moves
  <2>2. LaneAt(s, {n}) /\ Coherent(s)
    BY DEF LaneInv
  <2>3. GoesOn(n, w)
    BY <1>6 DEF GoesOn, Moves
  <2>4. PICK v : w = Kept(read, v) /\ LaneGoes(n, v, st)
    BY <1>1, <2>1, <2>2, <2>3, LaneWrite
  <2>5. LaneAt(st, Tasks') /\ (Commits(v) => Tasks' = {} /\ Approved(st) /\ st.workspace = st.con)
    BY <2>1, <2>4 DEF LaneGoes
  <2>6. \A f \in Course : s'[f] = st[f]
    BY <1>6, <2>1 DEF Moves
  <2>7. LaneAt(s, Tasks)'
    BY <2>5, <2>6, LaneSame
  <2>8. s'["committed"] => Commits(v)
    <3>1. "committed" # "deadline"
      OBVIOUS
    <3>2. Commits(w) => Commits(v)
      BY <2>4, <3>1, KeptIs DEF Commits
    <3>3. s["committed"] # TRUE
      BY DEF LaneInv
    <3>4. QED
      BY <1>6, <3>2, <3>3 DEF Commits, Moves
  <2>9. QED
    <3>1. outcome' = IF Tasks' # {} THEN outcome ELSE IF s'.committed THEN "delivered" ELSE "halted"
      BY <1>6 DEF Moves
    <3>2. DOMAIN out' = {} /\ sent' = NoWrites /\ (Tasks' # {} => Coherent(s)')
      BY <1>6 DEF Moves
    <3>3. QED
      BY <2>5, <2>6, <2>7, <2>8, <3>1, <3>2, ApprovedSame DEF LaneInv
<1>7. QED
  BY <1>4, <1>5, <1>6

\* One more agent waits.
LEMMA WaitsJoined ==
    ASSUME NEW c, NEW n \in Agents, NEW w, NEW t, Waits(n, w, t, c), NEW writes, NEW targets,
           Extended(writes, n, w, out), Extended(targets, n, t, to), DOMAIN to = DOMAIN out,
           \A m \in DOMAIN out : Waits(m, out[m], to[m], c)
    PROVE  /\ AllWait(writes, targets, c)
           /\ DOMAIN writes = {n} \union DOMAIN out /\ DOMAIN targets = DOMAIN writes
<1>1. DOMAIN writes = {n} \union DOMAIN out /\ DOMAIN targets = {n} \union DOMAIN out
  BY DEF Extended
<1>2. ASSUME NEW m \in DOMAIN writes PROVE Waits(m, writes[m], targets[m], c)
  <2>1. CASE m = n
    <3>1. writes[m] = w /\ targets[m] = t
      BY <2>1 DEF Extended
    <3>2. QED
      BY <2>1, <3>1
  <2>2. CASE m # n
    <3>1. m \in DOMAIN out
      BY <1>1, <2>2
    <3>2. writes[m] = out[m] /\ targets[m] = to[m]
      BY <2>2, <3>1 DEF Extended
    <3>3. QED
      BY <3>1, <3>2
  <2>3. QED
    BY <2>1, <2>2
<1>3. QED
  BY <1>1, <1>2 DEF AllWait

\* One of the agents has returned.
LEMMA LaneTogether ==
    ASSUME TypeInv, LaneInv, outcome = "running", OneLane', NEW n \in Tasks \ DOMAIN out,
           Tasks \subseteq Agents,
           NEW read, read = [s EXCEPT !.now = clock], NEW w \in Writes(read, n), NEW now,
           Return(n, w, now)
    PROVE  LaneInv'
<1> DEFINE writes == WritesWith(n, w)
           targets == TargetsWith(n, w, now)
           t == Targets(EdgeState(n, w, now), n)
<1>1. /\ StateOK(s) /\ DOMAIN to = DOMAIN out /\ DOMAIN out \subseteq Tasks
      /\ DOMAIN out = {m \in Tasks : at[m] = "done"}
  BY DEF TypeInv, TasksOK
<1>2. /\ LaneAt(s, Tasks) /\ Coherent(s) /\ s.committed # TRUE /\ sent = NoWrites
      /\ \A m \in DOMAIN out : Waits(m, out[m], to[m], s.con)
  BY DEF LaneInv
<1>3. n \in Agents /\ n \notin {"clarifier", "normalizer", "router"}
  BY DEF Agents, Workers, Composer
<1>4. s.con # None /\ s.pending = {}
  BY <1>2, <1>3 DEF LaneAt
<1>5. Waits(n, w, t, s.con)
  <2> DEFINE st == [Merge(s, Entry(n, w)) EXCEPT !.now = now]
  <2>1. Waits(n, w, Targets(st, n), s.con)
    BY <1>1, <1>3, <1>4, AgentWaits
  <2>2. st = EdgeState(n, w, now)
    BY Zenon DEF EdgeState
  <2> HIDE DEF st
  <2>3. QED
    BY <2>1, <2>2
<1>6. Extended(writes, n, w, out)
  <2>1. writes = Entry(n, w) ++ out
    BY Zenon DEF WritesWith
  <2>2. QED
    BY <2>1, JoinedEntry
<1>7. Extended(targets, n, t, to)
  BY TargetsWithAre
<1> HIDE DEF writes, targets, t
<1>8. /\ AllWait(writes, targets, s.con)
      /\ DOMAIN writes = {n} \union DOMAIN out /\ DOMAIN targets = DOMAIN writes
  <2> DEFINE c == s.con
  <2>1. Waits(n, w, t, c) /\ \A m \in DOMAIN out : Waits(m, out[m], to[m], c)
    BY <1>2, <1>5
  <2> HIDE DEF c
  <2>2. /\ AllWait(writes, targets, c)
        /\ DOMAIN writes = {n} \union DOMAIN out /\ DOMAIN targets = DOMAIN writes
    BY <1>1, <1>3, <1>6, <1>7, <2>1, WaitsJoined, Zenon
  <2>3. QED
    BY <2>2 DEF c
<1>9. \/ \E how \in {"failed", "cancelled", "refused"} : End(how)
      \/ /\ \A m \in Tasks \ {n} : at[m] = "done"
         /\ NextStep(writes, targets, now)
      \/ /\ at' = [at EXCEPT ![n] = "done"] /\ out' = writes /\ to' = targets
         /\ UNCHANGED <<s, sent, outcome>>
  <2> DEFINE how == EdgeVerdict(n, w, now)
  <2>1. how \in {"running", "failed", "refused"}
    BY VerdictIs
  <2>2. \/ End("failed") \/ End("cancelled")
        \/ how # "running" /\ End(how)
        \/ /\ \A m \in Tasks \ {n} : at[m] = "done"
           /\ NextStep(writes, targets, now)
        \/ /\ at' = [at EXCEPT ![n] = "done"] /\ out' = writes /\ to' = targets
           /\ UNCHANGED <<s, sent, outcome>>
    BY ReturnIs, Zenon DEF writes, targets
  <2> HIDE DEF how
  <2>3. QED
    BY <2>1, <2>2
<1>10. CASE \E how \in {"failed", "cancelled", "refused"} : End(how)
  <2>1. PICK how \in {"failed", "cancelled", "refused"} : End(how)
    BY <1>10
  <2>2. outcome' = how /\ Tasks' = {}
    BY <2>1, EndOK, EndClears
  <2>3. QED
    BY <2>1, <2>2, LaneEnded
<1>11. CASE /\ at' = [at EXCEPT ![n] = "done"] /\ out' = writes /\ to' = targets
            /\ UNCHANGED <<s, sent, outcome>>
  <2>1. Tasks' = Tasks
    BY <1>11 DEF Tasks
  <2>2. \A m \in DOMAIN out' : Waits(m, out'[m], to'[m], s.con)
    BY <1>8, <1>11 DEF AllWait
  <2>3. LaneAt(s, Tasks)'
    BY <1>2, <1>11, <2>1
  <2>4. QED
    BY <1>2, <1>11, <2>2, <2>3 DEF LaneInv
<1>12. CASE (\A m \in Tasks \ {n} : at[m] = "done") /\ NextStep(writes, targets, now)
  <2>1. DOMAIN writes = Tasks
    BY <1>1, <1>8, <1>12
  <2>2. /\ DOMAIN out' = {}
        /\ \/ outcome' \in {"failed", "refused"} /\ Tasks' = {}
           \/ /\ s' = Merge(s, writes)
              /\ Tasks' # {} => Coherent(Merge(s, writes))
              /\ Tasks' = UNION Range(targets)
              /\ outcome' = IF Tasks' # {} THEN outcome
                            ELSE IF Merge(s, writes).committed THEN "delivered" ELSE "halted"
    <3>1. "dispatcher" \notin Tasks
      BY DEF Agents, Workers, Composer
    <3>2. QED
      BY <1>12, <3>1, NextStepIs
  <2>3. sent' = NoWrites
    <3>1. "dispatcher" \notin Tasks
      BY DEF Agents, Workers, Composer
    <3>2. QED
      BY <1>12, <3>1, SentIs
  <2>4. CASE outcome' \in {"failed", "refused"} /\ Tasks' = {}
    BY <2>4, LaneEnded
  <2>5. CASE /\ s' = Merge(s, writes)
             /\ Tasks' # {} => Coherent(Merge(s, writes))
             /\ Tasks' = UNION Range(targets)
             /\ outcome' = IF Tasks' # {} THEN outcome
                           ELSE IF Merge(s, writes).committed THEN "delivered" ELSE "halted"
    <3>1. (\E m : Tasks' \subseteq {m}) \/ Tasks' \subseteq Agents
      BY DEF OneLane
    <3>2. LaneAt(s', Tasks') /\ s'.committed = s.committed
      BY <1>1, <1>2, <1>8, <2>1, <2>5, <3>1, LaneAgents, SMTT(30)
    <3>3. outcome' # "delivered"
      BY <1>2, <2>5, <3>2
    <3>4. outcome' # "running" => Tasks' = {}
      BY <2>5
    <3>6. outcome' = "running" => Coherent(s')
      BY <2>5
    <3>5. QED
      BY <1>2, <2>2, <2>3, <3>2, <3>3, <3>4, <3>6 DEF LaneInv
  <2>6. QED
    BY <2>2, <2>4, <2>5
<1>13. QED
  BY <1>9, <1>10, <1>11, <1>12

\* Every step keeps the lane.
LEMMA LaneKept == ASSUME TypeInv, LaneInv, OneLane, OneLane', [Next]_vars PROVE LaneInv'
<1>1. CASE Tasks' = Tasks /\ UNCHANGED <<s, out, to, sent, outcome>>
  BY <1>1 DEF LaneInv
<1>2. ASSUME outcome = "running", NEW n \in Tasks \ DOMAIN out, NEW w \in Writes(StateOf(n), n),
             NEW now, Return(n, w, now)
      PROVE  LaneInv'
  <2>1. n \in Nodes /\ Tasks \subseteq Nodes
    BY DEF TypeInv, TasksOK
  <2>2. sent = NoWrites
    BY <1>2 DEF LaneInv
  <2>3. StateOf(n) = [s EXCEPT !.now = clock]
    BY <2>2 DEF StateOf
  <2>4. Tasks \subseteq Agents \/ (Tasks = {n} /\ n \notin Agents)
    BY <2>1 DEF OneLane
  <2>5. CASE Tasks \subseteq Agents
    BY <1>2, <2>3, <2>5, LaneTogether
  <2>6. CASE Tasks = {n} /\ n \notin Agents
    BY <1>2, <2>1, <2>3, <2>6, LaneAlone
  <2>7. QED
    BY <2>4, <2>5, <2>6
<1>3. QED
  BY <1>1, <1>2, TasksStay

\* A run that stays in one lane satisfies its invariant.
LEMMA LaneHolds == Spec /\ []OneLane => []LaneInv
<1>1. Init => LaneInv
  BY LaneInitially
<1>2. TypeInv /\ LaneInv /\ OneLane /\ OneLane' /\ [Next]_vars => LaneInv'
  BY LaneKept
<1>3. QED
  BY <1>1, <1>2, TypesHold, PTL DEF Spec

\* What the invariant says of the two properties.
LEMMA LaneApproved == ASSUME LaneInv PROVE ApprovedWorkOnly
<1> SUFFICES ASSUME NEW a \in Agents \intersect Tasks
             PROVE  /\ StateOf(a).sealed
                    /\ StateOf(a).draft = StateOf(a).con
                    /\ StateOf(a).plan = StateOf(a).con
  BY DEF ApprovedWorkOnly
<1>1. outcome = "running" /\ LaneAt(s, Tasks) /\ sent = NoWrites
  BY DEF LaneInv
<1>2. a \in AfterGate
  BY OnwardIs
<1>3. Approved(s)
  BY <1>1, <1>2 DEF LaneAt, Due
<1>4. StateOf(a) = [s EXCEPT !.now = clock]
  BY <1>1 DEF StateOf
<1>5. /\ StateOf(a).sealed = s.sealed /\ StateOf(a).draft = s.draft
      /\ StateOf(a).con = s.con /\ StateOf(a).plan = s.plan
  BY <1>4
<1>6. QED
  BY <1>3, <1>5 DEF Approved

LEMMA LaneFresh == ASSUME LaneInv PROVE NoObsoleteMaterial
<1>1. outcome = "delivered" => s.workspace = s.con /\ s.sealed /\ s.draft = s.con /\ s.plan = s.con
  BY DEF LaneInv, Approved
<1>2. ASSUME NEW n \in Tasks \intersect Closing PROVE s.workspace \in {None, s.con}
  <2>1. outcome = "running" /\ LaneAt(s, Tasks)
    BY DEF LaneInv
  <2>2. n \in AfterGate
    BY DEF Closing, AfterGate
  <2>3. Approved(s)
    BY <2>1, <2>2 DEF LaneAt, Due
  <2>4. QED
    BY <2>3 DEF Approved
<1>3. QED
  BY <1>1, <1>2 DEF NoObsoleteMaterial

\* In a run that stays in one lane no agent works on anything but the sealed draft and the
\* plan of its contract, whatever supplements, edits and restarts there are: either they
\* send the run through the plan gate again, or the state they leave is refused
\* (plan_gate_node, seal_minimum_delivery_draft, validate_completion_generation).
THEOREM GraphApproved == Spec /\ []OneLane => []ApprovedWorkOnly
<1>1. LaneInv => ApprovedWorkOnly
  BY LaneApproved
<1>2. QED
  BY <1>1, LaneHolds, PTL

\* In a run that stays in one lane what is judged behind the artifact gate was composed for
\* the contract in force, and what is delivered was composed, sealed, drafted and planned
\* for it (invalidation_update, validate_completion_generation, delivery_finalizer).
THEOREM GraphFresh == Spec /\ []OneLane => []NoObsoleteMaterial
<1>1. LaneInv => NoObsoleteMaterial
  BY LaneFresh
<1>2. QED
  BY <1>1, LaneHolds, PTL

-----------------------------------------------------------------------------
(* A run without supplements: the catalog and its selection. *)

\* A catalog comes with the selection of contract c.
Selected(w, c) ==
    /\ "catalog" \in DOMAIN w => "selection" \in DOMAIN w
    /\ "selection" \in DOMAIN w => w["selection"] = c

\* The candidate gate writes no catalog without its selection.
LEMMA SelectedJoined ==
    ASSUME NEW c, NEW f, Selected(f, c), NEW g, Selected(g, c)
    PROVE  Selected(f ++ g, c)
<1> DEFINE h == f ++ g
<1>1. DOMAIN h = DOMAIN f \union DOMAIN g
  BY Joined
<1>2. \A x \in DOMAIN f : h[x] = f[x]
  BY Joined
<1>3. \A x \in DOMAIN g \ DOMAIN f : h[x] = g[x]
  BY Joined
<1> HIDE DEF h
<1>4. "catalog" \in DOMAIN h => "selection" \in DOMAIN h
  BY <1>1 DEF Selected
<1>5. ASSUME "selection" \in DOMAIN h PROVE h["selection"] = c
  <2>1. CASE "selection" \in DOMAIN f
    BY <2>1, <1>2 DEF Selected
  <2>2. CASE "selection" \notin DOMAIN f
    BY <2>2, <1>1, <1>3, <1>5 DEF Selected
  <2>3. QED
    BY <2>1, <2>2
<1>6. Selected(h, c)
  BY <1>4, <1>5 DEF Selected
<1>7. QED
  BY <1>6 DEF h

LEMMA SelectedNone ==
    ASSUME NEW c, NEW w, DOMAIN w \intersect {"catalog", "selection"} = {}
    PROVE  Selected(w, c)
  BY DEF Selected

LEMMA SelectedPassed == \A c : Selected(Passed, c) /\ Selected(BrokenCatalog, c)
<1> TAKE c
<1>1. DOMAIN Passed = {"gate", "gateRoute"}
  BY DEF Passed
<1>2. Selected(Passed, c)
  BY <1>1, SelectedNone
<1>3. Selected([fault |-> FALSE], c)
  <2>1. DOMAIN [fault |-> FALSE] = {"fault"}
    OBVIOUS
  <2> DEFINE w == [fault |-> FALSE]
  <2> HIDE DEF w
  <2>2. Selected(w, c)
    BY <2>1, SelectedNone DEF w
  <2>3. QED
    BY <2>2 DEF w
<1>4. Selected(Passed ++ [fault |-> FALSE], c)
  BY <1>2, <1>3, SelectedJoined
<1>5. QED
  BY <1>2, <1>4 DEF BrokenCatalog

LEMMA SelectedRepair ==
    ASSUME NEW c, NEW st, NEW w, Selected(w, c), NEW exhausted, Selected(exhausted, c)
    PROVE  Selected(RepairOr(st, w, exhausted), c)
<1> DEFINE more == [repairs |-> st.repairs + 1]
<1>1. DOMAIN more = {"repairs"}
  OBVIOUS
<1>2. RepairOr(st, w, exhausted) \in {more ++ w, exhausted ++ w}
  BY Zenon DEF RepairOr
<1> HIDE DEF more
<1>3. Selected(more, c)
  BY <1>1, SelectedNone
<1>4. Selected(more ++ w, c) /\ Selected(exhausted ++ w, c)
  BY <1>3, SelectedJoined
<1>5. QED
  BY <1>2, <1>4

LEMMA SelectedClosed ==
    ASSUME NEW c, NEW base, Selected(base, c), NEW rows
    PROVE  Selected(PassedUpdate(base, rows), c)
<1> DEFINE more == [base EXCEPT !.dead = @ \union rows]
<1>1. DOMAIN more = DOMAIN base /\ ("selection" \in DOMAIN base => more["selection"] = base["selection"])
  OBVIOUS
<1>2. PassedUpdate(base, rows) = Passed ++ more
  BY Zenon DEF PassedUpdate
<1> HIDE DEF more
<1>3. Selected(more, c)
  BY <1>1 DEF Selected
<1>4. QED
  BY <1>2, <1>3, SelectedPassed, SelectedJoined

LEMMA SelectedFinish ==
    ASSUME NEW c, NEW st, NEW base, Selected(base, c), NEW rows, NEW target, NEW blocked
    PROVE  Selected(FinishGate(st, base, rows, target, blocked), c)
<1>1. Selected(Passed ++ base, c)
  BY SelectedPassed, SelectedJoined
<1>2. Selected(PassedUpdate(base, rows), c)
  BY SelectedClosed
<1>3. Selected(Fund(st, base, target), c)
  <2> DEFINE w == [gate |-> "needs_research", gateRoute |-> target[1],
                   attempts |-> [st.attempts EXCEPT ![target] = @ + 1],
                   scoped |-> st.scoped \union {target[1]},
                   connector |-> IF target = Route THEN TRUE
                                 ELSE IF target = Missing("transport") THEN FALSE ELSE st.connector]
  <2>1. DOMAIN w = {"gate", "gateRoute", "attempts", "scoped", "connector"}
    OBVIOUS
  <2>2. Fund(st, base, target) = w ++ base
    BY Zenon DEF Fund
  <2> HIDE DEF w
  <2>3. Selected(w, c)
    BY <2>1, SelectedNone
  <2>4. QED
    BY <2>2, <2>3, SelectedJoined
<1>4. FinishGate(st, base, rows, target, blocked) \in
         {Passed ++ base, PassedUpdate(base, rows), Fund(st, base, target)}
  BY Zenon DEF FinishGate
<1>5. QED
  BY <1>1, <1>2, <1>3, <1>4

LEMMA SelectedSkeleton ==
    ASSUME NEW c, NEW st, NEW base, Selected(base, c)
    PROVE  Selected(RepairSkeleton(st, base), c)
<1> DEFINE w == [gate |-> "composition_repair", gateRoute |-> "composition_repair"]
<1>1. DOMAIN w = {"gate", "gateRoute"}
  OBVIOUS
<1>2. RepairSkeleton(st, base) = RepairOr(st, w ++ base, Passed)
  BY Zenon DEF RepairSkeleton
<1> HIDE DEF w
<1>3. Selected(w ++ base, c)
  BY <1>1, SelectedNone, SelectedJoined
<1> DEFINE more == w ++ base
<1> HIDE DEF more
<1>4. Selected(RepairOr(st, more, Passed), c)
  BY <1>3, SelectedPassed, SelectedRepair DEF more
<1>5. QED
  BY <1>2, <1>4 DEF more

LEMMA SelectedConnector ==
    ASSUME NEW c, NEW st, NEW base, Selected(base, c), NEW rows, NEW blocked,
           NEW w \in ConnectorPass(st, base, rows, blocked)
    PROVE  Selected(w, c)
<1> DEFINE withRoute == rows \union {Route}
           found == Resolve(st, withRoute, base.dead, {"transport"})
           more == [base EXCEPT !.gaps = withRoute, !.dead = found.dead]
           lower == [skeleton |-> FALSE] ++ base
           target == found.target
<1>1. w \in {RepairSkeleton(st, lower),
             FinishGate(st, base, rows, <<>>, blocked),
             FinishGate(st, more, withRoute, target, {"transport"})}
  BY Zenon DEF ConnectorPass
<1>2. Selected(more, c)
  <2> HIDE DEF withRoute, found
  <2>1. DOMAIN more = DOMAIN base /\ ("selection" \in DOMAIN base => more["selection"] = base["selection"])
    OBVIOUS
  <2> HIDE DEF more
  <2>2. QED
    BY <2>1 DEF Selected
<1>3. Selected(lower, c)
  <2> DEFINE down == [skeleton |-> FALSE]
  <2>1. DOMAIN down = {"skeleton"}
    OBVIOUS
  <2> HIDE DEF down
  <2>2. Selected(down ++ base, c)
    BY <2>1, SelectedNone, SelectedJoined
  <2>3. QED
    BY <2>2 DEF down
<1> HIDE DEF lower, more, withRoute, target
<1>4. Selected(RepairSkeleton(st, lower), c)
  BY <1>3, SelectedSkeleton
<1>5. Selected(FinishGate(st, base, rows, <<>>, blocked), c)
  BY SelectedFinish
<1>6. Selected(FinishGate(st, more, withRoute, target, {"transport"}), c)
  BY <1>2, SelectedFinish
<1>7. QED
  BY <1>1, <1>4, <1>5, <1>6

LEMMA SelectedCandidate ==
    ASSUME NEW st, NEW w \in CandidateGate(st)
    PROVE  Selected(w, st.con)
<1> DEFINE c == st.con
           rows == Rows(st)
           blocked == {g[1] : g \in rows \ {Loose(v) : v \in Workers}}
           known == [catalog |-> st.con, selection |-> st.con, gaps |-> rows,
                     dead |-> st.dead \intersect rows]
           found == Resolve(st, rows, known.dead, blocked)
           base == [known EXCEPT !.dead = found.dead]
           compose == [gate |-> "needs_research", gateRoute |-> Composer]
           target == found.target
<1>1. w \in {BrokenCatalog, PassedUpdate(known, rows), FinishGate(st, base, rows, target, blocked),
             RepairSkeleton(st, base), compose ++ base} \union ConnectorPass(st, base, rows, blocked)
  <2> DEFINE composing == /\ found.target = <<>>
                     /\ \E v \in Workers \intersect Planned : Admitted(st, v)
                     /\ Missing("transport") \notin rows
                     /\ Composer \in Planned
                     /\ st.workspace = None
  <2>1. CandidateGate(st) =
          (IF "catalog" \in Faults \/ st.plan # st.con THEN {BrokenCatalog} ELSE {}) \union
          (IF st.plan # st.con THEN {}
           ELSE IF ResearchClosed(st) /\ ~st.skeleton THEN {PassedUpdate(known, rows)}
           ELSE IF ~composing THEN {FinishGate(st, base, rows, found.target, blocked)}
           ELSE IF st.skeleton THEN ConnectorPass(st, base, rows, blocked)
           ELSE IF st.status[Composer] = "failed" THEN {RepairSkeleton(st, base)}
           ELSE {compose ++ base})
    BY Zenon DEF CandidateGate
  <2> HIDE DEF rows, blocked, known, found, base, compose, composing
  <2>2. QED
    BY <2>1
<1>2. /\ DOMAIN known = {"catalog", "selection", "gaps", "dead"} /\ DOMAIN base = DOMAIN known
      /\ known["selection"] = c /\ base["selection"] = c
  OBVIOUS
<1>3. DOMAIN compose = {"gate", "gateRoute"}
  OBVIOUS
<1> HIDE DEF rows, blocked, known, found, base, compose, target, c
<1>4. Selected(known, c) /\ Selected(base, c)
  BY <1>2 DEF Selected
<1>5. Selected(compose ++ base, c)
  BY <1>3, <1>4, SelectedNone, SelectedJoined
<1>6. Selected(FinishGate(st, base, rows, target, blocked), c)
  BY <1>4, SelectedFinish
<1>7. Selected(PassedUpdate(known, rows), c)
  BY <1>4, SelectedClosed
<1>8. Selected(RepairSkeleton(st, base), c)
  BY <1>4, SelectedSkeleton
<1>9. ASSUME w \in ConnectorPass(st, base, rows, blocked) PROVE Selected(w, c)
  BY <1>4, <1>9, SelectedConnector
<1>10. Selected(w, c)
  BY <1>1, <1>5, <1>6, <1>7, <1>8, <1>9, SelectedPassed
<1>11. QED
  BY <1>10 DEF c

-----------------------------------------------------------------------------
(* Where a run may fail. *)

\* The nodes behind the draft, and those behind the quality gate.
Drafted == {"geo", "weather", "summary", "planner", "plan gate"}
Delivering == {"budget", "projector"}

\* What a run without supplements may rely on when the clock shows c.
CalmAt(st, tasks, c) ==
    /\ tasks \subseteq Chain \union AfterGate
    /\ st.workspace \in {None, st.con}
    /\ tasks \intersect Chain # {} => st.workspace = None
    /\ tasks \intersect Drafted # {} => st.draft = st.con
    /\ "plan gate" \in tasks => st.plan = st.con
    /\ tasks \intersect AfterGate # {} => st.deadline = TRUE
    /\ st.catalog # None => st.selection # None
    /\ tasks \intersect Delivering # {} =>
          c >= 2 \/ (st.qualityRoute = "passed" /\ st.workspace # None)

\* When a run may fail.
MayEnd(st, c) == c >= 2 \/ (st.workspace = None /\ st.repairs = MaxRepairs)

\* A boundary that has passed shows on the clock.
LEMMA ClosedIs ==
    ASSUME NEW st, st.deadline = TRUE
    PROVE  CompositionClosed(st) <=> st.now >= 2
  BY DEF CompositionClosed, Phase

\* Why the nodes that may raise do so.
LEMMA PlanGateRaises ==
    ASSUME NEW st, NEW v \in PlanGate(st), "raise" \in DOMAIN v
    PROVE  st.draft # st.con \/ st.plan # st.con
<1> SUFFICES ASSUME st.draft = st.con, st.plan = st.con PROVE FALSE
  OBVIOUS
<1>1. \/ v = [cancel |-> TRUE] \/ v = Seal
      \/ \E kind \in {"projection", "research"} :
           \E decision \in {"amendment", "projection_amendment_pending"} : v = EditPlan(st, kind, decision)
  BY DEF PlanGate
<1>2. CASE v = [cancel |-> TRUE] \/ v = Seal
  <2>1. DOMAIN v \subseteq {"cancel", "decision", "sealed", "deadline"}
    BY <1>2 DEF Seal
  <2>2. QED
    BY <2>1
<1>3. ASSUME NEW kind \in {"projection", "research"},
             NEW decision \in {"amendment", "projection_amendment_pending"},
             v = EditPlan(st, kind, decision)
      PROVE  FALSE
  <2> DEFINE e == [edit |-> kind, decision |-> decision, edits |-> st.edits + 1]
             rest == Invalidate(kind)
  <2>1. DOMAIN e = {"edit", "decision", "edits"}
    OBVIOUS
  <2>2. v = e ++ rest
    BY <1>3, Zenon DEF EditPlan
  <2>3. DOMAIN rest \subseteq ResetFields
    <3>1. kind \in {"projection", "composition", "research"}
      OBVIOUS
    <3>2. QED
      BY <3>1, InvalidateFields
  <2> HIDE DEF e, rest
  <2>4. "raise" \in DOMAIN e \/ "raise" \in DOMAIN rest
    BY <2>2, JoinedHas
  <2>5. QED
    BY <2>1, <2>3, <2>4 DEF ResetFields
<1>4. QED
  BY <1>1, <1>2, <1>3

LEMMA FidelityRaises ==
    ASSUME NEW st, NEW v \in FidelityGate(st), "raise" \in DOMAIN v, "prohibition" \notin Faults
    PROVE  st.workspace \notin {None, st.con}
<1> DEFINE verdicts == {[fidelityRoute |-> r] : r \in {"passed", "candidate gate"}}
           repaired == RepairOr(st, [fidelityRoute |-> Composer], [fidelityRoute |-> "passed"])
<1> SUFFICES ASSUME st.workspace \in {None, st.con} PROVE FALSE
  OBVIOUS
<1>1. v \in verdicts \union {repaired}
  <2> HIDE DEF repaired
  <2>1. v \in {[fidelityRoute |-> "passed"], [fidelityRoute |-> "candidate gate"], repaired}
    BY DEF FidelityGate, repaired
  <2>2. QED
    BY <2>1
<1>2. DOMAIN repaired \subseteq {"fidelityRoute", "repairs"}
  <2> DEFINE w == [fidelityRoute |-> Composer]
             x == [fidelityRoute |-> "passed"]
             T == {"fidelityRoute", "repairs"}
  <2>1. DOMAIN w \subseteq T /\ DOMAIN x \subseteq T /\ "repairs" \in T
    OBVIOUS
  <2> HIDE DEF w, x, T
  <2>2. DOMAIN RepairOr(st, w, x) \subseteq T
    BY <2>1, RepairFields
  <2>3. QED
    BY <2>2 DEF w, x, T
<1>3. \A r : "raise" \notin DOMAIN [fidelityRoute |-> r]
  OBVIOUS
<1> HIDE DEF repaired
<1>4. v = repaired \/ \E r : v = [fidelityRoute |-> r]
  BY <1>1
<1>5. QED
  BY <1>2, <1>3, <1>4

LEMMA QualityRaises ==
    ASSUME NEW st, NEW v \in QualityGate(st), "raise" \in DOMAIN v
    PROVE  st.workspace = None /\ (CompositionClosed(st) \/ st.repairs >= MaxRepairs)
<1> DEFINE repair == [qualityRoute |-> "composition_repair"]
           released == [qualityRoute |-> "passed"]
           more == [repairs |-> st.repairs + 1]
           T == {"qualityRoute", "repairs"}
<1>1. \/ st.workspace = None /\ (CompositionClosed(st) \/ st.repairs >= MaxRepairs)
      \/ v \in {released, RepairOr(st, repair, released), more ++ repair}
  BY Zenon DEF QualityGate
<1>2. DOMAIN repair \subseteq T /\ DOMAIN released \subseteq T /\ DOMAIN more \subseteq T /\ "repairs" \in T
  OBVIOUS
<1> HIDE DEF repair, released, more, T
<1>3. DOMAIN RepairOr(st, repair, released) \subseteq T /\ DOMAIN (more ++ repair) \subseteq T
  BY <1>2, RepairFields, JoinedWithin
<1>4. "raise" \notin T
  BY DEF T
<1>5. QED
  BY <1>1, <1>2, <1>3, <1>4

\* What the quality gate says when it does not fail.
LEMMA QualityVerdict ==
    ASSUME NEW st, NEW v \in QualityGate(st), "raise" \notin DOMAIN v
    PROVE  /\ "qualityRoute" \in DOMAIN v
           /\ \/ v["qualityRoute"] = "composition_repair"
              \/ v["qualityRoute"] = "passed" /\ st.workspace # None
<1> DEFINE repair == [qualityRoute |-> "composition_repair"]
           released == [qualityRoute |-> "passed"]
           more == [repairs |-> st.repairs + 1]
<1>1. \/ v = [raise |-> TRUE]
      \/ v = more ++ repair
      \/ st.workspace # None /\ v \in {released, more ++ repair, released ++ repair}
  BY Zenon DEF QualityGate, RepairOr
<1>2. v # [raise |-> TRUE]
  <2>1. "raise" \in DOMAIN [raise |-> TRUE]
    OBVIOUS
  <2>2. QED
    BY <2>1, Zenon
<1>3. /\ DOMAIN repair = {"qualityRoute"} /\ repair["qualityRoute"] = "composition_repair"
      /\ DOMAIN released = {"qualityRoute"} /\ released["qualityRoute"] = "passed"
      /\ DOMAIN more = {"repairs"}
  OBVIOUS
<1> HIDE DEF repair, released, more
<1>4. /\ "qualityRoute" \in DOMAIN (more ++ repair)
      /\ (more ++ repair)["qualityRoute"] = "composition_repair"
  <2>1. \A x \in DOMAIN repair \ DOMAIN more : (more ++ repair)[x] = repair[x]
    BY Joined
  <2>2. QED
    BY <1>3, <2>1, JoinedHas
<1>5. /\ "qualityRoute" \in DOMAIN (released ++ repair)
      /\ (released ++ repair)["qualityRoute"] = "passed"
  <2>1. \A x \in DOMAIN released : (released ++ repair)[x] = released[x]
    BY Joined
  <2>2. QED
    BY <1>3, <2>1, JoinedHas
<1>6. QED
  BY <1>1, <1>2, <1>3, <1>4, <1>5

LEMMA FinalizerRaises ==
    ASSUME NEW st, NEW v \in Finalizer(st), "raise" \in DOMAIN v, "persist" \notin Faults,
           Approved(st), st.con # None, st.workspace = st.con, st.deadline = TRUE
    PROVE  st.now = 3
<1>1. ~MayDeliver(st)
  <2> SUFFICES ASSUME MayDeliver(st) PROVE FALSE
    OBVIOUS
  <2>1. v = [committed |-> TRUE]
    BY DEF Finalizer
  <2>2. DOMAIN v = {"committed"}
    BY <2>1
  <2>3. QED
    BY <2>2
<1>2. st.sealed /\ st.draft # None /\ st.workspace[1] = st.con[1]
  BY DEF Approved
<1>3. Phase(st) = 3
  BY <1>1, <1>2 DEF MayDeliver
<1>4. QED
  BY <1>3 DEF Phase

\* The state a task reads, when it is alone.
LEMMA ReadIs ==
    ASSUME NEW old, StateOK(old), NEW c, NEW read, read = [old EXCEPT !.now = c]
    PROVE  /\ StateOK(read) /\ DOMAIN read = DOMAIN InitState /\ read.now = c
           /\ \A f \in DOMAIN InitState \ {"now"} : read[f] = old[f]
<1>1. DOMAIN old = DOMAIN InitState
  BY DEF StateOK
<1>2. "now" \in DOMAIN InitState
  BY DEF InitState
<1>3. StateOK(read)
  BY ClockRead
<1> HIDE DEF InitState
<1>4. QED
  BY <1>1, <1>2, <1>3

\* The fields of what a task reads.
LEMMA ReadFields ==
    ASSUME NEW old, NEW read, \A f \in DOMAIN InitState \ {"now"} : read[f] = old[f]
    PROVE  /\ read.con = old.con /\ read.draft = old.draft /\ read.plan = old.plan
           /\ read.workspace = old.workspace /\ read.resume = old.resume /\ read.pending = old.pending
           /\ read.catalog = old.catalog /\ read.selection = old.selection
           /\ read.qualityRoute = old.qualityRoute /\ read.repairs = old.repairs
           /\ read["sealed"] = old["sealed"] /\ read["deadline"] = old["deadline"]
<1>1. {"con", "draft", "plan", "workspace", "resume", "pending", "catalog", "selection", "qualityRoute",
       "repairs", "sealed", "deadline"} \subseteq DOMAIN InitState \ {"now"}
  BY DEF InitState
<1>2. QED
  BY <1>1

\* The gates, the delivery and the plan gate are the nodes that may raise.
LEMMA RaisedBy ==
    ASSUME NEW st, NEW n \in Nodes \ Agents, n # "router", NEW v \in Body(st, n), "raise" \in DOMAIN v
    PROVE  \/ n = "plan gate" /\ v \in PlanGate(st)
           \/ n = "fidelity gate" /\ v \in FidelityGate(st)
           \/ n = "quality gate" /\ v \in QualityGate(st)
           \/ n = "projector" /\ v \in Projector(st)
           \/ n = "finalizer" /\ v \in Finalizer(st)
<1>1. "raise" \in BodyFields(n)
  BY BodyWithin
<1>2. n \notin {"normalizer", "draft", "planner", "dispatcher"}
  BY <1>1, FieldsAre
<1>3. n \notin {"clarifier", "brief", "geo", "weather", "summary", "budget"}
  BY <1>1, FieldsAre
<1>4. n \notin {"candidate gate", "artifact gate"}
  <2>1. "raise" \notin GateFields
    BY DEF GateFields
  <2>2. n \in {"candidate gate", "artifact gate"} => BodyFields(n) = GateFields
    BY FieldsAre, Zenon
  <2>3. QED
    BY <1>1, <2>1, <2>2
<1>5. n \in {"plan gate", "fidelity gate", "quality gate", "projector", "finalizer"}
  BY <1>2, <1>3, <1>4, NodesAre DEF Agents, Workers, Composer
<1>6. CASE n = "plan gate"
  BY <1>6, BodyOfPlanGate
<1>7. CASE n = "fidelity gate"
  BY <1>7 DEF Body, Workers, Composer
<1>8. CASE n = "quality gate"
  BY <1>8 DEF Body, Workers, Composer
<1>9. CASE n = "projector"
  BY <1>9 DEF Body, Workers, Composer
<1>10. CASE n = "finalizer"
  BY <1>10 DEF Body, Workers, Composer
<1>11. QED
  BY <1>5, <1>6, <1>7, <1>8, <1>9, <1>10

\* A node that raises finds the composition window closed, or no repair left.
LEMMA CalmFails ==
    ASSUME NEW old, StateOK(old), NEW n \in Nodes \ Agents, LaneAt(old, {n}), NEW c \in Nat,
           CalmAt(old, {n}, c), Faults \intersect {"persist", "prohibition"} = {},
           NEW read, read = [old EXCEPT !.now = c], NEW v \in Body(read, n), "raise" \in DOMAIN v
    PROVE  MayEnd(old, c)
<1>1. n \in Chain \union AfterGate /\ n # "router"
  <2>1. n \in Chain \union AfterGate
    BY DEF CalmAt
  <2>2. "router" \notin Chain \union AfterGate
    BY DEF Chain, AfterGate, Agents, Workers, Composer
  <2>3. QED
    BY <2>1, <2>2
<1>2. /\ StateOK(read) /\ read.now = c
      /\ \A f \in DOMAIN InitState \ {"now"} : read[f] = old[f]
  BY ReadIs
<1>3. /\ read.con = old.con /\ read.draft = old.draft /\ read.plan = old.plan
      /\ read.workspace = old.workspace
      /\ read.qualityRoute = old.qualityRoute /\ read.repairs = old.repairs
      /\ read["sealed"] = old["sealed"] /\ read["deadline"] = old["deadline"]
  BY <1>2, ReadFields
<1>4. n \in AfterGate => read.deadline = TRUE
  <2>1. n \in AfterGate => old.deadline = TRUE
    BY DEF CalmAt
  <2>2. QED
    BY <1>3, <2>1
<1>5. "prohibition" \notin Faults /\ "persist" \notin Faults
  OBVIOUS
<1>6. CASE n = "plan gate" /\ v \in PlanGate(read)
  <2>1. old.draft = old.con /\ old.plan = old.con
    BY <1>6 DEF CalmAt, Drafted
  <2>2. read.draft # read.con \/ read.plan # read.con
    BY <1>6, PlanGateRaises
  <2>3. QED
    BY <1>3, <2>1, <2>2
<1>7. CASE n = "fidelity gate" /\ v \in FidelityGate(read)
  <2>1. old.workspace \in {None, old.con}
    BY DEF CalmAt
  <2>2. read.workspace \notin {None, read.con}
    BY <1>5, <1>7, FidelityRaises
  <2>3. QED
    BY <1>3, <2>1, <2>2
<1>8. CASE n = "quality gate" /\ v \in QualityGate(read)
  <2>1. read.workspace = None /\ (CompositionClosed(read) \/ read.repairs >= MaxRepairs)
    BY <1>8, QualityRaises
  <2>2. n \in AfterGate
    BY <1>8, OnwardIs DEF OnwardNodes
  <2>3. CompositionClosed(read) => c >= 2
    BY <1>2, <1>4, <2>2, ClosedIs
  <2>4. read.repairs >= MaxRepairs => old.repairs = MaxRepairs
    <3>1. old.repairs \in 0 .. MaxRepairs
      BY StateIs
    <3>2. MaxRepairs \in Nat
      BY GraphAssumption
    <3>3. QED
      BY <1>3, <3>1, <3>2
  <2>5. QED
    BY <1>3, <2>1, <2>3, <2>4 DEF MayEnd
<1>9. CASE n = "projector" /\ v \in Projector(read)
  <2>1. read.qualityRoute # "passed" \/ read.workspace = None
    <3>1. read.qualityRoute = "passed" /\ read.workspace # None => v = NoWrites
      BY <1>9 DEF Projector
    <3>2. "raise" \notin DOMAIN NoWrites
      BY DEF NoWrites
    <3>3. QED
      BY <3>1, <3>2
  <2>2. c >= 2 \/ (old.qualityRoute = "passed" /\ old.workspace # None)
    BY <1>9 DEF CalmAt, Delivering
  <2>3. QED
    BY <1>3, <2>1, <2>2 DEF MayEnd
<1>10. CASE n = "finalizer" /\ v \in Finalizer(read)
  <2>1. n \in AfterGate
    BY <1>10, OnwardIs DEF OnwardNodes
  <2>2. Approved(old) /\ old.workspace = old.con
    BY <1>10, <2>1 DEF LaneAt, Due
  <2>3. old.con # None
    BY <1>10 DEF LaneAt
  <2>4. Approved(read) /\ read.workspace = read.con /\ read.con # None
    BY <1>3, <2>2, <2>3 DEF Approved
  <2>5. read.now = 3
    BY <1>4, <1>5, <1>10, <2>1, <2>4, FinalizerRaises
  <2>6. QED
    BY <1>2, <2>5 DEF MayEnd
<1>11. QED
  BY <1>1, <1>6, <1>7, <1>8, <1>9, <1>10, RaisedBy

-----------------------------------------------------------------------------
(* How such a run moves on, node by node. *)

\* st is old after a task alone has returned v, and its boundary has kept the deadline.
Turned(old, v, st) ==
    /\ Moved(old, v, st)
    /\ st["catalog"] = Written(old, v, "catalog") /\ st["selection"] = Written(old, v, "selection")
    /\ old["deadline"] = TRUE /\ "deadline" \notin DOMAIN v => st["deadline"] = TRUE
    /\ "deadline" \in DOMAIN v /\ v["deadline"] = TRUE => st["deadline"] = TRUE

\* with_run_control around the body, and the deadline it keeps.
LEMMA TurnedKept ==
    ASSUME NEW old, NEW read, read["deadline"] = old["deadline"], NEW v, NEW w, w = Kept(read, v),
           NEW st, \A f \in Plain : st[f] = Written(old, w, f)
    PROVE  Turned(old, v, st)
<1>1. Course \union {"deadline", "catalog", "selection"} \subseteq Plain
  BY PlainIs
<1>2. Moved(old, v, st)
  BY <1>1, MovedKept
<1>3. st["catalog"] = Written(old, v, "catalog") /\ st["selection"] = Written(old, v, "selection")
  <2>1. Written(old, w, "catalog") = Written(old, v, "catalog")
    BY KeptWritten
  <2>2. Written(old, w, "selection") = Written(old, v, "selection")
    BY KeptWritten
  <2>3. QED
    BY <1>1, <2>1, <2>2
<1>4. st["deadline"] = Written(old, w, "deadline")
  BY <1>1
<1> DEFINE d == [deadline |-> TRUE]
<1>5. DOMAIN d = {"deadline"} /\ d["deadline"] = TRUE
  OBVIOUS
<1>6. w = (IF read["deadline"] THEN v ++ d ELSE v)
  BY Zenon DEF Kept
<1> HIDE DEF d
<1>7. /\ "deadline" \in DOMAIN (v ++ d)
      /\ "deadline" \in DOMAIN v => (v ++ d)["deadline"] = v["deadline"]
      /\ "deadline" \notin DOMAIN v => (v ++ d)["deadline"] = TRUE
  <2>1. \A x \in DOMAIN v : (v ++ d)[x] = v[x]
    BY Joined
  <2>2. \A x \in DOMAIN d \ DOMAIN v : (v ++ d)[x] = d[x]
    BY Joined
  <2>3. QED
    BY <1>5, <2>1, <2>2, JoinedHas
<1>8. ASSUME old["deadline"] = TRUE, "deadline" \notin DOMAIN v PROVE st["deadline"] = TRUE
  <2>1. w = v ++ d
    BY <1>6, <1>8, Zenon
  <2>2. QED
    BY <1>4, <1>7, <1>8, <2>1 DEF Written
<1>9. ASSUME "deadline" \in DOMAIN v, v["deadline"] = TRUE PROVE st["deadline"] = TRUE
  <2>1. w = v \/ w = v ++ d
    BY <1>6, Zenon
  <2>2. "deadline" \in DOMAIN w /\ w["deadline"] = TRUE
    BY <1>7, <1>9, <2>1
  <2>3. QED
    BY <1>4, <2>2 DEF Written
<1>10. QED
  BY <1>2, <1>3, <1>8, <1>9 DEF Turned

\* The catalog keeps its selection.
LEMMA TurnedSelected ==
    ASSUME NEW old, NEW v, NEW st, Turned(old, v, st), NEW c, c # None, Selected(v, c),
           old.catalog # None => old.selection # None
    PROVE  st.catalog # None => st.selection # None
<1>1. /\ "catalog" \notin DOMAIN v => st["catalog"] = old["catalog"]
      /\ "selection" \notin DOMAIN v => st["selection"] = old["selection"]
      /\ "selection" \in DOMAIN v => st["selection"] = v["selection"]
  BY DEF Turned, Written
<1>2. QED
  BY <1>1 DEF Selected

LEMMA TurnedUnselected ==
    ASSUME NEW old, NEW v, NEW st, Turned(old, v, st), DOMAIN v \intersect {"catalog", "selection"} = {},
           old.catalog # None => old.selection # None
    PROVE  st.catalog # None => st.selection # None
<1>1. st["catalog"] = old["catalog"] /\ st["selection"] = old["selection"]
  BY DEF Turned, Written
<1>2. QED
  BY <1>1

\* Where a run goes on calmly: before the gate, and behind it.
LEMMA PlacesCalm ==
    /\ Chain \intersect AfterGate = {} /\ Chain \intersect Delivering = {}
    /\ Drafted \subseteq Chain /\ "plan gate" \in Drafted /\ Delivering \subseteq AfterGate
    /\ "plan gate" \notin AfterGate
  BY DEF Chain, Drafted, Delivering, AfterGate, Agents, Workers, Composer

LEMMA CalmBefore ==
    ASSUME NEW st, NEW m \in Chain, st.workspace = None, m \in Drafted => st.draft = st.con,
           m = "plan gate" => st.plan = st.con, st.catalog # None => st.selection # None, NEW c
    PROVE  CalmAt(st, {m}, c)
<1>1. {m} \intersect AfterGate = {} /\ {m} \intersect Delivering = {}
  BY PlacesCalm
<1>2. {m} \intersect Drafted # {} => st.draft = st.con
  OBVIOUS
<1>3. "plan gate" \in {m} => st.plan = st.con
  OBVIOUS
<1>4. {m} \subseteq Chain \union AfterGate
  OBVIOUS
<1>5. QED
  BY <1>1, <1>2, <1>3, <1>4 DEF CalmAt

LEMMA CalmBehind ==
    ASSUME NEW st, NEW tasks, tasks \subseteq AfterGate, st.workspace \in {None, st.con},
           st.deadline = TRUE, st.catalog # None => st.selection # None, NEW c,
           tasks \intersect Delivering # {} => c >= 2 \/ (st.qualityRoute = "passed" /\ st.workspace # None)
    PROVE  CalmAt(st, tasks, c)
<1>1. tasks \intersect Chain = {} /\ tasks \intersect Drafted = {} /\ "plan gate" \notin tasks
  BY PlacesCalm
<1>2. tasks \subseteq Chain \union AfterGate
  OBVIOUS
<1>3. QED
  BY <1>1, <1>2 DEF CalmAt

\* The nodes of the planning chain in front of the approval gate.
Planning == {"clarifier", "normalizer", "brief", "draft", "geo", "weather", "summary", "planner"}

\* Where the planning chain leads.
LEMMA PlanningTargets ==
    ASSUME NEW st, st.pending = {}, NEW n \in Planning
    PROVE  \E m \in Chain :
              /\ Targets(st, n) = {m}
              /\ m \in Drafted => n \notin {"clarifier", "normalizer", "brief"}
              /\ m = "plan gate" => n = "planner"
<1>1. CASE n = "clarifier"
  <2>1. Targets(st, n) = {"normalizer"}
    BY <1>1 DEF Targets
  <2>2. QED
    BY <2>1 DEF Chain, Drafted
<1>2. CASE n = "normalizer"
  <2>1. Targets(st, n) = {"brief"}
    BY <1>2 DEF Targets
  <2>2. QED
    BY <2>1 DEF Chain, Drafted
<1>3. CASE n \in {"brief", "draft", "geo", "weather", "summary", "planner"}
  <2>1. /\ After["brief"] = "draft" /\ After["draft"] = "geo" /\ After["geo"] = "weather"
        /\ After["weather"] = "summary" /\ After["summary"] = "planner"
        /\ After["planner"] = "plan gate"
        /\ n \in DOMAIN After
    BY <1>3 DEF After
  <2>2. Edge(st, n) = {After[n]}
    BY <1>3, <2>1 DEF Edge, Agents, Workers, Composer
  <2>3. Targets(st, n) = {After[n]}
    <3>1. n \notin {"clarifier", "normalizer", "router"}
      BY <1>3
    <3>2. Targets(st, n) = Edge(st, n)
      <4>1. n # "clarifier" /\ n # "normalizer" /\ n # "router"
        BY <3>1
      <4>2. QED
        BY <4>1 DEF Targets
    <3>3. QED
      BY <2>2, <3>2
  <2>4. /\ After[n] \in Chain
        /\ After[n] \in Drafted => n \notin {"clarifier", "normalizer", "brief"}
        /\ After[n] = "plan gate" => n = "planner"
    BY <1>3, <2>1 DEF Chain, Drafted
  <2>5. QED
    BY <2>3, <2>4
<1>4. QED
  BY <1>1, <1>2, <1>3 DEF Planning

\* The draft and the plan are made for the contract in force.
LEMMA CalmDraft ==
    ASSUME NEW old, NEW read, read.con = old.con, read.draft = old.draft, NEW v \in DraftBuilder(read),
           NEW st, Moved(old, v, st)
    PROVE  st.draft = st.con
<1>1. \/ read.draft = read.con /\ DOMAIN v = {}
      \/ DOMAIN v = {"draft", "sealed", "deadline", "gaps", "dead", "attempts"} /\ v["draft"] = read.con
  BY DEF DraftBuilder, NoWrites
<1>2. {"draft", "con"} \subseteq Course
  BY DEF Course
<1>3. CASE read.draft = read.con /\ DOMAIN v = {}
  <2>1. st["draft"] = old["draft"] /\ st["con"] = old["con"]
    BY <1>3, <1>2, MovedFields
  <2>2. QED
    BY <1>3, <2>1
<1>4. CASE DOMAIN v = {"draft", "sealed", "deadline", "gaps", "dead", "attempts"} /\ v["draft"] = read.con
  <2>1. st["draft"] = read.con /\ st["con"] = old["con"]
    BY <1>4, <1>2, MovedFields
  <2>2. QED
    BY <2>1
<1>5. QED
  BY <1>1, <1>3, <1>4

LEMMA CalmPlan ==
    ASSUME NEW old, NEW read, read.con = old.con, NEW v \in Planner(read), NEW st, Moved(old, v, st)
    PROVE  st.plan = st.con
<1>1. DOMAIN v = {"plan", "step", "scoped", "connector"} /\ v["plan"] = read.con
  BY DEF Planner
<1>2. {"plan", "con"} \subseteq Course
  BY DEF Course
<1>3. st["plan"] = read.con /\ st["con"] = old["con"]
  BY <1>1, <1>2, MovedFields
<1>4. QED
  BY <1>3

\* No other node of the chain touches them.
LEMMA PlanningFields ==
    ASSUME NEW n \in Planning
    PROVE  /\ BodyFields(n) \intersect {"workspace", "catalog", "selection"} = {}
           /\ n \notin {"clarifier", "normalizer", "brief", "draft"} =>
                BodyFields(n) \intersect {"con", "draft"} = {}
  BY FieldsAre DEF Planning

LEMMA CalmPlanning ==
    ASSUME NEW old, NEW n \in Planning, NEW c, CalmAt(old, {n}, c),
           NEW read, read.con = old.con, read.draft = old.draft, NEW v \in Body(read, n),
           NEW st, st.pending = {}, Turned(old, v, st), NEW d
    PROVE  CalmAt(st, Targets(st, n), d)
<1>1. n \in Nodes /\ n \in Chain
  BY NodesAre DEF Planning, Chain
<1>2. old.workspace = None /\ (old.catalog # None => old.selection # None)
  BY <1>1 DEF CalmAt
<1>3. Moved(old, v, st)
  BY DEF Turned
<1>4. DOMAIN v \subseteq BodyFields(n)
  BY <1>1, BodyWithin
<1>5. st.workspace = None
  <2>1. "workspace" \notin DOMAIN v
    BY <1>4, PlanningFields
  <2>2. QED
    BY <1>2, <1>3, <2>1, MovedOn
<1>6. st.catalog # None => st.selection # None
  <2>1. DOMAIN v \intersect {"catalog", "selection"} = {}
    BY <1>4, PlanningFields
  <2>2. QED
    BY <1>2, <2>1, TurnedUnselected
<1>7. PICK m \in Chain : /\ Targets(st, n) = {m}
                         /\ m \in Drafted => n \notin {"clarifier", "normalizer", "brief"}
                         /\ m = "plan gate" => n = "planner"
  BY PlanningTargets
<1>8. ASSUME n \notin {"clarifier", "normalizer", "brief"} PROVE st.draft = st.con
  <2>1. CASE n = "draft"
    <3>1. v \in DraftBuilder(read)
      BY <2>1 DEF Body, Workers, Composer
    <3>2. QED
      BY <1>3, <3>1, CalmDraft
  <2>2. CASE n # "draft"
    <3>1. n \in Drafted
      BY <1>8, <2>2 DEF Planning, Drafted
    <3>2. old.draft = old.con
      BY <3>1 DEF CalmAt
    <3>3. n \notin {"clarifier", "normalizer", "brief", "draft"}
      BY <1>8, <2>2
    <3>4. DOMAIN v \intersect {"con", "draft"} = {}
      BY <1>4, <3>3, PlanningFields
    <3>5. st.con = old.con /\ st.draft = old.draft
      BY <1>3, <3>4, MovedOn
    <3>6. QED
      BY <3>2, <3>5
  <2>3. QED
    BY <2>1, <2>2
<1>9. ASSUME n = "planner" PROVE st.plan = st.con
  <2>1. v \in Planner(read)
    BY <1>9 DEF Body, Workers, Composer
  <2>2. QED
    BY <1>3, <2>1, CalmPlan
<1>10. CalmAt(st, {m}, d)
  BY <1>5, <1>6, <1>7, <1>8, <1>9, CalmBefore
<1>11. QED
  BY <1>7, <1>10

\* An edit of the plan keeps no catalog without its selection.
LEMMA EditUnselects ==
    ASSUME NEW e, DOMAIN e \intersect {"workspace", "catalog", "selection"} = {},
           NEW kind \in {"projection", "research"}, NEW v, v = e ++ Invalidate(kind)
    PROVE  /\ "workspace" \in DOMAIN v => v["workspace"] = None
           /\ \/ DOMAIN v \intersect {"catalog", "selection"} = {}
              \/ "catalog" \in DOMAIN v /\ v["catalog"] = None
<1> DEFINE com == [committed |-> FALSE]
           inner == com ++ ResetComposition
<1>1. DOMAIN com = {"committed"}
  OBVIOUS
<1> HIDE DEF com
<1>2. CASE kind = "projection"
  <2>1. Invalidate(kind) = com
    BY <1>2 DEF Invalidate, com
  <2>2. DOMAIN v = DOMAIN e \union {"committed"}
    BY <1>1, <2>1, Joined
  <2>3. QED
    BY <2>2
<1>3. CASE kind = "research"
  <2> DEFINE r == inner ++ ResetResearch
  <2>1. Invalidate(kind) = r
    BY <1>3 DEF Invalidate, com
  <2>2. /\ "workspace" \in DOMAIN ResetComposition /\ ResetComposition["workspace"] = None
        /\ "catalog" \notin DOMAIN ResetComposition
        /\ "catalog" \in DOMAIN ResetResearch /\ ResetResearch["catalog"] = None
    BY DEF ResetComposition, ResetResearch
  <2>3. "workspace" \in DOMAIN inner /\ inner["workspace"] = None /\ "catalog" \notin DOMAIN inner
    <3>1. \A x \in DOMAIN ResetComposition \ DOMAIN com : inner[x] = ResetComposition[x]
      BY Joined, ZenonT(60)
    <3>2. DOMAIN inner = DOMAIN com \union DOMAIN ResetComposition
      BY Joined
    <3>3. QED
      BY <1>1, <2>2, <3>1, <3>2
  <2> HIDE DEF inner
  <2>4. /\ "workspace" \in DOMAIN r /\ r["workspace"] = None
        /\ "catalog" \in DOMAIN r /\ r["catalog"] = None
    <3>1. \A x \in DOMAIN inner : r[x] = inner[x]
      BY Joined, ZenonT(60)
    <3>2. \A x \in DOMAIN ResetResearch \ DOMAIN inner : r[x] = ResetResearch[x]
      BY Joined
    <3>3. DOMAIN r = DOMAIN inner \union DOMAIN ResetResearch
      BY Joined
    <3>4. QED
      BY <2>2, <2>3, <3>1, <3>2, <3>3
  <2> HIDE DEF r
  <2>5. \A x \in DOMAIN r \ DOMAIN e : v[x] = r[x]
    <3>1. v = e ++ r
      BY <2>1
    <3>2. \A x \in DOMAIN r \ DOMAIN e : (e ++ r)[x] = r[x]
      BY Joined, ZenonT(60)
    <3>3. QED
      BY <3>1, <3>2
  <2>6. DOMAIN v = DOMAIN e \union DOMAIN r
    BY <2>1, Joined
  <2>7. QED
    BY <2>4, <2>5, <2>6
<1>4. QED
  BY <1>2, <1>3

\* The approval seals what was drafted and planned; an edit leaves nothing composed.
LEMMA MovedCleared ==
    ASSUME NEW old, NEW v, NEW st, Moved(old, v, st), "workspace" \in DOMAIN v, v["workspace"] = None
    PROVE  st.workspace = None
  BY MovedRoutes

LEMMA CalmPlanGate ==
    ASSUME NEW old, NEW c, CalmAt(old, {"plan gate"}, c), NEW read, NEW v \in PlanGate(read),
           GoesOn("plan gate", v), NEW st, st.pending = {}, Turned(old, v, st), NEW d
    PROVE  CalmAt(st, Targets(st, "plan gate"), d)
<1>1. old.workspace = None /\ (old.catalog # None => old.selection # None)
  <2>1. "plan gate" \in Chain
    BY DEF Chain
  <2>2. QED
    BY <2>1 DEF CalmAt
<1>2. Moved(old, v, st)
  BY DEF Turned
<1>3. ASSUME Approves(read, v) PROVE CalmAt(st, {"dispatcher"}, d)
  <2>1. DOMAIN v = {"decision", "sealed", "deadline"}
    BY <1>3 DEF Seal, Approves
  <2>2. v["deadline"] = TRUE
    BY <1>3 DEF Seal, Approves
  <2>3. st.deadline = TRUE
    BY <2>1, <2>2 DEF Turned
  <2>4. st.workspace = None
    <3>1. "workspace" \notin DOMAIN v
      BY <2>1
    <3>2. QED
      BY <1>1, <1>2, <3>1, MovedOn, ZenonT(60)
  <2>5. st.catalog # None => st.selection # None
    <3>1. DOMAIN v \intersect {"catalog", "selection"} = {}
      BY <2>1
    <3>2. QED
      BY <1>1, <3>1, TurnedUnselected
  <2>6. {"dispatcher"} \subseteq AfterGate /\ {"dispatcher"} \intersect Delivering = {}
    BY DEF AfterGate, Delivering
  <2>7. QED
    BY <2>3, <2>4, <2>5, <2>6, CalmBehind
<1>4. ASSUME Edits(read, v) PROVE CalmAt(st, {"normalizer"}, d)
  <2>1. PICK kind \in {"projection", "research"} :
          \E decision \in {"amendment", "projection_amendment_pending"} : v = EditPlan(read, kind, decision)
    BY <1>4 DEF Edits
  <2>2. PICK decision : v = EditPlan(read, kind, decision)
    BY <2>1
  <2> DEFINE e == [edit |-> kind, decision |-> decision, edits |-> read.edits + 1]
  <2>3. DOMAIN e \intersect {"workspace", "catalog", "selection"} = {}
    OBVIOUS
  <2>4. v = e ++ Invalidate(kind)
    BY <2>2, Zenon DEF EditPlan
  <2> HIDE DEF e
  <2>5. /\ "workspace" \in DOMAIN v => v["workspace"] = None
        /\ \/ DOMAIN v \intersect {"catalog", "selection"} = {}
           \/ "catalog" \in DOMAIN v /\ v["catalog"] = None
    BY <2>3, <2>4, EditUnselects
  <2>6. st.workspace = None
    <3>1. CASE "workspace" \in DOMAIN v
      BY <1>2, <2>5, <3>1, MovedCleared
    <3>2. CASE "workspace" \notin DOMAIN v
      BY <1>1, <1>2, <3>2, MovedOn, ZenonT(60)
    <3>3. QED
      BY <3>1, <3>2
  <2>7. st.catalog # None => st.selection # None
    <3>1. CASE DOMAIN v \intersect {"catalog", "selection"} = {}
      BY <1>1, <3>1, TurnedUnselected
    <3>2. CASE "catalog" \in DOMAIN v /\ v["catalog"] = None
      BY <3>2 DEF Turned, Written
    <3>3. QED
      BY <2>5, <3>1, <3>2
  <2>8. "normalizer" \in Chain /\ "normalizer" \notin Drafted /\ "normalizer" # "plan gate"
    BY DEF Chain, Drafted
  <2>9. QED
    BY <2>6, <2>7, <2>8, CalmBefore
<1>5. \/ Approves(read, v) /\ Targets(st, "plan gate") = {"dispatcher"}
      \/ Edits(read, v) /\ Targets(st, "plan gate") = {"normalizer"}
  BY <1>2, PlanGateLeads
<1>6. QED
  BY <1>3, <1>4, <1>5

\* The nodes behind the gate that judge leave the catalog alone.
LEMMA OnwardSelected ==
    ASSUME NEW read, NEW n \in OnwardNodes, NEW v \in Body(read, n)
    PROVE  Selected(v, read.con) /\ "deadline" \notin DOMAIN v
<1>1. DOMAIN v \subseteq BodyFields(n)
  BY OnwardIs, BodyWithin
<1>2. "deadline" \notin DOMAIN v
  <2>1. BodyFields(n) \in {{"step", "next"}, GateFields, GateFields \union {"raise"}, {}, {"raise",
            "committed"}}
    BY FieldsAre DEF OnwardNodes
  <2>2. "deadline" \notin GateFields
    BY DEF GateFields
  <2>3. "deadline" \notin BodyFields(n)
    BY <2>1, <2>2
  <2>4. QED
    BY <1>1, <2>3
<1>3. CASE n = "candidate gate"
  <2>1. v \in CandidateGate(read)
    BY <1>3 DEF Body, Workers, Composer
  <2>2. QED
    BY <1>2, <2>1, SelectedCandidate
<1>4. CASE n \in {"dispatcher", "finalizer", "budget"}
  <2>1. BodyFields(n) \in {{"step", "next"}, {}, {"raise", "committed"}}
    BY <1>4, FieldsAre
  <2>2. DOMAIN v \intersect {"catalog", "selection"} = {}
    BY <1>1, <2>1
  <2>3. QED
    BY <1>2, <2>2, SelectedNone
<1>5. CASE n \in {"artifact gate", "fidelity gate", "quality gate", "projector"}
  <2>1. v \in ArtifactGate(read) \/ v \in FidelityGate(read) \union QualityGate(read) \union Projector(read)
    BY <1>5 DEF Body, Workers, Composer
  <2>2. DOMAIN v \subseteq Judged \union {"raise"}
    BY <2>1, ArtifactFields, ReviewFields
  <2>3. DOMAIN v \intersect {"catalog", "selection"} = {}
    BY <2>2 DEF Judged
  <2>4. QED
    BY <1>2, <2>3, SelectedNone
<1>6. QED
  BY <1>3, <1>4, <1>5 DEF OnwardNodes

\* A composition that is delivered has been released, unless its window has closed.
LEMMA CalmQuality ==
    ASSUME NEW read, NEW v \in QualityGate(read), "raise" \notin DOMAIN v,
           NEW old, NEW st, Moved(old, v, st), st.deadline = TRUE, "budget" \in QualityEdge(st)
    PROVE  st.now >= 2 \/ (st.qualityRoute = "passed" /\ read.workspace # None)
<1>1. /\ "qualityRoute" \in DOMAIN v
      /\ \/ v["qualityRoute"] = "composition_repair"
         \/ v["qualityRoute"] = "passed" /\ read.workspace # None
  BY QualityVerdict
<1>2. st.qualityRoute = v["qualityRoute"]
  BY <1>1, MovedRoutes
<1>3. st.qualityRoute # "composition_repair" \/ CompositionClosed(st)
  BY DEF QualityEdge, Composer
<1>4. CompositionClosed(st) => st.now >= 2
  BY ClosedIs
<1>5. QED
  BY <1>1, <1>2, <1>3, <1>4

\* The nodes behind the gate leave the workspace alone, and only a released one is
\* delivered.
LEMMA CalmOnward ==
    ASSUME NEW old, NEW n \in OnwardNodes, LaneAt(old, {n}), NEW c \in Nat, CalmAt(old, {n}, c),
           NEW read, read.con = old.con, read.workspace = old.workspace, NEW v \in Body(read, n),
           "raise" \notin DOMAIN v, NEW st, StateOK(st), Turned(old, v, st),
           NEW d \in Nat, d >= c, st.now = d
    PROVE  CalmAt(st, Targets(st, n), d)
<1>1. Moved(old, v, st)
  BY DEF Turned
<1>2. StillOn(old, n, st)
  <2>1. Unruled(v)
    BY OnwardFields, Zenon
  <2>2. QED
    BY <1>1, <2>1, OnwardState, Zenon
<1>3. /\ Targets(st, n) = Edge(st, n) /\ st.workspace = old.workspace /\ st.con = old.con /\ st.con # None
  BY <1>2 DEF StillOn
<1>4. Edge(st, n) \subseteq Onward(n) /\ Onward(n) \subseteq AfterGate
  <2>1. Edge(st, n) \subseteq Onward(n)
    BY OnwardEdges, Zenon
  <2>2. QED
    BY <2>1, OnwardAre
<1>5. n \in AfterGate
  BY OnwardIs
<1>6. /\ old.workspace \in {None, old.con} /\ (old.catalog # None => old.selection # None)
      /\ n \in Delivering => c >= 2 \/ (old.qualityRoute = "passed" /\ old.workspace # None)
  BY DEF CalmAt
<1>7. old.deadline = TRUE
  BY <1>5 DEF CalmAt
<1>8. Selected(v, old.con) /\ "deadline" \notin DOMAIN v
  BY OnwardSelected
<1>9. st.deadline = TRUE
  BY <1>7, <1>8 DEF Turned
<1>10. st.catalog # None => st.selection # None
  <2>1. old.con # None
    BY <1>3
  <2>2. QED
    BY <1>6, <1>8, <2>1, TurnedSelected
<1>11. ASSUME Edge(st, n) \intersect Delivering # {}
       PROVE  d >= 2 \/ (st.qualityRoute = "passed" /\ st.workspace # None)
  <2>1. n \in {"quality gate", "budget"}
    <3>1. Onward(n) \intersect Delivering # {}
      BY <1>4, <1>11
    <3>2. Onward(n) \intersect Delivering = {} \/ n \in {"quality gate", "budget"}
      BY DEF Onward, OnwardNodes, Delivering, Agents, Workers, Composer
    <3>3. QED
      BY <3>1, <3>2
  <2>2. CASE n = "quality gate"
    <3>1. v \in QualityGate(read)
      BY <2>2 DEF Body, Workers, Composer
    <3>2. Edge(st, n) = QualityEdge(st)
      BY <2>2 DEF Edge, After, Agents, Workers, Composer
    <3>3. "budget" \in QualityEdge(st)
      BY <1>11, <3>2 DEF QualityEdge, Delivering, Composer
    <3>4. QED
      BY <1>1, <1>3, <1>9, <3>1, <3>3, CalmQuality
  <2>3. CASE n = "budget"
    <3>1. DOMAIN v = {}
      BY <2>3, BodyWithin, OnwardIs, FieldsAre
    <3>2. "qualityRoute" \in Course
      BY DEF Course
    <3>3. st["qualityRoute"] = old["qualityRoute"]
      BY <1>1, <3>1, <3>2, MovedFields
    <3>4. "budget" \in Delivering
      BY DEF Delivering
    <3>5. QED
      BY <1>3, <1>6, <2>3, <3>3, <3>4
  <2>4. QED
    BY <2>1, <2>2, <2>3
<1>12. Edge(st, n) \subseteq AfterGate /\ st.workspace \in {None, st.con}
  BY <1>3, <1>4, <1>6
<1>13. CalmAt(st, Edge(st, n), d)
  <2> DEFINE next == Edge(st, n)
  <2> HIDE DEF next
  <2>1. CalmAt(st, next, d)
    BY <1>9, <1>10, <1>11, <1>12, CalmBehind DEF next
  <2>2. QED
    BY <2>1 DEF next
<1>14. QED
  BY <1>3, <1>13

\* Without supplements nothing is pending, and nothing arrives.
LEMMA NoPending ==
    ASSUME Supplements = {}, NEW st, StateOK(st)
    PROVE  st.pending = {}
  BY StateIs

\* What a boundary lets a node return when nothing has arrived.
QuietBy(read, n, w, v) ==
    /\ w = Kept(read, v)
    /\ \/ WindowClosed(read, n) /\ v = BlockedWorkerUpdate(read, n)
       \/ v \in Body(read, n)

\* Then a node reads what its boundary was given.
LEMMA FullQuiet ==
    ASSUME inbox = {}, NEW old, NEW c, NEW read, read = [old EXCEPT !.now = c], StateOK(read)
    PROVE  Fresh(read) = {} /\ Full(read) = read
<1>1. Fresh(read) = {}
  BY DEF Fresh
<1>2. "pending" \in DOMAIN read
  <2>1. "pending" \in DOMAIN InitState
    BY DEF InitState
  <2>2. QED
    BY <2>1 DEF StateOK
<1> DEFINE full == [read EXCEPT !.pending = @ \union Fresh(read)]
<1>3. read = [f \in DOMAIN read |-> read[f]]
  OBVIOUS
<1>4. full = read
  BY <1>1, <1>2, <1>3
<1>5. QED
  BY <1>1, <1>4, Zenon DEF Full

LEMMA QuietWrites ==
    ASSUME inbox = {}, NEW old, NEW c, NEW read, read = [old EXCEPT !.now = c], StateOK(read), NEW n,
        NEW w \in Writes(read, n)
    PROVE  \E v : QuietBy(read, n, w, v)
<1> DEFINE fresh == inbox \ read.pending
           full == [read EXCEPT !.pending = @ \union fresh]
           diverted == fresh # {} /\ read.con # None /\ n \notin {"normalizer", "router"}
           body == IF WindowClosed(read, n) THEN {BlockedWorkerUpdate(read, n)}
                   ELSE IF diverted THEN {[resume |-> n, pending |-> fresh]}
                   ELSE IF n \in {"normalizer", "router"} \/ fresh = {} THEN Body(full, n)
                   ELSE {[pending |-> fresh] ++ v : v \in Body(full, n)}
<1>1. Writes(read, n) = {IF read.deadline THEN v ++ [deadline |-> TRUE] ELSE v : v \in body}
  BY Zenon DEF Writes
<1>2. fresh = {}
  OBVIOUS
<1>3. full = read
  <2>1. full = Full(read)
    BY Zenon DEF Full, Fresh
  <2>2. QED
    BY <2>1, FullQuiet
<1>4. PICK v \in body : w = IF read.deadline THEN v ++ [deadline |-> TRUE] ELSE v
  <2> HIDE DEF body
  <2>1. QED
    BY <1>1
<1>5. w = Kept(read, v)
  BY <1>4, Zenon DEF Kept
<1>6. body = IF WindowClosed(read, n) THEN {BlockedWorkerUpdate(read, n)} ELSE Body(read, n)
  <2> HIDE DEF fresh, full
  <2>1. ~diverted
    BY <1>2
  <2>2. QED
    BY <1>2, <1>3, <2>1
<1> HIDE DEF body
<1>7. \/ WindowClosed(read, n) /\ v = BlockedWorkerUpdate(read, n)
      \/ v \in Body(read, n)
  BY <1>4, <1>6
<1>8. QED
  BY <1>5, <1>7 DEF QuietBy

\* The fields CalmAt speaks of.
CalmFields == {"con", "draft", "plan", "workspace", "qualityRoute", "catalog", "selection", "deadline"}

LEMMA CalmSame ==
    ASSUME NEW st, NEW other, \A f \in CalmFields : other[f] = st[f], NEW tasks, NEW c,
           CalmAt(st, tasks, c)
    PROVE  CalmAt(other, tasks, c)
<1>1. /\ other["con"] = st["con"] /\ other["draft"] = st["draft"] /\ other["plan"] = st["plan"]
      /\ other["workspace"] = st["workspace"] /\ other["qualityRoute"] = st["qualityRoute"]
      /\ other["catalog"] = st["catalog"] /\ other["selection"] = st["selection"]
  BY DEF CalmFields
<1>2. other["deadline"] = st["deadline"]
  BY DEF CalmFields
<1>3. tasks \intersect AfterGate # {} => other.deadline = TRUE
  BY <1>2 DEF CalmAt
<1>4. QED
  BY <1>1, <1>3 DEF CalmAt

\* Time makes nothing worse.
LEMMA CalmLater ==
    ASSUME NEW st, NEW tasks, NEW c \in Nat, CalmAt(st, tasks, c), NEW d \in Nat, d >= c
    PROVE  CalmAt(st, tasks, d)
<1>1. c >= 2 => d >= 2
  OBVIOUS
<1>2. QED
  BY <1>1, Zenon DEF CalmAt

\* Where a task alone goes when it has returned v, and what the clock shows there.
LEMMA CalmTurned ==
    ASSUME NEW old, StateOK(old), NEW n \in Nodes \ Agents, LaneAt(old, {n}), NEW c \in Nat,
           CalmAt(old, {n}, c), NEW read, read = [old EXCEPT !.now = c],
           NEW v \in Body(read, n), GoesOn(n, v),
           NEW st, StateOK(st), st.pending = {}, Turned(old, v, st), NEW d \in Nat,
           old["deadline"] = TRUE /\ st["deadline"] = TRUE => d = st.now /\ d >= c
    PROVE  CalmAt(st, Targets(st, n), d)
<1>1. \A f \in DOMAIN InitState \ {"now"} : read[f] = old[f]
  BY ReadIs
<1>2. read.con = old.con /\ read.draft = old.draft /\ read.workspace = old.workspace
  BY <1>1, ReadFields
<1>3. n \in Chain \union AfterGate
  BY DEF CalmAt
<1>4. n \in Planning \/ n = "plan gate" \/ n \in OnwardNodes
  BY <1>3 DEF Planning, Chain, AfterGate, OnwardNodes
<1>5. CASE n \in Planning
  BY <1>2, <1>5, CalmPlanning
<1>6. CASE n = "plan gate"
  <2>1. v \in PlanGate(read)
    BY <1>6, BodyOfPlanGate
  <2>2. CalmAt(old, {"plan gate"}, c) /\ GoesOn("plan gate", v)
    BY <1>6
  <2>3. CalmAt(st, Targets(st, "plan gate"), d)
    BY <2>1, <2>2, CalmPlanGate
  <2>4. QED
    BY <1>6, <2>3
<1>7. CASE n \in OnwardNodes
  <2>1. n \in AfterGate
    BY <1>7, OnwardIs
  <2>2. old["deadline"] = TRUE
    BY <2>1 DEF CalmAt
  <2>3. "deadline" \notin DOMAIN v
    BY <1>7, OnwardSelected
  <2>4. st["deadline"] = TRUE
    BY <2>2, <2>3 DEF Turned
  <2>5. st.now = d /\ d >= c
    BY <2>2, <2>4
  <2>6. "raise" \notin DOMAIN v
    BY DEF GoesOn, Raises
  <2>7. QED
    BY <1>2, <1>7, <2>5, <2>6, CalmOnward
<1>8. QED
  BY <1>4, <1>5, <1>6, <1>7

-----------------------------------------------------------------------------
(* The agents of a group, without supplements. *)

\* The fields with a reducer that an agent writes, and those only one agent writes.
Shared == {"status", "packets", "fault", "deadline"}
Owned(n) ==
    CASE n = Composer -> {"skeleton", "gate", "gateRoute", "workspace"}
      [] n = "destination" -> {"next"}
      [] OTHER -> {}

\* What agent n has written, and the targets its edge has chosen, under contract c.
Quiet(n, w, t, c) ==
    /\ n \in Agents
    /\ DOMAIN w \subseteq Shared \union Owned(n)
    /\ "deadline" \in DOMAIN w => w["deadline"] = TRUE
    /\ "workspace" \in DOMAIN w => w["workspace"] = c
    /\ t \subseteq {"dispatcher"}

\* Only the destination worker stops to ask its user.
LEMMA WorkerNext ==
    ASSUME NEW st, NEW n \in Workers, n # "destination", NEW w \in Research(st, n)
    PROVE  DOMAIN w \subseteq {"status", "packets", "fault"}
<1> DEFINE T == {"status", "packets", "fault"}
<1>1. \A v : DOMAIN Report(st, n, v) \subseteq T
  BY DEF Report, NoWrites
<1>2. \A found : DOMAIN Packet(st, n, found) \subseteq T
  BY DEF Packet
<1>3. \A f : DOMAIN [fault |-> f] \subseteq T
  OBVIOUS
<1>4. \/ \E found \in {"met", "loose", "missing"} : w = Report(st, n, "completed") ++ Packet(st, n, found)
      \/ \E f \in BOOLEAN : w = Report(st, n, "failed") ++ [fault |-> f]
      \/ w = Report(st, n, "failed") ++ [fault |-> TRUE] ++ Packet(st, n, "hopeless")
  BY DEF Research
<1> HIDE DEF T
<1>5. \A found : DOMAIN (Report(st, n, "completed") ++ Packet(st, n, found)) \subseteq T
  BY <1>1, <1>2, JoinedWithin
<1>6. \A f : DOMAIN (Report(st, n, "failed") ++ [fault |-> f]) \subseteq T
  BY <1>1, <1>3, JoinedWithin
<1>7. DOMAIN (Report(st, n, "failed") ++ [fault |-> TRUE] ++ Packet(st, n, "hopeless")) \subseteq T
  BY <1>2, <1>6, JoinedWithin
<1>8. QED
  BY <1>4, <1>5, <1>6, <1>7 DEF T

\* The composer finds what it needs, and composes for the contract it reads.
LEMMA ComposerCalm ==
    ASSUME NEW st, st.plan # None, st.catalog # None => st.selection # None, NEW v \in Compose(st)
    PROVE  /\ DOMAIN v \subseteq Shared \union Owned(Composer)
           /\ "deadline" \notin DOMAIN v
           /\ "workspace" \in DOMAIN v => v["workspace"] = st.con
<1>1. \/ v = Composed(st)
      \/ \E f \in BOOLEAN : v = [status |-> Entry(Composer, "failed"), fault |-> f]
  BY DEF Compose
<1>2. Shared \union Owned(Composer) =
        {"status", "packets", "fault", "deadline", "skeleton", "gate", "gateRoute", "workspace"}
  BY DEF Shared, Owned, Composer
<1>3. CASE v = Composed(st)
  <2>1. \/ DOMAIN v = {"skeleton", "status", "gate", "gateRoute"}
        \/ DOMAIN v = {"workspace", "status"} /\ v["workspace"] = st.con
    BY <1>3 DEF Composed
  <2>2. QED
    BY <1>2, <2>1
<1>4. ASSUME NEW f, v = [status |-> Entry(Composer, "failed"), fault |-> f]
      PROVE  DOMAIN v = {"status", "fault"}
  BY <1>4
<1>5. QED
  BY <1>1, <1>2, <1>3, <1>4

\* Which fields agent n wrote, and what it wrote in two of them.
Agreed(n, v, c) ==
    /\ DOMAIN v \subseteq (Shared \union Owned(n)) \ {"deadline"}
    /\ "workspace" \in DOMAIN v => v["workspace"] = c

LEMMA AgentAgrees ==
    ASSUME NEW read, NEW n \in Agents, read.plan # None, read.catalog # None => read.selection # None,
           NEW w, NEW v, QuietBy(read, n, w, v)
    PROVE  Agreed(n, v, read.con)
<1>1. v = BlockedWorkerUpdate(read, n) \/ v \in Body(read, n)
  BY DEF QuietBy
<1>2. CASE v = BlockedWorkerUpdate(read, n)
  <2>1. DOMAIN v \subseteq {"status", "fault"}
    BY <1>2 DEF BlockedWorkerUpdate
  <2>2. QED
    BY <2>1 DEF Agreed, Shared
<1>3. CASE v \in Body(read, n) /\ n = Composer
  <2>1. v \in Compose(read)
    BY <1>3 DEF Body, Workers, Composer
  <2>2. /\ DOMAIN v \subseteq Shared \union Owned(Composer)
        /\ "deadline" \notin DOMAIN v
        /\ "workspace" \in DOMAIN v => v["workspace"] = read.con
    BY <2>1, ComposerCalm
  <2>3. QED
    BY <1>3, <2>2 DEF Agreed
<1>4. CASE v \in Body(read, n) /\ n \in Workers
  <2>1. v \in Research(read, n)
    BY <1>4 DEF Body, Workers, Composer
  <2>2. DOMAIN v \subseteq {"status", "packets", "fault", "next"}
    <3>1. BodyFields(n) = {"status", "packets", "fault", "next"}
      BY <1>4, FieldsAre, Zenon
    <3>2. QED
      BY <1>4, <2>1, <3>1, WorkerFields
  <2>3. n # "destination" => DOMAIN v \subseteq {"status", "packets", "fault"}
    BY <1>4, <2>1, WorkerNext
  <2>4. n = "destination" => Owned(n) = {"next"}
    BY DEF Owned, Composer
  <2>5. DOMAIN v \subseteq (Shared \union Owned(n)) \ {"deadline"} /\ "workspace" \notin DOMAIN v
    <3>1. CASE n = "destination"
      BY <2>2, <2>4, <3>1 DEF Shared
    <3>2. CASE n # "destination"
      BY <2>3, <3>2 DEF Shared
    <3>3. QED
      BY <3>1, <3>2
  <2>6. QED
    BY <2>5 DEF Agreed
<1>5. QED
  BY <1>1, <1>2, <1>3, <1>4 DEF Agents

LEMMA KeptDeadline ==
    ASSUME NEW read, NEW v, "deadline" \notin DOMAIN v
    PROVE  "deadline" \in DOMAIN Kept(read, v) => Kept(read, v)["deadline"] = TRUE
<1> DEFINE d == [deadline |-> TRUE]
           k == v ++ d
<1>1. DOMAIN d = {"deadline"} /\ d["deadline"] = TRUE
  OBVIOUS
<1> HIDE DEF d
<1>2. k["deadline"] = d["deadline"]
  <2>1. \A x \in DOMAIN d \ DOMAIN v : k[x] = d[x]
    BY Joined
  <2>2. QED
    BY <1>1, <2>1
<1>3. Kept(read, v) = v \/ Kept(read, v) = k
  BY Zenon DEF Kept, d
<1> HIDE DEF k
<1>4. k["deadline"] = TRUE
  BY <1>1, <1>2
<1>5. QED
  BY <1>3, <1>4

LEMMA AgentQuiet ==
    ASSUME Supplements = {}, TypeInv, inbox = {}, NEW old, StateOK(old), NEW n \in Agents,
           Approved(old), old.con # None, NEW tasks, n \in tasks, NEW c, CalmAt(old, tasks, c),
           NEW read, read = [old EXCEPT !.now = c], NEW w \in Writes(read, n), WriteOK(w), NEW now
    PROVE  Quiet(n, w, Targets(EdgeState(n, w, now), n), old.con)
<1>1. /\ StateOK(read)
      /\ \A f \in DOMAIN InitState \ {"now"} : read[f] = old[f]
  BY ReadIs
<1>2. /\ read.con = old.con /\ read.plan = old.plan
      /\ read.catalog = old.catalog /\ read.selection = old.selection
  BY <1>1, ReadFields
<1>3. read.plan # None
  BY <1>2 DEF Approved
<1>4. read.catalog # None => read.selection # None
  BY <1>2 DEF CalmAt
<1>5. PICK v : QuietBy(read, n, w, v)
  BY <1>1, QuietWrites
<1>6. Agreed(n, v, old.con)
  BY <1>2, <1>3, <1>4, <1>5, AgentAgrees
<1>7. w = Kept(read, v)
  BY <1>5 DEF QuietBy
<1>8. DOMAIN w \subseteq Shared \union Owned(n)
  <2> SUFFICES ASSUME NEW f \in DOMAIN w, f # "deadline" PROVE f \in Shared \union Owned(n)
    BY DEF Shared
  <2>1. f \in DOMAIN v
    BY <1>7, KeptIs
  <2>2. QED
    BY <1>6, <2>1 DEF Agreed
<1>9. "workspace" \in DOMAIN w => w["workspace"] = old.con
  <2>1. /\ "workspace" \in DOMAIN w <=> "workspace" \in DOMAIN v
        /\ "workspace" \in DOMAIN v => w["workspace"] = v["workspace"]
    BY <1>7, KeptIs
  <2>2. QED
    BY <1>6, <2>1 DEF Agreed
<1>10. "deadline" \in DOMAIN w => w["deadline"] = TRUE
  <2>1. "deadline" \notin DOMAIN v
    BY <1>6 DEF Agreed
  <2>2. QED
    BY <1>7, <2>1, KeptDeadline
<1> DEFINE st == EdgeState(n, w, now)
<1>11. Targets(st, n) \subseteq {"dispatcher"}
  <2>1. StateOK(st)
    BY AgentsAreNodes, EdgeStateOK
  <2>2. st.pending = {}
    BY <2>1, NoPending
  <2> HIDE DEF st
  <2>3. QED
    BY <2>2, AgentTargets
<1> HIDE DEF st
<1>12. Quiet(n, w, Targets(st, n), old.con)
  BY <1>8, <1>9, <1>10, <1>11 DEF Quiet
<1>13. QED
  BY <1>12 DEF st

\* No two agents write the same field without a reducer.
LEMMA OwnedIs ==
    /\ Shared \subseteq Reduced
    /\ \A m, n \in Agents : m # n => Owned(m) \intersect Owned(n) = {}
    /\ \A n \in Agents : (Shared \union Owned(n)) \intersect
            {"con", "draft", "plan", "qualityRoute", "catalog", "selection"} = {}
<1>1. Shared \subseteq Reduced
  BY DEF Shared, Reduced
<1>2. \A n \in Agents : Owned(n) = IF n = Composer THEN {"skeleton", "gate", "gateRoute", "workspace"}
                                   ELSE IF n = "destination" THEN {"next"} ELSE {}
  BY DEF Owned, Agents, Workers, Composer
<1>3. \A m, n \in Agents : m # n => Owned(m) \intersect Owned(n) = {}
  BY <1>2
<1>4. \A n \in Agents : (Shared \union Owned(n)) \intersect
            {"con", "draft", "plan", "qualityRoute", "catalog", "selection"} = {}
  BY <1>2 DEF Shared
<1>5. QED
  BY <1>1, <1>3, <1>4

\* All agents of a superstep have been quiet.
AllQuiet(writes, targets, c) == \A m \in DOMAIN writes : Quiet(m, writes[m], targets[m], c)

LEMMA QuietAgree ==
    ASSUME NEW writes, NEW targets, NEW c, AllQuiet(writes, targets, c)
    PROVE  ~Conflict(writes)
<1> SUFFICES ASSUME NEW m \in DOMAIN writes, NEW n \in DOMAIN writes, m # n,
                    NEW f \in DOMAIN writes[m] \intersect DOMAIN writes[n], f \notin Reduced
             PROVE  FALSE
  BY DEF Conflict
<1>1. m \in Agents /\ n \in Agents
  BY DEF AllQuiet, Quiet
<1>2. f \in Shared \union Owned(m) /\ f \in Shared \union Owned(n)
  BY DEF AllQuiet, Quiet
<1>3. f \in Owned(m) /\ f \in Owned(n)
  BY <1>2, OwnedIs
<1>4. QED
  BY <1>1, <1>3, OwnedIs

\* The agents compose for the contract they read, and come back to the dispatcher.
LEMMA QuietMerge ==
    ASSUME NEW old, StateOK(old), NEW writes, DOMAIN writes \subseteq Agents, DOMAIN writes # {},
           NEW targets, DOMAIN targets = DOMAIN writes, AllQuiet(writes, targets, old.con),
           NEW c, CalmAt(old, DOMAIN writes, c), NEW st, st = Merge(old, writes), NEW d
    PROVE  CalmAt(st, UNION Range(targets), d)
<1>1. {"con", "draft", "plan", "qualityRoute", "catalog", "selection", "workspace", "deadline"}
        \subseteq DOMAIN old
  <2>1. {"con", "draft", "plan", "qualityRoute", "catalog", "selection", "workspace", "deadline"}
          \subseteq DOMAIN InitState
    BY DEF InitState
  <2>2. QED
    BY <2>1 DEF StateOK
<1>2. DOMAIN writes \subseteq Nodes
  BY AgentsAreNodes
<1>3. ASSUME NEW f \in {"con", "draft", "plan", "qualityRoute", "catalog", "selection"}
      PROVE  st[f] = old[f]
  <2>1. \A m \in DOMAIN writes : f \notin DOMAIN writes[m]
    BY OwnedIs DEF AllQuiet, Quiet
  <2>2. f \in DOMAIN old
    BY <1>1
  <2>3. QED
    BY <2>1, <2>2, UnwrittenStays
<1>4. st["con"] = old["con"] /\ st["catalog"] = old["catalog"] /\ st["selection"] = old["selection"]
  BY <1>3
<1>5. DOMAIN writes \intersect AfterGate # {}
  BY OnwardIs
<1>6. /\ old.workspace \in {None, old.con} /\ (old.catalog # None => old.selection # None)
      /\ old["deadline"] = TRUE
  <2>1. old["deadline"] = TRUE
    BY <1>5 DEF CalmAt
  <2>2. QED
    BY <2>1 DEF CalmAt
<1>7. st.workspace \in {None, st.con}
  <2>1. \/ st["workspace"] = old["workspace"]
        \/ \E m \in DOMAIN writes : "workspace" \in DOMAIN writes[m] /\ st["workspace"] = writes[m]["workspace"]
    <3>1. "workspace" \in DOMAIN old
          /\ "workspace" \notin {"status", "packets", "applied", "rejected", "committed"}
      BY <1>1
    <3>2. QED
      BY <1>2, <3>1, MergedPlain
  <2>2. \A m \in DOMAIN writes : "workspace" \in DOMAIN writes[m] => writes[m]["workspace"] = old.con
    BY DEF AllQuiet, Quiet
  <2>3. QED
    BY <1>4, <1>6, <2>1, <2>2
<1>8. st["deadline"] = TRUE
  <2>1. \/ st["deadline"] = old["deadline"]
        \/ \E m \in DOMAIN writes : "deadline" \in DOMAIN writes[m] /\ st["deadline"] = writes[m]["deadline"]
    <3>1. "deadline" \in DOMAIN old
          /\ "deadline" \notin {"status", "packets", "applied", "rejected", "committed"}
      BY <1>1
    <3>2. QED
      BY <1>2, <3>1, MergedPlain
  <2>2. \A m \in DOMAIN writes : "deadline" \in DOMAIN writes[m] => writes[m]["deadline"] = TRUE
    BY DEF AllQuiet, Quiet
  <2>3. CASE st["deadline"] = old["deadline"]
    BY <1>6, <2>3
  <2>4. CASE \E m \in DOMAIN writes : "deadline" \in DOMAIN writes[m] /\ st["deadline"] = writes[m]["deadline"]
    BY <2>2, <2>4, Zenon
  <2>5. QED
    BY <2>1, <2>3, <2>4
<1>9. UNION Range(targets) \subseteq {"dispatcher"}
  <2>1. \A m \in DOMAIN targets : targets[m] \subseteq {"dispatcher"}
    BY DEF AllQuiet, Quiet
  <2>2. QED
    BY <2>1 DEF Range
<1> DEFINE next == UNION Range(targets)
<1>10. next \subseteq AfterGate /\ next \intersect Delivering = {}
  <2>1. "dispatcher" \in AfterGate /\ "dispatcher" \notin Delivering
    BY DEF AfterGate, Delivering
  <2>2. QED
    BY <1>9, <2>1
<1>11. st.catalog # None => st.selection # None
  BY <1>4, <1>6
<1> HIDE DEF next
<1>12. CalmAt(st, next, d)
  BY <1>7, <1>8, <1>10, <1>11, CalmBehind
<1>13. QED
  BY <1>12 DEF next

-----------------------------------------------------------------------------
(* A run without supplements fails last. *)

\* The invariant of a run without supplements.
CalmInv ==
    /\ outcome = "failed" => MayEnd(s, clock)
    /\ outcome = "running" =>
          /\ CalmAt(s, Tasks, clock)
          /\ \A n \in DOMAIN out : Quiet(n, out[n], to[n], s.con)

\* The run starts calmly.
LEMMA CalmInitially == ASSUME Init PROVE CalmInv
<1>1. Tasks = {"clarifier"} /\ out = <<>> /\ outcome = "running" /\ s = InitState
  BY FirstTask DEF Init
<1>2. s.workspace = None /\ s.catalog = None
  BY <1>1 DEF InitState
<1>3. "clarifier" \in Chain /\ "clarifier" \notin Drafted /\ "clarifier" # "plan gate"
  BY DEF Chain, Drafted
<1>4. CalmAt(s, {"clarifier"}, clock)
  BY <1>2, <1>3, CalmBefore
<1>5. DOMAIN out = {}
  BY <1>1
<1>6. QED
  BY <1>1, <1>4, <1>5 DEF CalmInv

LEMMA LaterIs ==
    ASSUME TypeInv, NEW now \in Later
    PROVE  clock \in Nat /\ now \in Nat /\ now >= clock
  BY DEF TypeInv, Later

\* A node other than the agents has returned.
LEMMA CalmAlone ==
    ASSUME Supplements = {}, Faults \intersect {"persist", "prohibition"} = {},
           TypeInv, TypeInv', LaneInv, CalmInv, outcome = "running",
           NEW n \in Nodes \ DOMAIN out, n \notin Agents, Tasks = {n},
           NEW read, read = [s EXCEPT !.now = clock], NEW w \in Writes(read, n), NEW now \in Later,
           Return(n, w, now)
    PROVE  CalmInv'
<1>1. StateOK(s) /\ inbox = {} /\ inbox \subseteq Supplements
  BY DEF TypeInv, ReceiptsOK
<1>2. StateOK(read)
  BY <1>1, ClockRead
<1>3. WriteOK(w)
  BY <1>1, <1>2, WritesOK
<1>4. clock \in Nat /\ now \in Nat /\ now >= clock
  BY LaterIs
<1>5. LaneAt(s, {n}) /\ CalmAt(s, {n}, clock)
  BY DEF LaneInv, CalmInv
<1>6. PICK v : QuietBy(read, n, w, v)
  BY <1>1, <1>2, QuietWrites
<1>7. w = Kept(read, v) /\ v \in Body(read, n)
  <2>1. ~WindowClosed(read, n)
    BY DEF WindowClosed
  <2>2. QED
    BY <1>6, <2>1 DEF QuietBy
<1>8. n # "router"
  <2>1. n \in Chain \union AfterGate
    BY <1>5 DEF CalmAt
  <2>2. "router" \notin Chain \union AfterGate
    BY DEF Chain, AfterGate, Agents, Workers, Composer
  <2>3. QED
    BY <2>1, <2>2
<1>9. CASE Stops(n, w)
  <2>1. ASSUME outcome' = "failed" PROVE MayEnd(s, clock)
    <3>1. "raise" \in DOMAIN w
      BY <1>8, <1>9, <2>1 DEF Stops, Raises
    <3>2. "raise" \in DOMAIN v
      BY <1>7, <3>1, KeptIs
    <3>3. QED
      BY <1>1, <1>4, <1>5, <1>7, <3>2, CalmFails
  <2>2. outcome' = "failed" => s' = s /\ clock' = clock
    BY <1>9 DEF Stops
  <2>3. outcome' = "failed" => MayEnd(s', clock')
    BY <2>1, <2>2
  <2>4. outcome' # "running"
    BY <1>9 DEF Stops
  <2>5. QED
    BY <2>3, <2>4 DEF CalmInv
<1>10. CASE Moves(n, w, now)
  <2>1. PICK x : /\ StateOK(x) /\ x.now = now
                 /\ \A f \in Plain : x[f] = Written(s, w, f)
                 /\ Tasks' = Targets(x, n)
    BY <1>10 DEF Moves
  <2>2. \A f \in Plain : s'[f] = x[f]
    BY <1>10, <2>1 DEF Moves
  <2>3. x.pending = {}
    BY <2>1, NoPending
  <2>4. read["deadline"] = s["deadline"]
    <3>1. \A f \in DOMAIN InitState \ {"now"} : read[f] = s[f]
      BY <1>1, ReadIs
    <3>2. QED
      BY <3>1, ReadFields
  <2>5. Turned(s, v, x)
    BY <1>7, <2>1, <2>4, TurnedKept
  <2>6. GoesOn(n, v)
    <3>1. GoesOn(n, w)
      BY <1>10 DEF GoesOn, Moves
    <3>2. QED
      BY <1>7, <1>8, <3>1, GoesKept
  <2>7. s["deadline"] = TRUE /\ x["deadline"] = TRUE => clock' = x.now /\ clock' >= clock
    <3>1. s'["deadline"] = x["deadline"]
      BY <2>2, PlainIs
    <3>2. clock' = IF s'.deadline /\ s.deadline THEN now ELSE 0
      BY <1>10 DEF Moves
    <3>3. QED
      BY <1>4, <2>1, <3>1, <3>2
  <2>8. clock' \in Nat
    BY DEF TypeInv
  <2>9. CalmAt(x, Targets(x, n), clock')
    BY <1>1, <1>4, <1>5, <1>7, <2>1, <2>3, <2>5, <2>6, <2>7, <2>8, CalmTurned
  <2>10. CalmAt(s', Tasks', clock')
    <3>1. CalmFields \subseteq Plain
      BY DEF CalmFields, Plain, InitState
    <3>2. \A f \in CalmFields : s'[f] = x[f]
      BY <2>2, <3>1
    <3>3. CalmAt(x, Tasks', clock')
      BY <2>1, <2>9
    <3>4. QED
      BY <3>2, <3>3, CalmSame
  <2>11. DOMAIN out' = {} /\ outcome' # "failed"
    BY <1>10 DEF Moves
  <2>12. QED
    BY <2>10, <2>11 DEF CalmInv
<1>11. Stops(n, w) \/ Moves(n, w, now)
  BY <1>2, <1>3, AloneStep
<1>12. QED
  BY <1>9, <1>10, <1>11

\* One more agent has been quiet.
LEMMA QuietJoined ==
    ASSUME NEW n \in Agents, NEW c, NEW w, NEW t, Quiet(n, w, t, c), NEW writes, NEW targets,
           Extended(writes, n, w, out), Extended(targets, n, t, to), DOMAIN to = DOMAIN out,
           \A m \in DOMAIN out : Quiet(m, out[m], to[m], c)
    PROVE  /\ AllQuiet(writes, targets, c)
           /\ DOMAIN writes = {n} \union DOMAIN out /\ DOMAIN targets = DOMAIN writes
<1>1. DOMAIN writes = {n} \union DOMAIN out /\ DOMAIN targets = {n} \union DOMAIN out
  BY DEF Extended
<1>2. ASSUME NEW m \in DOMAIN writes PROVE Quiet(m, writes[m], targets[m], c)
  <2>1. CASE m = n
    <3>1. writes[m] = w /\ targets[m] = t
      BY <2>1 DEF Extended
    <3>2. QED
      BY <2>1, <3>1
  <2>2. CASE m # n
    <3>1. m \in DOMAIN out
      BY <1>1, <2>2
    <3>2. writes[m] = out[m] /\ targets[m] = to[m]
      BY <2>2, <3>1 DEF Extended
    <3>3. QED
      BY <3>1, <3>2
  <2>3. QED
    BY <2>1, <2>2
<1>3. QED
  BY <1>1, <1>2 DEF AllQuiet

\* One of the agents has returned.
LEMMA CalmTogether ==
    ASSUME Supplements = {}, TypeInv, LaneInv, CalmInv, outcome = "running",
           NEW n \in Tasks \ DOMAIN out, Tasks \subseteq Agents,
           NEW read, read = [s EXCEPT !.now = clock], NEW w \in Writes(read, n), NEW now \in Later,
           Return(n, w, now)
    PROVE  CalmInv'
<1> DEFINE writes == WritesWith(n, w)
           targets == TargetsWith(n, w, now)
           t == Targets(EdgeState(n, w, now), n)
<1>1. /\ StateOK(s) /\ DOMAIN to = DOMAIN out /\ DOMAIN out \subseteq Tasks
      /\ DOMAIN out = {m \in Tasks : at[m] = "done"} /\ inbox = {} /\ inbox \subseteq Supplements
  BY DEF TypeInv, TasksOK, ReceiptsOK
<1>2. n \in Agents /\ n \in Tasks /\ n # "router"
  BY DEF Agents, Workers, Composer
<1>3. n \in AfterGate
  BY <1>2, OnwardIs
<1>4. Approved(s) /\ s.con # None
  <2>1. LaneAt(s, Tasks)
    BY DEF LaneInv
  <2>2. Approved(s)
    BY <1>2, <1>3, <2>1 DEF LaneAt, Due
  <2>3. s.con # None
    <3>1. n \notin {"clarifier", "normalizer"}
      BY DEF Agents, Workers, Composer
    <3>2. QED
      BY <1>2, <2>1, <3>1 DEF LaneAt
  <2>4. QED
    BY <2>2, <2>3
<1>5. CalmAt(s, Tasks, clock) /\ \A m \in DOMAIN out : Quiet(m, out[m], to[m], s.con)
  BY DEF CalmInv
<1>6. WriteOK(w)
  <2>1. StateOK(read)
    BY <1>1, ClockRead
  <2>2. QED
    BY <1>1, <2>1, AgentsAreNodes, WritesOK
<1>7. Quiet(n, w, t, s.con)
  BY <1>1, <1>2, <1>4, <1>5, <1>6, AgentQuiet
<1>8. Extended(writes, n, w, out)
  <2>1. writes = Entry(n, w) ++ out
    BY Zenon DEF WritesWith
  <2>2. QED
    BY <2>1, JoinedEntry
<1>9. Extended(targets, n, t, to)
  BY TargetsWithAre
<1>10. ~Raises(w) /\ ~Cancels(w)
  <2>1. DOMAIN w \subseteq Shared \union Owned(n)
    BY <1>7 DEF Quiet
  <2>2. {"raise", "cancel"} \intersect (Shared \union Owned(n)) = {}
    BY <1>2 DEF Shared, Owned, Agents, Workers, Composer
  <2>3. QED
    BY <1>2, <2>1, <2>2 DEF Raises, Cancels
<1> HIDE DEF writes, targets, t
<1>11. /\ AllQuiet(writes, targets, s.con)
       /\ DOMAIN writes = {n} \union DOMAIN out /\ DOMAIN targets = DOMAIN writes
  <2>1. DOMAIN to = DOMAIN out
    BY <1>1
  <2>2. \A m \in DOMAIN out : Quiet(m, out[m], to[m], s.con)
    BY <1>5
  <2>3. n \in Agents
    BY <1>2
  <2>4. QED
    BY <1>7, <1>8, <1>9, <2>1, <2>2, <2>3, QuietJoined, Zenon
<1>12. \/ outcome' = "refused"
       \/ /\ \A m \in Tasks \ {n} : at[m] = "done"
          /\ NextStep(writes, targets, now)
       \/ /\ at' = [at EXCEPT ![n] = "done"] /\ out' = writes /\ to' = targets
          /\ clock' = now /\ UNCHANGED <<s, sent, outcome>>
  <2> DEFINE how == EdgeVerdict(n, w, now)
  <2>1. how \in {"running", "refused"}
    BY <1>2, VerdictIs
  <2>2. \/ Raises(w)
        \/ Cancels(w)
        \/ how # "running" /\ End(how)
        \/ /\ \A m \in Tasks \ {n} : at[m] = "done"
           /\ NextStep(writes, targets, now)
        \/ /\ at' = [at EXCEPT ![n] = "done"] /\ out' = writes /\ to' = targets
           /\ clock' = now /\ UNCHANGED <<s, sent, outcome>>
    BY ReturnIs, Zenon DEF writes, targets
  <2> HIDE DEF how
  <2>3. how # "running" /\ End(how) => outcome' = "refused"
    BY <2>1 DEF End
  <2>4. QED
    BY <1>10, <2>2, <2>3
<1>16. CASE outcome' = "refused"
  BY <1>16 DEF CalmInv
<1>13. CASE /\ at' = [at EXCEPT ![n] = "done"] /\ out' = writes /\ to' = targets
            /\ clock' = now /\ UNCHANGED <<s, sent, outcome>>
  <2>1. Tasks' = Tasks /\ s' = s /\ outcome' = "running" /\ clock' = now
    BY <1>13 DEF Tasks
  <2>2. \A m \in DOMAIN out' : Quiet(m, out'[m], to'[m], s.con)
    BY <1>11, <1>13 DEF AllQuiet
  <2>3. CalmAt(s, Tasks, now)
    BY <1>5, LaterIs, CalmLater
  <2>4. CalmAt(s', Tasks', clock')
    BY <2>1, <2>3
  <2>5. \A m \in DOMAIN out' : Quiet(m, out'[m], to'[m], s'.con)
    BY <2>1, <2>2
  <2>6. QED
    BY <2>1, <2>4, <2>5 DEF CalmInv
<1>14. CASE (\A m \in Tasks \ {n} : at[m] = "done") /\ NextStep(writes, targets, now)
  <2>1. DOMAIN writes = Tasks
    BY <1>1, <1>11, <1>14
  <2>2. ~Conflict(writes)
    BY <1>11, QuietAgree
  <2>7. CASE outcome' = "refused"
    BY <2>7 DEF CalmInv
  <2>8. CASE outcome' # "refused"
    <3>1. /\ DOMAIN out' = {} /\ s' = Merge(s, writes) /\ Tasks' = UNION Range(targets)
          /\ outcome' \in {outcome, "delivered", "halted"}
      BY <1>14, <2>2, <2>8, NextStepIs
    <3>2. CalmAt(s', UNION Range(targets), clock')
      <4>1. DOMAIN writes # {} /\ DOMAIN writes \subseteq Agents /\ CalmAt(s, DOMAIN writes, clock)
        BY <1>2, <1>5, <2>1
      <4>2. QED
        BY <1>1, <1>11, <3>1, <4>1, QuietMerge
    <3>3. CalmAt(s', Tasks', clock')
      BY <3>1, <3>2
    <3>4. QED
      BY <3>1, <3>3 DEF CalmInv
  <2>9. QED
    BY <2>7, <2>8
<1>15. QED
  BY <1>12, <1>13, <1>14, <1>16

\* Every step keeps the invariant.
LEMMA CalmKept ==
    ASSUME Supplements = {}, Faults \intersect {"persist", "prohibition"} = {},
           TypeInv, TypeInv', LaneInv, OneLane, CalmInv, [Next]_vars
    PROVE  CalmInv'
<1>1. CASE /\ Tasks' = Tasks /\ UNCHANGED <<s, out, to, sent, outcome>>
           /\ clock' = clock \/ clock' = clock + 1
  <2>1. clock \in Nat /\ clock' \in Nat /\ clock' >= clock
    BY <1>1 DEF TypeInv
  <2>2. outcome' = "failed" => MayEnd(s', clock')
    <3>1. outcome = "failed" => MayEnd(s, clock)
      BY DEF CalmInv
    <3>2. clock >= 2 => clock' >= 2
      BY <2>1
    <3>3. s' = s /\ outcome' = outcome
      BY <1>1
    <3>4. QED
      BY <3>1, <3>2, <3>3, Zenon DEF MayEnd
  <2>3. outcome' = "running" => CalmAt(s', Tasks', clock')
    <3>1. outcome = "running" => CalmAt(s, Tasks, clock')
      BY <2>1, CalmLater DEF CalmInv
    <3>2. QED
      BY <1>1, <3>1
  <2>4. outcome' = "running" => \A n \in DOMAIN out' : Quiet(n, out'[n], to'[n], s'.con)
    BY <1>1 DEF CalmInv
  <2>5. QED
    BY <2>2, <2>3, <2>4 DEF CalmInv
<1>2. ASSUME outcome = "running", NEW n \in Tasks \ DOMAIN out, NEW w \in Writes(StateOf(n), n),
             NEW now \in Later, Return(n, w, now)
      PROVE  CalmInv'
  <2>1. n \in Nodes /\ Tasks \subseteq Nodes
    BY DEF TypeInv, TasksOK
  <2>2. sent = NoWrites
    BY <1>2 DEF LaneInv
  <2>3. StateOf(n) = [s EXCEPT !.now = clock]
    BY <2>2 DEF StateOf
  <2>4. Tasks \subseteq Agents \/ (Tasks = {n} /\ n \notin Agents)
    BY <2>1 DEF OneLane
  <2>5. CASE Tasks \subseteq Agents
    BY <1>2, <2>3, <2>5, CalmTogether
  <2>6. CASE Tasks = {n} /\ n \notin Agents
    BY <1>2, <2>1, <2>3, <2>6, CalmAlone
  <2>7. QED
    BY <2>4, <2>5, <2>6
<1>3. QED
  BY <1>1, <1>2, TasksStay

\* What the invariant says of a failed run.
LEMMA CalmFailsLast == ASSUME TypeInv, CalmInv PROVE FailsLast
<1> SUFFICES ASSUME outcome = "failed", clock < 2
             PROVE  s.workspace = None /\ s.repairs = MaxRepairs
  BY DEF FailsLast
<1>1. MayEnd(s, clock)
  BY DEF CalmInv
<1>2. ~(clock >= 2)
  BY DEF TypeInv
<1>3. QED
  BY <1>1, <1>2, Zenon DEF MayEnd

\* Without supplements, and where neither the persistence of the bundle nor the recheck of
\* a prohibition fails, a run that a node fails before its composition window closes has
\* composed nothing and has spent every repair (composition_repair, delivery_quality_gate,
\* delivery_finalizer): for every plan, budget, number of repairs, outcome of the workers,
\* edit of the plan and restart, and wherever the clock stands.
THEOREM GraphFailsLast ==
    ASSUME Supplements = {}, Faults \intersect {"persist", "prohibition"} = {}
    PROVE  Spec => []FailsLast
<1>1. Init => CalmInv
  BY CalmInitially
<1>2. TypeInv /\ TypeInv' /\ LaneInv /\ OneLane /\ CalmInv /\ [Next]_vars => CalmInv'
  BY CalmKept
<1>3. TypeInv /\ CalmInv => FailsLast
  BY CalmFailsLast
<1>4. Spec => []OneLane
  BY GraphQuietLane
<1>5. QED
  BY <1>1, <1>2, <1>3, <1>4, LaneHolds, TypesHold, PTL DEF Spec

-----------------------------------------------------------------------------
(* A run that was cancelled. *)

\* Only the plan gate hands the run to its user, who may cancel it.
LEMMA OthersGoOn ==
    ASSUME NEW st, NEW n \in Nodes, n # "plan gate", NEW w \in Writes(st, n)
    PROVE  ~Cancels(w)
<1>1. "cancel" \notin ResetFields /\ "cancel" \notin GateFields
  BY DEF ResetFields, GateFields
<1>2. "cancel" \notin BodyFields(n)
  <2>1. \/ n = "normalizer" \/ n = "draft" \/ n = "planner" \/ n = "dispatcher" \/ n = "finalizer"
        \/ n \in Workers \/ n = Composer \/ n = "router"
        \/ n \in {"candidate gate", "artifact gate"}
        \/ n \in {"fidelity gate", "quality gate", "projector"}
        \/ n \in {"clarifier", "brief", "geo", "weather", "summary", "budget"}
    BY NodesAre DEF Workers, Composer
  <2>2. CASE n = "normalizer"
    <3>1. BodyFields(n) = {"con", "planRevision", "pending", "edit", "route", "resume", "applied"}
      BY <2>2, FieldsAre
    <3>2. QED
      BY <3>1
  <2>3. CASE n = "draft"
    <3>1. BodyFields(n) = {"draft", "sealed", "deadline", "gaps", "dead", "attempts"}
      BY <2>3, FieldsAre
    <3>2. QED
      BY <3>1
  <2>4. CASE n = "planner"
    <3>1. BodyFields(n) = {"plan", "step", "scoped", "connector"}
      BY <2>4, FieldsAre
    <3>2. QED
      BY <3>1
  <2>5. CASE n = "dispatcher"
    <3>1. BodyFields(n) = {"step", "next"}
      BY <2>5, FieldsAre
    <3>2. QED
      BY <3>1
  <2>6. CASE n = "finalizer"
    <3>1. BodyFields(n) = {"raise", "committed"}
      BY <2>6, FieldsAre
    <3>2. QED
      BY <3>1
  <2>7. CASE n \in Workers
    <3>1. BodyFields(n) = {"status", "packets", "fault", "next"}
      BY <2>7, FieldsAre
    <3>2. QED
      BY <3>1
  <2>8. CASE n = Composer
    <3>1. BodyFields(n) = {"raise", "status", "fault", "skeleton", "gate", "gateRoute", "workspace"}
      BY <2>8, FieldsAre
    <3>2. QED
      BY <3>1
  <2>9. CASE n = "router"
    <3>1. BodyFields(n) = {"pending", "rejected", "route", "resume", "edits", "decision"} \union ResetFields
      BY <2>9 DEF BodyFields, Workers, Composer
    <3>2. QED
      BY <3>1, <1>1
  <2>10. CASE n \in {"candidate gate", "artifact gate"}
    <3>1. BodyFields(n) = GateFields
      BY <2>10, FieldsAre
    <3>2. QED
      BY <3>1, <1>1
  <2>11. CASE n \in {"fidelity gate", "quality gate", "projector"}
    <3>1. BodyFields(n) = GateFields \union {"raise"}
      BY <2>11, FieldsAre
    <3>2. QED
      BY <3>1, <1>1
  <2>12. CASE n \in {"clarifier", "brief", "geo", "weather", "summary", "budget"}
    <3>1. BodyFields(n) = {}
      BY <2>12, FieldsAre
    <3>2. QED
      BY <3>1
  <2>13. QED
    BY <2>1, <2>2, <2>3, <2>4, <2>5, <2>6, <2>7, <2>8,
       <2>9, <2>10, <2>11, <2>12
<1>3. DOMAIN w \subseteq BodyFields(n) \union {"pending", "resume", "deadline"}
  BY WritesWithin
<1>4. "cancel" \notin DOMAIN w
  BY <1>2, <1>3
<1>5. QED
  BY <1>4 DEF Cancels

\* What a cancelled run leaves: no supplement was on its way, since its user was asked.
CancelledInv ==
    outcome = "cancelled" =>
        \A a \in Supplements : verdict[a] = "applied" => a \in s.applied \/ a \in torn

\* The plan gate is no agent and runs alone, so the normalizer is not at work beside it.
LEMMA CancelledReturn ==
    ASSUME TypeInv, SettledInv, OneLane, outcome = "running", NEW n \in Tasks \ DOMAIN out,
           NEW w \in Writes(StateOf(n), n), NEW now, Return(n, w, now), torn' = torn
    PROVE  CancelledInv'
<1>1. n \in Nodes
  BY DEF TypeInv, TasksOK
<1>2. CASE Cancels(w) /\ End("cancelled") /\ UNCHANGED <<s, clock, inbox, verdict>>
  <2>1. n = "plan gate"
    BY <1>1, <1>2, OthersGoOn
  <2>2. "normalizer" \notin Tasks
    BY <2>1 DEF OneLane, Agents, Workers, Composer
  <2>3. "normalizer" \notin DOMAIN out
    BY <2>2 DEF TypeInv, TasksOK
  <2>4. QED
    BY <1>2, <2>2, <2>3 DEF CancelledInv, SettledInv, Placed
<1>3. CASE Raises(w) /\ End("failed")
  BY <1>3 DEF End, CancelledInv
<1>4. CASE \E m \in Tasks \ {n} : outcome' = outcome
  BY <1>4 DEF CancelledInv
<1>5. ASSUME NEW writes, NEW targets, NextStep(writes, targets, now) PROVE outcome' # "cancelled"
  <2>1. outcome' \in {"failed", "refused", outcome, "delivered", "halted"}
    BY <1>5, NextStepIs
  <2>2. QED
    BY <2>1
<1>7. CASE \E how \in {"failed", "refused"} : End(how)
  BY <1>7 DEF End, CancelledInv
<1>6. QED
  <2>1. EdgeVerdict(n, w, now) \in {"running", "failed", "refused"}
    BY VerdictIs
  <2>2. QED
    BY <1>2, <1>3, <1>4, <1>5, <1>7, <2>1, ReturnIs DEF CancelledInv

\* Nothing moves a run that has ended.
LEMMA CancelledKept ==
    ASSUME TypeInv, SettledInv, OneLane, CancelledInv, [Next]_vars
    PROVE  CancelledInv'
<1>1. CASE outcome # "running"
  <2>1. UNCHANGED <<s, verdict, torn, outcome>>
    BY <1>1 DEF Next, Machine, Step, Decide, Runs, Seed, Tick, Arrive, Crash, CrashAfterSettling,
                Finished, vars, taskVars
  <2>2. QED
    BY <2>1 DEF CancelledInv
<1>2. CASE outcome = "running"
  <2>1. ASSUME NEW n, Runs(n) PROVE CancelledInv'
    <3>1. PICK w \in Writes(StateOf(n), n) : \E now \in Later : Return(n, w, now)
      BY <2>1, RunsIs
    <3>2. n \in Tasks /\ torn' = torn /\ at[n] # "done"
      BY <2>1, RunsIs, RunsUndone
    <3>3. n \notin DOMAIN out
      BY <3>2 DEF TypeInv, TasksOK
    <3>4. QED
      BY <1>2, <3>1, <3>2, <3>3, CancelledReturn, SMTT(30)
  <2>2. CASE outcome' = outcome
    BY <1>2, <2>2 DEF CancelledInv
  <2>3. (\E n : Runs(n)) \/ outcome' = outcome
    BY DEF Next, Machine, Step, Decide, Seed, Tick, Arrive, Crash, CrashAfterSettling, Restart,
           Finished, vars
  <2>4. QED
    BY <2>1, <2>2, <2>3
<1>3. QED
  BY <1>1, <1>2

\* In a run that stays in one lane every supplement whose receipt says applied is in the
\* contract or on its way there, or was torn by a crash: a run its user cancelled is no
\* exception, since the plan gate was alone (with_run_control, plan_gate_node).
THEOREM GraphSettledInLane == Spec /\ []OneLane => []SupplementsSettled
<1>1. Init => CancelledInv
  BY DEF Init, CancelledInv
<1>2. TypeInv /\ SettledInv /\ OneLane /\ CancelledInv /\ [Next]_vars => CancelledInv'
  BY CancelledKept
<1>3. CancelledInv /\ (outcome = "cancelled" \/ SupplementsSettled) => SupplementsSettled
  BY DEF CancelledInv, SupplementsSettled
<1>4. QED
  BY <1>1, <1>2, <1>3, SettledHold, GraphSettled, PTL DEF Spec

-----------------------------------------------------------------------------
(* What follows from the constants alone. *)

\* So a run without supplements, or one whose plan starts one agent at a time, works on
\* what was approved, judges and delivers nothing stale and keeps the supplements it has
\* receipts for: these two hypotheses are about the constants alone.
THEOREM GraphDelivers ==
    ASSUME Supplements = {} \/ \A i \in DOMAIN Plan : \E a : Plan[i] = {a}
    PROVE  Spec => [](ApprovedWorkOnly /\ NoObsoleteMaterial /\ SupplementsSettled)
<1>1. Spec => []OneLane
  BY GraphQuietLane, GraphSingleLane
<1>2. QED
  BY <1>1, GraphApproved, GraphFresh, GraphSettledInLane, PTL

=============================================================================
