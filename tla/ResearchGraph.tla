--------------------------- MODULE ResearchGraph ---------------------------
(***************************************************************************)
(* The deep-research graph of a run (workflows/travel_planning.py): the    *)
(* planning chain and its approval gate, the dispatcher and the research   *)
(* workers, the gates that send work back, the composer, the delivery, and *)
(* the router that takes the user's supplements in.                        *)
(*                                                                         *)
(* LangGraph runs it in supersteps.  The tasks of a superstep all read the *)
(* state `s` as it was at its start; the writes of a task and the targets  *)
(* its edge chose wait in `out` and `to` until the last task is done, and  *)
(* are then merged by the reducers of entities/state.py.  Whenever it      *)
(* builds the state, for a task or for an edge, the validator of the state *)
(* may refuse it, and the run fails.                                       *)
(*                                                                         *)
(* A contract is a pair <<generation, revision>>, and what is derived from *)
(* a contract (draft, plan, catalog, workspace ...) is named by it.  What  *)
(* a worker found is abstracted to what the gates tell apart: its          *)
(* candidates satisfy the request ("met"), do so beside a rejected one     *)
(* ("loose"), do not ("missing"), or cannot ("hopeless": its provider      *)
(* refuses the request for good).                                          *)
(***************************************************************************)
EXTENDS Naturals, FiniteSets, SequencesExt

CONSTANTS
    Plan,          \* the execution plan: a sequence of groups of agents
    Budget,        \* Budget[w]: targeted research calls of a worker's domain
    Supplements,   \* ids of the supplements of the run
    Impacts,       \* what classify_amendment may say of them
    MaxEdits,      \* _MAX_PLAN_GATE_REVISIONS
    MaxRepairs,    \* MAXIMUM_COMPOSITION_REPAIR_ATTEMPTS
    Outcomes,      \* bound: how the rounds of the workers may turn out
    Faults,        \* what may fail: "catalog", "prohibition", "composer", "persist"
    MaxCrashes     \* bound: restarts of the process

Workers == {"destination", "transport", "accommodation"}
Composer == "itinerary"
Agents == Workers \union {Composer}

ASSUME GraphAssumption ==
    /\ Plan \in Seq((SUBSET Agents) \ {{}}) \ {<<>>}
    /\ Budget \in [Workers -> Nat \ {0}]
    /\ Impacts \subseteq {"projection", "composition", "research", "refused"}
    /\ {MaxEdits, MaxRepairs, MaxCrashes} \subseteq Nat
    /\ Outcomes \subseteq {"met", "loose", "missing", "hopeless", "failed", "asks"}
    /\ Faults \subseteq {"catalog", "prohibition", "composer", "persist"}

\* The nodes, in the order of their names in the code: writes merge in this order.
NodeOrder ==
    << "accommodation", "artifact gate", "budget", "candidate gate", "finalizer",
       "projector", "quality gate", "geo", "destination", "dispatcher", "router",
       "fidelity gate", "itinerary", "draft", "plan gate", "planner", "normalizer",
       "brief", "clarifier", "transport", "summary", "weather" >>
Nodes == Range(NodeOrder)
Rank == [n \in Nodes |-> CHOOSE i \in DOMAIN NodeOrder : NodeOrder[i] = n]

VARIABLES
    s,          \* TravelAgentState
    at,         \* the tasks of this superstep: at[n] is how far node n has come
    out,        \* out[n]: what a node that is done has returned
    to,         \* to[n]: the targets its edge has chosen
    sent,       \* the state the dispatcher's Sends carry, if it is not `s`
    clock,      \* the phase observe_run_deadline would find
    inbox,      \* the supplements in the run's handle
    impact,     \* impact[a]: what classify_amendment says of supplement a
    verdict,    \* verdict[a]: its receipt
    seeded,     \* this process has begun to read the baseline of the budget
    crashes,
    outcome,    \* how the run ended; "refused" is a failure by the state's validator
    torn        \* ghost: supplements that went with a crash of the normalizer

taskVars == <<at, out, to, sent>>
vars == <<s, taskVars, clock, inbox, impact, verdict, seeded, crashes, outcome, torn>>

\* A map of one key, and the map that prefers the entries of f to those of g (both are
\* bound, so that TLC evaluates each of them once).
Entry(key, value) == [k \in {key} |-> value]
f ++ g ==
    CHOOSE h \in {[x \in DOMAIN p[1] \union DOMAIN p[2] |->
                    IF x \in DOMAIN p[1] THEN p[1][x] ELSE p[2][x]] : p \in {<<f, g>>}} : TRUE

None == <<0, 0>>
NoWrites == <<>>
Done == {"completed", "partial", "failed"}
NoPacket == [gen |-> 0, found |-> "missing"]
Planned == UNION Range(Plan)

\* CandidateResearchGap: a responsibility of a worker nothing satisfies, a rejected
\* candidate beside an accepted one, and the local routes of the placement skeleton.
Missing(w) == <<w, "missing">>
Loose(w) == <<w, "loose">>
Route == <<"transport", "route">>
GapOrder ==
    << Missing("accommodation"), Loose("accommodation"), Missing("destination"),
       Loose("destination"), Missing("transport"), Route, Loose("transport") >>

\* The turn of each gap.
Turn == [g \in Range(GapOrder) |-> CHOOSE i \in DOMAIN GapOrder : GapOrder[i] = g]

InitState ==
    [con |-> None, planRevision |-> 0, draft |-> None, sealed |-> FALSE, deadline |-> FALSE,
     plan |-> None, step |-> 1, next |-> "none", scoped |-> {}, connector |-> FALSE,
     status |-> [a \in Agents |-> "none"], packets |-> [w \in Workers |-> NoPacket],
     fault |-> FALSE,
     gate |-> "none", gateRoute |-> "passed", gaps |-> {}, dead |-> {},
     attempts |-> [g \in Range(GapOrder) |-> 0],
     catalog |-> None, selection |-> None, skeleton |-> FALSE,
     workspace |-> None, repairs |-> 0,
     artifactRoute |-> "accepted", fidelityRoute |-> "passed", qualityRoute |-> "none",
     decision |-> "none", edits |-> 0, edit |-> "none",
     pending |-> {}, resume |-> "none", route |-> "none",
     applied |-> {}, rejected |-> {}, committed |-> FALSE,
     now |-> 0]       \* what its reader finds on the clock

Init ==
    /\ s = InitState
    /\ at = Entry("clarifier", "ready")
    /\ out = <<>>
    /\ to = <<>>
    /\ sent = NoWrites
    /\ clock = 0
    /\ inbox = {}
    /\ impact = [a \in Supplements |-> "none"]
    /\ verdict = [a \in Supplements |-> "none"]
    /\ seeded = FALSE
    /\ crashes = 0
    /\ outcome = "running"
    /\ torn = {}

-----------------------------------------------------------------------------
(* The reducers. *)

\* Fields with a reducer; two tasks of a superstep that both write another field
\* make LangGraph refuse the update.
Reduced == {"draft", "sealed", "deadline", "status", "packets", "fault", "decision",
            "edit", "pending", "resume", "route", "applied", "rejected", "committed"}

\* The node whose name is the last one: its write is applied last.
LastOf(nodes) == CHOOSE n \in nodes : \A m \in nodes : Rank[m] <= Rank[n]

\* A map is merged key by key, and an empty one clears it; new[n] is what node n wrote.
MergedMap(old, new) ==
    [a \in DOMAIN old |->
        LET told == {n \in DOMAIN new : a \in DOMAIN new[n] \/ DOMAIN new[n] = {}}
        IN  IF told = {} THEN old[a]
            ELSE IF DOMAIN new[LastOf(told)] = {} THEN "none" ELSE new[LastOf(told)][a]]

\* Mutant of Reduce: the ids of the applied supplements are replaced, not joined.
ReduceReplacing(field, old, new) ==
    CASE field \in {"status", "packets"} -> MergedMap(old, new)
      [] field = "rejected" -> old \union UNION Range(new)
      [] field = "committed" -> old \/ TRUE \in Range(new)
      [] OTHER -> new[LastOf(DOMAIN new)]

\* One field after a superstep in which each node n of DOMAIN new wrote new[n] to it.
Reduce(field, old, new) ==
    CASE field \in {"status", "packets"} -> MergedMap(old, new)
      [] field \in {"applied", "rejected"} -> old \union UNION Range(new)
      [] field = "committed" -> old \/ TRUE \in Range(new)
      [] OTHER -> new[LastOf(DOMAIN new)]

\* The state after the writes of some nodes; writes[n] holds the fields n wrote.
Merge(st, writes) ==
    LET writers(f) == {n \in DOMAIN writes : f \in DOMAIN writes[n]}
    IN  [f \in {g \in DOMAIN st : writers(g) # {}} |->
            Reduce(f, st[f], [n \in writers(f) |-> writes[n][f]])] ++ st

Conflict(writes) ==
    \E m, n \in DOMAIN writes :
        m # n /\ (DOMAIN writes[m] \intersect DOMAIN writes[n]) \ Reduced # {}

\* validate_completion_generation: the query plan and the selection belong to what they
\* were made from; a draft another contract or another count of revisions overtook may
\* be seen only before it is sealed, and a deadline only with the draft it is sealed in.
Coherent(st) ==
    /\ st.plan \in {None, st.con}
    /\ st.selection \in {None, st.catalog}
    /\ IF st.draft = st.con /\ st.draft # None /\ st.planRevision = st.edits
       THEN st.deadline => st.sealed
       ELSE ~st.deadline /\ (st.draft # None => ~st.sealed)

-----------------------------------------------------------------------------
(* The clock: 0 research, 1 closeout, 2 composition closed, 3 expired. *)

Phase(st) == IF st.deadline THEN st.now ELSE 0
ResearchClosed(st) == Phase(st) >= 1
CompositionClosed(st) == Phase(st) >= 2

\* A round of the transport worker that only looks up the skeleton's routes draws on
\* the composition window.
StructuralRound(st, n) ==
    /\ n = "transport"
    /\ st.skeleton
    /\ st.workspace = None
    /\ "transport" \in st.scoped
    /\ st.connector

WindowClosed(st, n) ==
    /\ n \in Agents
    /\ IF n = Composer \/ StructuralRound(st, n) THEN CompositionClosed(st) ELSE ResearchClosed(st)

BlockedWorkerUpdate(st, n) ==
    IF Phase(st) = 3
    THEN [status |-> Entry(n, "failed"), fault |-> FALSE]
    ELSE [status |-> Entry(n, "partial")]

-----------------------------------------------------------------------------
(* Invalidation and the planning chain. *)

\* Mutant of ResetComposition: what was composed of the old material stays.
ResetCompositionKeepingWorkspace ==
    [selection |-> None, skeleton |-> FALSE, fidelityRoute |-> "passed", qualityRoute |-> "none"]

ResetComposition ==
    [selection |-> None, skeleton |-> FALSE, workspace |-> None,
     fidelityRoute |-> "passed", qualityRoute |-> "none"]

\* Mutant of ResetResearch: the deadline of the old draft goes on.
ResetResearchKeepingDeadline ==
    [plan |-> None, step |-> 1, scoped |-> {}, connector |-> FALSE, status |-> <<>>,
     catalog |-> None, gate |-> "none", gateRoute |-> "passed", gaps |-> {}, dead |-> {},
     attempts |-> InitState.attempts, artifactRoute |-> "accepted",
     draft |-> None, sealed |-> FALSE, repairs |-> 0]

ResetResearch ==
    [plan |-> None, step |-> 1, scoped |-> {}, connector |-> FALSE, status |-> <<>>,
     catalog |-> None, gate |-> "none", gateRoute |-> "passed", gaps |-> {}, dead |-> {},
     attempts |-> InitState.attempts, artifactRoute |-> "accepted",
     draft |-> None, sealed |-> FALSE, deadline |-> FALSE, repairs |-> 0]

\* invalidation_update; is_completed survives it, its reducer is an OR.
Invalidate(strength) ==
    CASE strength = "projection" -> [committed |-> FALSE]
      [] strength = "composition" -> [committed |-> FALSE] ++ ResetComposition
      [] strength = "research" -> [committed |-> FALSE] ++ ResetComposition ++ ResetResearch

Strongest(amendments) ==
    LET all == {impact[a] : a \in amendments}
    IN  IF "research" \in all THEN "research"
        ELSE IF "composition" \in all THEN "composition" ELSE "projection"

\* The first contract opens generation 1; an amended one may keep its generation.
NewContract(st) ==
    {<<st.con[1] + 1, st.con[2] + 1>>} \union
        IF st.con # None /\ (st.pending # {} \/ st.edit # "none")
        THEN {<<st.con[1], st.con[2] + 1>>} ELSE {}

Normalizer(st) ==
    {[con |-> c, planRevision |-> st.edits, pending |-> {}, applied |-> st.pending,
      edit |-> "none", route |-> "none", resume |-> "none"] : c \in NewContract(st)}

DraftBuilder(st) ==
    IF st.draft = st.con THEN {NoWrites}
    ELSE {[draft |-> st.con, sealed |-> FALSE, deadline |-> FALSE, gaps |-> {},
           dead |-> {}, attempts |-> InitState.attempts]}

Planner(st) ==
    {[plan |-> st.con, step |-> 1, scoped |-> {}, connector |-> FALSE]}

\* seal_minimum_delivery_draft: a draft that is sealed keeps its deadline.
Seal == [decision |-> "approve", sealed |-> TRUE, deadline |-> TRUE]

EditPlan(st, kind, decision) ==
    [edit |-> kind, decision |-> decision, edits |-> st.edits + 1] ++ Invalidate(kind)

PlanGate(st) ==
    IF st.draft # st.con \/ st.plan # st.con THEN {[raise |-> TRUE]}
    ELSE IF st.decision = "projection_amendment_pending" THEN {Seal}
    ELSE {Seal, [cancel |-> TRUE]} \union
         IF st.edits >= MaxEdits THEN {}
         ELSE {EditPlan(st, "research", "amendment"), EditPlan(st, "projection", "amendment"),
               EditPlan(st, "projection", "projection_amendment_pending")}

-----------------------------------------------------------------------------
(* The dispatcher and the workers. *)

ToComposition(st) == IF st.gate = "passed" THEN "dispatch_group" ELSE "candidate_gate"
CompositionStep(st) ==
    IF st.plan = None THEN {} ELSE {i \in DOMAIN Plan : i >= st.step /\ Composer \in Plan[i]}
GroupDone(st, i) == \A a \in Plan[i] : st.status[a] \in Done

Dispatcher(st) ==
    LET go(agent) == {[next |-> agent]}
    IN  IF ResearchClosed(st)
        THEN IF ~CompositionClosed(st) /\ st.workspace = None /\ CompositionStep(st) # {}
             THEN {[step |-> Min(CompositionStep(st)), next |-> ToComposition(st)]}
             ELSE go("to_check")
        ELSE IF st.plan = None THEN go("to_check")
        ELSE IF Composer \in Plan[st.step] /\ st.gate # "passed" THEN go("candidate_gate")
        ELSE IF ~GroupDone(st, st.step) THEN go("dispatch_group")
        ELSE IF st.step < Len(Plan)
             THEN {[step |-> st.step + 1,
                    next |-> IF Composer \in Plan[st.step + 1]
                             THEN "candidate_gate" ELSE "dispatch_group"]}
        ELSE IF st.gate # "passed" THEN go("candidate_gate")
        ELSE go("to_check")

\* route_after_dispatcher: only the siblings that are not finished are sent again.
DispatcherEdge(st) ==
    LET waiting == {a \in Plan[st.step] : st.status[a] \notin Done}
    IN  IF st.next = "candidate_gate" THEN {"candidate gate"}
        ELSE IF st.next = "dispatch_group" /\ st.plan # None /\ waiting # {} THEN waiting
        ELSE {"artifact gate"}

\* The latest packet of a worker in the current generation.
Found(st, w) == IF st.packets[w].gen = st.con[1] THEN st.packets[w].found ELSE "missing"
HasPacket(st, w) == st.packets[w].gen = st.con[1]
Admitted(st, w) == Found(st, w) \in {"met", "loose"}

\* A targeted retry answers under a round key of its own: the plan's key keeps the
\* status of the first round, and the new packet becomes the latest.
Report(st, w, status) == IF w \in st.scoped THEN NoWrites ELSE [status |-> Entry(w, status)]
Packet(st, w, found) == [packets |-> Entry(w, [gen |-> st.con[1], found |-> found])]

\* Candidates that were admitted stay; a failing round leaves a packet or none; the
\* destination worker may stop to ask its user.
Research(st, w) ==
    LET open == ~Admitted(st, w)
    IN  {Report(st, w, "completed") ++ Packet(st, w, found) :
            found \in Outcomes \intersect
                        ({"met", "loose"} \union IF open THEN {"missing"} ELSE {})} \union
        (IF "failed" \notin Outcomes THEN {}
         ELSE {Report(st, w, "failed") ++ [fault |-> f] : f \in BOOLEAN}) \union
        (IF "hopeless" \notin Outcomes \/ ~open THEN {}
         ELSE {Report(st, w, "failed") ++ [fault |-> TRUE] ++ Packet(st, w, "hopeless")}) \union
        (IF "asks" \notin Outcomes \/ w # "destination" THEN {}
         ELSE {Report(st, w, "partial") ++ [next |-> "HALT"]})

\* _composition_phase and its two passes; what fails inside them is a failed status,
\* what is missing before them is an exception.
Composed(st) ==
    IF st.workspace = None /\ ~st.skeleton
    THEN [skeleton |-> TRUE, status |-> Entry(Composer, "pending"),
          gate |-> "needs_research", gateRoute |-> "candidate gate"]
    ELSE [workspace |-> st.con, status |-> Entry(Composer, "completed")]

FirstPass(st) == st.workspace = None /\ ~st.skeleton

\* A skeleton without a leg that is owed on a handover date is refused.
MayCompose(st) ==
    /\ st.catalog = st.con /\ st.selection = st.con
    /\ st.gate = "passed" \/ FirstPass(st)
    /\ FirstPass(st) /\ "transport" \in Planned => Admitted(st, "transport")

\* So may one without a required kind of place.
MayFail(st) ==
    \/ ~MayCompose(st)
    \/ FirstPass(st) /\ "destination" \in Planned /\ ~Admitted(st, "destination")
    \/ "composer" \in Faults

Compose(st) ==
    IF st.plan = None \/ (st.catalog # None /\ st.selection = None) THEN {[raise |-> TRUE]}
    ELSE IF Phase(st) = 3 THEN {[status |-> Entry(Composer, "failed"), fault |-> FALSE]}
    ELSE (IF MayFail(st)
          THEN {[status |-> Entry(Composer, "failed"), fault |-> f] : f \in BOOLEAN} ELSE {})
         \union IF MayCompose(st) THEN {Composed(st)} ELSE {}

-----------------------------------------------------------------------------
(* The candidate gate. *)

Rows(st) ==
    {Missing(w) : w \in {v \in Workers \intersect Planned : ~Admitted(st, v)}} \union
    {Loose(w) : w \in {v \in Workers \intersect Planned : Found(st, v) = "loose"}}

\* Mutant of Spent: a domain gets one call more than its budget.
SpentLate(st, g) ==
    IF g = Route THEN st.attempts[Route] >= 1
    ELSE \/ st.attempts[Missing(g[1])] + st.attempts[Loose(g[1])] > Budget[g[1]]
         \/ st.attempts[g] >= 1 /\ g # Missing("transport")

\* _gap_research_exhausted: a domain has a budget, and each gap one call of it; the
\* long-distance legs share their rounds and only the domain's budget caps them.
Spent(st, g) ==
    IF g = Route THEN st.attempts[Route] >= 1
    ELSE \/ st.attempts[Missing(g[1])] + st.attempts[Loose(g[1])] >= Budget[g[1]]
         \/ st.attempts[g] >= 1 /\ g # Missing("transport")

Fundable(st, rows, dead, blocked) ==
    {g \in rows \ dead : g[1] \in blocked /\ ~Spent(st, g)}

\* _resolve_research_target: the first gap to fund; the hopeless ones before it close.
Resolve(st, rows, dead, blocked) ==
    LET queue == Fundable(st, rows, dead, blocked)
        live == {g \in queue : Found(st, g[1]) # "hopeless"}
        first == Min({Turn[g] : g \in live} \union {Len(GapOrder) + 1})
    IN  [target |-> IF live = {} THEN <<>> ELSE GapOrder[first],
         dead |-> dead \union {g \in queue : Turn[g] < first}]

WorkerExhausted(st, w) ==
    LET rows == {g \in st.gaps : g[1] = w}
    IN  IF rows = {} THEN \E g \in DOMAIN st.attempts : g[1] = w /\ st.attempts[g] >= 1
        ELSE Fundable(st, rows, st.dead, {w}) = {}

\* Mutant of RepairOr: the repair is granted and not counted.
RepairOrUncounted(st, w, exhausted) == IF st.repairs < MaxRepairs THEN w ELSE exhausted ++ w

\* Each repair of the composition is paid from one budget; without it `exhausted`.
RepairOr(st, w, exhausted) ==
    IF st.repairs < MaxRepairs THEN [repairs |-> st.repairs + 1] ++ w ELSE exhausted ++ w

Passed == [gate |-> "passed", gateRoute |-> "passed"]
RepairSkeleton(st, base) ==
    RepairOr(st, [gate |-> "composition_repair", gateRoute |-> "composition_repair"] ++ base,
             Passed)

\* _passed_update: what is left open is closed.
PassedUpdate(base, rows) == Passed ++ [base EXCEPT !.dead = @ \union rows]

Fund(st, base, g) ==
    [gate |-> "needs_research", gateRoute |-> g[1],
     attempts |-> [st.attempts EXCEPT ![g] = @ + 1],
     scoped |-> st.scoped \union {g[1]},
     connector |-> IF g = Route THEN TRUE
                   ELSE IF g = Missing("transport") THEN FALSE ELSE st.connector] ++ base

FinishGate(st, base, rows, target, blocked) ==
    IF target = <<>>
    THEN IF blocked = {} THEN Passed ++ base ELSE PassedUpdate(base, rows)
    ELSE IF ResearchClosed(st) /\ (CompositionClosed(st) \/ target # Route)
    THEN PassedUpdate(base, rows)
    ELSE Fund(st, base, target)

\* The connector pass: the skeleton may turn out invalid, or with routes nobody measured.
ConnectorPass(st, base, rows, blocked) ==
    LET withRoute == rows \union {Route}
        found == Resolve(st, withRoute, base.dead, {"transport"})
    IN  {RepairSkeleton(st, [skeleton |-> FALSE] ++ base),
         FinishGate(st, base, rows, <<>>, blocked),
         FinishGate(st, [base EXCEPT !.gaps = withRoute, !.dead = found.dead], withRoute,
                    found.target, {"transport"})}

\* _catalog_contract_update: a catalog that cannot be built releases the run.
BrokenCatalog == Passed ++ [fault |-> FALSE]

CandidateGate(st) ==
    LET rows == Rows(st)
        blocked == {g[1] : g \in rows \ {Loose(w) : w \in Workers}}
        known == [catalog |-> st.con, selection |-> st.con, gaps |-> rows,
                  dead |-> st.dead \intersect rows]
        found == Resolve(st, rows, known.dead, blocked)
        base == [known EXCEPT !.dead = found.dead]
        composing == /\ found.target = <<>>
                     /\ \E w \in Workers \intersect Planned : Admitted(st, w)
                     /\ Missing("transport") \notin rows
                     /\ Composer \in Planned
                     /\ st.workspace = None
    IN  (IF "catalog" \in Faults \/ st.plan # st.con THEN {BrokenCatalog} ELSE {}) \union
        (IF st.plan # st.con THEN {}
         ELSE IF ResearchClosed(st) /\ ~st.skeleton THEN {PassedUpdate(known, rows)}
         ELSE IF ~composing THEN {FinishGate(st, base, rows, found.target, blocked)}
         ELSE IF st.skeleton THEN ConnectorPass(st, base, rows, blocked)
         ELSE IF st.status[Composer] = "failed" THEN {RepairSkeleton(st, base)}
         ELSE {[gate |-> "needs_research", gateRoute |-> Composer] ++ base})

\* route_after_candidate_gate: past closeout only the structural round goes on.
CandidateEdge(st) ==
    IF st.gateRoute = "passed" \/ (/\ ResearchClosed(st)
                                   /\ ~(/\ st.gateRoute = "transport"
                                        /\ StructuralRound(st, "transport")
                                        /\ ~CompositionClosed(st)))
    THEN {"dispatcher"}
    ELSE IF st.gateRoute = "composition_repair" THEN {Composer} ELSE {st.gateRoute}

-----------------------------------------------------------------------------
(* The artifact, fidelity and quality gates. *)

\* What the artifact gate says of one planned agent.
Artifact(st, a) ==
    LET finished == st.status[a] \in {"completed", "partial"}
        broken == st.status[a] = "failed" /\ st.fault
    IN  IF a = Composer
        THEN IF broken THEN "composition"
             ELSE IF finished /\ st.workspace # None /\ st.workspace = st.catalog
             THEN "ok" ELSE "integrity"
        ELSE IF HasPacket(st, a) THEN IF finished THEN "ok" ELSE "content"
        ELSE IF broken THEN "content" ELSE "integrity"

ArtifactVerdict(st, a) ==
    CASE Artifact(st, a) = "content" ->
            [artifactRoute |-> IF WorkerExhausted(st, a) THEN "accepted" ELSE "candidate gate"]
      [] Artifact(st, a) = "composition" ->
            RepairOr(st, [artifactRoute |-> Composer], [artifactRoute |-> "accepted"])
      [] Artifact(st, a) = "integrity" -> [artifactRoute |-> "accepted", fault |-> FALSE]

\* The agents are judged in the order of the plan, and the first that fails decides.
ArtifactGate(st) ==
    LET bad(i) == {a \in Plan[i] : Artifact(st, a) # "ok"}
        failing == {i \in DOMAIN Plan : bad(i) # {}}
    IN  IF st.plan = None \/ failing = {} THEN {[artifactRoute |-> "accepted"]}
        ELSE {ArtifactVerdict(st, a) : a \in bad(Min(failing))}

ArtifactEdge(st) ==
    IF st.artifactRoute = "accepted" \/ ResearchClosed(st) THEN {"fidelity gate"}
    ELSE {st.artifactRoute}

\* An intent no candidate serves may still be researched; one the composition dropped
\* may be repaired.
FidelityGate(st) ==
    LET routed(r) == [fidelityRoute |-> r]
        uncovered == {w \in Workers : Missing(w) \in st.gaps}
        retry == \E w \in uncovered : ~WorkerExhausted(st, w)
    IN  IF st.workspace = None THEN {routed("passed")}
        ELSE IF st.workspace # st.con THEN {[raise |-> TRUE]}
        ELSE {routed("passed"), RepairOr(st, routed(Composer), routed("passed"))}
             \union (IF uncovered = {} THEN {}
                     ELSE {routed(IF retry THEN "candidate gate" ELSE "passed")})
             \union (IF "prohibition" \in Faults THEN {[raise |-> TRUE]} ELSE {})

FidelityEdge(st) ==
    {IF st.fidelityRoute = "passed" THEN "quality gate" ELSE st.fidelityRoute}

\* Mutant of QualityGate: a release leaves the route as the last round left it.
QualityGateSilent(st) ==
    LET repair == [qualityRoute |-> "composition_repair"]
    IN  IF st.workspace = None
        THEN IF CompositionClosed(st) \/ st.repairs >= MaxRepairs THEN {[raise |-> TRUE]}
             ELSE {[repairs |-> st.repairs + 1] ++ repair}
        ELSE {NoWrites, RepairOr(st, repair, NoWrites)}

QualityGate(st) ==
    LET repair == [qualityRoute |-> "composition_repair"]
        released == [qualityRoute |-> "passed"]
    IN  IF st.workspace = None
        THEN IF CompositionClosed(st) \/ st.repairs >= MaxRepairs THEN {[raise |-> TRUE]}
             ELSE {[repairs |-> st.repairs + 1] ++ repair}
        ELSE {released, RepairOr(st, repair, released)}

\* The repair round is granted by the node; past the window the edge takes it back.
QualityEdge(st) ==
    {IF st.qualityRoute = "composition_repair" /\ ~CompositionClosed(st)
     THEN Composer ELSE "budget"}

-----------------------------------------------------------------------------
(* The delivery, and the router of the supplements. *)

Projector(st) ==
    IF st.qualityRoute = "passed" /\ st.workspace # None THEN {NoWrites} ELSE {[raise |-> TRUE]}

MayDeliver(st) ==
    /\ st.sealed
    /\ st.draft # None
    /\ st.deadline
    /\ Phase(st) # 3
    /\ st.workspace[1] = st.con[1]

Finalizer(st) ==
    (IF MayDeliver(st) THEN {[committed |-> TRUE]} ELSE {[raise |-> TRUE]}) \union
    (IF "persist" \in Faults THEN {[raise |-> TRUE]} ELSE {})

\* _rejection_for_stage
TooLate(st, a) ==
    \/ impact[a] = "refused"
    \/ st.committed
    \/ impact[a] = "research" /\ ResearchClosed(st)
    \/ impact[a] = "composition" /\ CompositionClosed(st)

\* apply_runtime_amendments; a continuation that names no node is an exception of its edge.
Router(st) ==
    LET refused == {a \in st.pending : TooLate(st, a)}
        accepted == st.pending \ refused
        goOn == [route |-> st.resume, resume |-> "none"]
    IN  {IF st.pending = {} THEN goOn
         ELSE IF accepted = {} THEN [pending |-> {}, rejected |-> refused] ++ goOn
         ELSE [pending |-> accepted, rejected |-> refused, route |-> "normalizer",
               resume |-> "none", edits |-> st.edits + 1, decision |-> "runtime_amendment"]
              ++ Invalidate(Strongest(accepted))}

-----------------------------------------------------------------------------
(* A node between its boundaries. *)

Body(st, n) ==
    CASE n = "normalizer" -> Normalizer(st)
      [] n = "draft" -> DraftBuilder(st)
      [] n = "planner" -> Planner(st)
      [] n = "plan gate" -> PlanGate(st)
      [] n = "dispatcher" -> Dispatcher(st)
      [] n \in Workers -> Research(st, n)
      [] n = Composer -> Compose(st)
      [] n = "candidate gate" -> CandidateGate(st)
      [] n = "artifact gate" -> ArtifactGate(st)
      [] n = "fidelity gate" -> FidelityGate(st)
      [] n = "quality gate" -> QualityGate(st)
      [] n = "projector" -> Projector(st)
      [] n = "finalizer" -> Finalizer(st)
      [] n = "router" -> Router(st)
      [] OTHER -> {NoWrites}

\* The chains of build_travel_workflow.
After ==
    [brief |-> "draft", draft |-> "geo", geo |-> "weather", weather |-> "summary",
     summary |-> "planner", planner |-> "plan gate", budget |-> "projector",
     projector |-> "finalizer"]

\* The conditional edges.
Edge(st, n) ==
    CASE n \in DOMAIN After -> {After[n]}
      [] n = "finalizer" -> {}
      [] n = "plan gate" ->
            {IF st.decision \in {"amendment", "projection_amendment_pending"}
             THEN "normalizer" ELSE "dispatcher"}
      [] n = "dispatcher" -> DispatcherEdge(st)
      [] n \in Agents -> IF n = "destination" /\ st.next = "HALT" THEN {} ELSE {"dispatcher"}
      [] n = "candidate gate" -> CandidateEdge(st)
      [] n = "artifact gate" -> ArtifactEdge(st)
      [] n = "fidelity gate" -> FidelityEdge(st)
      [] n = "quality gate" -> QualityEdge(st)

\* Mutant of Targets: the plan of an amended run is not shown to its user again.
TargetsUnapproved(st, n) ==
    CASE n = "clarifier" -> {"normalizer"}
      [] n = "normalizer" -> {"brief"}
      [] n = "planner" /\ st.decision = "runtime_amendment" -> {"dispatcher"}
      [] n = "router" -> {st.route}
      [] OTHER -> IF st.pending # {} THEN {"router"} ELSE Edge(st, n)

\* Pending amendments go first, except at the two fixed edges.
Targets(st, n) ==
    CASE n = "clarifier" -> {"normalizer"}
      [] n = "normalizer" -> {"brief"}
      [] n = "router" -> {st.route}
      [] OTHER -> IF st.pending # {} THEN {"router"} ELSE Edge(st, n)

\* with_run_control: what node n returns, of the state st it is given.
Writes(st, n) ==
    LET fresh == inbox \ st.pending
        full == [st EXCEPT !.pending = @ \union fresh]
        diverted == fresh # {} /\ st.con # None /\ n \notin {"normalizer", "router"}
        body == IF WindowClosed(st, n) THEN {BlockedWorkerUpdate(st, n)}
                ELSE IF diverted THEN {[resume |-> n, pending |-> fresh]}
                ELSE IF n \in {"normalizer", "router"} \/ fresh = {} THEN Body(full, n)
                ELSE {[pending |-> fresh] ++ w : w \in Body(full, n)}
    IN  \* a boundary keeps the deadline it observed, unless its node replaced it
        {IF st.deadline THEN w ++ [deadline |-> TRUE] ELSE w : w \in body}

-----------------------------------------------------------------------------
(* Supersteps. *)

Tasks == DOMAIN at

\* The state a task reads: the Sends of the dispatcher carry the state it saw.
StateOf(n) ==
    [(IF n \in Agents /\ sent # NoWrites THEN sent ELSE s) EXCEPT !.now = clock]

Superstep(tasks) ==
    /\ at' = [n \in tasks |-> "ready"]
    /\ out' = <<>>
    /\ to' = <<>>

End(how) == outcome' = how /\ Superstep({}) /\ sent' = NoWrites

NextStep(writes, targets, now) ==
    \E st \in {Merge(s, writes)} :
    LET next == UNION Range(targets)
        fanOut == "dispatcher" \in Tasks /\ Cardinality(targets["dispatcher"]) > 1
        pulled == UNION {targets[n] : n \in DOMAIN targets \ (IF fanOut THEN {"dispatcher"} ELSE {})}
        carried == Merge(s, Entry("dispatcher", writes["dispatcher"]))
    IN  IF Conflict(writes)
        THEN End("failed") /\ UNCHANGED <<s, clock>>
        ELSE /\ s' = st
             /\ clock' = IF st.deadline /\ s.deadline THEN now ELSE 0
             /\ IF next = {}
                THEN End(IF st.committed THEN "delivered" ELSE "halted")
                ELSE IF pulled # {} /\ ~Coherent(st)
                THEN End("refused")
                ELSE /\ Superstep(next)
                     /\ sent' = IF fanOut /\ carried # st THEN carried ELSE NoWrites
                     /\ UNCHANGED outcome

\* Receipts are written when the node has returned, before its checkpoint.
Settle(n, w) ==
    LET applied == IF "applied" \in DOMAIN w THEN w.applied \intersect inbox ELSE {}
        refused == IF "rejected" \in DOMAIN w THEN w.rejected ELSE {}
    IN  /\ verdict' = [a \in Supplements |->
                IF a \in applied THEN "applied"
                ELSE IF a \in refused /\ verdict[a] = "none" THEN "rejected" ELSE verdict[a]]
        /\ inbox' = inbox \ (applied \union refused)

\* How the edge of a task ends the run, if it does: the state it reads is validated, and a
\* continuation must name a node.
Verdict(n, st) ==
    IF n \notin {"clarifier", "normalizer"} /\ ~Coherent(st) THEN "refused"
    ELSE IF n = "router" /\ st.route = "none" THEN "failed" ELSE "running"

\* A task returns w, and its edge reads the state with that and chooses, while the clock may pass a
\* boundary (the quantifiers name one value each, which TLC then evaluates once).
Return(n, w, now) ==
    \E st \in {[Merge(s, Entry(n, w)) EXCEPT !.now = now]} :
    \E writes \in {Entry(n, w) ++ out}, targets \in {Entry(n, Targets(st, n)) ++ to} :
        IF "raise" \in DOMAIN w
        THEN End("failed") /\ UNCHANGED <<s, clock, inbox, verdict>>
        ELSE IF "cancel" \in DOMAIN w
        THEN End("cancelled") /\ UNCHANGED <<s, clock, inbox, verdict>>
        ELSE /\ Settle(n, w)
             /\ IF Verdict(n, st) # "running"
                THEN End(Verdict(n, st)) /\ UNCHANGED <<s, clock>>
                ELSE IF \A m \in Tasks \ {n} : at[m] = "done"
                THEN NextStep(writes, targets, now)
                ELSE /\ at' = [at EXCEPT ![n] = "done"]
                     /\ out' = writes
                     /\ to' = targets
                     /\ clock' = now
                     /\ UNCHANGED <<s, sent, outcome>>

\* The plan gate interrupts the run unless it decides alone; its user may never answer.
UserDecides == \E w \in PlanGate(s) : "cancel" \in DOMAIN w

\* The clock may pass a boundary while a node works.
Later == {c \in {clock, clock + 1} : c = clock \/ (s.deadline /\ c <= 3)}

Runs(n) ==
    /\ outcome = "running"
    /\ n \in Tasks
    /\ at[n] = "seeding" \/ (at[n] = "ready" /\ seeded)
    /\ UNCHANGED <<impact, seeded, crashes, torn>>
    /\ \E read \in {StateOf(n)} : \E w \in Writes(read, n), now \in Later : Return(n, w, now)

Step(n) == (n = "plan gate" => ~UserDecides) /\ Runs(n)
Decide == UserDecides /\ Runs("plan gate")

\* The first boundary of a process waits for the baseline; later ones do not.
Seed(n) ==
    /\ outcome = "running"
    /\ n \in Tasks /\ at[n] = "ready"
    /\ ~seeded
    /\ at' = [at EXCEPT ![n] = "seeding"]
    /\ seeded' = TRUE
    /\ UNCHANGED <<s, out, to, sent, clock, inbox, impact, verdict, crashes, outcome, torn>>

\* The clock passes a boundary.
Tick ==
    /\ outcome = "running"
    /\ s.deadline
    /\ clock < 3
    /\ clock' = clock + 1
    /\ UNCHANGED <<s, taskVars, inbox, impact, verdict, seeded, crashes, outcome, torn>>

\* A supplement reaches the handle.  Tasks that need not wait start in one turn of the
\* event loop, so none arrives between them.
Arrive(a) ==
    /\ outcome = "running"
    /\ impact[a] = "none"
    /\ (\E n \in Tasks : at[n] = "ready") => (\A n \in Tasks : at[n] = "ready")
    /\ \E i \in Impacts : impact' = [impact EXCEPT ![a] = i]
    /\ inbox' = inbox \union {a}
    /\ UNCHANGED <<s, taskVars, clock, verdict, seeded, crashes, outcome, torn>>

\* A new process: finished tasks keep their writes, the others run again.
Restart ==
    /\ crashes < MaxCrashes
    /\ crashes' = crashes + 1
    /\ seeded' = FALSE
    /\ at' = [n \in Tasks |-> IF at[n] = "seeding" THEN "ready" ELSE at[n]]
    /\ UNCHANGED <<s, out, to, sent, clock, impact, outcome>>

Crash ==
    /\ outcome = "running"
    /\ Restart
    /\ UNCHANGED <<inbox, verdict, torn>>

\* The process dies after a node has written its receipts and before its checkpoint.
CrashAfterSettling(n) ==
    /\ outcome = "running"
    /\ n \in Tasks \intersect {"normalizer", "router"}
    /\ at[n] = "seeding" \/ (at[n] = "ready" /\ seeded)
    /\ Restart
    /\ \E w \in Writes(StateOf(n), n) :
        /\ Settle(n, w)
        /\ torn' = torn \union {a \in inbox \ s.pending : verdict'[a] = "applied"}

Finished == outcome # "running" /\ UNCHANGED vars

Machine == \E n \in Tasks : Seed(n) \/ Step(n)

Next ==
    \/ Machine
    \/ Decide
    \/ Tick
    \/ \E a \in Supplements : Arrive(a)
    \/ Crash
    \/ \E n \in Nodes : CrashAfterSettling(n)
    \/ Finished

\* The event loop runs every task; neither the clock nor the user must do anything.
Spec == Init /\ [][Next]_vars /\ WF_vars(Machine)

\* The same while time passes, which is what a deadline counts on.
TimedSpec == Spec /\ WF_vars(Tick)

-----------------------------------------------------------------------------
(* Properties. *)

\* The types, and the budgets of the targeted rounds and of the repairs.
TypeOK ==
    /\ DOMAIN s = DOMAIN InitState
    /\ s.status \in [Agents -> Done \union {"none", "pending"}]
    /\ s.packets \in [Workers -> [gen : Nat, found : {"met", "loose", "missing", "hopeless"}]]
    /\ s.step \in DOMAIN Plan
    /\ s.attempts \in [Range(GapOrder) -> Nat]
    /\ \A g \in Range(GapOrder) : s.attempts[g] <= IF g = Route THEN 1 ELSE Budget[g[1]]
    /\ s.repairs \in 0 .. MaxRepairs
    /\ s.dead \subseteq s.gaps /\ s.gaps \subseteq Range(GapOrder)
    /\ UNION {s.pending, s.applied, s.rejected, inbox, torn} \subseteq Supplements
    /\ Tasks \subseteq Nodes /\ Range(at) \subseteq {"ready", "seeding", "done"}
    /\ DOMAIN out = {n \in Tasks : at[n] = "done"} /\ DOMAIN to = DOMAIN out
    /\ UNION Range(to) \subseteq Nodes
    /\ clock \in 0 .. 3
    /\ verdict \in [Supplements -> {"none", "applied", "rejected"}]
    /\ outcome \in {"running", "delivered", "halted", "failed", "refused", "cancelled"}

\* The nodes that judge what was composed, assemble it and deliver it.
Closing == {"fidelity gate", "quality gate", "budget", "projector", "finalizer"}

\* Nothing stale is judged or delivered: behind the artifact gate there is no itinerary
\* or one composed for the contract in force, and what is sealed, drafted and planned when
\* the run delivers was made for that contract too, whatever supplements overtook the gates
\* on the way (invalidation_update, validate_completion_generation, delivery_finalizer).
NoObsoleteMaterial ==
    /\ outcome = "delivered" =>
          s.workspace = s.con /\ s.sealed /\ s.draft = s.con /\ s.plan = s.con
    /\ Tasks \intersect Closing # {} => s.workspace \in {None, s.con}

\* Where the traveller does not edit the plan, the validator of the state refuses no run for
\* a supplement that asks for new research: in whichever lanes it is taken in, nothing
\* sealed, planned or selected outlives what it was made from (invalidation_update, the
\* reducers and validate_completion_generation).
ResearchGoesOn ==
    outcome = "refused" => \E a \in Supplements : impact[a] \in {"composition", "projection"}

\* Nor for one of the composition or of the projection: it is applied, and the run goes on
\* (the design: "Composition Affecting" is applied or composed again, "Projection Only"
\* applied).
AmendmentsGoOn ==
    outcome = "refused" => \A a \in Supplements : impact[a] \notin {"composition", "projection"}

\* No worker and no composer works on anything but the sealed draft and the plan of the
\* contract it reads, in whichever lane and after whichever restart (plan gate, seal).
ApprovedWorkOnly ==
    \A a \in Agents \intersect Tasks :
        LET st == StateOf(a) IN st.sealed /\ st.draft = st.con /\ st.plan = st.con

\* As long as its run has not failed, a supplement whose receipt says applied is in the
\* contract or still on its way there, unless the process died between the receipt and the
\* checkpoint (with_run_control).
SupplementsSettled ==
    \A a \in Supplements :
        verdict[a] = "applied" /\ outcome \notin {"failed", "refused"} =>
            a \in UNION {s.applied, s.pending, torn,
                         IF "normalizer" \in DOMAIN out THEN out["normalizer"].applied ELSE {}}

\* A supplement that was rejected is not part of any contract (apply_runtime_amendments:
\* what is refused needs a new run).
RejectedStaysOut == \A a \in s.applied : verdict[a] # "rejected"

\* While there is time, the gates fail a run only when all its repairs are spent, by
\* whichever of them, and only if nothing was composed: whatever the workers found, an
\* itinerary once composed is delivered.
FailsLast ==
    outcome = "failed" /\ clock < 2 => s.workspace = None /\ s.repairs = MaxRepairs

\* Past the composition window the current composition ships as it is
\* (route_after_delivery_quality_gate).
ReleasedCompositionShips == outcome = "failed" /\ clock < 3 => s.workspace # s.con

\* The rings of the graph come to an end: a run ends, or waits for its user's approval.
RunEnds == <>[](outcome # "running" \/ "plan gate" \in Tasks)

=============================================================================
