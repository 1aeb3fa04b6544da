--------------------------- MODULE BundleRevisions ---------------------------
(***************************************************************************)
(* The revisions of one delivered trip: delivery_bundle_store.py behind    *)
(* workspace_v2_service.py (apply, undo_current) and                       *)
(* weather_bundle_refresh.py (refresh_if_needed).                          *)
(*                                                                         *)
(* A call reads and computes outside any lock and writes in one            *)
(* transaction under the advisory lock of the run: it is idempotent by its *)
(* key and compares the whole revision vector it started from.  A Bundle   *)
(* is immutable; its id is its place in `bundles`, and a vector is named   *)
(* by it.  Of the trip we keep one selectable entry, one note, the weather *)
(* proposals the traveller decided on, and one day of weather.             *)
(***************************************************************************)
EXTENDS Naturals, Sequences, FiniteSets

CONSTANTS
    Keys,         \* mutation, undo and refresh ids that clients draw
    NoKey,
    Options,      \* candidates of the one selection slot
    First,        \* the option the initial Bundle selects
    Notes,        \* contents of the one custom block; also the initial one
    Blank,
    Conditions,   \* weather conditions of the one day
    Adverse,      \* those that touch every candidate
    Fair,         \* the condition the run was delivered with
    Kinds,        \* the operations clients use
    MaxCalls      \* bound: requests, retries included

ASSUME RevisionsAssumption ==
    /\ NoKey \notin Keys
    /\ First \in Options /\ Blank \in Notes
    /\ Adverse \subseteq Conditions /\ Fair \in Conditions
    /\ Kinds \subseteq {"select", "edit", "dismiss", "undo", "refresh"}
    /\ MaxCalls \in Nat

VARIABLES
    bundles,   \* delivery_bundles_v2; the head is the last one
    commits,   \* delivery_bundle_commits_v2, by idempotency key
    calls,     \* the requests so far, in the order they came in
    stale      \* the weather revisions whose validity is over

vars == <<bundles, commits, calls, stale>>

Calls == 1 .. Len(calls)
Newest == Len(bundles)
At(i, pc) == i \in Calls /\ calls[i].pc = pc

Operations ==
    {op \in [type : {"select"}, option : Options]
            \union [type : {"edit"}, note : Notes]
            \union [type : {"undo"}, of : Keys]
            \union [type : {"dismiss", "refresh"}] : op.type \in Kinds}

\* mutation_request, undo_request, weather_refresh_request: the command and the
\* Bundle it was meant for.
Requests == [op : Operations, base : Nat]

\* WeatherImpactEngine: the id of an impact is made of its target and the condition.
ImpactsOf(option, condition) ==
    IF condition \in Adverse THEN {<<option, condition>>} ELSE {}

Catalog(condition) == [o \in Options |-> ImpactsOf(o, condition)]
AllImpacts(condition) == UNION {ImpactsOf(o, condition) : o \in Options}

\* A candidate becomes an entry of the itinerary with the impacts known by then.
Entry(workspace, option) == [candidate |-> option, impacts |-> workspace.catalog[option]]

FirstWorkspace ==
    [revision |-> 0, slot |-> First, note |-> Blank, decided |-> {},
     entry |-> [candidate |-> First, impacts |-> ImpactsOf(First, Fair)],
     catalog |-> Catalog(Fair), evidence |-> 0]

FirstBundle ==
    [workspace |-> FirstWorkspace, condition |-> Fair, impacts |-> AllImpacts(Fair),
     data |-> 0, base |-> 0, key |-> NoKey]

NoRequest == [op |-> [type |-> "none"], base |-> 0]
NoCommit == [request |-> NoRequest, kind |-> "none", result |-> 0, stamp |-> 0]

Init ==
    /\ bundles = <<FirstBundle>>
    /\ commits = [k \in Keys |-> NoCommit]
    /\ calls = <<>>
    /\ stale = {}
-----------------------------------------------------------------------------
\* The pure part: what an operation makes of a Bundle.

InverseType(op) ==
    CASE op.type = "select" -> "selection"
      [] op.type = "edit" -> "itinerary"
      [] OTHER -> "snapshot"

\* _apply_selection: slot and entry change together.
Selected(w, option) == [w EXCEPT !.slot = option, !.entry = Entry(w, option)]

\* The edits of the itinerary itself, here of a custom block.
Edited(w, note) == [w EXCEPT !.note = note]

\* The proposals for this weather are settled, and the choices with them.
Decided(w, condition) == [w EXCEPT !.decided = @ \union {condition}]

\* apply_workspace_v2_mutation; the catalog and the weather are left alone.
Mutated(bundle, op) ==
    LET w == bundle.workspace
    IN  CASE op.type = "select" /\ w.slot # op.option -> Selected(w, op.option)
          [] op.type = "edit" -> Edited(w, op.note)
          [] op.type = "dismiss" -> Decided(w, bundle.condition)
          [] OTHER -> w

\* _proposal: the adjustment must be one of the current weather, and undecided.
Refused(bundle, op) ==
    /\ op.type = "dismiss"
    /\ \/ bundle.condition \notin Adverse
       \/ bundle.condition \in bundle.workspace.decided

\* A bug: the snapshot of an older catalog may come back.
InverseAppliesToAny(workspace, op, applied) ==
    /\ workspace.revision >= applied
    /\ op.type = "select" => workspace.slot = op.option

\* apply_workspace_v2_inverse: only refreshes may lie in between, and a snapshot
\* suffers none.
InverseApplies(workspace, op, applied) ==
    /\ \/ workspace.revision = applied
       \/ workspace.revision > applied /\ InverseType(op) # "snapshot"
    /\ op.type = "select" => workspace.slot = op.option

\* What the inverse of `op` restores of the workspace before it.
Undone(workspace, op, before) ==
    CASE InverseType(op) = "selection" ->
           [workspace EXCEPT !.slot = before.slot, !.entry = before.entry]
      [] InverseType(op) = "itinerary" ->
           [workspace EXCEPT !.entry = before.entry, !.note = before.note]
      [] OTHER -> before

\* A bug: the new view only.
CarriedNone(bundle, condition) == {}

\* _carry_over_frozen_impacts: the entry keeps naming what was considered.
Carried(bundle, condition) ==
    (bundle.workspace.entry.impacts \intersect bundle.impacts) \ AllImpacts(condition)

\* What DeliveryBundle validates of it: no impact is named that is not there, and the
\* catalog was not made from facts to come.
Consistent(bundle) ==
    /\ bundle.workspace.evidence <= bundle.data
    /\ bundle.workspace.entry.impacts \subseteq bundle.impacts
    /\ \A o \in Options : bundle.workspace.catalog[o] \subseteq bundle.impacts

\* _mutation_bundle
WithWorkspace(bundle, workspace) ==
    [bundle EXCEPT !.workspace = [workspace EXCEPT !.revision = bundle.workspace.revision + 1]]

\* _rebind_catalog_for_snapshot: every candidate is admitted again; the itinerary stays.
Rebound(bundle, condition) ==
    [bundle.workspace EXCEPT !.catalog = Catalog(condition),
                             !.evidence = bundle.data + 1,
                             !.revision = @ + 1]

\* _build_refreshed_bundle
Refreshed(bundle, condition) ==
    [bundle EXCEPT !.condition = condition,
                   !.data = @ + 1,
                   !.impacts = AllImpacts(condition) \union Carried(bundle, condition),
                   !.workspace = Rebound(bundle, condition)]

\* The Bundle that a call computed from the one it read.
Computed(call) ==
    LET b == bundles[call.request.base]
        op == call.request.op
        undone == commits[op.of]
    IN  CASE op.type = "refresh" -> Refreshed(b, call.condition)
          [] op.type = "undo" ->
               WithWorkspace(b, Undone(b.workspace, undone.request.op,
                                       bundles[bundles[undone.result].base].workspace))
          [] OTHER -> WithWorkspace(b, Mutated(b, op))
-----------------------------------------------------------------------------
\* Calls.

Goes(i, pc) == calls' = [calls EXCEPT ![i].pc = pc]

\* The call returns; a result names the revision and says what became of the command.
Answers(i, result, outcome) ==
    calls' = [calls EXCEPT ![i].pc = "done", ![i].result = result, ![i].outcome = outcome]

NewCall(key, request) ==
    [pc |-> "replay", key |-> key, request |-> request, condition |-> Fair,
     stamp |-> 0, result |-> 0, outcome |-> "none"]

\* A client sends a command for a Bundle it has seen, or sends one again that it has no
\* answer to, or for which it has meanwhile read another Bundle.
Send(key, request) ==
    /\ Len(calls) < MaxCalls
    /\ request.base \in 1 .. Newest
    /\ request.op.type = "undo" => /\ request.op.of # key
                                   /\ commits[request.op.of].result # 0
    /\ \A i \in Calls : calls[i].key = key => calls[i].request.op = request.op
    /\ calls' = Append(calls, NewCall(key, request))
    /\ UNCHANGED <<bundles, commits, stale>>

\* The key is on record.
Taken(key) == commits[key].kind # "none"

\* A bug: what is current, not what the command led to.
OnRecordNow(key) == Newest

OnRecord(key) == commits[key].result

Outcome(record) == IF record.kind = "receipt" THEN "no_op" ELSE "committed"

\* get_commit: the command was carried out before.
Replay(i) ==
    LET c == calls[i]
        record == commits[c.key]
    IN  /\ At(i, "replay")
        /\ \/ /\ ~Taken(c.key)
              /\ Goes(i, IF c.request.op.type = "undo" THEN "undo_head" ELSE "current")
           \/ /\ Taken(c.key)
              /\ IF record.request = c.request
                   THEN Answers(i, OnRecord(c.key), Outcome(record))
                   ELSE Answers(i, 0, "mismatch")
        /\ UNCHANGED <<bundles, commits, stale>>

\* get_undo_head: of the traveller's commits the one whose transaction began last.
Undoable ==
    {k \in Keys : /\ commits[k].kind \in {"mutation", "undo"}
                  /\ bundles[commits[k].result].workspace.revision
                       <= bundles[Newest].workspace.revision}

UndoHead == {k \in Undoable : \A other \in Undoable : commits[other].stamp <= commits[k].stamp}

ReadUndoHead(i) ==
    /\ At(i, "undo_head")
    /\ \/ UndoHead = {} /\ Answers(i, 0, "undo_head_changed")
       \/ \E k \in UndoHead :
            IF k = calls[i].request.op.of THEN Goes(i, "current")
            ELSE Answers(i, 0, "undo_head_changed")
    /\ UNCHANGED <<bundles, commits, stale>>

\* A command that cannot be carried out; a refresh first looks whether the Bundle is
\* still the current one.
Rejects(i, verdict) ==
    IF calls[i].request.op.type = "refresh"
    THEN calls' = [calls EXCEPT ![i].pc = "reread", ![i].outcome = verdict]
    ELSE Answers(i, 0, verdict)

\* The pure part, without another await.  Whether a candidate that comes (back) into the
\* itinerary, or stays in the catalog, is still current is for the evidence to say.
Compute(i, condition) ==
    LET c == [calls[i] EXCEPT !.condition = condition]
        b == bundles[c.request.base]
        next == Computed(c)
    IN  \/ /\ \/ c.request.op.type = "refresh"
              \/ next.workspace.entry.candidate # b.workspace.entry.candidate
           /\ Rejects(i, "refused")
        \/ /\ ~Consistent(next)
           /\ Rejects(i, "invalid")
        \/ /\ Consistent(next)
           /\ calls' = [calls EXCEPT ![i].pc = "begin", ![i].condition = condition]

Conflict(i) == calls[i].request.base # Newest /\ Answers(i, 0, "conflict")

Current(i) ==
    LET c == calls[i]
        op == c.request.op
        b == bundles[c.request.base]
    IN  /\ At(i, "current")
        /\ \/ Conflict(i)
           \/ /\ c.request.base = Newest
              /\ CASE op.type = "refresh" ->
                        Goes(i, IF b.data \in stale THEN "provider" ELSE "receipt")
                   [] op.type = "undo" ->
                        IF InverseApplies(b.workspace, commits[op.of].request.op,
                                          bundles[commits[op.of].result].workspace.revision)
                        THEN Compute(i, b.condition)
                        ELSE Answers(i, 0, "refused")
                   [] OTHER ->
                        IF Refused(b, op) THEN Answers(i, 0, "refused")
                        ELSE IF Mutated(b, op) = b.workspace THEN Goes(i, "receipt")
                        ELSE Compute(i, b.condition)
        /\ UNCHANGED <<bundles, commits, stale>>

\* The providers answer, some time later; _build_refreshed_bundle is pure.
Provider(i) ==
    /\ At(i, "provider")
    /\ \/ Rejects(i, "unrefreshed")
       \/ \E condition \in Conditions : Compute(i, condition)
    /\ UNCHANGED <<bundles, commits, stale>>

\* Without a new Bundle the old one is answered, unless another one is current.
Reread(i) ==
    /\ At(i, "reread")
    /\ \/ Conflict(i)
       \/ calls[i].request.base = Newest /\ Answers(i, Newest, calls[i].outcome)
    /\ UNCHANGED <<bundles, commits, stale>>

\* The transaction begins, and its NOW() with it: after how many revisions is all
\* that created_at can tell.  Then it waits for the advisory lock.
Begin(i) ==
    /\ \/ At(i, "begin") /\ calls' = [calls EXCEPT ![i].pc = "commit", ![i].stamp = Newest]
       \/ At(i, "receipt") /\ calls' = [calls EXCEPT ![i].pc = "record", ![i].stamp = Newest]
    /\ UNCHANGED <<bundles, commits, stale>>

\* A bug: whatever is current.
IsCurrentAny(base) == TRUE

IsCurrent(base) == base = Newest

\* _insert_snapshot: a revision number stands for one content.
Reused(next) ==
    \E b \in {bundles[j] : j \in 1 .. Newest} :
        /\ b.workspace.revision = next.workspace.revision
        /\ b.workspace # next.workspace

\* A bug: a refresh counts as the traveller's.
CommitKindOfTwo(op) == IF op.type = "undo" THEN "undo" ELSE "mutation"

CommitKind(op) ==
    CASE op.type = "refresh" -> "refresh"
      [] op.type = "undo" -> "undo"
      [] OTHER -> "mutation"

Record(i, kind, result) ==
    commits' = [commits EXCEPT ![calls[i].key] =
        [request |-> calls[i].request, kind |-> kind, result |-> result,
         stamp |-> calls[i].stamp]]

\* Under the lock: the key is on record, or the head has moved.
Replayed(i, outcome) ==
    LET c == calls[i]
    IN  /\ Taken(c.key)
        /\ IF commits[c.key].request = c.request
             THEN Answers(i, OnRecord(c.key), outcome)
             ELSE Answers(i, 0, "mismatch")
        /\ UNCHANGED <<bundles, commits>>

Overtaken(i) ==
    /\ ~Taken(calls[i].key)
    /\ ~IsCurrent(calls[i].request.base)
    /\ Answers(i, 0, "conflict")
    /\ UNCHANGED <<bundles, commits>>

\* commit: snapshots, Bundle, pointer and record, or nothing.
Commit(i) ==
    LET c == calls[i]
        next == [Computed(c) EXCEPT !.base = c.request.base, !.key = c.key]
    IN  /\ At(i, "commit")
        /\ \/ Replayed(i, Outcome(commits[c.key]))
           \/ Overtaken(i)
           \/ /\ ~Taken(c.key)
              /\ IsCurrent(c.request.base)
              /\ IF Reused(next)
                   THEN Answers(i, 0, "failed") /\ UNCHANGED <<bundles, commits>>
                   ELSE /\ bundles' = Append(bundles, next)
                        /\ Record(i, CommitKind(c.request.op), Newest + 1)
                        /\ Answers(i, Newest + 1, "committed")
        /\ UNCHANGED stale

\* record_noop_receipt: the caller answers that nothing changed, replayed or not.
RecordNoop(i) ==
    /\ At(i, "record")
    /\ \/ Replayed(i, "no_op")
       \/ Overtaken(i)
       \/ /\ ~Taken(calls[i].key)
          /\ IsCurrent(calls[i].request.base)
          /\ Record(i, "receipt", Newest)
          /\ Answers(i, Newest, "no_op")
          /\ UNCHANGED bundles
    /\ UNCHANGED stale

\* The client goes away, the database fails before the commit, or the process ends.
Fail(i) ==
    /\ i \in Calls
    /\ calls[i].pc # "done"
    /\ Answers(i, 0, "failed")
    /\ UNCHANGED <<bundles, commits, stale>>

\* expired_weather_destination_ids begins to name the day.
Age ==
    /\ "refresh" \in Kinds
    /\ bundles[Newest].data \notin stale
    /\ stale' = stale \union {bundles[Newest].data}
    /\ UNCHANGED <<bundles, commits, calls>>

Next ==
    \/ \E k \in Keys, r \in [op : Operations, base : 1 .. Newest] : Send(k, r)
    \/ \E i \in Calls :
         \/ Replay(i)
         \/ ReadUndoHead(i)
         \/ Current(i)
         \/ Provider(i)
         \/ Reread(i)
         \/ Begin(i)
         \/ Commit(i)
         \/ RecordNoop(i)
         \/ Fail(i)
    \/ Age

Spec == Init /\ [][Next]_vars
-----------------------------------------------------------------------------
(***************************************************************************)
(* Properties.                                                             *)
(***************************************************************************)

Impacts == Options \X Conditions

Workspaces ==
    [revision : Nat, slot : Options, note : Notes, decided : SUBSET Conditions,
     entry : [candidate : Options, impacts : SUBSET Impacts],
     catalog : [Options -> SUBSET Impacts], evidence : Nat]

Outcomes == {"none", "committed", "no_op", "unrefreshed", "refused", "invalid", "conflict",
             "mismatch", "undo_head_changed", "failed"}

TypeOK ==
    /\ \A j \in 1 .. Newest :
         bundles[j] \in [workspace : Workspaces, condition : Conditions,
                         impacts : SUBSET Impacts, data : Nat, base : 0 .. Newest,
                         key : Keys \union {NoKey}]
    /\ \A k \in Keys :
         \/ commits[k].kind = "none"
         \/ /\ commits[k] \in [request : Requests, result : 1 .. Newest, stamp : 1 .. Newest,
                               kind : {"mutation", "undo", "refresh", "receipt"}]
            /\ commits[k].kind \in {"undo", "refresh"} =>
                 commits[k].kind = commits[k].request.op.type
            /\ commits[k].kind = "mutation" =>
                 commits[k].request.op.type \in {"select", "edit", "dismiss"}
    /\ \A i \in Calls :
         calls[i] \in [pc : {"replay", "undo_head", "current", "provider", "reread", "begin",
                             "commit", "receipt", "record", "done"},
                       key : Keys, request : Requests, condition : Conditions,
                       stamp : 0 .. Newest, result : 0 .. Newest, outcome : Outcomes]
    /\ stale \subseteq Nat

\* The docstring of apply: no silent last-write-wins.  Every revision is made from the
\* one before it, so no accepted edit is ever missing from a later Bundle by accident.
LinearHistory == \A j \in 1 .. Newest : bundles[j].base = j - 1

Succeeded(i) == calls[i].outcome \in {"committed", "no_op"}

Twins(i, j) == calls[i].key = calls[j].key /\ calls[i].request = calls[j].request

\* A command that a client sends again, even for another Bundle and while the first one
\* is still under way, makes one revision at most, and whatever was committed between
\* two answers to one request, they name the same one.
OneAnswer ==
    /\ \A j, l \in 2 .. Newest : bundles[j].key = bundles[l].key => j = l
    /\ \A i, j \in Calls :
         Twins(i, j) /\ Succeeded(i) /\ Succeeded(j) => calls[i].result = calls[j].result

\* What the traveller decides, as opposed to what the data says.
Owned(bundle) ==
    <<bundle.workspace.slot, bundle.workspace.note, bundle.workspace.decided,
      bundle.workspace.entry.candidate>>

Data(bundle) ==
    <<bundle.condition, bundle.impacts, bundle.workspace.catalog, bundle.workspace.evidence>>

\* An undo takes back the traveller's last step and nothing else: the trip is what it
\* was before the step, with the weather, the evidence and the catalog of now.
UndoIsExact ==
    \A k \in Keys :
        commits[k].kind = "undo" =>
            LET undone == bundles[commits[k].result]
                step == commits[commits[k].request.op.of].result
            IN  /\ Owned(undone) = Owned(bundles[bundles[step].base])
                /\ Data(undone) = Data(bundles[undone.base])
                /\ \A j \in step + 1 .. undone.base : commits[bundles[j].key].kind = "refresh"

\* The docstring of _carry_over_frozen_impacts: a sky that improves does not end the
\* refreshes of a run, because what its entries name is carried along.
SkyMayImprove ==
    \A i \in Calls :
        calls[i].request.op.type = "refresh" => calls[i].outcome # "invalid"

\* The comment in get_undo_head: a refresh must not erase the undo head.
UndoSurvivesRefresh ==
    \A i \in Calls :
        calls[i].request.op.type = "undo" => calls[i].outcome # "invalid"

\* The docstring of record_noop_receipt: an answer is kept for exact replay.
SameOutcome ==
    \A i, j \in Calls :
        Twins(i, j) /\ Succeeded(i) /\ Succeeded(j) => calls[i].outcome = calls[j].outcome
=============================================================================
