---------------------- MODULE BundleRevisions_proofs ----------------------
(***************************************************************************)
(* What holds of the revisions of a delivered trip for any clients,        *)
(* options, notes, weather and number of requests.                         *)
(*                                                                         *)
(* The argument, in three parts.  The store only grows (Grows): a Bundle   *)
(* and a commit on record never change, so what was true of a request in   *)
(* flight when it read stays true (CallStays).  A transaction whose base   *)
(* is still the head therefore writes what was validated, and of an undo   *)
(* it knows that the step it takes back is followed by refreshes only.     *)
(* And a refresh keeps the trip while an edit or an undo keeps the data,   *)
(* which over a chain of revisions says what an undo restores (TripStays,  *)
(* a relation of all pairs, so that no induction over the chain is needed).*)
(***************************************************************************)
EXTENDS BundleRevisions, SequenceTheorems, TLAPS

-----------------------------------------------------------------------------
(* Types.                                                                  *)

\* The sets of Bundles, requests and commits; of the latter those that made a revision.
BundleSet ==
    [workspace : Workspaces, condition : Conditions, impacts : SUBSET Impacts,
     data : Nat, base : Nat, key : Keys \union {NoKey}]

Places == {"replay", "undo_head", "current", "provider", "reread", "begin", "commit",
           "receipt", "record", "done"}

CallSet ==
    [pc : Places, key : Keys, request : Requests, condition : Conditions,
     stamp : Nat, result : Nat, outcome : Outcomes]

Made == {"mutation", "undo", "refresh"}

CommitSet ==
    [request : Requests, kind : Made \union {"receipt"}, result : Nat, stamp : Nat]

\* What an operation carries.
LEMMA OperationFields ==
    ASSUME NEW op \in Operations
    PROVE  /\ op.type \in {"select", "edit", "dismiss", "undo", "refresh"}
           /\ op.type = "select" => op.option \in Options
           /\ op.type = "edit" => op.note \in Notes
           /\ op.type = "undo" => op.of \in Keys
BY DEF Operations

\* One field of a workspace.
LEMMA PutSlot ==
    ASSUME NEW w \in Workspaces, NEW v \in Options
    PROVE  /\ [w EXCEPT !.slot = v] \in Workspaces
           /\ [w EXCEPT !.slot = v].slot = v
           /\ [w EXCEPT !.slot = v].revision = w.revision
           /\ [w EXCEPT !.slot = v].note = w.note
           /\ [w EXCEPT !.slot = v].decided = w.decided
           /\ [w EXCEPT !.slot = v].entry = w.entry
           /\ [w EXCEPT !.slot = v].catalog = w.catalog
           /\ [w EXCEPT !.slot = v].evidence = w.evidence
BY DEF Workspaces

\* The same of the note,
LEMMA PutNote ==
    ASSUME NEW w \in Workspaces, NEW v \in Notes
    PROVE  /\ [w EXCEPT !.note = v] \in Workspaces
           /\ [w EXCEPT !.note = v].slot = w.slot
           /\ [w EXCEPT !.note = v].revision = w.revision
           /\ [w EXCEPT !.note = v].note = v
           /\ [w EXCEPT !.note = v].decided = w.decided
           /\ [w EXCEPT !.note = v].entry = w.entry
           /\ [w EXCEPT !.note = v].catalog = w.catalog
           /\ [w EXCEPT !.note = v].evidence = w.evidence
BY DEF Workspaces

\* ... the decisions,
LEMMA PutDecided ==
    ASSUME NEW w \in Workspaces, NEW v \in SUBSET Conditions
    PROVE  /\ [w EXCEPT !.decided = v] \in Workspaces
           /\ [w EXCEPT !.decided = v].slot = w.slot
           /\ [w EXCEPT !.decided = v].revision = w.revision
           /\ [w EXCEPT !.decided = v].note = w.note
           /\ [w EXCEPT !.decided = v].decided = v
           /\ [w EXCEPT !.decided = v].entry = w.entry
           /\ [w EXCEPT !.decided = v].catalog = w.catalog
           /\ [w EXCEPT !.decided = v].evidence = w.evidence
BY DEF Workspaces

\* ... the entry,
LEMMA PutEntry ==
    ASSUME NEW w \in Workspaces, NEW v \in [candidate : Options, impacts : SUBSET Impacts]
    PROVE  /\ [w EXCEPT !.entry = v] \in Workspaces
           /\ [w EXCEPT !.entry = v].slot = w.slot
           /\ [w EXCEPT !.entry = v].revision = w.revision
           /\ [w EXCEPT !.entry = v].note = w.note
           /\ [w EXCEPT !.entry = v].decided = w.decided
           /\ [w EXCEPT !.entry = v].entry = v
           /\ [w EXCEPT !.entry = v].catalog = w.catalog
           /\ [w EXCEPT !.entry = v].evidence = w.evidence
BY DEF Workspaces

\* ... the revision number,
LEMMA PutRevision ==
    ASSUME NEW w \in Workspaces, NEW v \in Nat
    PROVE  /\ [w EXCEPT !.revision = v] \in Workspaces
           /\ [w EXCEPT !.revision = v].slot = w.slot
           /\ [w EXCEPT !.revision = v].revision = v
           /\ [w EXCEPT !.revision = v].note = w.note
           /\ [w EXCEPT !.revision = v].decided = w.decided
           /\ [w EXCEPT !.revision = v].entry = w.entry
           /\ [w EXCEPT !.revision = v].catalog = w.catalog
           /\ [w EXCEPT !.revision = v].evidence = w.evidence
BY DEF Workspaces

\* ... the catalog,
LEMMA PutCatalog ==
    ASSUME NEW w \in Workspaces, NEW v \in [Options -> SUBSET Impacts]
    PROVE  /\ [w EXCEPT !.catalog = v] \in Workspaces
           /\ [w EXCEPT !.catalog = v].slot = w.slot
           /\ [w EXCEPT !.catalog = v].revision = w.revision
           /\ [w EXCEPT !.catalog = v].note = w.note
           /\ [w EXCEPT !.catalog = v].decided = w.decided
           /\ [w EXCEPT !.catalog = v].entry = w.entry
           /\ [w EXCEPT !.catalog = v].catalog = v
           /\ [w EXCEPT !.catalog = v].evidence = w.evidence
BY DEF Workspaces

\* ... and the evidence.
LEMMA PutEvidence ==
    ASSUME NEW w \in Workspaces, NEW v \in Nat
    PROVE  /\ [w EXCEPT !.evidence = v] \in Workspaces
           /\ [w EXCEPT !.evidence = v].slot = w.slot
           /\ [w EXCEPT !.evidence = v].revision = w.revision
           /\ [w EXCEPT !.evidence = v].note = w.note
           /\ [w EXCEPT !.evidence = v].decided = w.decided
           /\ [w EXCEPT !.evidence = v].entry = w.entry
           /\ [w EXCEPT !.evidence = v].catalog = w.catalog
           /\ [w EXCEPT !.evidence = v].evidence = v
BY DEF Workspaces

\* What the fields of a workspace are,
LEMMA WorkspaceFields ==
    ASSUME NEW w \in Workspaces
    PROVE  /\ w.slot \in Options /\ w.note \in Notes /\ w.decided \in SUBSET Conditions
           /\ w.entry \in [candidate : Options, impacts : SUBSET Impacts]
           /\ w.revision \in Nat /\ w.evidence \in Nat
           /\ w.catalog \in [Options -> SUBSET Impacts]
BY DEF Workspaces

\* ... and those of a Bundle.
LEMMA BundleFields ==
    ASSUME NEW b \in BundleSet
    PROVE  /\ b.workspace \in Workspaces /\ b.condition \in Conditions
           /\ b.impacts \in SUBSET Impacts /\ b.data \in Nat /\ b.base \in Nat
           /\ b.key \in Keys \union {NoKey}
BY DEF BundleSet

\* The impacts of one weather, and the catalog made of them.
LEMMA ImpactSets ==
    ASSUME NEW condition \in Conditions
    PROVE  /\ \A o \in Options : ImpactsOf(o, condition) \in SUBSET Impacts
           /\ AllImpacts(condition) \in SUBSET Impacts
           /\ Catalog(condition) \in [Options -> SUBSET Impacts]
           /\ \A o \in Options : Catalog(condition)[o] \subseteq AllImpacts(condition)
<1>1. \A o \in Options : ImpactsOf(o, condition) \in SUBSET Impacts
  BY DEF ImpactsOf, Impacts
<1>2. AllImpacts(condition) \in SUBSET Impacts
  BY <1>1 DEF AllImpacts
<1>3. Catalog(condition) \in [Options -> SUBSET Impacts]
  BY <1>1 DEF Catalog
<1>4. \A o \in Options : Catalog(condition)[o] \subseteq AllImpacts(condition)
  BY DEF Catalog, AllImpacts
<1> QED
  BY <1>1, <1>2, <1>3, <1>4

-----------------------------------------------------------------------------
(* What the three ways to a new Bundle change, and what they keep.         *)

\* A new workspace takes the next revision number; the rest of the Bundle is kept.
LEMMA NewWorkspace ==
    ASSUME NEW b \in BundleSet, NEW w \in Workspaces
    PROVE  LET next == WithWorkspace(b, w)
           IN  /\ next \in BundleSet
               /\ next.condition = b.condition /\ next.impacts = b.impacts
               /\ next.data = b.data
               /\ next.workspace = [w EXCEPT !.revision = b.workspace.revision + 1]
               /\ next.workspace.revision = b.workspace.revision + 1
               /\ next.workspace.slot = w.slot /\ next.workspace.note = w.note
               /\ next.workspace.decided = w.decided /\ next.workspace.entry = w.entry
               /\ next.workspace.catalog = w.catalog
               /\ next.workspace.evidence = w.evidence
<1> DEFINE x == [w EXCEPT !.revision = b.workspace.revision + 1]
<1>1. b.workspace.revision + 1 \in Nat
  BY BundleFields, WorkspaceFields
<1>2. /\ x \in Workspaces /\ x.revision = b.workspace.revision + 1
      /\ x.slot = w.slot /\ x.note = w.note /\ x.decided = w.decided /\ x.entry = w.entry
      /\ x.catalog = w.catalog /\ x.evidence = w.evidence
  BY <1>1, PutRevision
<1>3. WithWorkspace(b, w) = [b EXCEPT !.workspace = x]
  BY DEF WithWorkspace
<1> HIDE DEF x
<1>4. /\ [b EXCEPT !.workspace = x] \in BundleSet
      /\ [b EXCEPT !.workspace = x].workspace = x
      /\ [b EXCEPT !.workspace = x].condition = b.condition
      /\ [b EXCEPT !.workspace = x].impacts = b.impacts
      /\ [b EXCEPT !.workspace = x].data = b.data
  BY <1>2 DEF BundleSet
<1>5. x = [w EXCEPT !.revision = b.workspace.revision + 1]
  BY DEF x
<1> QED
  BY <1>2, <1>3, <1>4, <1>5

\* apply_workspace_v2_mutation leaves the catalog and the evidence alone, and each
\* operation what it is not about.
LEMMA MutatedWorkspace ==
    ASSUME NEW b \in BundleSet, NEW op \in Operations
    PROVE  LET w == b.workspace
               x == Mutated(b, op)
           IN  /\ x \in Workspaces /\ x.catalog = w.catalog /\ x.evidence = w.evidence
               /\ op.type = "select" => x.note = w.note /\ x.decided = w.decided
               /\ op.type = "edit" => x.slot = w.slot /\ x.decided = w.decided
<1> DEFINE w == b.workspace
<1>1. w \in Workspaces /\ b.condition \in Conditions
  BY BundleFields
<1>2. CASE op.type = "select" /\ w.slot # op.option
  <2>1. op.option \in Options
    BY <1>2, OperationFields
  <2>2. Entry(w, op.option) \in [candidate : Options, impacts : SUBSET Impacts]
    BY <1>1, <2>1, WorkspaceFields DEF Entry
  <2> DEFINE y == [w EXCEPT !.slot = op.option]
             e == Entry(w, op.option)
  <2>3. y \in Workspaces /\ y.note = w.note /\ y.decided = w.decided
        /\ y.catalog = w.catalog /\ y.evidence = w.evidence
    BY <1>1, <2>1, PutSlot
  <2>4. Mutated(b, op) = [y EXCEPT !.entry = e]
    BY <1>2 DEF Mutated, Selected
  <2> HIDE DEF y, e
  <2>5. LET z == [y EXCEPT !.entry = e]
        IN  /\ z \in Workspaces /\ z.note = y.note /\ z.decided = y.decided
            /\ z.catalog = y.catalog /\ z.evidence = y.evidence
    BY <2>2, <2>3, PutEntry DEF e
  <2> QED
    BY <1>2, <2>3, <2>4, <2>5
<1>3. CASE op.type = "edit"
  <2>1. op.note \in Notes
    BY <1>3, OperationFields
  <2>2. Mutated(b, op) = [w EXCEPT !.note = op.note]
    BY <1>3 DEF Mutated, Edited
  <2> QED
    BY <1>1, <1>3, <2>1, <2>2, PutNote
<1>4. CASE op.type = "dismiss"
  <2>1. w.decided \union {b.condition} \in SUBSET Conditions
    BY <1>1, WorkspaceFields
  <2>2. Mutated(b, op) = [w EXCEPT !.decided = w.decided \union {b.condition}]
    BY <1>4 DEF Mutated, Decided
  <2> QED
    BY <1>1, <1>4, <2>1, <2>2, PutDecided
<1>5. CASE ~(op.type = "select" /\ w.slot # op.option) /\ op.type # "edit" /\ op.type # "dismiss"
  <2>1. Mutated(b, op) = w
    BY <1>5 DEF Mutated
  <2> QED
    BY <1>1, <2>1
<1> QED
  BY <1>2, <1>3, <1>4, <1>5

\* What an inverse restores, and what it keeps.
LEMMA UndoneWorkspace ==
    ASSUME NEW w \in Workspaces, NEW before \in Workspaces, NEW op \in Operations
    PROVE  LET x == Undone(w, op, before)
           IN  /\ x \in Workspaces
               /\ op.type = "select" =>
                    /\ x.slot = before.slot /\ x.entry = before.entry
                    /\ x.note = w.note /\ x.decided = w.decided
                    /\ x.catalog = w.catalog /\ x.evidence = w.evidence
               /\ op.type = "edit" =>
                    /\ x.note = before.note /\ x.entry = before.entry
                    /\ x.slot = w.slot /\ x.decided = w.decided
                    /\ x.catalog = w.catalog /\ x.evidence = w.evidence
               /\ op.type \notin {"select", "edit"} => x = before
<1>1. /\ before.slot \in Options /\ before.note \in Notes
      /\ before.entry \in [candidate : Options, impacts : SUBSET Impacts]
  BY WorkspaceFields
<1>2. CASE op.type = "select"
  <2> DEFINE y == [w EXCEPT !.slot = before.slot]
  <2>1. y \in Workspaces /\ y.slot = before.slot /\ y.note = w.note /\ y.decided = w.decided
        /\ y.catalog = w.catalog /\ y.evidence = w.evidence
    BY <1>1, PutSlot
  <2>2. Undone(w, op, before) = [y EXCEPT !.entry = before.entry]
    BY <1>2 DEF Undone, InverseType
  <2> HIDE DEF y
  <2>3. LET z == [y EXCEPT !.entry = before.entry]
        IN  /\ z \in Workspaces /\ z.slot = y.slot /\ z.note = y.note /\ z.decided = y.decided
            /\ z.entry = before.entry /\ z.catalog = y.catalog /\ z.evidence = y.evidence
    BY <1>1, <2>1, PutEntry
  <2> QED
    BY <1>2, <2>1, <2>2, <2>3
<1>3. CASE op.type = "edit"
  <2> DEFINE y == [w EXCEPT !.entry = before.entry]
  <2>1. y \in Workspaces /\ y.entry = before.entry /\ y.slot = w.slot /\ y.decided = w.decided
        /\ y.catalog = w.catalog /\ y.evidence = w.evidence
    BY <1>1, PutEntry
  <2>2. Undone(w, op, before) = [y EXCEPT !.note = before.note]
    BY <1>3 DEF Undone, InverseType
  <2> HIDE DEF y
  <2>3. LET z == [y EXCEPT !.note = before.note]
        IN  /\ z \in Workspaces /\ z.slot = y.slot /\ z.note = before.note
            /\ z.decided = y.decided /\ z.entry = y.entry /\ z.catalog = y.catalog
            /\ z.evidence = y.evidence
    BY <1>1, <2>1, PutNote
  <2> QED
    BY <1>3, <2>1, <2>2, <2>3
<1>4. CASE op.type \notin {"select", "edit"}
  <2>1. Undone(w, op, before) = before
    BY <1>4 DEF Undone, InverseType
  <2> QED
    BY <1>4, <2>1
<1> QED
  BY <1>2, <1>3, <1>4

\* The rebound catalog and evidence are the new ones, the itinerary is the old one.
LEMMA ReboundWorkspace ==
    ASSUME NEW b \in BundleSet, NEW condition \in Conditions
    PROVE  LET w == b.workspace
               x == Rebound(b, condition)
           IN  /\ x \in Workspaces
               /\ x.slot = w.slot /\ x.note = w.note /\ x.decided = w.decided
               /\ x.entry = w.entry /\ x.revision = w.revision + 1
               /\ x.catalog = Catalog(condition) /\ x.evidence = b.data + 1
<1> DEFINE w == b.workspace
           c == Catalog(condition)
           d == b.data + 1
           n == w.revision + 1
           y == [w EXCEPT !.catalog = c]
           z == [y EXCEPT !.evidence = d]
           x == [z EXCEPT !.revision = n]
<1>1. /\ w \in Workspaces /\ d \in Nat /\ n \in Nat
      /\ c \in [Options -> SUBSET Impacts]
  BY BundleFields, WorkspaceFields, ImpactSets
<1> HIDE DEF c, d
<1>2. /\ y \in Workspaces /\ y.slot = w.slot /\ y.note = w.note /\ y.decided = w.decided
      /\ y.entry = w.entry /\ y.catalog = c /\ y.revision = w.revision
  BY <1>1, PutCatalog
<1> HIDE DEF y
<1>3. /\ z \in Workspaces /\ z.slot = w.slot /\ z.note = w.note /\ z.decided = w.decided
      /\ z.entry = w.entry /\ z.catalog = c /\ z.revision = w.revision /\ z.evidence = d
  BY <1>1, <1>2, PutEvidence
<1> HIDE DEF z
<1>4. /\ x \in Workspaces /\ x.slot = w.slot /\ x.note = w.note /\ x.decided = w.decided
      /\ x.entry = w.entry /\ x.catalog = c /\ x.evidence = d /\ x.revision = n
  <2> HIDE DEF n
  <2> QED
    BY <1>1, <1>3, PutRevision
<1>5. Rebound(b, condition) = x
  <2>1. z.revision = w.revision
    BY <1>3
  <2> QED
    BY <2>1 DEF Rebound, x, z, y, c, d
<1> QED
  BY <1>4, <1>5 DEF c, d

\* A refresh keeps the trip, takes the next revision number, and makes a Bundle that
\* names nothing that is not there, whatever the new weather leaves of the old impacts.
LEMMA RefreshedBundle ==
    ASSUME NEW b \in BundleSet, NEW condition \in Conditions
    PROVE  LET next == Refreshed(b, condition)
           IN  /\ next \in BundleSet
               /\ next.workspace.revision = b.workspace.revision + 1
               /\ Owned(next) = Owned(b)
               /\ Consistent(b) => Consistent(next)
<1> DEFINE w == b.workspace
           x == Rebound(b, condition)
           all == AllImpacts(condition) \union Carried(b, condition)
           next == Refreshed(b, condition)
<1>1. /\ x \in Workspaces /\ x.slot = w.slot /\ x.note = w.note /\ x.decided = w.decided
      /\ x.entry = w.entry /\ x.revision = w.revision + 1
      /\ x.catalog = Catalog(condition) /\ x.evidence = b.data + 1
  BY ReboundWorkspace
<1>2. w \in Workspaces /\ w.entry \in [candidate : Options, impacts : SUBSET Impacts]
      /\ b.data + 1 \in Nat
  BY BundleFields, WorkspaceFields
<1>3. all \in SUBSET Impacts
  BY <1>2, ImpactSets, BundleFields DEF Carried
<1>4. /\ next \in BundleSet /\ next.workspace = x /\ next.impacts = all
      /\ next.data = b.data + 1
  <2> DEFINE d == b.data + 1
             b1 == [b EXCEPT !.condition = condition]
             b2 == [b1 EXCEPT !.data = d]
             b3 == [b2 EXCEPT !.impacts = all]
             b4 == [b3 EXCEPT !.workspace = x]
  <2>1. d \in Nat
    BY <1>2
  <2>2. b1.data = b.data /\ b1 \in BundleSet
    BY DEF BundleSet
  <2>3. Refreshed(b, condition) = b4
    BY <2>2 DEF Refreshed
  <2> HIDE DEF d, b1, x, all
  <2>4. b2 \in BundleSet /\ b2.data = d
    BY <2>1, <2>2 DEF BundleSet
  <2> HIDE DEF b2
  <2>5. b3 \in BundleSet /\ b3.data = d /\ b3.impacts = all
    BY <1>3, <2>4 DEF BundleSet
  <2> HIDE DEF b3
  <2>6. b4 \in BundleSet /\ b4.data = d /\ b4.impacts = all /\ b4.workspace = x
    BY <1>1, <2>5 DEF BundleSet
  <2> HIDE DEF b4
  <2> QED
    BY <2>3, <2>6 DEF d
<1>5. Owned(next) = Owned(b)
  <2>1. /\ next.workspace.slot = w.slot /\ next.workspace.note = w.note
        /\ next.workspace.decided = w.decided
        /\ next.workspace.entry.candidate = w.entry.candidate
    BY <1>1, <1>4
  <2> HIDE DEF next
  <2> QED
    BY <2>1 DEF Owned
<1>6. ASSUME Consistent(b) PROVE Consistent(next)
  <2>1. w.entry.impacts \subseteq b.impacts
    BY <1>6 DEF Consistent
  <2>2. w.entry.impacts \subseteq all
    BY <2>1 DEF Carried
  <2>3. \A o \in Options : x.catalog[o] \subseteq all
    BY <1>1, ImpactSets
  <2>4. x.evidence <= b.data + 1
    BY <1>1, <1>2
  <2> HIDE DEF next, x, all
  <2>5. next.workspace.entry.impacts \subseteq next.impacts
    BY <1>1, <1>4, <2>2
  <2> QED
    BY <1>4, <2>3, <2>4, <2>5 DEF Consistent
<1> HIDE DEF next, x
<1>7. next.workspace.revision = b.workspace.revision + 1
  BY <1>1, <1>4
<1> QED
  BY <1>4, <1>5, <1>6, <1>7 DEF next

\* An accepted edit leaves the data alone, and of the trip what it is not about.
LEMMA MutatedBundle ==
    ASSUME NEW b \in BundleSet, NEW op \in Operations
    PROVE  LET next == WithWorkspace(b, Mutated(b, op))
           IN  /\ next \in BundleSet
               /\ next.workspace.revision = b.workspace.revision + 1
               /\ Data(next) = Data(b)
               /\ op.type = "select" => /\ next.workspace.note = b.workspace.note
                                        /\ next.workspace.decided = b.workspace.decided
               /\ op.type = "edit" => /\ next.workspace.slot = b.workspace.slot
                                      /\ next.workspace.decided = b.workspace.decided
<1> DEFINE x == Mutated(b, op)
           next == WithWorkspace(b, x)
           w == b.workspace
<1>1. /\ x \in Workspaces /\ x.catalog = w.catalog /\ x.evidence = w.evidence
      /\ op.type = "select" => x.note = w.note /\ x.decided = w.decided
      /\ op.type = "edit" => x.slot = w.slot /\ x.decided = w.decided
  BY MutatedWorkspace
<1> HIDE DEF x
<1>2. /\ next \in BundleSet /\ next.condition = b.condition /\ next.impacts = b.impacts
      /\ next.workspace.revision = w.revision + 1
      /\ next.workspace.slot = x.slot /\ next.workspace.note = x.note
      /\ next.workspace.decided = x.decided
      /\ next.workspace.catalog = x.catalog /\ next.workspace.evidence = x.evidence
  BY <1>1, NewWorkspace
<1> HIDE DEF next
<1>3. Data(next) = Data(b)
  BY <1>1, <1>2 DEF Data
<1> QED
  BY <1>1, <1>2, <1>3 DEF next, x

\* An undo restores what the inverse is about, and takes the rest from the Bundle it
\* starts from.
LEMMA UndoneBundle ==
    ASSUME NEW b \in BundleSet, NEW before \in BundleSet, NEW op \in Operations
    PROVE  LET next == WithWorkspace(b, Undone(b.workspace, op, before.workspace))
               w == b.workspace
           IN  /\ next \in BundleSet
               /\ next.workspace.revision = w.revision + 1
               /\ op.type = "select" =>
                    /\ w.note = before.workspace.note /\ w.decided = before.workspace.decided
                       => Owned(next) = Owned(before)
                    /\ Data(next) = Data(b)
               /\ op.type = "edit" =>
                    /\ w.slot = before.workspace.slot /\ w.decided = before.workspace.decided
                       => Owned(next) = Owned(before)
                    /\ Data(next) = Data(b)
               /\ op.type \notin {"select", "edit"} =>
                    /\ Owned(next) = Owned(before)
                    /\ Data(before) = Data(b) => Data(next) = Data(b)
<1> DEFINE w == b.workspace
           v == before.workspace
           x == Undone(w, op, v)
           next == WithWorkspace(b, x)
<1>0. w \in Workspaces /\ v \in Workspaces
  BY BundleFields
<1>1. /\ x \in Workspaces
      /\ op.type = "select" =>
           /\ x.slot = v.slot /\ x.entry = v.entry /\ x.note = w.note /\ x.decided = w.decided
           /\ x.catalog = w.catalog /\ x.evidence = w.evidence
      /\ op.type = "edit" =>
           /\ x.note = v.note /\ x.entry = v.entry /\ x.slot = w.slot /\ x.decided = w.decided
           /\ x.catalog = w.catalog /\ x.evidence = w.evidence
      /\ op.type \notin {"select", "edit"} => x = v
  BY ZenonT(60), <1>0, UndoneWorkspace
<1> HIDE DEF x
<1>2. /\ next \in BundleSet /\ next.condition = b.condition /\ next.impacts = b.impacts
      /\ next.workspace.revision = w.revision + 1
      /\ next.workspace.slot = x.slot /\ next.workspace.note = x.note
      /\ next.workspace.decided = x.decided /\ next.workspace.entry = x.entry
      /\ next.workspace.catalog = x.catalog /\ next.workspace.evidence = x.evidence
  BY <1>1, NewWorkspace
<1> HIDE DEF next
<1>3. op.type \in {"select", "edit"} => Data(next) = Data(b)
  BY <1>1, <1>2 DEF Data
<1>4. op.type = "select" /\ w.note = v.note /\ w.decided = v.decided
        => Owned(next) = Owned(before)
  BY <1>1, <1>2 DEF Owned
<1>5. op.type = "edit" /\ w.slot = v.slot /\ w.decided = v.decided
        => Owned(next) = Owned(before)
  BY <1>1, <1>2 DEF Owned
<1>6. ASSUME op.type \notin {"select", "edit"}
      PROVE  Owned(next) = Owned(before) /\ (Data(before) = Data(b) => Data(next) = Data(b))
  <2>1. x = v
    BY <1>1, <1>6
  <2>2. Owned(next) = Owned(before)
    BY <1>2, <2>1 DEF Owned
  <2>3. ASSUME Data(before) = Data(b) PROVE Data(next) = Data(b)
    <3>1. v.catalog = w.catalog /\ v.evidence = w.evidence
      BY <2>3 DEF Data
    <3> QED
      BY <1>2, <2>1, <3>1 DEF Data
  <2> QED
    BY <2>2, <2>3
<1> QED
  BY <1>2, <1>3, <1>4, <1>5, <1>6 DEF next, x

-----------------------------------------------------------------------------
(* The inductive invariant.                                                *)

\* Types of the tables.
StoreTypes ==
    /\ bundles \in Seq(BundleSet) /\ Newest \in Nat /\ 1 <= Newest
    /\ commits \in [Keys -> CommitSet \union {NoCommit}]
    /\ stale \subseteq Nat

\* A commit names the revision it made; its transaction began at the revision before.
RecordOK(k) ==
    Taken(k) =>
        /\ commits[k] \in CommitSet
        /\ commits[k].result \in 1 .. Newest /\ commits[k].stamp \in 1 .. Newest
        /\ commits[k].kind \in {"undo", "refresh"} => commits[k].kind = commits[k].request.op.type
        /\ commits[k].kind = "mutation" =>
             commits[k].request.op.type \in {"select", "edit", "dismiss"}
        /\ commits[k].kind \in Made =>
             /\ commits[k].result \in 2 .. Newest
             /\ bundles[commits[k].result].key = k
             /\ commits[k].stamp = commits[k].result - 1

\* The commit of a revision.
KindOf(j) == commits[bundles[j].key].kind
OpOf(j) == commits[bundles[j].key].request.op

\* What a revision keeps of the one before it, by the kind of its commit.
StepOK(j) ==
    /\ KindOf(j) \in {"mutation", "undo"} => Data(bundles[j]) = Data(bundles[j - 1])
    /\ KindOf(j) = "refresh" => Owned(bundles[j]) = Owned(bundles[j - 1])
    /\ KindOf(j) = "mutation" /\ OpOf(j).type = "select" =>
         /\ bundles[j].workspace.note = bundles[j - 1].workspace.note
         /\ bundles[j].workspace.decided = bundles[j - 1].workspace.decided
    /\ KindOf(j) = "mutation" /\ OpOf(j).type = "edit" =>
         /\ bundles[j].workspace.slot = bundles[j - 1].workspace.slot
         /\ bundles[j].workspace.decided = bundles[j - 1].workspace.decided

\* A Bundle stands in its place of the chain and names nothing that is not there.
BundleOK(j) ==
    /\ bundles[j].base = j - 1
    /\ bundles[j].workspace.revision = j - 1
    /\ Consistent(bundles[j])

\* Every revision but the first is that of a commit.
RevisionOK(j) ==
    /\ bundles[j].key \in Keys
    /\ KindOf(j) \in Made
    /\ commits[bundles[j].key].result = j
    /\ StepOK(j)

\* From l to j the weather was refreshed, and nothing else.
RefreshesOnly(l, j) == \A m \in l + 1 .. j : KindOf(m) = "refresh"

\* Over any number of refreshes the trip stays what it was.
TripStays(l, j) ==
    l <= j /\ RefreshesOnly(l, j) => Owned(bundles[j]) = Owned(bundles[l])

\* What an undo took back, and that only refreshes came between.
UndoExact(k) ==
    commits[k].kind = "undo" =>
        LET undone == commits[k].result
            of == commits[k].request.op.of
            step == commits[of].result
        IN  /\ of \in Keys /\ commits[of].kind \in {"mutation", "undo"}
            /\ Owned(bundles[undone]) = Owned(bundles[step - 1])
            /\ Data(bundles[undone]) = Data(bundles[undone - 1])
            /\ RefreshesOnly(step, undone - 1)

\* The invariant of the store.
Records == \A k \in Keys : RecordOK(k)
Chain == \A j \in 1 .. Newest : BundleOK(j)
History == \A j \in 2 .. Newest : RevisionOK(j)
Trip == \A l, j \in 1 .. Newest : TripStays(l, j)
Undos == \A k \in Keys : UndoExact(k)

Store == StoreTypes /\ Records /\ Chain /\ History /\ Trip /\ Undos

\* A request in flight: the Bundle it read is there, ...
CallRanges(c) ==
    /\ c.request.base \in 1 .. Newest
    /\ c.stamp \in 0 .. Newest /\ c.result \in 0 .. Newest
    /\ c.pc \in {"commit", "record"} => c.stamp \in c.request.base .. Newest
    /\ c.request.op.type = "undo" => Taken(c.request.op.of)

\* ... a success is what is on record, ...
CallAnswered(c) ==
    c.outcome \in {"committed", "no_op"} =>
        /\ c.pc = "done"
        /\ Taken(c.key)
        /\ commits[c.key].request = c.request
        /\ c.result = commits[c.key].result

\* ... an undo is of the last step before the Bundle it read, ...
UndoReady(c) ==
    c.pc \in {"current", "begin", "commit"} /\ c.request.op.type = "undo" =>
        /\ commits[c.request.op.of].kind \in {"mutation", "undo"}
        /\ RefreshesOnly(commits[c.request.op.of].result, c.request.base)

\* ... whose inverse the workspace it read still takes, ...
InverseHolds(c) ==
    c.request.op.type = "undo" =>
        InverseApplies(bundles[c.request.base].workspace,
                       commits[c.request.op.of].request.op,
                       bundles[commits[c.request.op.of].result].workspace.revision)

\* ... and what is about to be written was validated.
CallSound(c) ==
    c.pc \in {"begin", "commit"} => Consistent(Computed(c)) /\ InverseHolds(c)

\* Only a refresh asks the providers, and what it computes always validates.
NeverInvalid(c) ==
    /\ c.request.op.type = "refresh" => c.outcome # "invalid"
    /\ c.pc = "provider" => c.request.op.type = "refresh"

CallOK(c) ==
    CallRanges(c) /\ CallAnswered(c) /\ UndoReady(c) /\ CallSound(c) /\ NeverInvalid(c)

\* The requests.
CallsOK == calls \in Seq(CallSet) /\ \A i \in Calls : CallOK(calls[i])

RevisionsInvariant == Store /\ CallsOK

-----------------------------------------------------------------------------
(* What is on record stays as it is.                                       *)

\* Bundles are immutable and commits are never replaced.
Grows ==
    /\ Newest' \in Nat /\ Newest <= Newest'
    /\ \A j \in 1 .. Newest : bundles'[j] = bundles[j]
    /\ \A k \in Keys : Taken(k) => commits'[k] = commits[k]

\* What a request carries,
LEMMA RequestFields ==
    ASSUME NEW r \in Requests
    PROVE  r.op \in Operations /\ r.base \in Nat
BY DEF Requests

\* ... a call,
LEMMA CallFields ==
    ASSUME NEW c \in CallSet
    PROVE  /\ c.pc \in Places /\ c.key \in Keys /\ c.request \in Requests
           /\ c.condition \in Conditions /\ c.stamp \in Nat /\ c.result \in Nat
           /\ c.outcome \in Outcomes
BY DEF CallSet

\* ... and a commit.
LEMMA CommitFields ==
    ASSUME NEW r \in CommitSet
    PROVE  /\ r.request \in Requests /\ r.kind \in Made \union {"receipt"}
           /\ r.result \in Nat /\ r.stamp \in Nat /\ r.kind # "none"
BY DEF CommitSet, Made

\* A revision is a Bundle and has a place.
LEMMA BundleAt ==
    ASSUME StoreTypes, NEW j \in 1 .. Newest
    PROVE  bundles[j] \in BundleSet
BY ElementOfSeq DEF StoreTypes, Newest

\* The kinds and operations of revisions on record stay.
LEMMA KindStays ==
    ASSUME StoreTypes, History, Grows, NEW j \in 2 .. Newest
    PROVE  KindOf(j)' = KindOf(j) /\ OpOf(j)' = OpOf(j)
<1>1. bundles[j].key \in Keys /\ KindOf(j) \in Made
  BY DEF History, RevisionOK
<1>2. Taken(bundles[j].key)
  BY <1>1 DEF Taken, KindOf, Made
<1>3. j \in 1 .. Newest
  BY DEF StoreTypes
<1>4. bundles'[j] = bundles[j] /\ commits'[bundles[j].key] = commits[bundles[j].key]
  BY <1>1, <1>2, <1>3 DEF Grows
<1> QED
  BY <1>4 DEF KindOf, OpOf

\* So do the runs of refreshes among them.
LEMMA RefreshesOnlyStays ==
    ASSUME StoreTypes, History, Grows, NEW l \in Nat, 1 <= l, NEW j \in 1 .. Newest
    PROVE  RefreshesOnly(l, j)' <=> RefreshesOnly(l, j)
<1>1. \A m \in l + 1 .. j : m \in 2 .. Newest
  BY DEF StoreTypes
<1>2. \A m \in l + 1 .. j : KindOf(m)' = KindOf(m)
  BY <1>1, KindStays
<1> QED
  BY <1>2 DEF RefreshesOnly

\* The step that an undo of a record in flight takes back is a revision of its own.
LEMMA UndoneStep ==
    ASSUME StoreTypes, Records, NEW k \in Keys, commits[k].kind \in Made
    PROVE  /\ Taken(k) /\ commits[k] \in CommitSet
           /\ commits[k].result \in 2 .. Newest /\ bundles[commits[k].result].key = k
           /\ commits[k].result \in 1 .. Newest /\ commits[k].result - 1 \in 1 .. Newest
<1>1. Taken(k)
  BY DEF Taken, Made
<1>2. RecordOK(k)
  BY DEF Records
<1>3. commits[k].result \in 2 .. Newest /\ bundles[commits[k].result].key = k
      /\ commits[k] \in CommitSet
  BY <1>1, <1>2 DEF RecordOK
<1>4. Newest \in Nat
  BY DEF StoreTypes
<1> QED
  BY <1>1, <1>3, <1>4

\* What a call computed, it would compute again.
LEMMA ComputedStays ==
    ASSUME Store, Grows, NEW c \in CallSet, CallOK(c), c.pc \in {"begin", "commit"}
    PROVE  Computed(c)' = Computed(c)
<1> DEFINE b == c.request.base
           op == c.request.op
<1>1. b \in 1 .. Newest /\ op \in Operations
  BY CallFields, RequestFields DEF CallOK, CallRanges
<1>2. bundles'[b] = bundles[b]
  BY <1>1 DEF Grows
<1>3. CASE op.type = "undo"
  <2> DEFINE k == op.of
             step == commits[k].result
  <2>1. k \in Keys /\ commits[k].kind \in Made
    BY <1>1, <1>3, OperationFields DEF CallOK, UndoReady, Made
  <2>2. Taken(k) /\ step \in 1 .. Newest /\ step - 1 \in 1 .. Newest
    BY <2>1, UndoneStep DEF Store
  <2>3. commits'[k] = commits[k]
    BY <2>1, <2>2 DEF Grows
  <2>4. bundles'[step] = bundles[step] /\ bundles[step].base = step - 1
    BY <2>2 DEF Grows, Store, Chain, BundleOK
  <2>5. bundles'[step - 1] = bundles[step - 1]
    BY <2>2 DEF Grows
  <2>6. bundles'[bundles'[commits'[k].result].base] = bundles[bundles[commits[k].result].base]
    BY <2>3, <2>4, <2>5
  <2> QED
    BY <1>2, <1>3, <2>3, <2>6 DEF Computed
<1>4. CASE op.type # "undo"
  BY <1>2, <1>4 DEF Computed
<1> QED
  BY <1>3, <1>4

\* Whatever others commit meanwhile, what holds of a call in flight goes on holding.
LEMMA CallStays ==
    ASSUME Store, Grows, NEW c \in CallSet, CallOK(c)
    PROVE  CallOK(c)'
<1> DEFINE b == c.request.base
           op == c.request.op
           k == op.of
           step == commits[k].result
<1>1. /\ b \in 1 .. Newest /\ op \in Operations /\ c.key \in Keys /\ Newest \in Nat
      /\ op.type = "undo" => k \in Keys
  BY CallFields, RequestFields, OperationFields DEF CallOK, CallRanges, Store, StoreTypes
<1>2. CallRanges(c)'
  <2>1. op.type = "undo" => Taken(k)'
    <3>1. op.type = "undo" => Taken(k) /\ k \in Keys
      BY <1>1 DEF CallOK, CallRanges
    <3> QED
      BY <3>1 DEF Taken, Grows
  <2>2. c.stamp \in 0 .. Newest /\ c.result \in 0 .. Newest
        /\ (c.pc \in {"commit", "record"} => c.stamp \in c.request.base .. Newest)
    BY DEF CallOK, CallRanges
  <2>3. Newest' \in Nat /\ Newest <= Newest'
    BY DEF Grows
  <2> QED
    BY <1>1, <2>1, <2>2, <2>3 DEF CallRanges
<1>3. CallAnswered(c)'
  <2>1. CallAnswered(c)
    BY DEF CallOK
  <2>2. Taken(c.key) => commits'[c.key] = commits[c.key]
    BY <1>1 DEF Grows
  <2> QED
    BY <2>1, <2>2 DEF CallAnswered, Taken
<1>4. ASSUME c.pc \in {"current", "begin", "commit"}, op.type = "undo"
      PROVE  /\ commits'[k] = commits[k] /\ commits[k].kind \in {"mutation", "undo"}
             /\ step \in 1 .. Newest /\ bundles'[step] = bundles[step]
             /\ RefreshesOnly(commits[k].result, b)'
  <2>1. commits[k].kind \in {"mutation", "undo"} /\ RefreshesOnly(step, b)
    BY <1>4 DEF CallOK, UndoReady
  <2>2. Taken(k) /\ step \in 1 .. Newest
    BY <1>1, <1>4, <2>1, UndoneStep DEF Store, Made
  <2>3. commits'[k] = commits[k] /\ bundles'[step] = bundles[step]
    BY <1>1, <1>4, <2>2 DEF Grows
  <2>4. PICK s \in Nat : s = step /\ 1 <= s
    BY <1>1, <2>2
  <2>5. RefreshesOnly(s, b)'
    BY <1>1, <2>1, <2>4, RefreshesOnlyStays DEF Store
  <2>6. RefreshesOnly(commits[k].result, b)'
    BY <2>3, <2>4, <2>5 DEF RefreshesOnly
  <2> QED
    BY <2>1, <2>2, <2>3, <2>6
<1>5. UndoReady(c)'
  BY <1>4 DEF UndoReady
<1>6. CallSound(c)'
  <2> SUFFICES ASSUME c.pc \in {"begin", "commit"} PROVE CallSound(c)'
    BY DEF CallSound
  <2>1. Computed(c)' = Computed(c) /\ Consistent(Computed(c))
    BY ComputedStays DEF CallOK, CallSound
  <2>2. Consistent(Computed(c))'
    BY <2>1 DEF Consistent
  <2>3. InverseHolds(c)'
    <3> SUFFICES ASSUME op.type = "undo" PROVE InverseHolds(c)'
      BY Zenon DEF InverseHolds
    <3>1. bundles'[b] = bundles[b]
      BY <1>1 DEF Grows
    <3>2. commits'[k] = commits[k] /\ bundles'[step] = bundles[step]
      BY <1>4
    <3>3. InverseApplies(bundles[b].workspace, commits[k].request.op,
                         bundles[commits[k].result].workspace.revision)
      BY DEF CallOK, CallSound, InverseHolds
    <3> QED
      BY Zenon, <3>1, <3>2, <3>3 DEF InverseHolds, InverseApplies
  <2> QED
    BY <2>2, <2>3 DEF CallSound
<1>7. NeverInvalid(c)'
  BY DEF CallOK, NeverInvalid
<1> QED
  BY <1>2, <1>3, <1>5, <1>6, <1>7 DEF CallOK

-----------------------------------------------------------------------------
(* Steps of the calls.                                                     *)

\* A call is of its type and in order.
LEMMA CallAt ==
    ASSUME CallsOK, NEW i \in Calls
    PROVE  /\ calls[i] \in CallSet /\ CallOK(calls[i])
           /\ Len(calls) \in Nat /\ i \in 1 .. Len(calls)
<1>1. calls \in Seq(CallSet) /\ i \in 1 .. Len(calls)
  BY DEF CallsOK, Calls
<1> QED
  BY <1>1, ElementOfSeq, LenProperties DEF CallsOK

\* One call moves on while the store grows or stands.
LEMMA OneCallMoves ==
    ASSUME Store, CallsOK, Grows, NEW i \in Calls, NEW c \in CallSet, CallOK(c)',
           calls' = [calls EXCEPT ![i] = c]
    PROVE  CallsOK'
<1>1. calls \in Seq(CallSet) /\ i \in 1 .. Len(calls) /\ Len(calls) \in Nat
  BY CallAt DEF CallsOK
<1>2. calls' \in Seq(CallSet) /\ Len(calls') = Len(calls)
      /\ \A l \in 1 .. Len(calls) : calls'[l] = IF l = i THEN c ELSE calls[l]
  BY <1>1, ExceptSeq
<1>3. ASSUME NEW l \in 1 .. Len(calls)
      PROVE  \A x \in CallSet : x = calls'[l] => CallOK(x)'
  <2>1. CASE l = i
    BY <1>2, <2>1
  <2>2. CASE l # i
    <3>1. l \in Calls
      BY DEF Calls
    <3>2. PICK x \in CallSet : x = calls[l] /\ CallOK(x)
      BY <3>1, CallAt
    <3>3. CallOK(x)'
      BY <3>2, CallStays
    <3> QED
      BY <1>2, <2>2, <3>2, <3>3
  <2> QED
    BY <2>1, <2>2
<1>4. ASSUME NEW l \in 1 .. Len(calls)
      PROVE  CallOK(calls[l])'
  <2>1. calls'[l] \in CallSet
    BY <1>2, ElementOfSeq
  <2>2. PICK x \in CallSet : x = calls'[l]
    BY <2>1
  <2>3. CallOK(x)'
    BY <1>3, <2>2
  <2> QED
    BY Zenon, <2>2, <2>3
    DEF CallOK, CallRanges, CallAnswered, UndoReady, CallSound, NeverInvalid,
       InverseHolds, Computed
<1> QED
  BY <1>2, <1>4 DEF CallsOK, Calls

\* A step that leaves the store alone.
LEMMA StoreStands ==
    ASSUME Store, UNCHANGED <<bundles, commits>>, stale' \subseteq Nat
    PROVE  Store' /\ Grows
<1>1. Newest \in Nat /\ Newest' = Newest
  BY DEF Store, StoreTypes, Newest
<1>2. Grows
  BY <1>1 DEF Grows
<1>3. StoreTypes'
  BY <1>1 DEF Store, StoreTypes
<1>4. Records'
  BY <1>1 DEF Store, Records, RecordOK, Taken
<1>5. Chain'
  BY <1>1 DEF Store, Chain, BundleOK, Consistent
<1>6. History'
  BY <1>1 DEF Store, History, RevisionOK, StepOK, KindOf, OpOf, Data, Owned
<1>7. Trip'
  BY SMTT(30), <1>1 DEF Store, Trip, TripStays, RefreshesOnly, KindOf, Owned
<1>8. Undos'
  BY Zenon DEF Store, Undos, UndoExact, RefreshesOnly, KindOf, Data, Owned
<1> QED
  BY <1>2, <1>3, <1>4, <1>5, <1>6, <1>7, <1>8 DEF Store

\* One call moves and nothing is written.
LEMMA QuietStep ==
    ASSUME RevisionsInvariant, NEW i \in Calls, NEW c \in CallSet, CallOK(c),
           calls' = [calls EXCEPT ![i] = c], UNCHANGED <<bundles, commits, stale>>
    PROVE  RevisionsInvariant'
<1>1. Store /\ CallsOK /\ stale' \subseteq Nat
  BY DEF RevisionsInvariant, Store, StoreTypes
<1>2. Store' /\ Grows
  BY <1>1, StoreStands
<1>3. CallOK(c)'
  BY <1>1, <1>2, CallStays
<1>4. CallsOK'
  BY <1>1, <1>2, <1>3, OneCallMoves
<1> QED
  BY <1>2, <1>4 DEF RevisionsInvariant

\* What Goes and Answers write.
LEMMA MovedCall ==
    ASSUME NEW c \in CallSet, NEW pc \in Places
    PROVE  /\ [c EXCEPT !.pc = pc] \in CallSet
           /\ [c EXCEPT !.pc = pc].pc = pc
           /\ [c EXCEPT !.pc = pc].key = c.key
           /\ [c EXCEPT !.pc = pc].request = c.request
           /\ [c EXCEPT !.pc = pc].condition = c.condition
           /\ [c EXCEPT !.pc = pc].stamp = c.stamp
           /\ [c EXCEPT !.pc = pc].result = c.result
           /\ [c EXCEPT !.pc = pc].outcome = c.outcome
BY DEF CallSet

\* What Answers makes of a call.
IsAnswer(d, c, result, outcome) ==
    d = [c EXCEPT !.pc = "done", !.result = result, !.outcome = outcome]

\* The fields of an answered call.
LEMMA AnsweredCall ==
    ASSUME NEW c \in CallSet, NEW result \in Nat, NEW outcome \in Outcomes, NEW d,
           IsAnswer(d, c, result, outcome)
    PROVE  /\ d \in CallSet /\ d.pc = "done" /\ d.key = c.key /\ d.request = c.request
           /\ d.stamp = c.stamp /\ d.result = result /\ d.outcome = outcome
<1> DEFINE x == [c EXCEPT !.pc = "done"]
           y == [x EXCEPT !.result = result]
           z == [y EXCEPT !.outcome = outcome]
<1>1. "done" \in Places
  BY DEF Places
<1>2. x \in CallSet /\ x.pc = "done" /\ x.key = c.key /\ x.request = c.request
      /\ x.stamp = c.stamp
  BY <1>1, MovedCall
<1> HIDE DEF x
<1>3. y \in CallSet /\ y.pc = "done" /\ y.key = c.key /\ y.request = c.request
      /\ y.stamp = c.stamp /\ y.result = result
  BY <1>2 DEF CallSet
<1> HIDE DEF y
<1>4. z \in CallSet /\ z.pc = "done" /\ z.key = c.key /\ z.request = c.request
      /\ z.stamp = c.stamp /\ z.result = result /\ z.outcome = outcome
  BY <1>3 DEF CallSet
<1>5. d = z
  BY DEF IsAnswer, x, y, z
<1> HIDE DEF z
<1> QED
  BY <1>4, <1>5

\* A call that moves without an answer.
LEMMA Moves ==
    ASSUME RevisionsInvariant, NEW i \in Calls, NEW pc \in Places, Goes(i, pc),
           UNCHANGED <<bundles, commits, stale>>, pc # "done", calls[i].pc # "done",
           pc \notin {"begin", "commit", "record"},
           pc = "current" => UndoReady([calls[i] EXCEPT !.pc = "current"]),
           pc = "provider" => calls[i].request.op.type = "refresh"
    PROVE  RevisionsInvariant'
<1>1. calls[i] \in CallSet /\ CallOK(calls[i])
  BY CallAt DEF RevisionsInvariant
<1>2. PICK c \in CallSet : c = calls[i]
  BY <1>1
<1>3. CallOK(c)
  BY <1>1, <1>2
<1> DEFINE d == [c EXCEPT !.pc = pc]
<1>4. /\ d \in CallSet /\ d.pc = pc /\ d.key = c.key /\ d.request = c.request
      /\ d.stamp = c.stamp /\ d.result = c.result /\ d.outcome = c.outcome
  BY MovedCall
<1>5. calls' = [calls EXCEPT ![i] = d]
  BY <1>2 DEF Goes
<1>6. pc = "current" => UndoReady(d)
  BY <1>2
<1> HIDE DEF d
<1>7. CallOK(d)
  <2>1. CallRanges(d)
    BY <1>3, <1>4 DEF CallOK, CallRanges
  <2>2. CallAnswered(d)
    BY <1>2, <1>3, <1>4 DEF CallOK, CallAnswered
  <2>3. UndoReady(d)
    BY <1>4, <1>6 DEF UndoReady
  <2>4. CallSound(d)
    BY <1>4 DEF CallSound
  <2>5. NeverInvalid(d)
    BY <1>2, <1>3, <1>4 DEF CallOK, NeverInvalid
  <2> QED
    BY <2>1, <2>2, <2>3, <2>4, <2>5 DEF CallOK
<1> QED
  BY <1>4, <1>5, <1>7, QuietStep

\* A call that answers without a trace.
LEMMA AnswersQuietly ==
    ASSUME RevisionsInvariant, NEW i \in Calls, NEW result \in 0 .. Newest,
           NEW outcome \in Outcomes, Answers(i, result, outcome),
           UNCHANGED <<bundles, commits, stale>>,
           calls[i].request.op.type = "refresh" => outcome # "invalid",
           outcome \in {"committed", "no_op"} =>
             /\ Taken(calls[i].key)
             /\ commits[calls[i].key].request = calls[i].request
             /\ result = commits[calls[i].key].result
    PROVE  RevisionsInvariant'
<1>1. calls[i] \in CallSet /\ CallOK(calls[i])
  BY CallAt DEF RevisionsInvariant
<1>2. PICK c \in CallSet : c = calls[i]
  BY <1>1
<1>3. CallOK(c) /\ result \in Nat
  BY <1>1, <1>2 DEF RevisionsInvariant, Store, StoreTypes
<1>0. PICK d : IsAnswer(d, c, result, outcome)
  BY DEF IsAnswer
<1>4. /\ d \in CallSet /\ d.pc = "done" /\ d.key = c.key /\ d.request = c.request
      /\ d.stamp = c.stamp /\ d.result = result /\ d.outcome = outcome
  BY <1>0, <1>3, AnsweredCall
<1>5. calls' = [calls EXCEPT ![i] = d]
  BY <1>0, <1>2 DEF Answers, IsAnswer
<1>6. CallOK(d)
  <2>1. CallRanges(d)
    BY <1>3, <1>4 DEF CallOK, CallRanges
  <2>2. CallAnswered(d)
    BY <1>2, <1>4 DEF CallAnswered
  <2>3. UndoReady(d) /\ CallSound(d)
    BY <1>4 DEF UndoReady, CallSound
  <2>4. NeverInvalid(d)
    BY <1>2, <1>4 DEF NeverInvalid
  <2> QED
    BY <2>1, <2>2, <2>3, <2>4 DEF CallOK
<1> QED
  BY <1>4, <1>5, <1>6, QuietStep

\* Rejects: an edit answers, a refresh goes to look at the head again.
LEMMA RejectsQuietly ==
    ASSUME RevisionsInvariant, NEW i \in Calls,
           NEW verdict \in {"refused", "invalid", "unrefreshed"}, Rejects(i, verdict),
           UNCHANGED <<bundles, commits, stale>>,
           calls[i].request.op.type = "refresh" => verdict # "invalid"
    PROVE  RevisionsInvariant'
<1>1. CASE calls[i].request.op.type # "refresh"
  <2>1. Answers(i, 0, verdict)
    BY <1>1 DEF Rejects
  <2>2. 0 \in 0 .. Newest /\ verdict \in Outcomes /\ verdict \notin {"committed", "no_op"}
    BY DEF RevisionsInvariant, Store, StoreTypes, Outcomes
  <2> QED
    BY <1>1, <2>1, <2>2, AnswersQuietly
<1>2. CASE calls[i].request.op.type = "refresh"
  <2>1. calls[i] \in CallSet /\ CallOK(calls[i])
    BY CallAt DEF RevisionsInvariant
  <2>2. PICK c \in CallSet : c = calls[i]
    BY <2>1
  <2>3. CallOK(c) /\ verdict \in Outcomes /\ "reread" \in Places
    BY <2>1, <2>2 DEF Outcomes, Places
  <2> DEFINE x == [c EXCEPT !.pc = "reread"]
             d == [x EXCEPT !.outcome = verdict]
  <2>4. calls' = [calls EXCEPT ![i] = d]
    BY <1>2, <2>2 DEF Rejects
  <2>5. /\ x \in CallSet /\ x.pc = "reread" /\ x.key = c.key /\ x.request = c.request
        /\ x.stamp = c.stamp /\ x.result = c.result
    BY <2>3, MovedCall
  <2> HIDE DEF x
  <2>6. /\ d \in CallSet /\ d.pc = "reread" /\ d.key = c.key /\ d.request = c.request
        /\ d.stamp = c.stamp /\ d.result = c.result /\ d.outcome = verdict
    BY <2>3, <2>5 DEF CallSet
  <2> HIDE DEF d
  <2>7. CallOK(d)
    <3>1. CallRanges(d)
      BY <2>3, <2>6 DEF CallOK, CallRanges
    <3>2. CallAnswered(d) /\ UndoReady(d) /\ CallSound(d)
      BY <2>6 DEF CallAnswered, UndoReady, CallSound
    <3>3. NeverInvalid(d)
      BY <1>2, <2>2, <2>6 DEF NeverInvalid
    <3> QED
      BY <3>1, <3>2, <3>3 DEF CallOK
  <2> QED
    BY <2>4, <2>6, <2>7, QuietStep
<1> QED
  BY <1>1, <1>2

-----------------------------------------------------------------------------
(* Computing.                                                              *)

\* What a call computes is made of its request and the weather.
LEMMA SameComputed ==
    ASSUME NEW c, NEW d, d.request = c.request, d.condition = c.condition
    PROVE  Computed(d) = Computed(c)
BY DEF Computed

\* The weather a provider answered with.
LEMMA WeatherOf ==
    ASSUME NEW c \in CallSet, NEW condition \in Conditions
    PROVE  /\ [c EXCEPT !.condition = condition] \in CallSet
           /\ [c EXCEPT !.condition = condition].condition = condition
           /\ [c EXCEPT !.condition = condition].pc = c.pc
           /\ [c EXCEPT !.condition = condition].key = c.key
           /\ [c EXCEPT !.condition = condition].request = c.request
           /\ [c EXCEPT !.condition = condition].stamp = c.stamp
           /\ [c EXCEPT !.condition = condition].result = c.result
           /\ [c EXCEPT !.condition = condition].outcome = c.outcome
BY DEF CallSet

\* The Bundle a refresh computes always validates: what its entries name is carried.
LEMMA RefreshValidates ==
    ASSUME Store, NEW c \in CallSet, CallOK(c), c.request.op.type = "refresh"
    PROVE  Consistent(Computed(c))
<1>1. c.request.base \in 1 .. Newest
  BY DEF CallOK, CallRanges
<1>2. bundles[c.request.base] \in BundleSet /\ Consistent(bundles[c.request.base])
  BY <1>1, BundleAt DEF Store, Chain, BundleOK
<1>3. Computed(c) = Refreshed(bundles[c.request.base], c.condition)
  BY DEF Computed
<1>4. Consistent(Refreshed(bundles[c.request.base], c.condition))
  BY <1>2, RefreshedBundle, CallFields
<1> QED
  BY <1>3, <1>4

\* The pure part: a call is refused, found invalid, or goes on with a validated Bundle.
LEMMA Computes ==
    ASSUME RevisionsInvariant, NEW i \in Calls, NEW condition \in Conditions,
           Compute(i, condition), UNCHANGED <<bundles, commits, stale>>,
           calls[i].pc \in {"current", "provider"},
           InverseHolds(calls[i])
    PROVE  RevisionsInvariant'
<1>1. calls[i] \in CallSet /\ CallOK(calls[i])
  BY CallAt DEF RevisionsInvariant
<1>2. PICK c \in CallSet : c = calls[i]
  BY <1>1
<1>3. CallOK(c)
  BY <1>1, <1>2
<1>4. PICK x \in CallSet : x = [c EXCEPT !.condition = condition]
  BY WeatherOf
<1>5. /\ x.condition = condition /\ x.pc = c.pc /\ x.key = c.key /\ x.request = c.request
      /\ x.stamp = c.stamp /\ x.result = c.result /\ x.outcome = c.outcome
  BY <1>4, WeatherOf
<1>6. \/ \E verdict \in {"refused"} : Rejects(i, verdict)
      \/ ~Consistent(Computed(x)) /\ Rejects(i, "invalid")
      \/ /\ Consistent(Computed(x))
         /\ calls' = [calls EXCEPT ![i].pc = "begin", ![i].condition = condition]
  BY <1>2, <1>4 DEF Compute
<1>7. CASE Rejects(i, "refused")
  BY <1>7, RejectsQuietly
<1>8. CASE ~Consistent(Computed(x)) /\ Rejects(i, "invalid")
  <2>1. x.request.op.type # "refresh"
    <3>1. ASSUME x.request.op.type = "refresh" PROVE FALSE
      <4>1. CallOK(x)
        <5>1. CallRanges(x) /\ CallAnswered(x) /\ NeverInvalid(x)
          BY <1>3, <1>5 DEF CallOK, CallRanges, CallAnswered, NeverInvalid
        <5>2. UndoReady(x)
          BY <1>3, <1>5 DEF CallOK, UndoReady
        <5>3. CallSound(x)
          BY <1>2, <1>5 DEF CallSound
        <5> QED
          BY <5>1, <5>2, <5>3 DEF CallOK
      <4> QED
        BY <1>8, <3>1, <4>1, RefreshValidates DEF RevisionsInvariant
    <3> QED
      BY <3>1
  <2>2. calls[i].request.op.type # "refresh"
    BY <1>2, <1>5, <2>1
  <2> QED
    BY <1>8, <2>2, RejectsQuietly
<1>9. CASE /\ Consistent(Computed(x))
           /\ calls' = [calls EXCEPT ![i].pc = "begin", ![i].condition = condition]
  <2> DEFINE y == [c EXCEPT !.pc = "begin"]
             d == [y EXCEPT !.condition = condition]
  <2>1. calls' = [calls EXCEPT ![i] = d]
    BY <1>2, <1>9
  <2>2. "begin" \in Places
    BY DEF Places
  <2>3. /\ y \in CallSet /\ y.pc = "begin" /\ y.key = c.key /\ y.request = c.request
        /\ y.stamp = c.stamp /\ y.result = c.result /\ y.outcome = c.outcome
    BY <2>2, MovedCall
  <2> HIDE DEF y
  <2>4. /\ d \in CallSet /\ d.pc = "begin" /\ d.key = c.key /\ d.request = c.request
        /\ d.stamp = c.stamp /\ d.result = c.result /\ d.outcome = c.outcome
        /\ d.condition = condition
    BY <2>3, WeatherOf
  <2> HIDE DEF d
  <2>5. Consistent(Computed(d))
    <3>1. Computed(d) = Computed(x)
      BY <1>5, <2>4, SameComputed
    <3> QED
      BY <1>9, <3>1
  <2>6. CallRanges(d) /\ NeverInvalid(d)
    BY <1>3, <2>4 DEF CallOK, CallRanges, NeverInvalid
  <2>7. CallAnswered(d)
    BY <1>2, <1>3, <2>4 DEF CallOK, CallAnswered
  <2>8. UndoReady(d)
    <3>1. c.request.op.type = "undo" => c.pc = "current"
      BY <1>2, <1>3 DEF CallOK, NeverInvalid
    <3> QED
      BY Zenon, <1>3, <2>4, <3>1 DEF CallOK, UndoReady
  <2>9. CallSound(d)
    <3>1. InverseHolds(d)
      BY Zenon, <1>2, <2>4 DEF InverseHolds
    <3> QED
      BY <2>5, <3>1 DEF CallSound
  <2>10. CallOK(d)
    BY <2>6, <2>7, <2>8, <2>9 DEF CallOK
  <2> QED
    BY <2>1, <2>4, <2>10, QuietStep
<1> QED
  BY <1>6, <1>7, <1>8, <1>9

-----------------------------------------------------------------------------
(* The steps before the transaction.                                       *)

\* A call that answers with nothing.
LEMMA AnswersNothing ==
    ASSUME RevisionsInvariant, NEW i \in Calls,
           NEW outcome \in {"mismatch", "undo_head_changed", "conflict", "refused", "failed"},
           Answers(i, 0, outcome), UNCHANGED <<bundles, commits, stale>>
    PROVE  RevisionsInvariant'
<1>1. /\ 0 \in 0 .. Newest /\ outcome \in Outcomes
      /\ outcome \notin {"committed", "no_op", "invalid"}
  BY DEF RevisionsInvariant, Store, StoreTypes, Outcomes
<1> QED
  BY <1>1, AnswersQuietly

\* A call that answers with what is on record.
LEMMA AnswersRecord ==
    ASSUME RevisionsInvariant, NEW i \in Calls, Taken(calls[i].key),
           commits[calls[i].key].request = calls[i].request,
           NEW outcome \in {"committed", "no_op"},
           Answers(i, OnRecord(calls[i].key), outcome), UNCHANGED <<bundles, commits, stale>>
    PROVE  RevisionsInvariant'
<1>1. calls[i].key \in Keys
  BY CallAt, CallFields DEF RevisionsInvariant
<1>2. commits[calls[i].key].result \in 0 .. Newest
  BY <1>1 DEF RevisionsInvariant, Store, StoreTypes, Records, RecordOK
<1>3. outcome \in Outcomes /\ outcome # "invalid"
  BY DEF Outcomes
<1> QED
  BY <1>2, <1>3, AnswersQuietly DEF OnRecord

\* Replay.
LEMMA ReplayStep ==
    ASSUME RevisionsInvariant, NEW i \in Calls, Replay(i)
    PROVE  RevisionsInvariant'
<1>1. calls[i].pc = "replay" /\ UNCHANGED <<bundles, commits, stale>>
  BY DEF Replay, At
<1>2. CASE \E pc \in {"undo_head", "current"} :
             Goes(i, pc) /\ (pc = "current" => calls[i].request.op.type # "undo")
  <2>1. PICK pc \in {"undo_head", "current"} :
          Goes(i, pc) /\ (pc = "current" => calls[i].request.op.type # "undo")
    BY <1>2
  <2>2. pc \in Places /\ pc \notin {"done", "begin", "commit", "record"}
    BY DEF Places
  <2>3. pc = "current" => UndoReady([calls[i] EXCEPT !.pc = "current"])
    <3>1. calls[i] \in CallSet /\ "current" \in Places
      BY CallAt DEF RevisionsInvariant, Places
    <3>2. [calls[i] EXCEPT !.pc = "current"].request = calls[i].request
      BY <3>1, MovedCall
    <3> QED
      BY <2>1, <3>2 DEF UndoReady
  <2> QED
    BY <1>1, <2>1, <2>2, <2>3, Moves
<1>3. CASE Taken(calls[i].key) /\ commits[calls[i].key].request = calls[i].request
  <2>1. Answers(i, OnRecord(calls[i].key), Outcome(commits[calls[i].key]))
    BY <1>3 DEF Replay
  <2>2. Outcome(commits[calls[i].key]) \in {"committed", "no_op"}
    BY DEF Outcome
  <2> QED
    BY <1>1, <1>3, <2>1, <2>2, AnswersRecord
<1>4. CASE Taken(calls[i].key) /\ commits[calls[i].key].request # calls[i].request
  <2>1. Answers(i, 0, "mismatch")
    BY <1>4 DEF Replay
  <2> QED
    BY <1>1, <2>1, AnswersNothing
<1>5. \/ Taken(calls[i].key)
      \/ Goes(i, IF calls[i].request.op.type = "undo" THEN "undo_head" ELSE "current")
  BY DEF Replay
<1> QED
  BY <1>2, <1>3, <1>4, <1>5

\* Whatever came after the undo head is a refresh.
LEMMA HeadIsLast ==
    ASSUME Store, NEW k \in UndoHead, NEW base \in 1 .. Newest
    PROVE  /\ commits[k].kind \in {"mutation", "undo"}
           /\ RefreshesOnly(commits[k].result, base)
<1>1. k \in Keys /\ commits[k].kind \in {"mutation", "undo"}
  BY DEF UndoHead, Undoable
<1>2. commits[k].result \in 2 .. Newest /\ commits[k].stamp = commits[k].result - 1
  BY <1>1 DEF Store, Records, RecordOK, Taken, Made
<1>3. ASSUME NEW m \in commits[k].result + 1 .. base
      PROVE  KindOf(m) = "refresh"
  <2>1. m \in 2 .. Newest /\ m \in 1 .. Newest /\ Newest \in Nat /\ Newest \in 1 .. Newest
    BY <1>2 DEF Store, StoreTypes
  <2> DEFINE other == bundles[m].key
  <2>2. other \in Keys /\ commits[other].kind \in Made /\ commits[other].result = m
    BY <2>1 DEF Store, History, RevisionOK, KindOf
  <2>3. commits[other].stamp = m - 1
    BY <2>2 DEF Store, Records, RecordOK, Taken, Made
  <2>4. bundles[m].workspace.revision = m - 1
        /\ bundles[Newest].workspace.revision = Newest - 1
    BY <2>1 DEF Store, Chain, BundleOK
  <2>5. ASSUME commits[other].kind # "refresh" PROVE FALSE
    <3>1. commits[other].kind \in {"mutation", "undo"}
      BY <2>2, <2>5 DEF Made
    <3>2. bundles[commits[other].result].workspace.revision
             <= bundles[Newest].workspace.revision
      BY <2>1, <2>2, <2>4
    <3>3. other \in Undoable
      BY <2>2, <3>1, <3>2 DEF Undoable
    <3>4. commits[other].stamp <= commits[k].stamp
      BY <3>3 DEF UndoHead
    <3> QED
      BY <1>2, <2>1, <2>3, <3>4
  <2> QED
    BY <2>5 DEF KindOf
<1> QED
  BY <1>1, <1>3 DEF RefreshesOnly

\* get_undo_head.
LEMMA ReadUndoHeadStep ==
    ASSUME RevisionsInvariant, NEW i \in Calls, ReadUndoHead(i)
    PROVE  RevisionsInvariant'
<1>1. calls[i].pc = "undo_head" /\ UNCHANGED <<bundles, commits, stale>>
  BY DEF ReadUndoHead, At
<1>2. CASE Answers(i, 0, "undo_head_changed")
  BY <1>1, <1>2, AnswersNothing
<1>3. CASE calls[i].request.op.of \in UndoHead /\ Goes(i, "current")
  <2>1. calls[i] \in CallSet /\ CallOK(calls[i]) /\ "current" \in Places
    BY CallAt DEF RevisionsInvariant, Places
  <2>2. PICK d : d = [calls[i] EXCEPT !.pc = "current"]
    OBVIOUS
  <2>3. d.request = calls[i].request
    BY <2>1, <2>2, MovedCall
  <2>4. calls[i].request.base \in 1 .. Newest
    BY <2>1 DEF CallOK, CallRanges
  <2>5. UndoReady(d)
    BY <1>3, <2>3, <2>4, HeadIsLast DEF UndoReady, RevisionsInvariant
  <2> QED
    BY <1>1, <1>3, <2>1, <2>2, <2>5, Moves
<1> QED
  BY <1>2, <1>3 DEF ReadUndoHead

\* An early conflict.
LEMMA ConflictStep ==
    ASSUME RevisionsInvariant, NEW i \in Calls, Conflict(i), UNCHANGED <<bundles, commits, stale>>
    PROVE  RevisionsInvariant'
BY AnswersNothing DEF Conflict

\* The checks against the head, and the pure part of edits and undos.
LEMMA CurrentStep ==
    ASSUME RevisionsInvariant, NEW i \in Calls, Current(i)
    PROVE  RevisionsInvariant'
<1> DEFINE c == calls[i]
           op == c.request.op
           b == bundles[c.request.base]
<1>1. calls[i].pc = "current" /\ UNCHANGED <<bundles, commits, stale>>
  BY DEF Current, At
<1>2. calls[i] \in CallSet /\ CallOK(calls[i])
  BY CallAt DEF RevisionsInvariant
<1>3. c.request.base \in 1 .. Newest /\ b.condition \in Conditions
  <2>1. c.request.base \in 1 .. Newest
    BY <1>2 DEF CallOK, CallRanges
  <2>2. b \in BundleSet
    BY <2>1, BundleAt DEF RevisionsInvariant, Store
  <2> QED
    BY <2>1, <2>2, BundleFields
<1>4. CASE Conflict(i)
  BY <1>1, <1>4, ConflictStep
<1>5. CASE Answers(i, 0, "refused")
  BY <1>1, <1>5, AnswersNothing
<1>6. CASE \E pc \in {"provider", "receipt"} :
             Goes(i, pc) /\ (pc = "provider" => op.type = "refresh")
  <2>1. PICK pc \in {"provider", "receipt"} :
          Goes(i, pc) /\ (pc = "provider" => op.type = "refresh")
    BY <1>6
  <2>2. pc \in Places /\ pc \notin {"done", "begin", "commit", "record", "current"}
    BY DEF Places
  <2> QED
    BY Zenon, <1>1, <2>1, <2>2, Moves
<1>7. CASE /\ Compute(i, b.condition)
           /\ op.type = "undo" =>
                InverseApplies(b.workspace, commits[op.of].request.op,
                               bundles[commits[op.of].result].workspace.revision)
  <2>1. InverseHolds(calls[i])
    BY Zenon, <1>7 DEF InverseHolds
  <2> QED
    BY Zenon, <1>1, <1>3, <1>7, <2>1, Computes
<1>8. \/ Conflict(i)
      \/ CASE op.type = "refresh" -> Goes(i, IF b.data \in stale THEN "provider" ELSE "receipt")
           [] op.type = "undo" ->
                IF InverseApplies(b.workspace, commits[op.of].request.op,
                                  bundles[commits[op.of].result].workspace.revision)
                THEN Compute(i, b.condition)
                ELSE Answers(i, 0, "refused")
           [] OTHER ->
                IF Refused(b, op) THEN Answers(i, 0, "refused")
                ELSE IF Mutated(b, op) = b.workspace THEN Goes(i, "receipt")
                ELSE Compute(i, b.condition)
  BY Zenon DEF Current
<1> HIDE DEF c, op, b
<1>9. CASE op.type = "refresh"
  BY <1>4, <1>6, <1>8, <1>9
<1>10. CASE op.type = "undo"
  BY <1>4, <1>5, <1>7, <1>8, <1>10
<1>11. CASE op.type # "refresh" /\ op.type # "undo"
  BY <1>4, <1>5, <1>6, <1>7, <1>8, <1>11
<1> QED
  BY SMTT(30), <1>9, <1>10, <1>11

\* Only a refresh asks the providers.
LEMMA ProviderStep ==
    ASSUME RevisionsInvariant, NEW i \in Calls, Provider(i)
    PROVE  RevisionsInvariant'
<1>1. calls[i].pc = "provider" /\ UNCHANGED <<bundles, commits, stale>>
  BY DEF Provider, At
<1>0. calls[i].request.op.type = "refresh"
  BY <1>1, CallAt DEF RevisionsInvariant, CallOK, NeverInvalid
<1>2. CASE Rejects(i, "unrefreshed")
  BY <1>0, <1>1, <1>2, RejectsQuietly
<1>3. CASE \E condition \in Conditions : Compute(i, condition)
  BY <1>0, <1>1, <1>3, Computes DEF InverseHolds
<1> QED
  BY <1>2, <1>3 DEF Provider

\* A refresh that came to nothing.
LEMMA RereadStep ==
    ASSUME RevisionsInvariant, NEW i \in Calls, Reread(i)
    PROVE  RevisionsInvariant'
<1>1. calls[i].pc = "reread" /\ UNCHANGED <<bundles, commits, stale>>
  BY DEF Reread, At
<1>2. CASE Conflict(i)
  BY <1>1, <1>2, ConflictStep
<1>3. CASE Answers(i, Newest, calls[i].outcome)
  <2>1. calls[i] \in CallSet /\ CallOK(calls[i])
    BY CallAt DEF RevisionsInvariant
  <2>2. calls[i].outcome \in Outcomes
    BY <2>1, CallFields
  <2>3. calls[i].outcome \notin {"committed", "no_op"}
    BY <1>1, <2>1 DEF CallOK, CallAnswered
  <2>4. calls[i].request.op.type = "refresh" => calls[i].outcome # "invalid"
    BY <2>1 DEF CallOK, NeverInvalid
  <2>5. Newest \in 0 .. Newest
    BY DEF RevisionsInvariant, Store, StoreTypes
  <2> QED
    BY <1>1, <1>3, <2>2, <2>3, <2>4, <2>5, AnswersQuietly
<1> QED
  BY <1>2, <1>3 DEF Reread

\* A failure writes nothing.
LEMMA FailStep ==
    ASSUME RevisionsInvariant, NEW i \in Calls, Fail(i)
    PROVE  RevisionsInvariant'
BY AnswersNothing DEF Fail

\* The transaction begins at the head of that moment.
LEMMA BeginStep ==
    ASSUME RevisionsInvariant, NEW i \in Calls, Begin(i)
    PROVE  RevisionsInvariant'
<1>1. calls[i] \in CallSet /\ CallOK(calls[i]) /\ UNCHANGED <<bundles, commits, stale>>
  BY CallAt DEF RevisionsInvariant, Begin
<1>2. PICK c \in CallSet : c = calls[i]
  BY <1>1
<1>3. CallOK(c) /\ Newest \in Nat /\ c.request.base \in 1 .. Newest
  BY <1>1, <1>2 DEF CallOK, CallRanges, RevisionsInvariant, Store, StoreTypes
<1>4. PICK pc \in {"commit", "record"} :
        /\ calls' = [calls EXCEPT ![i].pc = pc, ![i].stamp = Newest]
        /\ pc = "commit" => c.pc = "begin"
        /\ c.pc \in {"begin", "receipt"}
  BY <1>2 DEF Begin, At
<1> DEFINE x == [c EXCEPT !.pc = pc]
           d == [x EXCEPT !.stamp = Newest]
<1>5. calls' = [calls EXCEPT ![i] = d]
  BY <1>2, <1>4
<1>6. pc \in Places
  BY DEF Places
<1>7. /\ x \in CallSet /\ x.pc = pc /\ x.key = c.key /\ x.request = c.request
      /\ x.result = c.result /\ x.outcome = c.outcome /\ x.condition = c.condition
  BY <1>6, MovedCall
<1> HIDE DEF x
<1>8. /\ d \in CallSet /\ d.pc = pc /\ d.key = c.key /\ d.request = c.request
      /\ d.result = c.result /\ d.outcome = c.outcome /\ d.stamp = Newest
      /\ d.condition = c.condition
  BY <1>3, <1>7 DEF CallSet
<1> HIDE DEF d
<1>9. CallRanges(d)
  BY <1>3, <1>8 DEF CallOK, CallRanges
<1>10. CallAnswered(d) /\ NeverInvalid(d)
  BY <1>3, <1>4, <1>8 DEF CallOK, CallAnswered, NeverInvalid
<1>11. UndoReady(d)
  BY <1>3, <1>4, <1>8 DEF CallOK, UndoReady
<1>12. CallSound(d)
  <2>1. Computed(d) = Computed(c)
    BY <1>8, SameComputed
  <2> QED
    BY Zenon, <1>3, <1>4, <1>8, <2>1 DEF CallOK, CallSound, InverseHolds
<1>13. CallOK(d)
  BY <1>9, <1>10, <1>11, <1>12 DEF CallOK
<1> QED
  BY <1>1, <1>5, <1>8, <1>13, QuietStep

\* The validity of the weather ends.
LEMMA AgeStep ==
    ASSUME RevisionsInvariant, Age
    PROVE  RevisionsInvariant'
<1>1. UNCHANGED <<bundles, commits, calls>> /\ stale' = stale \union {bundles[Newest].data}
  BY DEF Age
<1>2. Newest \in 1 .. Newest /\ stale \subseteq Nat
  BY DEF RevisionsInvariant, Store, StoreTypes
<1>3. bundles[Newest].data \in Nat
  BY <1>2, BundleAt, BundleFields DEF RevisionsInvariant, Store
<1>4. Store' /\ Grows
  BY Zenon, <1>1, <1>2, <1>3, StoreStands DEF RevisionsInvariant
<1>5. ASSUME NEW l \in Calls
      PROVE  CallOK(calls[l])'
  <2>1. PICK x \in CallSet : x = calls[l] /\ CallOK(x)
    BY CallAt DEF RevisionsInvariant
  <2>2. CallOK(x)'
    BY <1>4, <2>1, CallStays DEF RevisionsInvariant
  <2>3. x = calls'[l]
    BY <1>1, <2>1
  <2> QED
    BY Zenon, <2>2, <2>3
    DEF CallOK, CallRanges, CallAnswered, UndoReady, CallSound, NeverInvalid,
       InverseHolds, Computed
<1>6. CallsOK'
  BY <1>1, <1>5 DEF RevisionsInvariant, CallsOK, Calls
<1> QED
  BY <1>4, <1>6 DEF RevisionsInvariant

\* A request comes in.
LEMMA SendStep ==
    ASSUME RevisionsInvariant, NEW key \in Keys,
           NEW request \in [op : Operations, base : 1 .. Newest], Send(key, request)
    PROVE  RevisionsInvariant'
<1>1. UNCHANGED <<bundles, commits, stale>> /\ calls' = Append(calls, NewCall(key, request))
  BY DEF Send
<1>2. Store' /\ Grows
  BY <1>1, StoreStands DEF RevisionsInvariant, Store, StoreTypes
<1>3. request \in Requests /\ request.base \in 1 .. Newest /\ request.op \in Operations
  BY DEF Requests
<1>4. PICK d : d = NewCall(key, request)
  OBVIOUS
<1>5. /\ d \in CallSet /\ d.pc = "replay" /\ d.key = key /\ d.request = request
      /\ d.stamp = 0 /\ d.result = 0 /\ d.outcome = "none"
  <2>1. "replay" \in Places /\ "none" \in Outcomes /\ Fair \in Conditions
    BY RevisionsAssumption DEF Places, Outcomes
  <2>2. d = [pc |-> "replay", key |-> key, request |-> request, condition |-> Fair,
             stamp |-> 0, result |-> 0, outcome |-> "none"]
    BY <1>4 DEF NewCall
  <2>3. d \in CallSet
    BY <1>3, <2>1, <2>2 DEF CallSet
  <2> QED
    BY <2>2, <2>3
<1>6. CallOK(d)
  <2>1. ASSUME request.op.type = "undo" PROVE Taken(request.op.of)
    <3>1. request.op.of \in Keys /\ commits[request.op.of].result # 0
      BY <1>3, <2>1, OperationFields DEF Send
    <3>2. commits[request.op.of] \in CommitSet
      BY <3>1 DEF RevisionsInvariant, Store, StoreTypes, NoCommit
    <3> QED
      BY <3>2, CommitFields DEF Taken
  <2>2. Newest \in Nat
    BY DEF RevisionsInvariant, Store, StoreTypes
  <2>3. CallRanges(d)
    BY <1>3, <1>5, <2>1, <2>2 DEF CallRanges
  <2>4. CallAnswered(d) /\ UndoReady(d) /\ CallSound(d) /\ NeverInvalid(d)
    BY <1>5 DEF CallAnswered, UndoReady, CallSound, NeverInvalid
  <2> QED
    BY <2>3, <2>4 DEF CallOK
<1>7. calls \in Seq(CallSet) /\ Len(calls) \in Nat
  BY LenProperties DEF RevisionsInvariant, CallsOK
<1>8. /\ calls' \in Seq(CallSet) /\ Len(calls') = Len(calls) + 1
      /\ \A l \in 1 .. Len(calls) : calls'[l] = calls[l]
      /\ calls'[Len(calls) + 1] = d
  BY <1>1, <1>4, <1>5, <1>7, AppendProperties
<1>9. ASSUME NEW l \in 1 .. Len(calls')
      PROVE  CallOK(calls[l])'
  <2>1. calls'[l] \in CallSet
    BY <1>8, ElementOfSeq
  <2>2. PICK x \in CallSet : x = calls'[l]
    BY <2>1
  <2>3. CallOK(x)
    <3>1. CASE l = Len(calls) + 1
      BY <1>6, <1>8, <2>2, <3>1
    <3>2. CASE l # Len(calls) + 1
      <4>1. l \in Calls
        BY <1>7, <1>8, <3>2 DEF Calls
      <4>2. CallOK(calls[l]) /\ calls'[l] = calls[l]
        BY <1>8, <4>1, CallAt DEF RevisionsInvariant, Calls
      <4> QED
        BY <2>2, <4>2
    <3> QED
      BY <3>1, <3>2
  <2>4. CallOK(x)'
    BY <1>2, <2>3, CallStays DEF RevisionsInvariant
  <2> QED
    BY Zenon, <2>2, <2>4
    DEF CallOK, CallRanges, CallAnswered, UndoReady, CallSound, NeverInvalid,
       InverseHolds, Computed
<1> QED
  BY <1>2, <1>8, <1>9 DEF RevisionsInvariant, CallsOK, Calls

-----------------------------------------------------------------------------
(* The transactions.                                                       *)

\* What a growing store keeps of every record and revision it had.
LEMMA OldRecord ==
    ASSUME Store, Grows, NEW k \in Keys, Taken(k)
    PROVE  RecordOK(k)' /\ UndoExact(k)'
<1>1. commits'[k] = commits[k] /\ RecordOK(k) /\ Newest \in Nat
  BY DEF Grows, Store, StoreTypes, Records
<1>2. RecordOK(k)'
  <2>1. commits[k].kind \in Made =>
          commits[k].result \in 1 .. Newest /\ bundles'[commits[k].result] = bundles[commits[k].result]
    BY UndoneStep DEF Store, Grows
  <2>2. Newest' \in Nat /\ Newest <= Newest'
    BY DEF Grows
  <2>3. /\ commits[k] \in CommitSet
        /\ commits[k].result \in 1 .. Newest /\ commits[k].stamp \in 1 .. Newest
        /\ commits[k].kind \in {"undo", "refresh"} => commits[k].kind = commits[k].request.op.type
        /\ commits[k].kind = "mutation" =>
             commits[k].request.op.type \in {"select", "edit", "dismiss"}
        /\ commits[k].kind \in Made =>
             /\ commits[k].result \in 2 .. Newest
             /\ bundles[commits[k].result].key = k
             /\ commits[k].stamp = commits[k].result - 1
    BY <1>1 DEF RecordOK
  <2>4. commits[k].kind \in Made =>
          /\ commits[k].result \in 2 .. Newest'
          /\ bundles'[commits[k].result].key = k
          /\ commits[k].stamp = commits[k].result - 1
    BY <1>1, <2>1, <2>2, <2>3
  <2>5. commits[k].result \in 1 .. Newest' /\ commits[k].stamp \in 1 .. Newest'
    BY <1>1, <2>2, <2>3
  <2> QED
    BY <1>1, <2>3, <2>4, <2>5 DEF RecordOK
<1>3. UndoExact(k)'
  <2> SUFFICES ASSUME commits'[k].kind = "undo" PROVE UndoExact(k)'
    BY Zenon DEF UndoExact
  <2> DEFINE undone == commits[k].result
             of == commits[k].request.op.of
             step == commits[of].result
  <2>1. /\ of \in Keys /\ commits[of].kind \in {"mutation", "undo"}
        /\ Owned(bundles[undone]) = Owned(bundles[step - 1])
        /\ Data(bundles[undone]) = Data(bundles[undone - 1])
        /\ RefreshesOnly(step, undone - 1)
    BY <1>1 DEF Store, Undos, UndoExact
  <2>2. undone \in 1 .. Newest /\ undone - 1 \in 1 .. Newest
    BY <1>1, UndoneStep DEF Store, Made
  <2>3. Taken(of) /\ step \in 1 .. Newest /\ step - 1 \in 1 .. Newest
    BY Zenon, <2>1, UndoneStep DEF Store, Made
  <2>4. commits'[of] = commits[of]
    BY ZenonT(60), <2>1, <2>3 DEF Grows
  <2>5. /\ bundles'[undone] = bundles[undone] /\ bundles'[step - 1] = bundles[step - 1]
        /\ bundles'[undone - 1] = bundles[undone - 1]
    BY <2>2, <2>3 DEF Grows
  <2>6. PICK s \in Nat, u \in 1 .. Newest : s = step /\ u = undone - 1 /\ 1 <= s
    BY SMTT(30), <1>1, <2>2, <2>3
  <2>7. RefreshesOnly(s, u)'
    BY <2>1, <2>6, RefreshesOnlyStays DEF Store
  <2>8. RefreshesOnly(commits[of].result, commits[k].result - 1)'
    BY <1>1, <2>4, <2>6, <2>7 DEF RefreshesOnly
  <2>9. /\ Owned(bundles'[undone]) = Owned(bundles'[step - 1])
        /\ Data(bundles'[undone]) = Data(bundles'[undone - 1])
    BY Zenon, <2>1, <2>5
  <2> QED
    BY ZenonT(60), <1>1, <2>1, <2>4, <2>8, <2>9 DEF UndoExact, Owned, Data
<1> QED
  BY <1>2, <1>3

\* ... of every revision,
LEMMA OldRevision ==
    ASSUME Store, Grows, NEW j \in 1 .. Newest
    PROVE  BundleOK(j)' /\ (2 <= j => RevisionOK(j)')
<1>1. bundles'[j] = bundles[j] /\ Newest \in Nat
  BY DEF Grows, Store, StoreTypes
<1>2. BundleOK(j)'
  <2>1. BundleOK(j)
    BY DEF Store, Chain
  <2> QED
    BY <1>1, <2>1 DEF BundleOK, Consistent
<1>3. ASSUME 2 <= j PROVE RevisionOK(j)'
  <2>1. j \in 2 .. Newest /\ j - 1 \in 1 .. Newest
    BY <1>1, <1>3
  <2>2. RevisionOK(j) /\ bundles'[j - 1] = bundles[j - 1]
    BY <2>1 DEF Store, History, Grows
  <2>3. commits'[bundles[j].key] = commits[bundles[j].key]
    BY <2>2 DEF RevisionOK, KindOf, Made, Taken, Grows
  <2> QED
    BY <1>1, <2>2, <2>3 DEF RevisionOK, StepOK, KindOf, OpOf, Data, Owned
<1> QED
  BY <1>2, <1>3

\* ... and of every pair of revisions.
LEMMA OldTrip ==
    ASSUME Store, Grows, NEW l \in 1 .. Newest, NEW j \in 1 .. Newest
    PROVE  TripStays(l, j)'
<1>1. TripStays(l, j) /\ bundles'[l] = bundles[l] /\ bundles'[j] = bundles[j]
  BY DEF Store, Trip, Grows
<1>2. l \in Nat /\ 1 <= l
  BY DEF Store, StoreTypes
<1>3. RefreshesOnly(l, j)' <=> RefreshesOnly(l, j)
  BY <1>2, RefreshesOnlyStays DEF Store
<1> QED
  BY <1>1, <1>3 DEF TripStays, Owned

\* What a transaction writes under a key.
NewRecord(i, kind, result) ==
    [request |-> calls[i].request, kind |-> kind, result |-> result,
     stamp |-> calls[i].stamp]

\* One record is new and the others are as they were.
LEMMA RecordWritten ==
    ASSUME RevisionsInvariant, NEW i \in Calls, NEW kind \in Made \union {"receipt"},
           NEW result \in Nat, Record(i, kind, result), ~Taken(calls[i].key)
    PROVE  /\ calls[i].key \in Keys
           /\ commits' \in [Keys -> CommitSet \union {NoCommit}]
           /\ commits'[calls[i].key] = NewRecord(i, kind, result)
           /\ commits'[calls[i].key] \in CommitSet
           /\ commits'[calls[i].key].request = calls[i].request
           /\ commits'[calls[i].key].kind = kind
           /\ commits'[calls[i].key].result = result
           /\ commits'[calls[i].key].stamp = calls[i].stamp
           /\ \A k \in Keys \ {calls[i].key} : commits'[k] = commits[k]
           /\ \A k \in Keys : Taken(k) => k # calls[i].key /\ commits'[k] = commits[k]
<1>1. calls[i] \in CallSet
  BY CallAt DEF RevisionsInvariant
<1>2. calls[i].key \in Keys /\ calls[i].request \in Requests /\ calls[i].stamp \in Nat
  BY <1>1, CallFields
<1>3. commits \in [Keys -> CommitSet \union {NoCommit}]
  BY DEF RevisionsInvariant, Store, StoreTypes
<1> DEFINE r == NewRecord(i, kind, result)
<1>4. /\ r \in CommitSet /\ r.request = calls[i].request /\ r.kind = kind
      /\ r.result = result /\ r.stamp = calls[i].stamp
  BY <1>2 DEF NewRecord, CommitSet
<1>5. commits' = [commits EXCEPT ![calls[i].key] = r]
  BY DEF Record, NewRecord
<1> HIDE DEF r
<1>6. /\ commits' \in [Keys -> CommitSet \union {NoCommit}]
      /\ commits'[calls[i].key] = r
      /\ \A k \in Keys \ {calls[i].key} : commits'[k] = commits[k]
  BY <1>2, <1>3, <1>4, <1>5
<1> QED
  BY <1>2, <1>4, <1>6 DEF r

\* record_noop_receipt writes a receipt and no revision.
LEMMA ReceiptStep ==
    ASSUME RevisionsInvariant, NEW i \in Calls, calls[i].pc = "record", ~Taken(calls[i].key),
           IsCurrent(calls[i].request.base),
           Record(i, "receipt", Newest), Answers(i, Newest, "no_op"),
           UNCHANGED <<bundles, stale>>
    PROVE  RevisionsInvariant'
<1>0. PICK key : key = calls[i].key
  OBVIOUS
<1>1. calls[i] \in CallSet /\ CallOK(calls[i]) /\ Store /\ CallsOK
  BY CallAt DEF RevisionsInvariant
<1>2. Newest \in Nat /\ 1 <= Newest /\ Newest' = Newest
  BY <1>1 DEF Store, StoreTypes, Newest
<1>3. /\ key \in Keys /\ commits' \in [Keys -> CommitSet \union {NoCommit}]
      /\ commits'[key] \in CommitSet /\ commits'[key].request = calls[i].request
      /\ commits'[key].kind = "receipt" /\ commits'[key].result = Newest
      /\ commits'[key].stamp = calls[i].stamp
      /\ \A k \in Keys \ {key} : commits'[k] = commits[k]
      /\ \A k \in Keys : Taken(k) => k # key /\ commits'[k] = commits[k]
  BY <1>0, <1>2, RecordWritten
<1>4. Grows
  BY <1>2, <1>3 DEF Grows
<1>5. calls[i].stamp \in 1 .. Newest
  BY <1>1, <1>2 DEF CallOK, CallRanges
<1>6. ASSUME NEW k \in Keys
      PROVE  RecordOK(k)' /\ UndoExact(k)'
  <2>1. CASE Taken(k)
    BY <1>1, <1>4, <2>1, OldRecord
  <2>2. CASE k = key
    <3>1. RecordOK(key)'
      BY <1>2, <1>3, <1>5 DEF RecordOK, Made
    <3>2. UndoExact(key)'
      BY <1>3 DEF UndoExact
    <3> QED
      BY <2>2, <3>1, <3>2
  <2>3. CASE ~Taken(k) /\ k # key
    <3>1. commits'[k] = commits[k] /\ commits[k].kind = "none"
      BY <1>3, <2>3 DEF Taken
    <3> QED
      BY <3>1 DEF RecordOK, UndoExact, Taken
  <2> QED
    BY <2>1, <2>2, <2>3
<1>7. Store'
  <2>1. StoreTypes'
    BY <1>1, <1>2, <1>3 DEF Store, StoreTypes
  <2>2. Chain' /\ History'
    <3>1. \A j \in 2 .. Newest : j \in 1 .. Newest /\ 2 <= j
      BY <1>2
    <3> QED
      BY <1>1, <1>2, <1>4, <3>1, OldRevision DEF Chain, History
  <2>3. Trip'
    BY <1>1, <1>2, <1>4, OldTrip DEF Trip
  <2> QED
    BY <1>6, <2>1, <2>2, <2>3 DEF Store, Records, Undos
<1>8. PICK c \in CallSet : c = calls[i] /\ CallOK(c)
  BY <1>1
<1>9. PICK d : IsAnswer(d, c, Newest, "no_op")
  BY DEF IsAnswer
<1>10. "no_op" \in Outcomes /\ Newest \in Nat
  BY <1>2 DEF Outcomes
<1>11. /\ d \in CallSet /\ d.pc = "done" /\ d.key = c.key /\ d.request = c.request
       /\ d.stamp = c.stamp /\ d.result = Newest /\ d.outcome = "no_op"
  BY <1>9, <1>10, AnsweredCall
<1>12. calls' = [calls EXCEPT ![i] = d]
  BY <1>8, <1>9 DEF Answers, IsAnswer
<1>13. CallOK(d)'
  <2>1. CallOK(c)'
    BY <1>1, <1>4, <1>8, CallStays
  <2>2. CallRanges(d)'
    BY <1>2, <1>11, <2>1 DEF CallOK, CallRanges
  <2>3. CallAnswered(d)'
    BY <1>0, <1>3, <1>8, <1>11 DEF CallAnswered, Taken
  <2>4. UndoReady(d)' /\ CallSound(d)' /\ NeverInvalid(d)'
    BY <1>11 DEF UndoReady, CallSound, NeverInvalid
  <2> QED
    BY <2>2, <2>3, <2>4 DEF CallOK
<1>14. CallsOK'
  BY <1>1, <1>4, <1>11, <1>12, <1>13, OneCallMoves
<1> QED
  BY <1>7, <1>14 DEF RevisionsInvariant

\* record_noop_receipt, with its replay and its conflict.
LEMMA RecordNoopStep ==
    ASSUME RevisionsInvariant, NEW i \in Calls, RecordNoop(i)
    PROVE  RevisionsInvariant'
<1>1. calls[i].pc = "record" /\ UNCHANGED stale
  BY DEF RecordNoop, At
<1>2. CASE Replayed(i, "no_op")
  BY <1>1, <1>2, AnswersRecord, AnswersNothing DEF Replayed
<1>3. CASE Overtaken(i)
  BY <1>1, <1>3, AnswersNothing DEF Overtaken
<1> QED
  BY <1>1, <1>2, <1>3, ReceiptStep DEF RecordNoop

\* The trip and the data, part by part.
LEMMA OwnedParts ==
    ASSUME NEW x, NEW y, Owned(x) = Owned(y)
    PROVE  /\ x.workspace.slot = y.workspace.slot /\ x.workspace.note = y.workspace.note
           /\ x.workspace.decided = y.workspace.decided
BY DEF Owned

\* The step an undo takes back changed only what its inverse restores, and whatever
\* came after it were refreshes.
LEMMA ComputedUndo ==
    ASSUME Store, NEW c \in CallSet, CallOK(c), c.pc = "commit", c.request.op.type = "undo"
    PROVE  LET next == Computed(c)
               b == bundles[c.request.base]
               step == commits[c.request.op.of].result
           IN  /\ next \in BundleSet
               /\ next.workspace.revision = b.workspace.revision + 1
               /\ Owned(next) = Owned(bundles[step - 1]) /\ Data(next) = Data(b)
<1> DEFINE base == c.request.base
           b == bundles[base]
           k == c.request.op.of
           step == commits[k].result
           op == commits[k].request.op
           s == bundles[step]
           before == bundles[step - 1]
           next == Computed(c)
<1>1. /\ base \in 1 .. Newest /\ k \in Keys /\ Newest \in Nat
      /\ commits[k].kind \in {"mutation", "undo"} /\ RefreshesOnly(step, base)
      /\ InverseApplies(b.workspace, op, s.workspace.revision)
  BY Zenon, CallFields, RequestFields, OperationFields
  DEF CallOK, CallRanges, UndoReady, CallSound, InverseHolds, Store, StoreTypes
<1>2. /\ step \in 2 .. Newest /\ step \in 1 .. Newest /\ step - 1 \in 1 .. Newest
      /\ s.key = k /\ commits[k] \in CommitSet
  BY Zenon, <1>1, UndoneStep DEF Store, Made
<1>3. b \in BundleSet /\ s \in BundleSet /\ before \in BundleSet /\ op \in Operations
  BY Zenon, <1>1, <1>2, BundleAt, CommitFields, RequestFields DEF Store
<1>4. b.workspace.revision = base - 1 /\ s.workspace.revision = step - 1 /\ s.base = step - 1
  BY Zenon, <1>1, <1>2 DEF Store, Chain, BundleOK
<1>5. step <= base /\ (op.type \notin {"select", "edit"} => step = base)
  <2>1. InverseType(op) # "snapshot" => op.type \in {"select", "edit"}
    BY SMTT(30) DEF InverseType
  <2>2. \/ base - 1 = step - 1
        \/ base - 1 > step - 1 /\ InverseType(op) # "snapshot"
    BY <1>1, <1>4 DEF InverseApplies
  <2> HIDE DEF step, op
  <2> QED
    BY <1>1, <1>2, <2>1, <2>2
<1>6. Owned(b) = Owned(s)
  BY Zenon, <1>1, <1>2, <1>5 DEF Store, Trip, TripStays
<1>7. KindOf(step) = commits[k].kind /\ OpOf(step) = op
  BY <1>2 DEF KindOf, OpOf
<1>8. Data(s) = Data(before)
      /\ (commits[k].kind = "mutation" /\ op.type = "select" =>
            s.workspace.note = before.workspace.note /\ s.workspace.decided = before.workspace.decided)
      /\ (commits[k].kind = "mutation" /\ op.type = "edit" =>
            s.workspace.slot = before.workspace.slot /\ s.workspace.decided = before.workspace.decided)
  <2>1. StepOK(step)
    BY <1>2 DEF Store, History, RevisionOK
  <2> QED
    BY Zenon, <1>1, <1>7, <2>1 DEF StepOK
<1>9. op.type \in {"select", "edit"} => commits[k].kind = "mutation"
  <2>1. commits[k].kind = "undo" => op.type = "undo"
    BY Zenon, <1>1, UndoneStep DEF Store, Records, RecordOK, Taken
  <2> QED
    BY Zenon, <1>1, <2>1
<1>10. next = WithWorkspace(b, Undone(b.workspace, op, before.workspace))
  BY <1>4 DEF Computed
<1> DEFINE w == WithWorkspace(b, Undone(b.workspace, op, before.workspace))
<1>11. /\ w \in BundleSet /\ w.workspace.revision = b.workspace.revision + 1
       /\ op.type = "select" =>
            /\ b.workspace.note = before.workspace.note
               /\ b.workspace.decided = before.workspace.decided => Owned(w) = Owned(before)
            /\ Data(w) = Data(b)
       /\ op.type = "edit" =>
            /\ b.workspace.slot = before.workspace.slot
               /\ b.workspace.decided = before.workspace.decided => Owned(w) = Owned(before)
            /\ Data(w) = Data(b)
       /\ op.type \notin {"select", "edit"} =>
            /\ Owned(w) = Owned(before)
            /\ Data(before) = Data(b) => Data(w) = Data(b)
  <2> HIDE DEF b, before, op
  <2> QED
    BY <1>3, UndoneBundle
<1>12. /\ b.workspace.slot = s.workspace.slot /\ b.workspace.note = s.workspace.note
       /\ b.workspace.decided = s.workspace.decided
  BY <1>6, OwnedParts
<1>13. op.type \notin {"select", "edit"} => b = s
  BY <1>5
<1> HIDE DEF w
<1>14. Owned(w) = Owned(before) /\ Data(w) = Data(b)
  <2>1. CASE op.type = "select"
    BY Zenon, <1>8, <1>9, <1>11, <1>12, <2>1
  <2>2. CASE op.type = "edit"
    BY Zenon, <1>8, <1>9, <1>11, <1>12, <2>2
  <2>3. CASE op.type \notin {"select", "edit"}
    BY Zenon, <1>8, <1>11, <1>13, <2>3
  <2> QED
    BY <2>1, <2>2, <2>3
<1> QED
  BY Zenon, <1>10, <1>11, <1>14 DEF w

\* What a call that is about to commit makes of the Bundle it read.
LEMMA ComputedBundle ==
    ASSUME Store, NEW c \in CallSet, CallOK(c), c.pc = "commit"
    PROVE  LET next == Computed(c)
               op == c.request.op
               b == bundles[c.request.base]
           IN  /\ next \in BundleSet /\ Consistent(next)
               /\ next.workspace.revision = b.workspace.revision + 1
               /\ op.type = "refresh" => Owned(next) = Owned(b)
               /\ op.type # "refresh" => Data(next) = Data(b)
               /\ op.type = "select" =>
                    /\ next.workspace.note = b.workspace.note
                    /\ next.workspace.decided = b.workspace.decided
               /\ op.type = "edit" =>
                    /\ next.workspace.slot = b.workspace.slot
                    /\ next.workspace.decided = b.workspace.decided
<1> DEFINE op == c.request.op
           b == bundles[c.request.base]
<1>1. Consistent(Computed(c)) /\ c.request.base \in 1 .. Newest /\ op \in Operations
      /\ c.condition \in Conditions
  BY CallFields, RequestFields DEF CallOK, CallSound, CallRanges
<1>2. b \in BundleSet
  BY <1>1, BundleAt DEF Store
<1>3. CASE op.type = "refresh"
  <2>1. Computed(c) = Refreshed(b, c.condition)
    BY <1>3 DEF Computed
  <2> HIDE DEF b
  <2>2. /\ Refreshed(b, c.condition) \in BundleSet
        /\ Refreshed(b, c.condition).workspace.revision = b.workspace.revision + 1
        /\ Owned(Refreshed(b, c.condition)) = Owned(b)
    BY <1>1, <1>2, RefreshedBundle
  <2> QED
    BY <1>1, <1>3, <2>1, <2>2 DEF b
<1>4. CASE op.type = "undo"
  BY <1>1, <1>4, ComputedUndo
<1>5. CASE op.type \notin {"refresh", "undo"}
  <2> DEFINE next == WithWorkspace(b, Mutated(b, op))
  <2>1. Computed(c) = next
    BY <1>5 DEF Computed
  <2>2. /\ next \in BundleSet
        /\ next.workspace.revision = b.workspace.revision + 1
        /\ Data(next) = Data(b)
        /\ op.type = "select" => /\ next.workspace.note = b.workspace.note
                                 /\ next.workspace.decided = b.workspace.decided
        /\ op.type = "edit" => /\ next.workspace.slot = b.workspace.slot
                               /\ next.workspace.decided = b.workspace.decided
    <3> HIDE DEF b, op
    <3> QED
      BY <1>1, <1>2, MutatedBundle
  <2> HIDE DEF next
  <2> QED
    BY SMTT(30), <1>1, <1>5, <2>1, <2>2
<1> QED
  BY <1>3, <1>4, <1>5

\* The Bundle that is written: what was computed, under its parent and its key.
IsWritten(next, x, base, key) == next = [x EXCEPT !.base = base, !.key = key]

\* What holds of the Bundle that was computed holds of the one that is written.
LEMMA WrittenBundle ==
    ASSUME NEW x \in BundleSet, NEW base \in Nat, NEW key \in Keys, NEW next,
           IsWritten(next, x, base, key)
    PROVE  /\ next \in BundleSet /\ next.base = base /\ next.key = key
           /\ next.workspace = x.workspace /\ next.condition = x.condition
           /\ next.impacts = x.impacts /\ next.data = x.data
           /\ Owned(next) = Owned(x) /\ Data(next) = Data(x)
           /\ Consistent(x) => Consistent(next)
<1> DEFINE y == [x EXCEPT !.base = base]
           z == [y EXCEPT !.key = key]
<1>1. /\ y \in BundleSet /\ y.base = base /\ y.workspace = x.workspace
      /\ y.condition = x.condition /\ y.impacts = x.impacts /\ y.data = x.data
  BY DEF BundleSet
<1> HIDE DEF y
<1>2. /\ z \in BundleSet /\ z.base = base /\ z.key = key /\ z.workspace = x.workspace
      /\ z.condition = x.condition /\ z.impacts = x.impacts /\ z.data = x.data
  BY <1>1 DEF BundleSet
<1>3. next = z
  BY DEF y, z, IsWritten
<1> HIDE DEF z
<1>4. Owned(z) = Owned(x) /\ Data(z) = Data(x) /\ (Consistent(x) => Consistent(z))
  BY <1>2 DEF Owned, Data, Consistent
<1> QED
  BY <1>2, <1>3, <1>4

\* commit writes the next revision and its record.
LEMMA NewRevisionStep ==
    ASSUME RevisionsInvariant, NEW i \in Calls, calls[i].pc = "commit", ~Taken(calls[i].key),
           IsCurrent(calls[i].request.base),
           bundles' = Append(bundles, [Computed(calls[i]) EXCEPT !.base = calls[i].request.base,
                                                                 !.key = calls[i].key]),
           Record(i, CommitKind(calls[i].request.op), Newest + 1),
           Answers(i, Newest + 1, "committed"), UNCHANGED stale
    PROVE  RevisionsInvariant'
<1>1. calls[i] \in CallSet /\ CallOK(calls[i]) /\ Store /\ CallsOK
  BY CallAt DEF RevisionsInvariant
<1>2. PICK c \in CallSet : c = calls[i] /\ CallOK(c)
  BY <1>1
<1>3. PICK N \in Nat : N = Newest + 1 /\ Newest = N - 1 /\ 2 <= N
  BY <1>1 DEF Store, StoreTypes
<1>4. PICK kind \in Made : kind = CommitKind(c.request.op)
  BY DEF CommitKind, Made
<1>5. /\ c.key \in Keys /\ c.request.op \in Operations /\ c.request.base = N - 1
      /\ c.stamp = N - 1 /\ N - 1 \in 1 .. Newest /\ c.pc = "commit"
  BY <1>2, <1>3, CallFields, RequestFields DEF IsCurrent, CallOK, CallRanges
<1>6. /\ commits' \in [Keys -> CommitSet \union {NoCommit}]
      /\ commits'[c.key] \in CommitSet /\ commits'[c.key].request = c.request
      /\ commits'[c.key].kind = kind /\ commits'[c.key].result = N
      /\ commits'[c.key].stamp = N - 1
      /\ \A k \in Keys \ {c.key} : commits'[k] = commits[k]
      /\ \A k \in Keys : Taken(k) => k # c.key /\ commits'[k] = commits[k]
  <2>1. Record(i, kind, N) /\ kind \in Made \union {"receipt"}
    BY <1>2, <1>3, <1>4
  <2> QED
    BY <1>2, <1>5, <2>1, RecordWritten
<1>7. PICK b \in BundleSet : b = bundles[N - 1]
  BY <1>1, <1>5, BundleAt DEF Store
<1>8. PICK x \in BundleSet : x = Computed(c)
  BY <1>1, <1>2, <1>5, ComputedBundle
<1>9. /\ Consistent(x) /\ x.workspace.revision = b.workspace.revision + 1
      /\ c.request.op.type = "refresh" => Owned(x) = Owned(b)
      /\ c.request.op.type # "refresh" => Data(x) = Data(b)
      /\ c.request.op.type = "select" => /\ x.workspace.note = b.workspace.note
                                         /\ x.workspace.decided = b.workspace.decided
      /\ c.request.op.type = "edit" => /\ x.workspace.slot = b.workspace.slot
                                       /\ x.workspace.decided = b.workspace.decided
  BY <1>1, <1>2, <1>5, <1>7, <1>8, ComputedBundle
<1>10. PICK n : IsWritten(n, x, N - 1, c.key)
  BY DEF IsWritten
<1>11. /\ n \in BundleSet /\ n.base = N - 1 /\ n.key = c.key /\ n.workspace = x.workspace
       /\ Owned(n) = Owned(x) /\ Data(n) = Data(x) /\ Consistent(n)
  <2>1. N - 1 \in Nat
    BY <1>3
  <2> QED
    BY <1>5, <1>9, <1>10, <2>1, WrittenBundle
<1>12. bundles' = Append(bundles, n)
  BY <1>2, <1>5, <1>8, <1>10 DEF IsWritten
<1>13. /\ bundles' \in Seq(BundleSet) /\ Newest' = N
       /\ \A j \in 1 .. Newest : bundles'[j] = bundles[j]
       /\ bundles'[N] = n /\ bundles'[N - 1] = b
  <2>1. bundles \in Seq(BundleSet)
    BY <1>1 DEF Store, StoreTypes
  <2>2. /\ bundles' \in Seq(BundleSet) /\ Len(bundles') = Len(bundles) + 1
        /\ \A j \in 1 .. Len(bundles) : bundles'[j] = bundles[j]
        /\ bundles'[Len(bundles) + 1] = n
    BY <1>11, <1>12, <2>1, AppendProperties
  <2> QED
    BY <1>3, <1>5, <1>7, <2>2 DEF Newest
<1>14. Grows
  <2>1. Newest <= N /\ N \in Nat
    BY <1>3
  <2>2. Newest' = N /\ \A j \in 1 .. Newest : bundles'[j] = bundles[j]
    BY <1>13
  <2>3. \A k \in Keys : Taken(k) => commits'[k] = commits[k]
    BY <1>6
  <2> QED
    BY <2>1, <2>2, <2>3 DEF Grows
<1>15. \A j \in 1 .. N : j = N \/ j \in 1 .. Newest
  BY <1>3
<1>16. StoreTypes'
  BY <1>1, <1>3, <1>6, <1>13 DEF Store, StoreTypes
<1>17. b.workspace.revision = N - 2
  BY <1>1, <1>3, <1>5, <1>7 DEF Store, Chain, BundleOK
<1>18. BundleOK(N)'
  <2>1. n.workspace.revision = N - 1 /\ n.base = N - 1
    <3>1. n.base = N - 1
      BY <1>11
    <3>2. n.workspace.revision = b.workspace.revision + 1
      BY <1>9, <1>11
    <3>3. n.workspace.revision = (N - 2) + 1
      BY <1>17, <3>2
    <3>4. (N - 2) + 1 = N - 1
      BY <1>3
    <3> QED
      BY Zenon, <3>1, <3>3, <3>4
  <2>2. Consistent(n)'
    BY <1>11 DEF Consistent
  <2> QED
    BY <1>13, <2>1, <2>2 DEF BundleOK
<1>19. /\ kind = "refresh" <=> c.request.op.type = "refresh"
       /\ kind = "undo" <=> c.request.op.type = "undo"
       /\ kind = "mutation" => c.request.op.type \in {"select", "edit", "dismiss"}
  BY <1>4, <1>5, OperationFields DEF CommitKind
<1>20. KindOf(N)' = kind /\ OpOf(N)' = c.request.op
  BY <1>6, <1>11, <1>13 DEF KindOf, OpOf
<1>21. StepOK(N)'
  <2>1. kind \in {"mutation", "undo"} => Data(n) = Data(b)
    BY <1>9, <1>11, <1>19
  <2>2. kind = "refresh" => Owned(n) = Owned(b)
    BY <1>9, <1>11, <1>19
  <2>3. c.request.op.type = "select" => /\ n.workspace.note = b.workspace.note
                                        /\ n.workspace.decided = b.workspace.decided
    BY <1>9, <1>11
  <2>4. c.request.op.type = "edit" => /\ n.workspace.slot = b.workspace.slot
                                      /\ n.workspace.decided = b.workspace.decided
    BY <1>9, <1>11
  <2> QED
    BY <1>13, <1>20, <2>1, <2>2, <2>3, <2>4 DEF StepOK, Data, Owned
<1>22. RevisionOK(N)'
  BY <1>5, <1>6, <1>11, <1>13, <1>20, <1>21 DEF RevisionOK
<1>23. RecordOK(c.key)'
  <2>1. N \in 1 .. N /\ N \in 2 .. N /\ N - 1 \in 1 .. N
    BY <1>3
  <2>2. Newest' = N /\ bundles'[N].key = c.key
    BY <1>11, <1>13
  <2>3. /\ commits'[c.key] \in CommitSet /\ commits'[c.key].request = c.request
        /\ commits'[c.key].kind = kind /\ commits'[c.key].result = N
        /\ commits'[c.key].stamp = N - 1
    BY <1>6
  <2> QED
    BY <1>19, <2>1, <2>2, <2>3 DEF RecordOK
<1>24. UndoExact(c.key)'
  <2> SUFFICES ASSUME kind = "undo" PROVE UndoExact(c.key)'
    BY Zenon, <1>6 DEF UndoExact
  <2>1. PICK of \in Keys : of = c.request.op.of
    BY <1>5, <1>19, OperationFields
  <2>2. commits[of].kind \in {"mutation", "undo"} /\ RefreshesOnly(commits[of].result, N - 1)
    BY <1>2, <1>5, <1>19, <2>1 DEF CallOK, UndoReady
  <2>3. PICK s \in 1 .. Newest : s = commits[of].result /\ s - 1 \in 1 .. Newest
    BY <1>1, <2>2, UndoneStep DEF Store, Made
  <2>4. commits'[of] = commits[of]
    BY SMTT(30), <1>1, <1>6, <2>2, UndoneStep DEF Store, Made
  <2>5. Owned(n) = Owned(bundles[s - 1])
    BY ZenonT(60), <1>1, <1>2, <1>5, <1>8, <1>11, <1>19, <2>1, <2>3, ComputedUndo
  <2>6. Data(n) = Data(b)
    BY <1>9, <1>11, <1>19
  <2>7. bundles'[s - 1] = bundles[s - 1]
    BY <1>13, <2>3
  <2>8. RefreshesOnly(s, N - 1)'
    <3>1. s \in Nat /\ 1 <= s
      BY <1>3, <2>3
    <3>2. RefreshesOnly(s, N - 1)
      BY <2>2, <2>3
    <3> QED
      BY <1>1, <1>5, <1>14, <3>1, <3>2, RefreshesOnlyStays DEF Store
  <2>9. /\ commits'[c.key].result = N /\ commits'[c.key].request.op.of = of
        /\ commits'[of].result = s
    BY <1>6, <2>1, <2>3, <2>4
  <2>10. RefreshesOnly(commits[of].result, commits[c.key].result - 1)'
    BY <2>8, <2>9 DEF RefreshesOnly
  <2> QED
    BY Zenon, <1>13, <2>2, <2>4, <2>5, <2>6, <2>7, <2>9, <2>10 DEF UndoExact, Owned, Data
<1>25. ASSUME NEW k \in Keys
       PROVE  RecordOK(k)' /\ UndoExact(k)'
  <2>1. CASE Taken(k)
    BY <1>1, <1>14, <2>1, OldRecord
  <2>2. CASE k = c.key
    BY <1>23, <1>24, <2>2
  <2>3. CASE ~Taken(k) /\ k # c.key
    <3>1. commits'[k] = commits[k] /\ commits[k].kind = "none"
      BY <1>6, <2>3 DEF Taken
    <3> QED
      BY <3>1 DEF RecordOK, UndoExact, Taken
  <2> QED
    BY <2>1, <2>2, <2>3
<1>26. ASSUME NEW l \in 1 .. N, NEW j \in 1 .. N
       PROVE  TripStays(l, j)'
  <2>1. CASE l \in 1 .. Newest /\ j \in 1 .. Newest
    BY <1>1, <1>14, <2>1, OldTrip
  <2>2. CASE l = j
    BY <2>2 DEF TripStays, Owned
  <2>3. CASE l = N /\ j \in 1 .. Newest
    BY <1>3, <2>3 DEF TripStays
  <2>4. CASE l \in 1 .. Newest /\ j = N
    <3> SUFFICES ASSUME RefreshesOnly(l, N)'
                 PROVE  Owned(bundles'[N]) = Owned(bundles'[l])
      BY <2>4 DEF TripStays, Owned
    <3>1. KindOf(N)' = "refresh"
      BY <1>3, <2>4 DEF RefreshesOnly
    <3>2. Owned(n) = Owned(b)
      BY <1>9, <1>11, <1>19, <1>20, <3>1
    <3>3. RefreshesOnly(l, N - 1)'
      BY <1>3, <2>4 DEF RefreshesOnly
    <3>4. RefreshesOnly(l, N - 1)
      BY <1>1, <1>3, <1>5, <1>14, <2>4, <3>3, RefreshesOnlyStays DEF Store
    <3>5. Owned(bundles[N - 1]) = Owned(bundles[l])
      BY <1>1, <1>3, <1>5, <2>4, <3>4 DEF Store, Trip, TripStays
    <3>6. Owned(n) = Owned(bundles[l])
      BY <1>7, <3>2, <3>5
    <3> QED
      BY <1>13, <2>4, <3>6
  <2> QED
    BY <1>15, <2>1, <2>2, <2>3, <2>4
<1>27. Chain' /\ History' /\ Trip'
  <2>1. Chain'
    BY <1>1, <1>13, <1>14, <1>15, <1>18, OldRevision DEF Chain
  <2>2. \A j \in 2 .. N : j \in 1 .. N /\ 2 <= j
    BY <1>3
  <2>3. History'
    BY <1>1, <1>13, <1>14, <1>15, <1>22, <2>2, OldRevision DEF History
  <2>4. Trip'
    BY <1>13, <1>26 DEF Trip
  <2> QED
    BY <2>1, <2>3, <2>4
<1>28. Store'
  BY <1>16, <1>25, <1>27 DEF Store, Records, Undos
<1>29. PICK d : IsAnswer(d, c, N, "committed")
  BY DEF IsAnswer
<1>30. "committed" \in Outcomes
  BY DEF Outcomes
<1>31. /\ d \in CallSet /\ d.pc = "done" /\ d.key = c.key /\ d.request = c.request
       /\ d.stamp = c.stamp /\ d.result = N /\ d.outcome = "committed"
  BY <1>29, <1>30, AnsweredCall
<1>32. calls' = [calls EXCEPT ![i] = d]
  BY <1>2, <1>3, <1>29 DEF Answers, IsAnswer
<1>33. CallOK(d)'
  <2>1. CallOK(c)'
    BY <1>1, <1>2, <1>14, CallStays
  <2>2. CallRanges(d)'
    <3>1. CallRanges(c)'
      BY <2>1 DEF CallOK
    <3>2. N \in 0 .. N
      BY <1>3
    <3>3. Newest' = N
      BY <1>13
    <3> QED
      BY <1>31, <3>1, <3>2, <3>3 DEF CallRanges, Taken
  <2>3. CallAnswered(d)'
    BY <1>4, <1>6, <1>31 DEF CallAnswered, Taken, Made
  <2>4. UndoReady(d)' /\ CallSound(d)' /\ NeverInvalid(d)'
    BY <1>31 DEF UndoReady, CallSound, NeverInvalid
  <2> QED
    BY <2>2, <2>3, <2>4 DEF CallOK
<1>34. CallsOK'
  BY <1>1, <1>14, <1>31, <1>32, <1>33, OneCallMoves
<1> QED
  BY <1>28, <1>34 DEF RevisionsInvariant

\* commit, with its replay, its conflict and its failure.
LEMMA CommitStep ==
    ASSUME RevisionsInvariant, NEW i \in Calls, Commit(i)
    PROVE  RevisionsInvariant'
<1>1. calls[i].pc = "commit" /\ UNCHANGED stale
  BY DEF Commit, At
<1>2. Outcome(commits[calls[i].key]) \in {"committed", "no_op"}
  BY DEF Outcome
<1>3. CASE Replayed(i, Outcome(commits[calls[i].key]))
  BY <1>1, <1>2, <1>3, AnswersRecord, AnswersNothing DEF Replayed
<1>4. CASE Overtaken(i)
  BY <1>1, <1>4, AnswersNothing DEF Overtaken
<1>5. CASE Answers(i, 0, "failed") /\ UNCHANGED <<bundles, commits>>
  BY <1>1, <1>5, AnswersNothing
<1> QED
  BY Zenon, <1>1, <1>3, <1>4, <1>5, NewRevisionStep DEF Commit

-----------------------------------------------------------------------------
(* The invariant holds.                                                    *)

\* The delivered Bundle.
LEMMA FirstBundleOK ==
    /\ FirstBundle \in BundleSet /\ FirstBundle.base = 0
    /\ FirstBundle.workspace.revision = 0 /\ Consistent(FirstBundle)
<1> USE RevisionsAssumption DEF RevisionsAssumption
<1>1. /\ ImpactsOf(First, Fair) \in SUBSET Impacts
      /\ ImpactsOf(First, Fair) \subseteq AllImpacts(Fair)
      /\ AllImpacts(Fair) \in SUBSET Impacts
      /\ Catalog(Fair) \in [Options -> SUBSET Impacts]
      /\ \A o \in Options : Catalog(Fair)[o] \subseteq AllImpacts(Fair)
  <2>1. ImpactsOf(First, Fair) \subseteq AllImpacts(Fair)
    BY DEF AllImpacts
  <2> QED
    BY <2>1, ImpactSets
<1>2. [candidate |-> First, impacts |-> ImpactsOf(First, Fair)]
        \in [candidate : Options, impacts : SUBSET Impacts]
  BY <1>1
<1>3. /\ FirstWorkspace \in Workspaces /\ FirstWorkspace.revision = 0
      /\ FirstWorkspace.evidence = 0 /\ FirstWorkspace.catalog = Catalog(Fair)
      /\ FirstWorkspace.entry.impacts = ImpactsOf(First, Fair)
  BY <1>1, <1>2 DEF FirstWorkspace, Workspaces
<1>4. /\ FirstBundle \in BundleSet /\ FirstBundle.base = 0 /\ FirstBundle.data = 0
      /\ FirstBundle.workspace = FirstWorkspace /\ FirstBundle.impacts = AllImpacts(Fair)
  BY <1>1, <1>3 DEF FirstBundle, BundleSet
<1> QED
  BY <1>1, <1>3, <1>4 DEF Consistent

\* The invariant holds of a run just delivered,
LEMMA InitRevisions == Init => RevisionsInvariant
<1> SUFFICES ASSUME Init PROVE RevisionsInvariant
  OBVIOUS
<1>1. bundles = <<FirstBundle>> /\ calls = <<>> /\ stale = {}
      /\ commits = [k \in Keys |-> NoCommit]
  BY DEF Init
<1>2. bundles \in Seq(BundleSet) /\ Newest = 1 /\ bundles[1] = FirstBundle
  BY <1>1, FirstBundleOK DEF Newest
<1>3. StoreTypes
  BY <1>1, <1>2 DEF StoreTypes
<1>4. \A k \in Keys : commits[k].kind = "none"
  BY <1>1 DEF NoCommit
<1>5. Records /\ Undos
  BY <1>4 DEF Records, RecordOK, Undos, UndoExact, Taken
<1>6. \A j \in 1 .. Newest : j = 1
  BY <1>2
<1>7. Chain
  <2>1. BundleOK(1)
    BY <1>2, FirstBundleOK DEF BundleOK
  <2> QED
    BY <1>6, <2>1 DEF Chain
<1>8. History
  BY <1>2 DEF History
<1>9. Trip
  BY <1>6 DEF Trip, TripStays
<1>10. CallsOK
  BY <1>1, EmptySeq DEF CallsOK, Calls
<1> QED
  BY <1>3, <1>5, <1>7, <1>8, <1>9, <1>10 DEF RevisionsInvariant, Store

\* ... every step keeps it,
LEMMA RevisionsStep == RevisionsInvariant /\ [Next]_vars => RevisionsInvariant'
<1> SUFFICES ASSUME RevisionsInvariant, [Next]_vars PROVE RevisionsInvariant'
  OBVIOUS
<1>1. CASE UNCHANGED vars
  <2>1. UNCHANGED <<bundles, commits, stale>> /\ calls' = calls
    BY <1>1 DEF vars
  <2>2. Store' /\ Grows
    BY <2>1, StoreStands DEF RevisionsInvariant, Store, StoreTypes
  <2>3. ASSUME NEW l \in Calls
        PROVE  CallOK(calls[l])'
    <3>1. PICK x \in CallSet : x = calls[l] /\ CallOK(x)
      BY CallAt DEF RevisionsInvariant
    <3>2. CallOK(x)'
      BY <2>2, <3>1, CallStays DEF RevisionsInvariant
    <3>3. x = calls'[l]
      BY <2>1, <3>1
    <3> QED
      BY Zenon, <3>2, <3>3
      DEF CallOK, CallRanges, CallAnswered, UndoReady, CallSound, NeverInvalid,
         InverseHolds, Computed
  <2> QED
    BY <2>1, <2>2, <2>3 DEF RevisionsInvariant, CallsOK, Calls
<1>2. ASSUME NEW k \in Keys, NEW r \in [op : Operations, base : 1 .. Newest], Send(k, r)
      PROVE  RevisionsInvariant'
  BY <1>2, SendStep
<1>3. ASSUME NEW i \in Calls,
             \/ Replay(i) \/ ReadUndoHead(i) \/ Current(i) \/ Provider(i) \/ Reread(i)
             \/ Begin(i) \/ Commit(i) \/ RecordNoop(i) \/ Fail(i)
      PROVE  RevisionsInvariant'
  BY <1>3, ReplayStep, ReadUndoHeadStep, CurrentStep, ProviderStep, RereadStep, BeginStep,
     CommitStep, RecordNoopStep, FailStep
<1> QED
  BY <1>1, <1>2, <1>3, AgeStep DEF Next

\* ... and so it always holds.
LEMMA RevisionsInvariantHolds == Spec => []RevisionsInvariant
<1> QED
  BY InitRevisions, RevisionsStep, PTL DEF Spec

-----------------------------------------------------------------------------
(* The theorems.                                                           *)

\* Bundles, commits and requests stay well formed, and every commit is of the kind of its
\* operation, for any clients, options, notes, weather and number of requests.
THEOREM RevisionsTypeCorrect == Spec => []TypeOK
<1>1. RevisionsInvariant => TypeOK
  <2> SUFFICES ASSUME RevisionsInvariant PROVE TypeOK
    OBVIOUS
  <2>1. Store /\ CallsOK /\ Newest \in Nat
    BY DEF RevisionsInvariant, Store, StoreTypes
  <2>2. ASSUME NEW j \in 1 .. Newest
        PROVE  bundles[j] \in [workspace : Workspaces, condition : Conditions,
                               impacts : SUBSET Impacts, data : Nat, base : 0 .. Newest,
                               key : Keys \union {NoKey}]
    <3>1. PICK b \in BundleSet : b = bundles[j]
      BY <2>1, BundleAt DEF Store
    <3>2. b.base = j - 1
      BY <2>1, <3>1 DEF Store, Chain, BundleOK
    <3>3. b.base \in 0 .. Newest
      BY <2>1, <3>2
    <3>4. b \in [workspace : Workspaces, condition : Conditions, impacts : SUBSET Impacts,
                 data : Nat, base : 0 .. Newest, key : Keys \union {NoKey}]
      BY <3>3 DEF BundleSet
    <3> QED
      BY <3>1, <3>4
  <2>3. ASSUME NEW k \in Keys
        PROVE  \/ commits[k].kind = "none"
               \/ /\ commits[k] \in [request : Requests, result : 1 .. Newest,
                                     stamp : 1 .. Newest,
                                     kind : {"mutation", "undo", "refresh", "receipt"}]
                  /\ commits[k].kind \in {"undo", "refresh"} =>
                       commits[k].kind = commits[k].request.op.type
                  /\ commits[k].kind = "mutation" =>
                       commits[k].request.op.type \in {"select", "edit", "dismiss"}
    <3> SUFFICES ASSUME Taken(k)
                 PROVE  commits[k] \in [request : Requests, result : 1 .. Newest,
                                        stamp : 1 .. Newest,
                                        kind : {"mutation", "undo", "refresh", "receipt"}]
      BY <2>1 DEF Store, Records, RecordOK, Taken
    <3>1. PICK r \in CommitSet : r = commits[k]
      BY <2>1 DEF Store, Records, RecordOK
    <3>2. r.result \in 1 .. Newest /\ r.stamp \in 1 .. Newest
      BY <2>1, <3>1 DEF Store, Records, RecordOK
    <3>3. r \in [request : Requests, result : 1 .. Newest, stamp : 1 .. Newest,
                 kind : {"mutation", "undo", "refresh", "receipt"}]
      BY <3>2 DEF CommitSet, Made
    <3> QED
      BY <3>1, <3>3
  <2>4. ASSUME NEW i \in Calls
        PROVE  calls[i] \in [pc : Places, key : Keys, request : Requests,
                             condition : Conditions, stamp : 0 .. Newest,
                             result : 0 .. Newest, outcome : Outcomes]
    <3>1. PICK c \in CallSet : c = calls[i] /\ CallOK(c)
      BY <2>1, CallAt
    <3>2. c.stamp \in 0 .. Newest /\ c.result \in 0 .. Newest
      BY <3>1 DEF CallOK, CallRanges
    <3>3. c \in [pc : Places, key : Keys, request : Requests, condition : Conditions,
                 stamp : 0 .. Newest, result : 0 .. Newest, outcome : Outcomes]
      BY <3>2 DEF CallSet
    <3> QED
      BY <3>1, <3>3
  <2>5. stale \subseteq Nat
    BY <2>1 DEF Store, StoreTypes
  <2> QED
    BY <2>2, <2>3, <2>4, <2>5 DEF TypeOK, Places
<1> QED
  BY <1>1, RevisionsInvariantHolds, PTL

\* Whatever is sent, retried, overtaken or fails, every revision is made from the one
\* before it: no accepted edit is ever written over.
THEOREM NoLastWriteWins == Spec => []LinearHistory
<1>1. RevisionsInvariant => LinearHistory
  BY DEF RevisionsInvariant, Store, Chain, BundleOK, LinearHistory
<1> QED
  BY <1>1, RevisionsInvariantHolds, PTL

\* A key makes one revision at most, and the successful answers to one request under it
\* name the same one, however often and whenever it is sent again.
THEOREM OneAnswerPerRequest == Spec => []OneAnswer
<1>1. RevisionsInvariant => OneAnswer
  <2> SUFFICES ASSUME RevisionsInvariant PROVE OneAnswer
    OBVIOUS
  <2>1. ASSUME NEW j \in 2 .. Newest, NEW l \in 2 .. Newest, bundles[j].key = bundles[l].key
        PROVE  j = l
    <3>1. commits[bundles[j].key].result = j /\ commits[bundles[l].key].result = l
      BY DEF RevisionsInvariant, Store, History, RevisionOK
    <3> QED
      BY <2>1, <3>1
  <2>2. ASSUME NEW i \in Calls, Succeeded(i)
        PROVE  calls[i].result = commits[calls[i].key].result
    BY <2>2, CallAt DEF RevisionsInvariant, CallOK, CallAnswered, Succeeded
  <2> QED
    BY <2>1, <2>2 DEF OneAnswer, Twins
<1> QED
  BY <1>1, RevisionsInvariantHolds, PTL

\* Whatever raced with it, a committed undo took back the traveller's last step and
\* nothing else.
THEOREM UndoTakesBackOneStep == Spec => []UndoIsExact
<1>1. RevisionsInvariant => UndoIsExact
  <2> SUFFICES ASSUME RevisionsInvariant, NEW k \in Keys, commits[k].kind = "undo"
               PROVE  LET undone == bundles[commits[k].result]
                          step == commits[commits[k].request.op.of].result
                      IN  /\ Owned(undone) = Owned(bundles[bundles[step].base])
                          /\ Data(undone) = Data(bundles[undone.base])
                          /\ \A j \in step + 1 .. undone.base :
                               commits[bundles[j].key].kind = "refresh"
    BY ZenonT(60) DEF UndoIsExact
  <2> DEFINE u == commits[k].result
             of == commits[k].request.op.of
             step == commits[of].result
  <2>1. /\ of \in Keys /\ commits[of].kind \in {"mutation", "undo"}
        /\ Owned(bundles[u]) = Owned(bundles[step - 1])
        /\ Data(bundles[u]) = Data(bundles[u - 1])
        /\ RefreshesOnly(step, u - 1)
    BY DEF RevisionsInvariant, Store, Undos, UndoExact
  <2>2. u \in 1 .. Newest /\ step \in 1 .. Newest
    BY ZenonT(60), <2>1, UndoneStep DEF RevisionsInvariant, Store, Made
  <2>3. bundles[u].base = u - 1 /\ bundles[step].base = step - 1
    BY <2>2 DEF RevisionsInvariant, Store, Chain, BundleOK
  <2>4. \A j \in step + 1 .. u - 1 : commits[bundles[j].key].kind = "refresh"
    BY <2>1 DEF RefreshesOnly, KindOf
  <2> QED
    BY Zenon, <2>1, <2>3, <2>4
<1> QED
  BY <1>1, RevisionsInvariantHolds, PTL

\* A refresh never computes a Bundle that does not validate, whatever the weather was and
\* becomes.
THEOREM RefreshesNeverEnd == Spec => []SkyMayImprove
<1>1. RevisionsInvariant => SkyMayImprove
  BY CallAt DEF RevisionsInvariant, CallOK, NeverInvalid, SkyMayImprove
<1> QED
  BY <1>1, RevisionsInvariantHolds, PTL
=============================================================================
