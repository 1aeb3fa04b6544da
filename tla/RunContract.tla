----------------------------- MODULE RunContract -----------------------------
(***************************************************************************)
(* What a TripRun promises its user, whatever writes race for it: it works *)
(* in rounds, asks and waits, can be continued after it failed or was      *)
(* interrupted, and ends once and for all either cancelled or delivered.   *)
(* The plan it shows appears in the very step that delivers it and never   *)
(* changes afterwards.                                                     *)
(***************************************************************************)
EXTENDS Naturals

CONSTANTS Plans,     \* what a run may deliver
          NoPlan     \* nothing shown

VARIABLES phase,     \* where the run is
          round,     \* which attempt is (or was last) working
          shown      \* the plan the user can open

contractVars == <<phase, round, shown>>

ContractInit ==
    /\ phase = "fresh"
    /\ round = 1
    /\ shown = NoPlan

\* A new or waiting run goes on in the same round or in the next one; a paused
\* one always opens a new round.
Work ==
    /\ phase \in {"fresh", "waiting", "paused"}
    /\ phase' = "working"
    /\ \/ round' = round + 1
       \/ phase # "paused" /\ round' = round
    /\ UNCHANGED shown

Ask ==
    /\ phase = "working"
    /\ phase' = "waiting"
    /\ UNCHANGED <<round, shown>>

Pause ==
    /\ phase \in {"fresh", "working", "waiting"}
    /\ phase' = "paused"
    /\ UNCHANGED <<round, shown>>

Stop ==
    /\ phase = "working"
    /\ phase' = "stopping"
    /\ UNCHANGED <<round, shown>>

Cancel ==
    /\ phase \in {"fresh", "waiting", "stopping"}
    /\ phase' = "cancelled"
    /\ UNCHANGED <<round, shown>>

\* A quick answer shows no plan; a researched one shows exactly one.
Deliver ==
    /\ phase = "working"
    /\ phase' = "delivered"
    /\ shown' \in Plans \cup {NoPlan}
    /\ UNCHANGED round

ContractNext == Work \/ Ask \/ Pause \/ Stop \/ Cancel \/ Deliver

ContractSpec == ContractInit /\ [][ContractNext]_contractVars

=============================================================================
