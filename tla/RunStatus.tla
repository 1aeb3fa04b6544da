------------------------------ MODULE RunStatus ------------------------------
(***************************************************************************)
(* The status vocabulary of a TripRun and its one transition table         *)
(* (entities/trip_run.py).                                                 *)
(***************************************************************************)

Statuses ==
    {"created", "running", "awaiting_input", "completed", "failed",
     "interrupted", "cancel_requested", "cancelled"}

\* ALLOWED_STATUS_TRANSITIONS
AllowedNext(s) ==
    CASE s = "created"          -> {"running", "cancelled", "failed"}
      [] s = "running"          -> {"awaiting_input", "completed", "failed",
                                    "interrupted", "cancel_requested"}
      [] s = "awaiting_input"   -> {"running", "failed", "cancelled"}
      [] s = "failed"           -> {"running"}
      [] s = "interrupted"      -> {"running"}
      [] s = "cancel_requested" -> {"cancelled"}
      [] OTHER                  -> {}

\* is_status_transition_allowed with allow_same, the default
MayBecome(s, t) == s = t \/ t \in AllowedNext(s)

TerminalStatuses == {"completed", "failed", "interrupted", "cancelled"}

CancellableStatuses ==
    {"created", "running", "awaiting_input", "cancel_requested"}

\* A sealed status has no way out: no boundary may rewrite it.
Sealed == {s \in Statuses : AllowedNext(s) = {}}

\* Mutant of CancelTarget: a run that waits is not cancelled.
CancelTargetWorkingOnly(s) ==
    IF s = "running" THEN "cancel_requested"
    ELSE IF s \in {"created", "cancel_requested"} THEN "cancelled"
    ELSE "none"

\* What request_cancel moves a run to, or "none" where there is nothing to stop.
CancelTarget(s) ==
    IF s = "running" THEN "cancel_requested"
    ELSE IF s \in CancellableStatuses THEN "cancelled"
    ELSE "none"

=============================================================================
