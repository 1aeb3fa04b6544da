-------------------------- MODULE MCBackgroundJobs --------------------------
(***************************************************************************)
(* The job queue on small instances.                                       *)
(***************************************************************************)
EXTENDS BackgroundJobs

CONSTANTS p1, p2, t1, t2, f1
=============================================================================
