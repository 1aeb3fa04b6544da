--------------------------- MODULE MCRunLifecycle ---------------------------
(* RunLifecycle for TLC.  Its constants are sets of model values and a       *)
(* number, given in lifecycle.cfg; no symmetry, as its main property is a    *)
(* refinement.                                                               *)
EXTENDS RunLifecycle
=============================================================================
