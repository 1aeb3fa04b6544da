---------------------------- MODULE MCModelCalls ----------------------------
(***************************************************************************)
(* The calls of a run on small instances.                                  *)
(***************************************************************************)
EXTENDS ModelCalls

CONSTANTS w1, w2, g1

TwoOneOne == (w1 :> 2) @@ (w2 :> 1) @@ (g1 :> 1)
=============================================================================
