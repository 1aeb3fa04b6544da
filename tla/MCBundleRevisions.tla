------------------------- MODULE MCBundleRevisions -------------------------
(***************************************************************************)
(* The revisions of a delivered trip on small instances.                   *)
(***************************************************************************)
EXTENDS BundleRevisions, TLC

CONSTANTS k1, k2, k3, o1, o2, n1, n2, fair, rain

KeySymmetry == Permutations(Keys)
=============================================================================
