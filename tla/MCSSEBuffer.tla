---------------------------- MODULE MCSSEBuffer ----------------------------
(***************************************************************************)
(* The event buffer of one response with two nodes of a parallel group.    *)
(***************************************************************************)
EXTENDS SSEBuffer

CONSTANTS n1, n2

ThreeAndTwo == (n1 :> 3) @@ (n2 :> 2)
=============================================================================
