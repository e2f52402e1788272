--------------------------- MODULE MCNodeWorkflow ---------------------------
(***************************************************************************)
(* NodeWorkflow for TLC.  Resources are ordered, and most IDs have a mix   *)
(* of their own: only the sessions and the IDs that come together are      *)
(* interchangeable.                                                        *)
(***************************************************************************)
EXTENDS NodeWorkflow, TLC

CONSTANT Twins

Symmetry == Permutations(Sessions) \cup Permutations(Twins)
=============================================================================
