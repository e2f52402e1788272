------------------------- MODULE MCMaintenanceFence -------------------------
(***************************************************************************)
(* MaintenanceFence for TLC.                                               *)
(***************************************************************************)
EXTENDS MaintenanceFence, TLC

Symmetry == Permutations(Agents) \cup Permutations(Coordinators) \cup Permutations(Ops)
=============================================================================
