----------------------------- MODULE MCBootstrap -----------------------------
(***************************************************************************)
(* Bootstrap for TLC.                                                      *)
(***************************************************************************)
EXTENDS Bootstrap, TLC

Symmetry ==
    Permutations(Sessions) \cup Permutations(ClaimIds) \cup Permutations(Nodes) \cup Permutations(Names) \cup Permutations(Swarms \ Taken)
=============================================================================
