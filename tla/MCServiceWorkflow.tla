-------------------------- MODULE MCServiceWorkflow --------------------------
(***************************************************************************)
(* ServiceWorkflow for TLC.  Interchangeable are values of one mix.        *)
(***************************************************************************)
EXTENDS ServiceWorkflow, TLC

Symmetry ==
    UNION {Permutations(Rollbacks \cap mix) \cup Permutations(Images \cap mix) \cup Permutations(Replicas \cap mix)
             : mix \in Mixes}
=============================================================================
