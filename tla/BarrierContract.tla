--------------------------- MODULE BarrierContract ---------------------------
(***************************************************************************)
(* What one manager Agent promises the Control Plane about its mutation    *)
(* barrier, whatever happens to its process and to its disk.               *)
(*                                                                         *)
(* The barrier has a committed position (a Swarm, a generation and OPEN or *)
(* BLOCKED) that only ever moves to a higher generation of the same Swarm, *)
(* and it moves only while no mutation handler is running.  The Agent may  *)
(* become unavailable at any time and come back, but it comes back at the  *)
(* committed position, and it lets a mutation through only while that      *)
(* position is OPEN.                                                       *)
(*                                                                         *)
(* AgentBarrier implements this contract (run agent_barrier, theorem       *)
(* Implementation of AgentBarrierProofs), and so does every Agent of       *)
(* MaintenanceFence (run fence_agents, theorem FenceAgentsKeepContract).   *)
(***************************************************************************)
EXTENDS Naturals

CONSTANTS Requests,   \* mutation requests an Agent may be serving at once
          Clusters,   \* Swarm cluster identities
          NoCluster   \* the empty ClusterID of a barrier never set

VARIABLES committed,  \* the position a restart may restore
          available,  \* the Agent answers and its barrier state is valid
          running     \* the requests whose handler is past the guard

contractVars == <<committed, available, running>>

Positions == [cluster : Clusters \cup {NoCluster}, gen : Nat, st : {"OPEN", "BLOCKED"}]

ContractInit ==
    /\ committed = [cluster |-> NoCluster, gen |-> 0, st |-> "BLOCKED"]
    /\ available = FALSE
    /\ running = {}

\* A mutation reaches the Docker handlers only through an OPEN barrier.
Serve(r) ==
    /\ available
    /\ committed.st = "OPEN"
    /\ running' = running \cup {r}
    /\ UNCHANGED <<committed, available>>

Return(r) ==
    /\ running' = running \ {r}
    /\ UNCHANGED <<committed, available>>

\* The position moves forward, with every earlier handler drained.
Advance ==
    /\ running = {}
    /\ committed' \in Positions
    /\ committed'.gen > committed.gen
    /\ committed'.cluster \in Clusters
    /\ committed.cluster \in {NoCluster, committed'.cluster}
    /\ UNCHANGED <<available, running>>

\* A crash, a failed persist, or a barrier found invalid when it starts.
BecomeUnavailable ==
    /\ available' = FALSE
    /\ running' = {}
    /\ UNCHANGED committed

BecomeAvailable ==
    /\ ~available
    /\ running = {}
    /\ available' = TRUE
    /\ UNCHANGED <<committed, running>>

ContractNext ==
    \/ \E r \in Requests : Serve(r) \/ Return(r)
    \/ Advance
    \/ BecomeUnavailable
    \/ BecomeAvailable

ContractSpec == ContractInit /\ [][ContractNext]_contractVars
=============================================================================
