-------------------------- MODULE OperationContract --------------------------
(***************************************************************************)
(* What Docklane promises of one operation, on a service or on a node,     *)
(* whatever fails around it.                                               *)
(*                                                                         *)
(* Its row is created before its request is sent, the request is sent at   *)
(* most once and only while the row is unfinished, a request that can no   *)
(* longer take effect never can again, and the row ends once, for good,    *)
(* when the request can no longer take effect.                             *)
(*                                                                         *)
(* The operations of ServiceWorkflow and of NodeWorkflow keep this         *)
(* contract (runs service and node, theorems ServiceOperations and         *)
(* NodeOperations).                                                        *)
(***************************************************************************)

CONSTANT MayDisown  \* whether the operation may be failed with its request under way

VARIABLES status,   \* "none", "unfinished", "SUCCESS" or "FAILED"
          request   \* "unsent", "live" while it would change the resource if it arrived, then "spent"

operationVars == <<status, request>>

OperationInit == status = "none" /\ request = "unsent"

Intend ==
    /\ status = "none"
    /\ status' = "unfinished"
    /\ UNCHANGED request

\* The resource may have changed since it was planned.
Dispatch ==
    /\ status = "unfinished" /\ request = "unsent"
    /\ request' \in {"live", "spent"}
    /\ UNCHANGED status

\* It has taken effect, was refused or lost, or the resource was changed.
Expire ==
    /\ request = "live"
    /\ request' = "spent"
    /\ UNCHANGED status

End ==
    /\ status = "unfinished" /\ request # "live"
    /\ status' \in {"SUCCESS", "FAILED"}
    /\ UNCHANGED request

Disown ==
    /\ MayDisown
    /\ status = "unfinished" /\ request = "live"
    /\ status' = "FAILED"
    /\ UNCHANGED request

OperationNext == Intend \/ Dispatch \/ Expire \/ End \/ Disown

OperationSpec == OperationInit /\ [][OperationNext]_operationVars
=============================================================================
