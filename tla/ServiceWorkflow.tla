--------------------------- MODULE ServiceWorkflow ---------------------------
(***************************************************************************)
(* The operations on one Swarm service: DEPLOY (and historical redeploy),  *)
(* ROLLBACK, SCALE and RESTART, from the durable intent through dispatch,  *)
(* verification and reconciliation (deployments/deployment.service.ts,     *)
(* operations/mutation.service.ts, the two repositories and the Agent's    *)
(* dockerengine/mutator.go).                                               *)
(*                                                                         *)
(*   svc     the Docker service: version, spec, previous spec and update   *)
(*           state; a spec stands for its fingerprint                      *)
(*   op      the operations table: status, error code and recorded plan    *)
(*   dep     the deployments table, keyed by the DEPLOY operation          *)
(*   wire    the mutation request of an operation, sent at most once       *)
(*   sess    the callback that holds the service's GET_LOCK: all database  *)
(*           writes are on that connection, so there is one writer         *)
(*   asked   rollback requests that passed the checks before the lock      *)
(*   release the release of the latest SUCCESS deployment                  *)
(*                                                                         *)
(* Tasks are not kept: an inspection may find them in any condition.       *)
(***************************************************************************)
EXTENDS Naturals

CONSTANTS Deploys, Rollbacks, Scales, Restarts,  \* operation IDs of each type
          Images,       \* digest-pinned images; a release is its image
          Replicas,
          None,
          Mixes,        \* the disjoint sets of IDs, images and replicas that meet in one behaviour
          MaxVer,       \* bound on the Docker object version
          MaxForce      \* bound on ForceUpdate

Ops == Deploys \cup Rollbacks \cup Scales \cup Restarts
Specs == [img : Images, rep : Replicas, force : 0 .. MaxForce]

ASSUME ServiceAssumption ==
    /\ MaxVer \in Nat \ {0} /\ MaxForce \in Nat
    /\ Mixes \subseteq SUBSET (Ops \cup Images \cup Replicas)
    /\ \A m1, m2 \in Mixes : m1 \cap m2 = {} \/ m1 = m2
    /\ None \notin Ops /\ None \notin Images /\ None \notin Specs
    /\ Deploys \cap (Rollbacks \cup Scales \cup Restarts) = {}
    /\ Rollbacks \cap (Scales \cup Restarts) = {}
    /\ Scales \cap Restarts = {}

VARIABLES svc, op, dep, wire, sess, asked, release

vars == <<svc, op, dep, wire, sess, asked, release>>

-----------------------------------------------------------------------------
UpdateStates == {"none", "updating", "completed", "paused",
                 "rollback_started", "rollback_paused", "rollback_completed"}
\* What an inspection finds of the tasks; "unread" is an inspection that fails.
Conditions == {"short", "counted", "converged"}

Terminal == {"SUCCESS", "FAILED"}
Unfinished(o) == op[o].st \notin Terminal \cup {"none"}

\* Error codes kept apart: the *_NOT_OBSERVED family that manual recovery looks
\* for (with ROLLBACK_STILL_IN_PROGRESS), and CONVERGENCE_FAILED.
Codes == {"none", "NOT_OBSERVED", "CONVERGENCE_FAILED"}
Statuses == {"none", "RUNNING", "VERIFYING", "NEEDS_ATTENTION"} \cup Terminal
DepStatuses == {"none", "DEPLOYING", "VERIFYING", "SUCCESS", "FAILED", "ROLLING_BACK", "ROLLBACK_VERIFYING",
                "ROLLED_BACK", "ROLLBACK_FAILED", "NEEDS_ATTENTION"}

NoOp == [st |-> "none", code |-> "none", before |-> None, target |-> None, ver |-> 0]
NoDep == [st |-> "none", prev |-> None, rb |-> None]

\* What the holder of the lock does next; the last group are decided outcomes
\* that remain to be written.
Outcomes == {"success", "fail", "attention", "unseen", "pending", "rollbackFailed", "convergenceFailed"}
Steps == {"free", "planned", "observed", "dispatch", "waiting", "accepted", "reconcile", "verify", "final"} \cup Outcomes
Free == [pc |-> "free", op |-> None, before |-> None, target |-> None, ver |-> 0, saw |-> "nothing"]

\* The images and replicas of the behaviour; the tables have a row for each of
\* its IDs.
Mixed(values, v) == {w \in values : \E mix \in Mixes : {v, w} \subseteq mix}
MixedImages == Mixed(Images, svc.spec.img)
MixedReplicas == Mixed(Replicas, svc.spec.rep)

\* Without deployments there is less to go through.
LastVer == IF DOMAIN dep = {} THEN MaxVer - 1 ELSE MaxVer

TypeOK ==
    /\ svc \in [ver : 1 .. MaxVer, spec : Specs, prev : Specs \cup {None}, us : UpdateStates]
    /\ op \in [DOMAIN op -> [st : Statuses, code : Codes, before : Specs \cup {None}, target : Specs \cup {None},
                       ver : 0 .. MaxVer]]
    /\ dep \in [DOMAIN dep -> [st : DepStatuses, prev : Images \cup {None}, rb : Rollbacks \cup {None}]]
    /\ wire \in [DOMAIN op -> {"none", "sent", "ok", "rejected", "over"}]
    /\ sess \in [pc : Steps, op : Ops \cup {None}, before : Specs \cup {None}, target : Specs \cup {None},
                 ver : 0 .. MaxVer, saw : {"nothing", "waiting", "rollback"}]
    /\ asked \in [DOMAIN asked -> Deploys \cup {None}]
    /\ release \in Images \cup {None}

\* A service that runs some release, last changed by anyone.
Init ==
    /\ \E mix \in Mixes :
          /\ svc \in [ver : {1}, spec : [img : Images \cap mix, rep : Replicas \cap mix, force : {0}], prev : {None},
                      us : {"none", "completed", "rollback_completed"}]
          /\ op = [o \in Ops \cap mix |-> NoOp]
          /\ dep = [d \in Deploys \cap mix |-> NoDep]
          /\ wire = [o \in Ops \cap mix |-> "none"]
          /\ asked = [r \in Rollbacks \cap mix |-> None]
    /\ sess = Free
    /\ release \in {None, svc.spec.img}

-----------------------------------------------------------------------------
(* Snapshot classification: s is the inspected service, p the recorded plan *)

Decision(neither, otherwise, s, p) ==
    IF s.spec \in {p.before, p.target} THEN otherwise ELSE neither

classifyDeploymentReconciliationSnapshot(s, p) ==
    CASE s.us = "rollback_started" -> Decision("EXTERNAL_CONFLICT", "ROLLBACK_IN_PROGRESS", s, p)
      [] s.us = "rollback_paused" -> Decision("EXTERNAL_CONFLICT", "ROLLBACK_PAUSED", s, p)
      [] s.us \notin {"rollback_started", "rollback_paused"} /\ s.spec = p.target -> "TARGET_OBSERVED"
      [] s.us \in {"rollback_completed", "paused"} /\ s.spec # p.target ->
            IF s.spec = p.before THEN "FAILED" ELSE "EXTERNAL_CONFLICT"
      [] OTHER -> IF s.ver < p.ver \/ (s.ver = p.ver /\ s.spec = p.before)
                  THEN "WAITING_FOR_MUTATION" ELSE "EXTERNAL_CONFLICT"

\* With classifyDeploymentConvergence: "converged" includes CONVERGED placement.
classifyDeploymentSnapshot(s, p, tasks) ==
    LET noOp == p.before = p.target IN
    CASE s.us = "rollback_started" -> Decision("EXTERNAL_CONFLICT", "PENDING", s, p)
      [] s.us = "rollback_paused" -> Decision("EXTERNAL_CONFLICT", "ROLLBACK_PAUSED", s, p)
      [] s.us \in {"rollback_completed", "paused"} /\ s.spec # p.target ->
            IF s.spec = p.before THEN "FAILED" ELSE "EXTERNAL_CONFLICT"
      [] s.us \in {"none", "updating", "completed"} /\ s.spec # p.target ->
            IF s.ver > p.ver THEN "EXTERNAL_CONFLICT" ELSE "PENDING"
      [] s.spec = p.target /\ (s.us = "paused" \/ (~noOp /\ s.us = "rollback_completed")) -> "FAILED"
      [] OTHER -> IF (noOp \/ s.us = "completed") /\ tasks = "converged" THEN "SUCCESS" ELSE "PENDING"

\* With classifyRollbackConvergence.
classifyRollbackSnapshot(s, p, tasks) ==
    CASE s.spec # p.target ->
            IF s.us # "rollback_started" /\ s.ver > p.ver THEN "EXTERNAL_CONFLICT" ELSE "PENDING"
      [] s.spec = p.target /\ s.us \in {"paused", "rollback_paused"} -> "FAILED"
      [] OTHER -> IF s.us # "rollback_started" /\ tasks = "converged" THEN "SUCCESS" ELSE "PENDING"

\* An inspection older than the accepted version is PENDING: no step at all.
classifyMutationSnapshot(o, s, p, tasks) ==
    CASE s.spec # p.target -> "EXTERNAL_CONFLICT"
      [] s.spec = p.target /\ s.us \in {"paused", "rollback_started", "rollback_completed"} -> "FAILED"
      [] OTHER -> IF \/ o \in Scales /\ tasks # "short"
                     \/ o \in Restarts /\ s.us = "completed" /\ tasks = "converged"
                  THEN "SUCCESS" ELSE "PENDING"

-----------------------------------------------------------------------------
(* Requests: planning under the service lock, then the intent *)

\* Mutant: NEEDS_ATTENTION no longer keeps a new operation out.
NoPriorActive == \A o \in DOMAIN op : op[o].st \notin {"RUNNING", "VERIFYING"}

\* findNonTerminalForServiceWithConnection finds nothing.
NoPrior == \A o \in DOMAIN op : ~Unfinished(o)

LockFree == sess.pc = "free"
Idle(o) == LockFree /\ op[o].st = "none" /\ NoPrior

\* The plan is a snapshot: version and spec are those of one inspection.
Plan(pc, o, before, target) ==
    sess' = [pc |-> pc, op |-> o, before |-> before, target |-> target, ver |-> svc.ver, saw |-> "nothing"]

\* The Agent's planners.
PlanUpdateServiceImage(i) == [svc.spec EXCEPT !.img = i]
PlanScaleReplicas(n) == [svc.spec EXCEPT !.rep = n]
PlanRestartForce == [svc.spec EXCEPT !.force = @ + 1]

\* deployRelease up to assertPlanMatchesCurrent.
PlanDeploy(d, i) ==
    /\ Idle(d)
    /\ Plan("planned", d, svc.spec, PlanUpdateServiceImage(i))
    /\ UNCHANGED <<svc, op, dep, wire, asked, release>>

\* scale and restart; a prior SCALE or RESTART is reconciled first, which is
\* Reconcile of that operation.
PlanScale(o, n) ==
    /\ Idle(o)
    /\ Plan("planned", o, svc.spec, PlanScaleReplicas(n))
    /\ UNCHANGED <<svc, op, dep, wire, asked, release>>

PlanRestart(o) ==
    /\ Idle(o)
    /\ svc.spec.force < MaxForce
    /\ Plan("planned", o, svc.spec, PlanRestartForce)
    /\ UNCHANGED <<svc, op, dep, wire, asked, release>>

\* Mutant: any recorded deployment may be rolled back.
AskRollbackOfAny(r, d) ==
    /\ op[r].st = "none" /\ asked[r] = None
    /\ dep[d].st # "none" /\ dep[d].prev # None
    /\ asked' = [asked EXCEPT ![r] = d]
    /\ UNCHANGED <<svc, op, dep, wire, sess, release>>

\* rollback, before the lock: the deployment is read once and must be FAILED.
AskRollback(r, d) ==
    /\ op[r].st = "none" /\ asked[r] = None
    /\ dep[d].st = "FAILED" /\ dep[d].prev # None
    /\ asked' = [asked EXCEPT ![r] = d]
    /\ UNCHANGED <<svc, op, dep, wire, sess, release>>

\* Swarm already rolls, or rolled, back to the spec the deployment replaced.
buildObservedRollbackPlan(d) ==
    /\ svc.us \in {"rollback_started", "rollback_completed"}
    /\ svc.spec = op[d].before /\ svc.spec.img = dep[d].prev

\* Swarm's previous spec is exactly the one the deployment replaced.
assertRollbackOwnership(d) ==
    /\ svc.us \notin {"rollback_started", "rollback_completed"}
    /\ svc.prev # None
    /\ svc.spec = op[d].target /\ svc.prev = op[d].before /\ svc.prev.img = dep[d].prev

\* rollback, under the lock, with PlanRollback of the Agent.
PlanRollback(r) ==
    LET d == asked[r] IN
    /\ Idle(r) /\ d # None
    /\ \/ buildObservedRollbackPlan(d) /\ Plan("observed", r, op[d].target, svc.spec)
       \/ assertRollbackOwnership(d) /\ Plan("planned", r, svc.spec, svc.prev)
    /\ UNCHANGED <<svc, op, dep, wire, asked, release>>

\* The three persistIntent transactions: the operation is created and RUNNING.
Intend(o, pc) ==
    /\ op' = [op EXCEPT ![o] = [st |-> "RUNNING", code |-> "none", before |-> sess.before,
                                target |-> sess.target, ver |-> sess.ver]]
    /\ sess' = [sess EXCEPT !.pc = pc]
    /\ UNCHANGED <<svc, wire, asked, release>>

NothingToDo == sess.before = sess.target

PersistDeployIntent ==
    /\ sess.pc = "planned" /\ sess.op \in Deploys
    /\ Intend(sess.op, IF NothingToDo THEN "accepted" ELSE "dispatch")
    /\ dep' = [dep EXCEPT ![sess.op] = [st |-> IF NothingToDo THEN "VERIFYING" ELSE "DEPLOYING",
                                        prev |-> release, rb |-> None]]

PersistRollbackIntent ==
    /\ sess.pc \in {"planned", "observed"} /\ sess.op \in Rollbacks
    /\ Intend(sess.op, IF NothingToDo \/ sess.pc = "observed" THEN "reconcile" ELSE "dispatch")
    /\ LET d == asked[sess.op] IN dep' = [dep EXCEPT ![d].st = "ROLLING_BACK", ![d].rb = sess.op]

\* SCALE and RESTART are sent even when nothing would change.
PersistMutationIntent ==
    /\ sess.pc = "planned" /\ sess.op \in Scales \cup Restarts
    /\ Intend(sess.op, "dispatch")
    /\ UNCHANGED dep

-----------------------------------------------------------------------------
(* Dispatch *)

Send ==
    /\ sess.pc = "dispatch"
    /\ wire' = [wire EXCEPT ![sess.op] = "sent"]
    /\ sess' = [sess EXCEPT !.pc = "waiting"]
    /\ UNCHANGED <<svc, op, dep, asked, release>>

Awaited(o) == sess.op = o /\ sess.pc = "waiting"
Answer(o, w) == wire' = [wire EXCEPT ![o] = IF Awaited(o) THEN w ELSE "over"]

\* The service is still at the planned version and spec.
validateMutationPrecondition(o) == svc.ver = op[o].ver /\ svc.spec = op[o].before

Matches(o) ==
    /\ validateMutationPrecondition(o)
    /\ o \in Rollbacks => svc.prev = op[o].target

\* ServiceUpdate at the expected version.  It may be reported as a failure when
\* the inspection after it fails.
ServiceUpdate(o, us) ==
    /\ wire[o] = "sent" /\ svc.ver < LastVer
    /\ svc' = [ver |-> svc.ver + 1, spec |-> op[o].target, prev |-> svc.spec, us |-> us]
    /\ \E w \in {"ok", "over"} : Answer(o, w)
    /\ UNCHANGED <<op, dep, sess, asked, release>>

UpdateServiceImage(d) == validateMutationPrecondition(d) /\ ServiceUpdate(d, "none")
ScaleService(o) == validateMutationPrecondition(o) /\ ServiceUpdate(o, "none")
RestartService(o) == validateMutationPrecondition(o) /\ ServiceUpdate(o, "none")
RollbackService(r) ==
    /\ validateMutationPrecondition(r)
    /\ svc.prev = op[r].target
    /\ ServiceUpdate(r, "rollback_started")

\* Refused before the update, failed without a word, or it never arrives.
NotApplied(o) ==
    /\ wire[o] = "sent"
    /\ \E w \in {"rejected", "over"} : Answer(o, w)
    /\ UNCHANGED <<svc, op, dep, sess, asked, release>>

\* Mutant: a lost answer is taken for a failure.
AnsweredOrFailed ==
    /\ sess.pc = "waiting"
    /\ sess' = [sess EXCEPT !.pc = IF wire[sess.op] = "ok" THEN "accepted" ELSE "fail"]
    /\ wire' = [wire EXCEPT ![sess.op] = IF @ = "sent" THEN @ ELSE "over"]
    /\ UNCHANGED <<svc, op, dep, asked, release>>

\* The answer; anything but acceptance or a definite rejection, a timeout with
\* the request still under way included, leads to reconciliation.
Answered ==
    /\ sess.pc = "waiting"
    /\ LET w == wire[sess.op] IN
          sess' = [sess EXCEPT !.pc = CASE w = "ok" -> "accepted"
                                        [] w = "rejected" -> "fail"
                                        [] OTHER -> "reconcile"]
    /\ wire' = [wire EXCEPT ![sess.op] = IF @ = "sent" THEN @ ELSE "over"]
    /\ UNCHANGED <<svc, op, dep, asked, release>>

-----------------------------------------------------------------------------
(* What is recorded *)

\* The deployment an operation of this type writes to.
DepOf(o) == IF o \in Deploys THEN {o} ELSE IF o \in Rollbacks THEN {asked[o]} ELSE {}

\* Every writer of the operations table leaves a terminal row alone; the
\* writers of the deployments table do not look.
Record(o, st, code, depSt) ==
    /\ op' = [op EXCEPT ![o].st = IF @ \in Terminal THEN @ ELSE st,
                        ![o].code = IF op[o].st \in Terminal THEN @ ELSE code]
    /\ dep' = [d \in DOMAIN dep |-> IF d \in DepOf(o) THEN [dep[d] EXCEPT !.st = depSt] ELSE dep[d]]

VerifyingDep(o) == IF o \in Rollbacks THEN "ROLLBACK_VERIFYING" ELSE "VERIFYING"

MarkVerifying ==
    /\ sess.pc = "accepted"
    /\ Record(sess.op, "VERIFYING", "none", VerifyingDep(sess.op))
    /\ sess' = [sess EXCEPT !.pc = "verify"]
    /\ UNCHANGED <<svc, wire, asked, release>>

\* The transaction that records the outcome, after which the lock is released.
RecordDeploy(d) ==
    CASE sess.pc = "success" -> Record(d, "SUCCESS", "none", "SUCCESS")
      [] sess.pc = "fail" -> Record(d, "FAILED", "none", "FAILED")
      [] sess.pc = "convergenceFailed" -> Record(d, "FAILED", "CONVERGENCE_FAILED", "FAILED")
      [] sess.pc = "attention" -> Record(d, "NEEDS_ATTENTION", "none", "NEEDS_ATTENTION")
      [] sess.pc = "unseen" -> Record(d, "NEEDS_ATTENTION", "NOT_OBSERVED", "NEEDS_ATTENTION")
      [] OTHER -> Record(d, "VERIFYING", "none", "VERIFYING")

\* A rejected rollback gives the deployment back its FAILED.
RecordRollback(r) ==
    CASE sess.pc = "success" -> Record(r, "SUCCESS", "none", "ROLLED_BACK")
      [] sess.pc = "fail" -> Record(r, "FAILED", "none", "FAILED")
      [] sess.pc = "rollbackFailed" -> Record(r, "NEEDS_ATTENTION", "none", "ROLLBACK_FAILED")
      [] sess.pc = "attention" -> Record(r, "NEEDS_ATTENTION", "none", "NEEDS_ATTENTION")
      [] sess.pc = "unseen" -> Record(r, "VERIFYING", "NOT_OBSERVED", "ROLLBACK_VERIFYING")
      [] OTHER -> Record(r, "VERIFYING", "none", "ROLLBACK_VERIFYING")

RecordMutation(o) ==
    CASE sess.pc = "success" -> Record(o, "SUCCESS", "none", "none")
      [] sess.pc = "fail" -> Record(o, "FAILED", "none", "none")
      [] sess.pc = "convergenceFailed" -> Record(o, "FAILED", "CONVERGENCE_FAILED", "none")
      [] sess.pc = "unseen" -> Record(o, "NEEDS_ATTENTION", "NOT_OBSERVED", "none")
      [] OTHER -> Record(o, "NEEDS_ATTENTION", "none", "none")

Complete ==
    LET o == sess.op IN
    /\ sess.pc \in Outcomes
    /\ \/ o \in Deploys /\ RecordDeploy(o)
       \/ o \in Rollbacks /\ RecordRollback(o)
       \/ o \in Scales \cup Restarts /\ RecordMutation(o)
    /\ release' = IF sess.pc = "success" /\ o \in Deploys THEN sess.target.img ELSE release
    /\ sess' = Free
    /\ UNCHANGED <<svc, wire, asked>>

-----------------------------------------------------------------------------
(* Verification and reconciliation: one round of each loop gives the next step *)

\* The target was observed: marked VERIFYING unless it already is.
TargetObserved(o) ==
    IF op[o].st = "VERIFYING" /\ \A d \in DepOf(o) : dep[d].st = VerifyingDep(o) THEN "verify" ELSE "accepted"

ReconcileDeploy(d) ==
    LET c == classifyDeploymentReconciliationSnapshot(svc, sess) IN
    CASE c = "TARGET_OBSERVED" -> [sess EXCEPT !.pc = TargetObserved(d)]
      [] c = "FAILED" -> [sess EXCEPT !.pc = "convergenceFailed"]
      [] c \in {"ROLLBACK_PAUSED", "EXTERNAL_CONFLICT"} -> [sess EXCEPT !.pc = "attention"]
      [] c = "ROLLBACK_IN_PROGRESS" -> [sess EXCEPT !.saw = "rollback"]
      [] OTHER -> [sess EXCEPT !.saw = IF @ = "rollback" THEN @ ELSE "waiting"]

ReconcileRollback(r, tasks) ==
    LET c == classifyRollbackSnapshot(svc, sess, tasks) IN
    CASE c = "SUCCESS" -> [sess EXCEPT !.pc = TargetObserved(r)]
      [] c = "FAILED" -> [sess EXCEPT !.pc = "rollbackFailed"]
      [] c = "EXTERNAL_CONFLICT" -> [sess EXCEPT !.pc = "attention"]
      [] OTHER -> [sess EXCEPT !.saw = "waiting"]

\* One inspection only.
ReconcileMutation(o) ==
    [sess EXCEPT !.pc = IF svc.spec = sess.target THEN TargetObserved(o)
                        ELSE IF svc.ver = sess.ver /\ svc.spec = sess.before THEN "unseen"
                        ELSE "attention"]

InspectReconcile ==
    LET o == sess.op IN
    /\ sess.pc = "reconcile"
    /\ \/ o \in Deploys /\ sess' = ReconcileDeploy(o)
       \/ o \in Rollbacks /\ \E tasks \in Conditions : sess' = ReconcileRollback(o, tasks)
       \/ o \in Scales \cup Restarts /\ sess' = ReconcileMutation(o)
    /\ UNCHANGED <<svc, op, dep, wire, asked, release>>

\* After the first SUCCESS come the health checks, each behind the same
\* inspection, and then a final inspection.  An inspection that fails starts a
\* new round.
VerifyDeploy(tasks) ==
    LET c == IF tasks = "unread" THEN "PENDING" ELSE classifyDeploymentSnapshot(svc, sess, tasks) IN
    CASE c = "PENDING" -> {"verify"}
      [] c = "FAILED" -> {"convergenceFailed"}
      [] c = "SUCCESS" -> IF sess.pc = "verify" THEN {"final", "fail"} ELSE {"success"}
      [] OTHER -> {"attention"}

VerifyRollback(tasks) ==
    LET c == IF tasks = "unread" THEN "PENDING" ELSE classifyRollbackSnapshot(svc, sess, tasks) IN
    CASE c = "PENDING" -> {"verify"}
      [] c = "FAILED" -> {"rollbackFailed"}
      [] c = "SUCCESS" -> IF sess.pc = "verify" THEN {"final", "rollbackFailed"} ELSE {"success"}
      [] OTHER -> {"attention"}

VerifyMutation(o, tasks) ==
    LET c == IF tasks = "unread" THEN "PENDING" ELSE classifyMutationSnapshot(o, svc, sess, tasks) IN
    CASE c = "PENDING" -> {"verify"}
      [] c = "FAILED" -> {"convergenceFailed"}
      [] c = "SUCCESS" -> {"success"}
      [] OTHER -> {"attention"}

InspectVerify ==
    LET o == sess.op IN
    /\ sess.pc \in {"verify", "final"}
    /\ \E tasks \in Conditions \cup {"unread"} :
          \E pc \in IF o \in Deploys THEN VerifyDeploy(tasks)
                    ELSE IF o \in Rollbacks THEN VerifyRollback(tasks)
                    ELSE VerifyMutation(o, tasks) :
             sess' = [sess EXCEPT !.pc = pc]
    /\ UNCHANGED <<svc, op, dep, wire, asked, release>>

\* The observation window ends; "attention" is a window that ended in Agent
\* errors.
WindowEnds ==
    LET o == sess.op IN
    /\ sess.pc \in {"reconcile", "verify"}
    /\ \E pc \in CASE o \in Scales \cup Restarts -> {"attention"}
                   [] o \in Deploys /\ sess.pc = "reconcile" ->
                        {CASE sess.saw = "rollback" -> "pending"
                           [] sess.saw = "waiting" -> "unseen"
                           [] OTHER -> "attention"}
                   [] o \in Rollbacks /\ sess.pc = "reconcile" ->
                        {"attention"} \cup (IF sess.saw = "waiting" THEN {"unseen"} ELSE {})
                   [] OTHER -> {"attention", "pending"} :
          sess' = [sess EXCEPT !.pc = pc]
    /\ UNCHANGED <<svc, op, dep, wire, asked, release>>

\* Mutant: an operation still RUNNING is sent again.
ReconcileBySending(o) ==
    /\ LockFree /\ Unfinished(o)
    /\ sess' = [pc |-> IF op[o].st = "RUNNING" THEN "dispatch" ELSE "reconcile", op |-> o,
                before |-> op[o].before, target |-> op[o].target, ver |-> op[o].ver, saw |-> "nothing"]
    /\ UNCHANGED <<svc, op, dep, wire, asked, release>>

\* A retry with the same operation ID, the periodic tick or the start of a
\* Control Plane takes up an unfinished operation, by observation only.
Reconcile(o) ==
    /\ LockFree /\ Unfinished(o)
    /\ sess' = [pc |-> "reconcile", op |-> o, before |-> op[o].before, target |-> op[o].target,
                ver |-> op[o].ver, saw |-> "nothing"]
    /\ UNCHANGED <<svc, op, dep, wire, asked, release>>

\* The process dies or the connection with the lock and the writes is lost;
\* then the callback may still send a request it was about to send.
SessionLost ==
    /\ sess.pc # "free"
    /\ sess' = Free
    /\ \/ sess.pc = "dispatch" /\ wire' = [wire EXCEPT ![sess.op] = "sent"]
       \/ wire' = [wire EXCEPT ![sess.op] = IF @ \in {"ok", "rejected"} THEN "over" ELSE @]
    /\ UNCHANGED <<svc, op, dep, asked, release>>

\* Mutant: manual recovery ends the operation alone.
ManualResolveOperation(o) ==
    /\ LockFree
    /\ Unfinished(o) /\ op[o].code = "NOT_OBSERVED"
    /\ wire[o] # "sent"
    /\ svc.ver = op[o].ver /\ svc.spec = op[o].before
    /\ op' = [op EXCEPT ![o].st = "FAILED", ![o].code = "none"]
    /\ UNCHANGED <<svc, dep, wire, sess, asked, release>>

\* resolveWithinTransaction, under the recovery lock; that no request is under
\* way any more is what MaintenanceFence shows of blockAll.
ManualResolve(o) ==
    /\ LockFree
    /\ Unfinished(o) /\ op[o].code = "NOT_OBSERVED"
    /\ wire[o] # "sent"
    /\ svc.ver = op[o].ver /\ svc.spec = op[o].before
    /\ o \in Deploys => dep[o].st = "NEEDS_ATTENTION" /\ dep[o].rb = None
    /\ o \in Rollbacks => dep[asked[o]].st = "ROLLBACK_VERIFYING" /\ dep[asked[o]].rb = o
    /\ Record(o, "FAILED", "none", "FAILED")
    /\ UNCHANGED <<svc, wire, sess, asked, release>>

-----------------------------------------------------------------------------
(* Docker Swarm and other writers; every change moves the version *)

SwarmStep ==
    /\ svc.ver < LastVer
    /\ \/ \E e \in {<<"none", "updating">>, <<"updating", "completed">>, <<"updating", "paused">>,
                    <<"rollback_started", "rollback_completed">>, <<"rollback_started", "rollback_paused">>} :
             svc.us = e[1] /\ svc' = [svc EXCEPT !.ver = @ + 1, !.us = e[2]]
       \/ /\ svc.us = "updating" /\ svc.prev # None
          /\ svc' = [ver |-> svc.ver + 1, spec |-> svc.prev, prev |-> None, us |-> "rollback_started"]
    /\ UNCHANGED <<op, dep, wire, sess, asked, release>>

ExternalUpdate ==
    /\ svc.ver < LastVer
    /\ \E i \in MixedImages, n \in MixedReplicas :
          svc' = [ver |-> svc.ver + 1, spec |-> [svc.spec EXCEPT !.img = i, !.rep = n], prev |-> svc.spec, us |-> "none"]
    /\ UNCHANGED <<op, dep, wire, sess, asked, release>>

-----------------------------------------------------------------------------
Next ==
    \/ \E d \in DOMAIN dep, i \in MixedImages : PlanDeploy(d, i)
    \/ \E o \in DOMAIN op \cap Scales, n \in MixedReplicas : PlanScale(o, n)
    \/ \E o \in DOMAIN op \cap Restarts : PlanRestart(o)
    \/ \E r \in DOMAIN asked, d \in DOMAIN dep : AskRollback(r, d)
    \/ \E r \in DOMAIN asked : PlanRollback(r)
    \/ PersistDeployIntent \/ PersistRollbackIntent \/ PersistMutationIntent
    \/ Send \/ Answered \/ MarkVerifying
    \/ InspectReconcile \/ InspectVerify \/ WindowEnds \/ Complete \/ SessionLost
    \/ \E d \in DOMAIN dep : UpdateServiceImage(d)
    \/ \E o \in DOMAIN op \cap Scales : ScaleService(o)
    \/ \E o \in DOMAIN op \cap Restarts : RestartService(o)
    \/ \E r \in DOMAIN asked : RollbackService(r)
    \/ \E o \in DOMAIN op : NotApplied(o) \/ Reconcile(o) \/ ManualResolve(o)
    \/ SwarmStep \/ ExternalUpdate

Spec == Init /\ [][Next]_vars

-----------------------------------------------------------------------------
\* At most one operation of the service is unfinished, NEEDS_ATTENTION
\* included: an uncertain outcome keeps every other mutation out
\* (findNonTerminalForServiceWithConnection under the service lock).
OneUnfinished == \A o1, o2 \in DOMAIN op : Unfinished(o1) /\ Unfinished(o2) => o1 = o2

\* A request that an Agent would still carry out.
MayTakeEffect(o) ==
    wire[o] = "sent" /\ Matches(o) /\ op[o].before # op[o].target

\* Once an operation has ended, its request changes the service no more,
\* however late it arrives.  The one exception is a DEPLOY that reconciliation
\* failed on Swarm's update state (reconcileLocked, validateMutationPrecondition).
EndedIsOver ==
    \A o \in DOMAIN op : op[o].st \in Terminal /\ MayTakeEffect(o) =>
        o \in Deploys /\ op[o].code = "CONVERGENCE_FAILED"

\* As SWARM_MUTATION_EXCLUSION.md has it: while it is not known whether the
\* update was sent, a deployment is not recorded as FAILED.
UncertainIsNotFailed ==
    \A d \in DOMAIN dep : op[d].st = "FAILED" => ~MayTakeEffect(d)

\* A mutation is sent at most once: retries, restarts and reconciliation only
\* observe (reconcileLocked, reconcilePendingDeployments).
NeverResent ==
    [][\A o \in DOMAIN op : wire'[o] = "sent" => wire[o] \in {"none", "sent"}]_vars

\* The operations and deployments tables tell the same story after every
\* transaction, whichever callback was cut off in between.
TablesAgree ==
    \A d \in DOMAIN dep :
        /\ dep[d].st = "none" <=> op[d].st = "none"
        /\ dep[d].st = "SUCCESS" <=> op[d].st = "SUCCESS"
        /\ dep[d].rb = None =>
              CASE op[d].st = "RUNNING" -> dep[d].st \in {"DEPLOYING", "VERIFYING"}
                [] op[d].st \in {"VERIFYING", "NEEDS_ATTENTION", "FAILED"} -> dep[d].st = op[d].st
                [] OTHER -> TRUE
        /\ dep[d].rb # None =>
              LET r == op[dep[d].rb].st IN
              CASE r = "RUNNING" -> dep[d].st = "ROLLING_BACK"
                [] r = "VERIFYING" -> dep[d].st = "ROLLBACK_VERIFYING"
                [] r = "NEEDS_ATTENTION" -> dep[d].st \in {"NEEDS_ATTENTION", "ROLLBACK_FAILED"}
                [] r = "SUCCESS" -> dep[d].st = "ROLLED_BACK"
                [] r = "FAILED" -> dep[d].st = "FAILED"
                [] OTHER -> FALSE

\* A deployment that succeeded is never touched again, although the writers of
\* the deployments table do not check its status.
SuccessStands ==
    [][\A d \in DOMAIN dep : dep[d].st = "SUCCESS" => dep'[d] = dep[d]]_vars

\* "Only FAILED deployments can be rolled back manually" (rollback).
OnlyFailedRollsBack ==
    [][\A d \in DOMAIN dep : dep'[d].st = "ROLLING_BACK" /\ dep[d].st # "ROLLING_BACK" => dep[d].st = "FAILED"]_vars
-----------------------------------------------------------------------------
(* The operations and their contract *)

\* What the row says, and what has become of the request.
Status(o) == IF Unfinished(o) THEN "unfinished" ELSE op[o].st
Request(o) == IF wire[o] = "none" THEN "unsent" ELSE IF MayTakeEffect(o) THEN "live" ELSE "spent"

\* One operation as OperationContract sees it.
Operation(o) == INSTANCE OperationContract WITH
    MayDisown <- o \in Deploys, status <- Status(o), request <- Request(o)

\* Every operation keeps the contract, whatever callbacks are cut off, answers
\* lost and changes made by others: it is sent once, after its intent, and ends
\* once, with a request that can no longer take effect, but for the DEPLOY that
\* reconciliation fails on Swarm's update state (deployRelease, reconcileLocked).
OperationsKeepContract ==
    /\ \A o \in DOMAIN op : Operation(o)!OperationInit
    /\ [][\A o \in DOMAIN op : UNCHANGED Operation(o)!operationVars \/ Operation(o)!OperationNext]_vars
=============================================================================
