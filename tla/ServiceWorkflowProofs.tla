----------------------- MODULE ServiceWorkflowProofs -----------------------
(***************************************************************************)
(* The theorems of ServiceWorkflow, for any number of operations of each   *)
(* type, any images and replicas, and any number of changes of the service *)
(* by anyone.                                                              *)
(***************************************************************************)
EXTENDS ServiceWorkflow, TLAPS

-----------------------------------------------------------------------------
(* The inductive invariant; D are the operation IDs of the behaviour *)

SvcType == [ver : 1 .. MaxVer, spec : Specs, prev : Specs \cup {None}, us : UpdateStates]
OpType == [st : Statuses, code : Codes, before : Specs \cup {None}, target : Specs \cup {None}, ver : 0 .. MaxVer]
DepType == [st : DepStatuses, prev : Images \cup {None}, rb : Rollbacks \cup {None}]
SessType == [pc : Steps, op : Ops \cup {None}, before : Specs \cup {None}, target : Specs \cup {None},
             ver : 0 .. MaxVer, saw : {"nothing", "waiting", "rollback"}]
Wires == {"none", "sent", "ok", "rejected", "over"}

OpsTyped(D) == op \in [D -> OpType] /\ dep \in [Deploys \cap D -> DepType]

Typed(D) ==
    /\ OpsTyped(D) /\ svc \in SvcType /\ sess \in SessType /\ release \in Images \cup {None}
    /\ wire \in [D -> Wires] /\ asked \in [Rollbacks \cap D -> Deploys \cup {None}]

\* The lock is held from planning to the last write.  Until the intent no
\* operation is unfinished; from then on it is the session's, as planned.  A
\* request is not sent before its turn, and an outcome that ends the operation is
\* decided only when the request cannot change the service any more.
Early == {"planned", "observed"}
Over(o) == ~MayTakeEffect(o)

SessOK(D) ==
    sess.pc # "free" =>
        /\ sess.op \in D /\ sess.target \in Specs /\ sess.ver <= svc.ver
        /\ sess.op \in Rollbacks => asked[sess.op] # None
        /\ sess.pc \in Early => op[sess.op].st = "none" /\ \A o \in D : ~Unfinished(o)
        /\ sess.pc \notin Early =>
              Unfinished(sess.op) /\ op[sess.op].before = sess.before /\ op[sess.op].target = sess.target
        /\ sess.pc = "dispatch" => wire[sess.op] = "none"
        /\ sess.pc \in {"success", "fail"} => Over(sess.op)
        /\ sess.pc = "convergenceFailed" /\ sess.op \notin Deploys => Over(sess.op)

\* No plan is of a later version than the service has.
OpOK(o) ==
    /\ op[o].ver <= svc.ver
    /\ op[o].st = "none" => wire[o] = "none"
    /\ op[o].st # "none" => op[o].target \in Specs
    /\ op[o].st \in Terminal => Over(o) \/ (o \in Deploys /\ op[o].code = "CONVERGENCE_FAILED")

OneOpen(D) == \A o1, o2 \in D : Unfinished(o1) /\ Unfinished(o2) => o1 = o2

\* What was asked to be rolled back has failed for good; the rollback that the
\* deployment names was asked for it, and an unfinished one is named.
AskOK(r, D) ==
    /\ op[r].st # "none" => asked[r] # None
    /\ asked[r] # None => asked[r] \in D /\ op[asked[r]].st = "FAILED"
    /\ Unfinished(r) => dep[asked[r]].rb = r

\* Status of a deployment that no rollback was started for, and of one by its
\* last rollback.
Own(s, ds) ==
    /\ s = "RUNNING" => ds \in {"DEPLOYING", "VERIFYING"}
    /\ s \in {"VERIFYING", "NEEDS_ATTENTION", "FAILED"} => ds = s
ByRollback(s, ds) ==
    \/ s = "RUNNING" /\ ds = "ROLLING_BACK"
    \/ s = "VERIFYING" /\ ds = "ROLLBACK_VERIFYING"
    \/ s = "NEEDS_ATTENTION" /\ ds \in {"NEEDS_ATTENTION", "ROLLBACK_FAILED"}
    \/ s = "SUCCESS" /\ ds = "ROLLED_BACK"
    \/ s = "FAILED" /\ ds = "FAILED"
Same(s, ds) == (ds = "none" <=> s = "none") /\ (ds = "SUCCESS" <=> s = "SUCCESS")

DepOK(d, D) ==
    /\ Same(op[d].st, dep[d].st)
    /\ dep[d].rb = None => Own(op[d].st, dep[d].st)
    /\ dep[d].rb # None => dep[d].rb \in D /\ asked[dep[d].rb] = d /\ ByRollback(op[dep[d].rb].st, dep[d].st)

J(D) ==
    /\ Typed(D) /\ SessOK(D) /\ OneOpen(D)
    /\ \A o \in D : OpOK(o)
    /\ \A r \in Rollbacks \cap D : AskOK(r, D)
    /\ \A d \in Deploys \cap D : DepOK(d, D)

IInv == \E D \in SUBSET Ops : J(D)

-----------------------------------------------------------------------------
(* Facts about the invariant *)

LEMMA Facts ==
    ASSUME NEW D, J(D)
    PROVE  /\ op \in [D -> OpType] /\ dep \in [Deploys \cap D -> DepType]
           /\ svc \in SvcType /\ sess \in SessType /\ release \in Images \cup {None}
           /\ wire \in [D -> Wires] /\ asked \in [Rollbacks \cap D -> Deploys \cup {None}]
           /\ SessOK(D) /\ OneOpen(D)
           /\ \A o \in D : OpOK(o)
           /\ \A r \in Rollbacks \cap D : AskOK(r, D)
           /\ \A d \in Deploys \cap D : DepOK(d, D)
  BY Zenon DEF J, Typed, OpsTyped

LEMMA Domains ==
    ASSUME NEW D, J(D)
    PROVE  DOMAIN op = D /\ DOMAIN dep = Deploys \cap D /\ DOMAIN asked = Rollbacks \cap D
  BY Zenon, Facts

LEMMA Versions ==
    ASSUME NEW D, J(D)
    PROVE  /\ svc.ver \in Nat /\ svc.ver <= MaxVer /\ sess.ver \in Nat /\ MaxVer \in Nat
           /\ \A o \in D : op[o].ver \in Nat
  <1>1. svc.ver \in 1 .. MaxVer /\ sess.ver \in 0 .. MaxVer /\ MaxVer \in Nat
    BY Zenon, Facts, ServiceAssumption DEF SvcType, SessType
  <1>2. \A o \in D : op[o].ver \in 0 .. MaxVer
    BY Zenon, Facts DEF OpType
  <1> QED
    BY <1>1, <1>2

\* An operation has one type.
LEMMA OneType ==
    ASSUME NEW o
    PROVE  /\ (o \in Deploys => o \notin Rollbacks /\ o \notin Scales /\ o \notin Restarts)
           /\ (o \in Rollbacks => o \notin Deploys /\ o \notin Scales /\ o \notin Restarts)
           /\ (o \in Scales \cup Restarts => o \notin Deploys /\ o \notin Rollbacks)
           /\ (o \in Ops => o # None)
  BY ServiceAssumption DEF Ops

\* The deployment of a rollback has failed.
LEMMA AskedFailed ==
    ASSUME NEW D, J(D), NEW r \in Rollbacks \cap D, asked[r] # None
    PROVE  asked[r] \in Deploys \cap D /\ op[asked[r]].st = "FAILED"
  <1>1. asked[r] \in D /\ op[asked[r]].st = "FAILED"
    BY Zenon, Facts DEF AskOK
  <1>2. asked[r] \in Deploys \cup {None}
    BY Zenon, Facts
  <1> QED
    BY <1>1, <1>2

\* A step of the lock holder that writes nothing.
LEMMA SessStep ==
    ASSUME NEW D, J(D), UNCHANGED <<svc, op, dep, wire, asked, release>>, sess' \in SessType, SessOK(D)'
    PROVE  J(D)'
  <1>1. Typed(D)'
    BY Zenon, Facts DEF Typed, OpsTyped
  <1>2. OneOpen(D)' /\ (\A o \in D : OpOK(o)')
    BY Zenon, Facts DEF OneOpen, Unfinished, OpOK, Over, MayTakeEffect, Matches, validateMutationPrecondition
  <1>3. (\A r \in Rollbacks \cap D : AskOK(r, D)') /\ (\A d \in Deploys \cap D : DepOK(d, D)')
    BY Zenon, Facts DEF AskOK, DepOK, Unfinished
  <1> QED
    BY Zenon, <1>1, <1>2, <1>3 DEF J

\* The same when the session keeps operation and plan, and what it decides, if
\* that ends the operation, fits the request.
LEMMA DecideStep ==
    ASSUME NEW D, J(D), UNCHANGED <<svc, op, dep, wire, asked, release>>, sess' \in SessType,
           sess.pc \notin Early \cup {"free"}, sess'.pc \notin Early \cup {"free", "dispatch"},
           sess'.op = sess.op, sess'.before = sess.before, sess'.target = sess.target, sess'.ver = sess.ver,
           sess'.pc \in {"success", "fail"} \/ (sess'.pc = "convergenceFailed" /\ sess.op \notin Deploys) => Over(sess.op)
    PROVE  J(D)'
  <1>1. /\ sess.op \in D /\ sess.target \in Specs /\ sess.ver <= svc.ver
        /\ sess.op \in Rollbacks => asked[sess.op] # None
        /\ Unfinished(sess.op) /\ op[sess.op].before = sess.before /\ op[sess.op].target = sess.target
    BY Zenon, Facts DEF SessOK
  <1>2. (Unfinished(sess.op) <=> Unfinished(sess.op)') /\ (Over(sess.op) <=> Over(sess.op)')
    BY Zenon DEF Unfinished, Over, MayTakeEffect, Matches, validateMutationPrecondition
  <1>3. SessOK(D)'
    BY Zenon, <1>1, <1>2 DEF SessOK
  <1> QED
    BY Zenon, <1>3, SessStep

-----------------------------------------------------------------------------
(* Planning, and taking up an operation again *)

LEMMA PlanStep ==
    ASSUME NEW D, J(D), NEW o \in D, NEW pc \in Early, NEW b \in Specs \cup {None}, NEW t \in Specs,
           D \subseteq Ops, Idle(o), DOMAIN op = D, o \in Rollbacks => asked[o] # None,
           Plan(pc, o, b, t), UNCHANGED <<svc, op, dep, wire, asked, release>>
    PROVE  J(D)'
  <1>1. svc.ver \in 0 .. MaxVer
    BY Versions
  <1>2. sess' = [pc |-> pc, op |-> o, before |-> b, target |-> t, ver |-> svc.ver, saw |-> "nothing"]
    BY Zenon DEF Plan
  <1>3. sess' \in SessType
    BY Zenon, <1>1, <1>2 DEF SessType, Early, Steps
  <1>4. sess'.pc = pc /\ sess'.op = o /\ sess'.target = t /\ sess'.ver = svc.ver
    BY <1>2
  <1>5. pc \notin {"dispatch", "success", "fail", "convergenceFailed"}
    BY DEF Early
  <1>6. op'[o].st = "none" /\ (\A p \in D : ~Unfinished(p)')
    BY Zenon DEF Idle, NoPrior, Unfinished
  <1>7. svc.ver <= svc'.ver
    BY Versions
  <1>8. SessOK(D)'
    BY Zenon, <1>4, <1>5, <1>6, <1>7 DEF SessOK
  <1> QED
    BY Zenon, <1>3, <1>8, SessStep

LEMMA PlanDeployStep ==
    ASSUME NEW D \in SUBSET Ops, J(D), NEW d \in DOMAIN dep, NEW i \in MixedImages, PlanDeploy(d, i)
    PROVE  J(D)'
  <1>1. d \in D /\ i \in Images /\ DOMAIN op = D /\ d \notin Rollbacks
    <2>1. d \in D /\ d \in Deploys /\ DOMAIN op = D
      BY Zenon, Domains
    <2> QED
      BY Zenon, <2>1, OneType DEF MixedImages, Mixed
  <1>2. svc.spec \in Specs
    BY Zenon, Facts DEF SvcType
  <1>3. PlanUpdateServiceImage(i) \in Specs
    BY <1>1, <1>2 DEF PlanUpdateServiceImage, Specs
  <1> QED
    BY Zenon, <1>1, <1>2, <1>3, PlanStep DEF PlanDeploy, Early

LEMMA PlanScaleStep ==
    ASSUME NEW D \in SUBSET Ops, J(D), NEW o \in DOMAIN op \cap Scales, NEW n \in MixedReplicas, PlanScale(o, n)
    PROVE  J(D)'
  <1>1. o \in D /\ n \in Replicas /\ DOMAIN op = D /\ o \notin Rollbacks
    <2>1. o \in D /\ o \in Scales \cup Restarts /\ DOMAIN op = D
      BY Zenon, Domains
    <2> QED
      BY Zenon, <2>1, OneType DEF MixedReplicas, Mixed
  <1>2. svc.spec \in Specs
    BY Zenon, Facts DEF SvcType
  <1>3. PlanScaleReplicas(n) \in Specs
    BY <1>1, <1>2 DEF PlanScaleReplicas, Specs
  <1> QED
    BY Zenon, <1>1, <1>2, <1>3, PlanStep DEF PlanScale, Early

LEMMA PlanRestartStep ==
    ASSUME NEW D \in SUBSET Ops, J(D), NEW o \in DOMAIN op \cap Restarts, PlanRestart(o)
    PROVE  J(D)'
  <1>1. o \in D /\ DOMAIN op = D /\ o \notin Rollbacks
    <2>1. o \in D /\ o \in Scales \cup Restarts /\ DOMAIN op = D
      BY Zenon, Domains
    <2> QED
      BY Zenon, <2>1, OneType
  <1>2. svc.spec \in Specs
    BY Zenon, Facts DEF SvcType
  <1>3. svc.spec.force \in 0 .. MaxForce /\ svc.spec.force < MaxForce
    BY <1>2 DEF Specs, PlanRestart
  <1>4. svc.spec.force + 1 \in 0 .. MaxForce
    BY <1>3, ServiceAssumption
  <1>5. PlanRestartForce \in Specs
    BY <1>2, <1>4 DEF PlanRestartForce, Specs
  <1> QED
    BY Zenon, <1>1, <1>2, <1>5, PlanStep DEF PlanRestart, Early

LEMMA PlanRollbackStep ==
    ASSUME NEW D \in SUBSET Ops, J(D), NEW r \in DOMAIN asked, PlanRollback(r)
    PROVE  J(D)'
  <1>1. r \in D /\ r \in Rollbacks /\ DOMAIN op = D /\ asked[r] # None
    BY Zenon, Domains DEF PlanRollback
  <1>2. asked[r] \in D
    BY Zenon, <1>1, Facts DEF AskOK
  <1>3. svc.spec \in Specs /\ svc.prev \in Specs \cup {None} /\ op[asked[r]].target \in Specs \cup {None}
    BY Zenon, <1>2, Facts DEF SvcType, OpType
  <1>4. Idle(r) /\ UNCHANGED <<svc, op, dep, wire, asked, release>>
    BY Zenon DEF PlanRollback
  <1>5. CASE Plan("observed", r, op[asked[r]].target, svc.spec)
    BY Zenon, <1>1, <1>3, <1>4, <1>5, PlanStep DEF Early
  <1>6. CASE svc.prev # None /\ Plan("planned", r, svc.spec, svc.prev)
    <2>1. svc.prev \in Specs
      BY <1>3, <1>6
    <2> QED
      BY Zenon, <2>1, <1>1, <1>3, <1>4, <1>6, PlanStep DEF Early
  <1> QED
    BY Zenon, <1>5, <1>6 DEF PlanRollback, assertRollbackOwnership

LEMMA ReconcileStep ==
    ASSUME NEW D \in SUBSET Ops, J(D), NEW o \in DOMAIN op, Reconcile(o)
    PROVE  J(D)'
  <1>1. o \in D /\ OpOK(o) /\ op[o] \in OpType /\ Unfinished(o)
    <2>1. o \in D
      BY Zenon, Domains
    <2> QED
      BY Zenon, <2>1, Facts DEF Reconcile
  <1>2. op[o].st # "none" /\ op[o].target \in Specs
    BY Zenon, <1>1 DEF Unfinished, OpOK
  <1>3. op[o].before \in Specs \cup {None} /\ op[o].ver \in 0 .. MaxVer
    BY <1>1 DEF OpType
  <1>4. sess' = [pc |-> "reconcile", op |-> o, before |-> op[o].before, target |-> op[o].target,
                 ver |-> op[o].ver, saw |-> "nothing"]
    BY Zenon DEF Reconcile
  <1>5. sess' \in SessType
    BY Zenon, <1>1, <1>2, <1>3, <1>4 DEF SessType, Steps
  <1>6. /\ sess'.pc = "reconcile" /\ sess'.op = o /\ sess'.before = op[o].before /\ sess'.target = op[o].target
        /\ sess'.ver = op[o].ver
    BY <1>4
  <1>7. o \in Rollbacks => asked[o] # None
    BY Zenon, <1>1, <1>2, Facts DEF AskOK
  <1>8. UNCHANGED <<svc, op, dep, wire, asked, release>>
    BY Zenon DEF Reconcile
  <1>9. op[o].ver <= svc.ver /\ Unfinished(o)'
    BY Zenon, <1>1, <1>8 DEF OpOK, Unfinished
  <1>10. SessOK(D)'
    BY Zenon, <1>1, <1>2, <1>6, <1>7, <1>8, <1>9 DEF SessOK, Early
  <1> QED
    BY Zenon, <1>5, <1>8, <1>10, SessStep

-----------------------------------------------------------------------------
(* The intent *)

\* What the lock holder knows before the intent.
LEMMA EarlyFacts ==
    ASSUME NEW D, J(D), sess.pc \in Early
    PROVE  /\ sess.op \in D /\ sess.target \in Specs /\ sess.ver <= svc.ver /\ op[sess.op].st = "none"
           /\ (sess.op \in Rollbacks => asked[sess.op] # None)
           /\ (\A o \in D : ~Unfinished(o)) /\ wire[sess.op] = "none"
  <1>1. sess.pc # "free"
    BY DEF Early
  <1>2. /\ sess.op \in D /\ sess.target \in Specs /\ sess.ver <= svc.ver /\ op[sess.op].st = "none"
        /\ (sess.op \in Rollbacks => asked[sess.op] # None) /\ (\A o \in D : ~Unfinished(o))
    BY Zenon, <1>1, Facts DEF SessOK
  <1> QED
    BY Zenon, <1>2, Facts DEF OpOK

\* The operation's row is new, so nothing refers to it, and it is the only one
\* that is unfinished.
LEMMA IntentStep ==
    ASSUME NEW D \in SUBSET Ops, J(D), NEW o \in D, o = sess.op, sess.pc \in Early,
           NEW pc \in {"accepted", "reconcile", "dispatch"}, Intend(o, pc), dep' \in [Deploys \cap D -> DepType],
           o \in Rollbacks => dep'[asked[o]].rb = o,
           \A d \in Deploys \cap D : DepOK(d, D)'
    PROVE  J(D)'
  <1>1. /\ sess.target \in Specs /\ sess.ver <= svc.ver /\ op[o].st = "none" /\ wire[o] = "none"
        /\ (o \in Rollbacks => asked[o] # None) /\ (\A p \in D : ~Unfinished(p))
    BY Zenon, EarlyFacts
  <1>2. UNCHANGED <<svc, wire, asked, release>> /\ sess' = [sess EXCEPT !.pc = pc]
    BY Zenon DEF Intend
  <1>3. sess.before \in Specs \cup {None} /\ sess.ver \in 0 .. MaxVer
    BY Zenon, Facts DEF SessType
  <1>4. PICK n : n = [st |-> "RUNNING", code |-> "none", before |-> sess.before, target |-> sess.target,
                      ver |-> sess.ver]
    BY Zenon
  <1>5. n \in OpType
    BY Zenon, <1>1, <1>3, <1>4 DEF OpType, Statuses, Codes
  <1>6. n.st = "RUNNING" /\ n.before = sess.before /\ n.target = sess.target /\ n.ver = sess.ver
    BY <1>4
  <1>7. op' = [op EXCEPT ![o] = n]
    BY Zenon, <1>4 DEF Intend
  <1>8. op' \in [D -> OpType] /\ op'[o] = n /\ (\A p \in D : p # o => op'[p] = op[p])
    <2>1. op \in [D -> OpType]
      BY Zenon, Facts
    <2> QED
      BY <2>1, <1>5, <1>7
  <1>9. sess' \in SessType
    BY Zenon, <1>2, Facts DEF SessType, Steps, Outcomes
  <1>10. /\ sess'.pc = pc /\ sess'.op = o /\ sess'.before = sess.before /\ sess'.target = sess.target
         /\ sess'.ver = sess.ver
    BY <1>2, Facts DEF SessType
  <1>11. Typed(D)'
    BY Zenon, <1>2, <1>8, <1>9, Facts DEF Typed, OpsTyped
  <1>12. Unfinished(o)' /\ (\A p \in D : p # o => ~Unfinished(p)')
    BY <1>1, <1>6, <1>8 DEF Unfinished, Terminal
  <1>13. SessOK(D)'
    <2>1. pc \notin Early /\ pc \notin {"success", "fail", "convergenceFailed", "free"}
      BY DEF Early
    <2>2. op'[o].before = sess.before /\ op'[o].target = sess.target
      BY Zenon, <1>6, <1>8
    <2> QED
      BY Zenon, <2>1, <2>2, <1>1, <1>2, <1>10, <1>12 DEF SessOK
  <1>14. OneOpen(D)'
    BY Zenon, <1>12 DEF OneOpen
  <1>15. ASSUME NEW p \in D PROVE OpOK(p)'
    <2>1. CASE p = o
      <3>1. op'[p].ver <= svc'.ver /\ op'[p].target \in Specs /\ op'[p].st = "RUNNING"
        BY Zenon, <2>1, <1>1, <1>2, <1>6, <1>8
      <3> QED
        BY Zenon, <3>1 DEF OpOK, Terminal
    <2>2. CASE p # o
      <3>1. op'[p] = op[p] /\ wire' = wire /\ svc' = svc /\ OpOK(p)
        BY Zenon, <2>2, <1>2, <1>8, Facts
      <3> QED
        BY Zenon, <3>1 DEF OpOK, Over, MayTakeEffect, Matches, validateMutationPrecondition
    <2> QED
      BY <2>1, <2>2
  <1>16. ASSUME NEW r \in Rollbacks \cap D PROVE AskOK(r, D)'
    <2>1. asked[r] # None => asked[r] \in D /\ op[asked[r]].st = "FAILED" /\ asked[r] # o
      <3>1. asked[r] # None => asked[r] \in D /\ op[asked[r]].st = "FAILED"
        BY Zenon, Facts DEF AskOK
      <3> QED
        BY <3>1, <1>1
    <2>2. asked[r] # None => asked[r] \in D /\ op'[asked[r]].st = "FAILED"
      BY Zenon, <2>1, <1>8
    <2>3. CASE r = o
      BY Zenon, <2>2, <2>3, <1>1, <1>2 DEF AskOK
    <2>4. CASE r # o
      BY Zenon, <2>2, <2>4, <1>2, <1>8, <1>12, Facts DEF AskOK
    <2> QED
      BY <2>3, <2>4
  <1> QED
    BY Zenon, <1>11, <1>13, <1>14, <1>15, <1>16 DEF J

\* Deployments other than the one an operation writes to keep their status.
LEMMA OtherDep ==
    ASSUME NEW D, J(D), NEW o \in D, NEW d \in Deploys \cap D, d # o, o \in Rollbacks => asked[o] # d,
           dep'[d] = dep[d], asked' = asked, \A p \in D : p # o => op'[p] = op[p]
    PROVE  DepOK(d, D)'
  <1>1. dep[d].rb \in Rollbacks \cup {None} /\ DepOK(d, D)
    BY Zenon, Facts DEF DepType
  <1>2. dep[d].rb # None => dep[d].rb # o /\ dep[d].rb \in D
    BY Zenon, <1>1 DEF DepOK
  <1> QED
    BY Zenon, <1>1, <1>2 DEF DepOK

LEMMA PersistDeployStep ==
    ASSUME NEW D \in SUBSET Ops, J(D), PersistDeployIntent
    PROVE  J(D)'
  <1> DEFINE o == sess.op
  <1>1. PICK pc \in {"accepted", "dispatch"} : Intend(o, pc)
    BY Zenon DEF PersistDeployIntent
  <1>2. PICK ds \in {"VERIFYING", "DEPLOYING"} : dep' = [dep EXCEPT ![o] = [st |-> ds, prev |-> release, rb |-> None]]
    BY Zenon DEF PersistDeployIntent
  <1>3. sess.pc \in Early /\ o \in Deploys /\ o \notin Rollbacks
    BY ServiceAssumption DEF PersistDeployIntent, Early
  <1>4. o \in D /\ o \in Deploys \cap D
    BY Zenon, <1>3, EarlyFacts
  <1>5. [st |-> ds, prev |-> release, rb |-> None] \in DepType
    BY Zenon, Facts DEF DepType, DepStatuses
  <1>6. /\ dep' \in [Deploys \cap D -> DepType] /\ dep'[o] = [st |-> ds, prev |-> release, rb |-> None]
        /\ \A d \in Deploys \cap D : d # o => dep'[d] = dep[d]
    BY Zenon, <1>2, <1>4, <1>5, Facts
  <1>7. op'[o].st = "RUNNING" /\ (\A p \in D : p # o => op'[p] = op[p]) /\ asked' = asked
    BY Zenon, <1>1, <1>4, Facts DEF Intend
  <1>8. ASSUME NEW d \in Deploys \cap D PROVE DepOK(d, D)'
    <2>1. CASE d = o
      <3>1. dep'[d].rb = None /\ dep'[d].st = ds /\ op'[d].st = "RUNNING"
        BY <2>1, <1>6, <1>7
      <3>2. Same("RUNNING", ds) /\ Own("RUNNING", ds)
        BY DEF Same, Own
      <3> QED
        BY Zenon, <3>1, <3>2 DEF DepOK
    <2>2. CASE d # o
      BY Zenon, <2>2, <1>3, <1>4, <1>6, <1>7, OtherDep
    <2> QED
      BY <2>1, <2>2
  <1> QED
    BY Zenon, <1>1, <1>3, <1>4, <1>6, <1>8, IntentStep

LEMMA PersistRollbackStep ==
    ASSUME NEW D \in SUBSET Ops, J(D), PersistRollbackIntent
    PROVE  J(D)'
  <1> DEFINE o == sess.op
             a == asked[o]
  <1>1. PICK pc \in {"reconcile", "dispatch"} : Intend(o, pc)
    BY Zenon DEF PersistRollbackIntent
  <1>2. sess.pc \in Early /\ o \in Rollbacks /\ o \notin Deploys
    BY ServiceAssumption DEF PersistRollbackIntent, Early
  <1>3. o \in Rollbacks \cap D /\ o \in D /\ a # None /\ op[o].st = "none"
    BY Zenon, <1>2, EarlyFacts
  <1>4. a \in Deploys \cap D /\ op[a].st = "FAILED" /\ a # o
    <2>1. a \in Deploys \cap D /\ op[a].st = "FAILED"
      BY Zenon, <1>3, AskedFailed
    <2> QED
      BY <2>1, <1>3
  <1>5. PICK n : n = [dep[a] EXCEPT !.st = "ROLLING_BACK", !.rb = o]
    OBVIOUS
  <1>6. dep' = [dep EXCEPT ![a] = n]
    BY Zenon, <1>5 DEF PersistRollbackIntent
  <1>7. dep[a] \in DepType
    BY Zenon, <1>4, Facts
  <1>8. n \in DepType /\ n.st = "ROLLING_BACK" /\ n.rb = o
    BY Zenon, <1>3, <1>5, <1>7 DEF DepType, DepStatuses
  <1>9. /\ dep' \in [Deploys \cap D -> DepType] /\ dep'[a] = n
        /\ \A d \in Deploys \cap D : d # a => dep'[d] = dep[d]
    BY Zenon, <1>4, <1>6, <1>8, Facts
  <1>10. op'[o].st = "RUNNING" /\ (\A p \in D : p # o => op'[p] = op[p]) /\ asked' = asked
    <2>1. DOMAIN op = D
      BY Zenon, Domains
    <2> QED
      BY <2>1, <1>1, <1>3 DEF Intend
  <1>11. ASSUME NEW d \in Deploys \cap D PROVE DepOK(d, D)'
    <2>1. CASE d = a
      <3>1. dep'[d].rb = o /\ dep'[d].st = "ROLLING_BACK" /\ op'[d].st = "FAILED"
        BY Zenon, <2>1, <1>4, <1>8, <1>9, <1>10
      <3>2. Same("FAILED", "ROLLING_BACK") /\ ByRollback("RUNNING", "ROLLING_BACK")
        BY DEF Same, ByRollback
      <3>3. o # None
        BY <1>2, ServiceAssumption DEF Ops
      <3> QED
        BY Zenon, <2>1, <3>1, <3>2, <3>3, <1>3, <1>10 DEF DepOK
    <2>2. CASE d # a
      <3>1. d # o
        BY <1>2
      <3> QED
        BY Zenon, <2>2, <3>1, <1>3, <1>9, <1>10, OtherDep
    <2> QED
      BY <2>1, <2>2
  <1>12. dep'[asked[o]].rb = o
    BY Zenon, <1>8, <1>9
  <1> QED
    BY Zenon, <1>1, <1>2, <1>3, <1>9, <1>11, <1>12, IntentStep

LEMMA PersistMutationStep ==
    ASSUME NEW D \in SUBSET Ops, J(D), PersistMutationIntent
    PROVE  J(D)'
  <1> DEFINE o == sess.op
  <1>1. Intend(o, "dispatch") /\ dep' = dep
    BY Zenon DEF PersistMutationIntent
  <1>2. sess.pc \in Early /\ o \notin Rollbacks /\ o \notin Deploys
    BY ServiceAssumption DEF PersistMutationIntent, Early
  <1>3. o \in D
    BY Zenon, <1>2, EarlyFacts
  <1>4. (\A p \in D : p # o => op'[p] = op[p]) /\ asked' = asked
    BY <1>1, <1>3, Facts DEF Intend
  <1>5. dep' \in [Deploys \cap D -> DepType]
    BY Zenon, <1>1, Facts
  <1>6. ASSUME NEW d \in Deploys \cap D PROVE DepOK(d, D)'
    <2>1. d # o /\ dep'[d] = dep[d]
      BY Zenon, <1>1, <1>2
    <2> QED
      BY Zenon, <2>1, <1>2, <1>3, <1>4, OtherDep
  <1> QED
    BY Zenon, <1>1, <1>2, <1>3, <1>5, <1>6, IntentStep

-----------------------------------------------------------------------------
(* The request *)

\* What the lock holder knows after the intent.
LEMMA LateFacts ==
    ASSUME NEW D, J(D), sess.pc \notin Early \cup {"free"}
    PROVE  /\ sess.op \in D /\ sess.target \in Specs /\ Unfinished(sess.op)
           /\ op[sess.op].before = sess.before /\ op[sess.op].target = sess.target
           /\ op[sess.op].st # "none"
           /\ sess.op \in Rollbacks => asked[sess.op] # None
  <1>1. /\ sess.op \in D /\ sess.target \in Specs /\ Unfinished(sess.op)
        /\ op[sess.op].before = sess.before /\ op[sess.op].target = sess.target
        /\ sess.op \in Rollbacks => asked[sess.op] # None
    BY Zenon, Facts DEF SessOK
  <1> QED
    BY Zenon, <1>1 DEF Unfinished

\* Only the request of an operation changes: it is sent while the operation is
\* unfinished, or it ends.
LEMMA WireStep ==
    ASSUME NEW D, J(D), NEW o \in D, wire' \in [D -> Wires], \A p \in D : p # o => wire'[p] = wire[p],
           wire'[o] # wire[o] => op[o].st # "none", wire'[o] = "sent" => wire[o] = "sent" \/ Unfinished(o),
           UNCHANGED <<svc, op, dep, asked, release>>, sess' \in SessType, SessOK(D)'
    PROVE  J(D)'
  <1>1. Typed(D)'
    BY Zenon, Facts DEF Typed, OpsTyped
  <1>2. OneOpen(D)'
    BY Zenon, Facts DEF OneOpen, Unfinished
  <1>3. ASSUME NEW p \in D PROVE OpOK(p)'
    <2>1. OpOK(p) /\ svc' = svc /\ op' = op
      BY Zenon, Facts
    <2>2. op[p].st = "none" => wire'[p] = "none"
      BY Zenon, <2>1 DEF OpOK
    <2>3. op[p].st \in Terminal => (MayTakeEffect(p)' => MayTakeEffect(p))
      <3>1. op[p].st \in Terminal /\ wire'[p] = "sent" => wire[p] = "sent"
        BY Zenon DEF Unfinished
      <3> QED
        BY Zenon, <2>1, <3>1 DEF MayTakeEffect, Matches, validateMutationPrecondition
    <2> QED
      BY Zenon, <2>1, <2>2, <2>3 DEF OpOK, Over
  <1>4. (\A r \in Rollbacks \cap D : AskOK(r, D)') /\ (\A d \in Deploys \cap D : DepOK(d, D)')
    BY Zenon, Facts DEF AskOK, DepOK, Unfinished
  <1> QED
    BY Zenon, <1>1, <1>2, <1>3, <1>4, Facts DEF J

LEMMA SendStep ==
    ASSUME NEW D \in SUBSET Ops, J(D), Send
    PROVE  J(D)'
  <1>1. PICK o : o = sess.op
    OBVIOUS
  <1>2. sess.pc = "dispatch" /\ sess.pc \notin Early \cup {"free"}
    BY DEF Send, Early
  <1>3. /\ o \in D /\ sess.target \in Specs /\ Unfinished(o) /\ op[o].before = sess.before
        /\ op[o].target = sess.target /\ op[o].st # "none" /\ (o \in Rollbacks => asked[o] # None)
    BY Zenon, <1>1, <1>2, LateFacts
  <1>4. /\ wire' = [wire EXCEPT ![o] = "sent"] /\ sess' = [sess EXCEPT !.pc = "waiting"]
        /\ UNCHANGED <<svc, op, dep, asked, release>>
    BY Zenon, <1>1 DEF Send
  <1>5. wire' \in [D -> Wires] /\ (\A p \in D : p # o => wire'[p] = wire[p])
    BY Zenon, <1>3, <1>4, Facts DEF Wires
  <1>6. sess' \in SessType /\ sess'.pc = "waiting" /\ sess'.op = o /\ sess'.ver = sess.ver
        /\ sess'.before = sess.before /\ sess'.target = sess.target
    BY Zenon, <1>1, <1>4, Facts DEF SessType, Steps
  <1>7. Unfinished(o)' /\ sess'.ver <= svc'.ver
    BY Zenon, <1>2, <1>3, <1>4, <1>6, Facts DEF Unfinished, SessOK
  <1>8. SessOK(D)'
    BY Zenon, <1>3, <1>4, <1>6, <1>7 DEF SessOK, Early
  <1> QED
    BY Zenon, <1>3, <1>4, <1>5, <1>6, <1>8, WireStep

LEMMA AnsweredStep ==
    ASSUME NEW D \in SUBSET Ops, J(D), Answered
    PROVE  J(D)'
  <1>1. PICK o : o = sess.op
    OBVIOUS
  <1>2. sess.pc = "waiting" /\ sess.pc \notin Early \cup {"free"}
    BY DEF Answered, Early
  <1>3. /\ o \in D /\ sess.target \in Specs /\ Unfinished(o) /\ op[o].before = sess.before
        /\ op[o].target = sess.target /\ op[o].st # "none" /\ (o \in Rollbacks => asked[o] # None)
    BY Zenon, <1>1, <1>2, LateFacts
  <1>4. PICK pc : /\ pc = CASE wire[o] = "ok" -> "accepted" [] wire[o] = "rejected" -> "fail" [] OTHER -> "reconcile"
                  /\ sess' = [sess EXCEPT !.pc = pc]
    BY Zenon, <1>1 DEF Answered
  <1>5. pc \in {"accepted", "fail", "reconcile"} /\ (pc = "fail" => wire[o] = "rejected")
    BY <1>4
  <1>6. PICK w : w = (IF wire[o] = "sent" THEN "sent" ELSE "over")
    OBVIOUS
  <1>7. wire' = [wire EXCEPT ![o] = w] /\ UNCHANGED <<svc, op, dep, asked, release>>
    BY Zenon, <1>1, <1>6 DEF Answered
  <1>8. w \in Wires /\ (w = "sent" => wire[o] = "sent")
    BY <1>6 DEF Wires
  <1>9. wire' \in [D -> Wires] /\ (\A p \in D : p # o => wire'[p] = wire[p]) /\ wire'[o] = w
    BY Zenon, <1>3, <1>7, <1>8, Facts
  <1>10. sess' \in SessType /\ sess'.pc = pc /\ sess'.op = o /\ sess'.ver = sess.ver
         /\ sess'.before = sess.before /\ sess'.target = sess.target
    BY Zenon, <1>1, <1>4, <1>5, Facts DEF SessType, Steps, Outcomes
  <1>11. Unfinished(o)' /\ sess'.ver <= svc'.ver
    BY Zenon, <1>2, <1>3, <1>7, <1>10, Facts DEF Unfinished, SessOK
  <1>12. pc = "fail" => Over(o)'
    <2>1. pc = "fail" => wire'[o] # "sent"
      BY <1>5, <1>8, <1>9
    <2> QED
      BY Zenon, <2>1 DEF Over, MayTakeEffect
  <1>13. pc \notin Early \cup {"free", "dispatch", "success", "convergenceFailed"}
    BY <1>5 DEF Early
  <1>14. SessOK(D)'
    BY Zenon, <1>3, <1>7, <1>10, <1>11, <1>12, <1>13 DEF SessOK
  <1> QED
    BY Zenon, <1>3, <1>7, <1>8, <1>9, <1>10, <1>14, WireStep

\* Nobody holds the lock.
LEMMA FreeSession ==
    ASSUME NEW D, sess' = Free
    PROVE  sess' \in SessType /\ SessOK(D)'
  <1>1. Free \in SessType
    BY ServiceAssumption DEF Free, SessType, Steps
  <1>2. sess'.pc = "free"
    BY DEF Free
  <1> QED
    BY Zenon, <1>1, <1>2 DEF SessOK

LEMMA SessionLostStep ==
    ASSUME NEW D \in SUBSET Ops, J(D), SessionLost
    PROVE  J(D)'
  <1>1. PICK o : o = sess.op
    OBVIOUS
  <1>2. sess' = Free /\ sess.pc # "free" /\ UNCHANGED <<svc, op, dep, asked, release>>
    BY Zenon DEF SessionLost
  <1>3. o \in D /\ OpOK(o) /\ (sess.pc = "dispatch" => Unfinished(o)) /\ wire[o] \in Wires
    BY Zenon, <1>1, <1>2, Facts DEF SessOK, Early
  <1>4. PICK w : /\ wire' = [wire EXCEPT ![o] = w]
                 /\ \/ sess.pc = "dispatch" /\ w = "sent"
                    \/ w = IF wire[o] \in {"ok", "rejected"} THEN "over" ELSE wire[o]
    BY Zenon, <1>1 DEF SessionLost
  <1>5. /\ w \in Wires /\ (w = "sent" => wire[o] = "sent" \/ sess.pc = "dispatch")
        /\ (w # wire[o] => wire[o] # "none" \/ sess.pc = "dispatch")
    BY <1>3, <1>4 DEF Wires
  <1>6. wire' \in [D -> Wires] /\ (\A p \in D : p # o => wire'[p] = wire[p]) /\ wire'[o] = w
    BY Zenon, <1>3, <1>4, <1>5, Facts
  <1>7. w # wire[o] => op[o].st # "none"
    BY Zenon, <1>3, <1>5 DEF OpOK, Unfinished
  <1>8. sess' \in SessType /\ SessOK(D)'
    BY Zenon, <1>2, FreeSession
  <1> QED
    BY Zenon, <1>2, <1>3, <1>5, <1>6, <1>7, <1>8, WireStep

LEMMA NotAppliedStep ==
    ASSUME NEW D \in SUBSET Ops, J(D), NEW o \in DOMAIN op, NotApplied(o)
    PROVE  J(D)'
  <1>1. o \in D /\ OpOK(o) /\ wire[o] = "sent" /\ UNCHANGED <<svc, op, dep, sess, asked, release>>
    BY Zenon, Domains, Facts DEF NotApplied
  <1>2. PICK w \in {"rejected", "over"} : wire' = [wire EXCEPT ![o] = w]
    BY Zenon DEF NotApplied, Answer
  <1>3. /\ wire' \in [D -> Wires] /\ (\A p \in D : p # o => wire'[p] = wire[p])
        /\ wire'[o] # "sent" /\ wire'[o] # "none"
    BY Zenon, <1>1, <1>2, Facts DEF Wires
  <1>4. op[o].st # "none"
    BY <1>1 DEF OpOK
  <1>5. \A p \in D : Over(p) => Over(p)'
    BY Zenon, <1>1, <1>3 DEF Over, MayTakeEffect, Matches, validateMutationPrecondition
  <1>6. \A p \in D : Unfinished(p)' <=> Unfinished(p)
    BY Zenon, <1>1 DEF Unfinished
  <1>7. SessOK(D)'
    BY Zenon, <1>1, <1>3, <1>5, <1>6, Facts DEF SessOK
  <1> QED
    BY Zenon, <1>1, <1>3, <1>4, <1>7, Facts, WireStep

-----------------------------------------------------------------------------
(* The service changes *)

\* Every change moves the version past all plans: no request that was planned
\* before it can take effect after it.
LEMMA SvcStep ==
    ASSUME NEW D, J(D), svc' \in SvcType, svc'.ver = svc.ver + 1, wire' \in [D -> Wires],
           \A p \in D : wire'[p] # wire[p] => wire[p] = "sent",
           UNCHANGED <<op, dep, sess, asked, release>>
    PROVE  J(D)'
  <1>1. \A p \in D : op[p].ver <= svc'.ver /\ op[p].ver # svc'.ver
    <2> TAKE p \in D
    <2>1. op[p].ver <= svc.ver /\ op[p].ver \in Nat /\ svc.ver \in Nat
      BY Zenon, Versions, Facts DEF OpOK
    <2> QED
      BY <2>1
  <1>2. sess.pc # "free" => sess.ver <= svc'.ver
    <2>1. sess.pc # "free" => sess.ver <= svc.ver
      BY Zenon, Facts DEF SessOK
    <2>2. sess.ver \in Nat /\ svc.ver \in Nat
      BY Zenon, Versions
    <2> QED
      BY <2>1, <2>2
  <1>3. \A p \in D : Over(p)'
    BY Zenon, <1>1 DEF Over, MayTakeEffect, Matches, validateMutationPrecondition
  <1>4. \A p \in D : Unfinished(p)' <=> Unfinished(p)
    BY Zenon DEF Unfinished
  <1>5. Typed(D)'
    BY Zenon, Facts DEF Typed, OpsTyped
  <1>6. OneOpen(D)'
    BY Zenon, <1>4, Facts DEF OneOpen
  <1>7. ASSUME NEW p \in D PROVE OpOK(p)'
    <2>1. op[p].st = "none" => wire'[p] = "none"
      <3>1. op[p].st = "none" => wire[p] = "none"
        BY Zenon, Facts DEF OpOK
      <3> QED
        BY <3>1
    <2> QED
      BY Zenon, <2>1, <1>1, <1>3, Facts DEF OpOK
  <1>8. SessOK(D)'
    <2>1. sess.pc = "dispatch" => wire'[sess.op] = "none"
      <3>1. sess.pc = "dispatch" => sess.op \in D /\ wire[sess.op] = "none"
        BY Zenon, Facts DEF SessOK
      <3> QED
        BY <3>1
    <2> QED
      BY Zenon, <2>1, <1>2, <1>3, <1>4, Facts DEF SessOK
  <1>9. (\A r \in Rollbacks \cap D : AskOK(r, D)') /\ (\A d \in Deploys \cap D : DepOK(d, D)')
    BY Zenon, Facts DEF AskOK, DepOK, Unfinished
  <1> QED
    BY Zenon, <1>5, <1>6, <1>7, <1>8, <1>9 DEF J

LEMMA NextVersion ==
    ASSUME NEW D, J(D), svc.ver < LastVer
    PROVE  svc.ver + 1 \in 1 .. MaxVer
  <1>1. svc.ver \in Nat /\ MaxVer \in Nat \ {0}
    BY Versions, ServiceAssumption
  <1>2. LastVer <= MaxVer /\ LastVer \in Nat
    BY <1>1 DEF LastVer
  <1> QED
    BY <1>1, <1>2

LEMMA ServiceUpdateStep ==
    ASSUME NEW D \in SUBSET Ops, J(D), NEW o \in D, NEW us \in UpdateStates, ServiceUpdate(o, us)
    PROVE  J(D)'
  <1>1. wire[o] = "sent" /\ svc.ver < LastVer /\ OpOK(o) /\ UNCHANGED <<op, dep, sess, asked, release>>
    BY Zenon, Facts DEF ServiceUpdate
  <1>2. op[o].target \in Specs
    BY Zenon, <1>1 DEF OpOK
  <1>3. svc' = [ver |-> svc.ver + 1, spec |-> op[o].target, prev |-> svc.spec, us |-> us]
    BY Zenon DEF ServiceUpdate
  <1>4. svc.ver + 1 \in 1 .. MaxVer /\ svc.spec \in Specs
    BY Zenon, <1>1, NextVersion, Facts DEF SvcType
  <1>5. svc' \in SvcType
    BY Zenon, <1>2, <1>3, <1>4 DEF SvcType
  <1>6. svc'.ver = svc.ver + 1
    BY <1>3
  <1>7. PICK w \in {"ok", "over"} : wire' = [wire EXCEPT ![o] = w]
    BY Zenon DEF ServiceUpdate, Answer
  <1>8. wire' \in [D -> Wires] /\ (\A p \in D : wire'[p] # wire[p] => wire[p] = "sent")
    BY Zenon, <1>1, <1>7, Facts DEF Wires
  <1> QED
    BY Zenon, <1>1, <1>5, <1>6, <1>8, SvcStep

LEMMA SwarmStepStep ==
    ASSUME NEW D \in SUBSET Ops, J(D), SwarmStep
    PROVE  J(D)'
  <1>1. svc.ver < LastVer /\ UNCHANGED <<op, dep, wire, sess, asked, release>>
    BY Zenon DEF SwarmStep
  <1>2. svc.ver + 1 \in 1 .. MaxVer /\ svc \in SvcType
    BY Zenon, <1>1, NextVersion, Facts
  <1>3. svc' \in SvcType /\ svc'.ver = svc.ver + 1
    <2>1. CASE \E us \in UpdateStates : svc' = [svc EXCEPT !.ver = @ + 1, !.us = us]
      BY Zenon, <2>1, <1>2 DEF SvcType
    <2>2. CASE svc.prev # None /\ svc' = [ver |-> svc.ver + 1, spec |-> svc.prev, prev |-> None, us |-> "rollback_started"]
      BY <2>2, <1>2 DEF SvcType, UpdateStates
    <2> QED
      BY <2>1, <2>2 DEF SwarmStep, UpdateStates
  <1>4. wire' \in [D -> Wires] /\ (\A p \in D : wire'[p] # wire[p] => wire[p] = "sent")
    BY Zenon, <1>1, Facts
  <1> QED
    BY Zenon, <1>1, <1>3, <1>4, SvcStep

LEMMA ExternalUpdateStep ==
    ASSUME NEW D \in SUBSET Ops, J(D), ExternalUpdate
    PROVE  J(D)'
  <1>1. svc.ver < LastVer /\ UNCHANGED <<op, dep, wire, sess, asked, release>>
    BY Zenon DEF ExternalUpdate
  <1>2. svc.ver + 1 \in 1 .. MaxVer /\ svc.spec \in Specs
    BY Zenon, <1>1, NextVersion, Facts DEF SvcType
  <1>3. PICK i \in Images, n \in Replicas :
           svc' = [ver |-> svc.ver + 1, spec |-> [svc.spec EXCEPT !.img = i, !.rep = n], prev |-> svc.spec, us |-> "none"]
    BY Zenon DEF ExternalUpdate, MixedImages, MixedReplicas, Mixed
  <1>4. [svc.spec EXCEPT !.img = i, !.rep = n] \in Specs
    BY Zenon, <1>2 DEF Specs
  <1>5. svc' \in SvcType
    BY Zenon, <1>2, <1>3, <1>4 DEF SvcType, UpdateStates
  <1>6. svc'.ver = svc.ver + 1
    BY <1>3
  <1>7. wire' \in [D -> Wires] /\ (\A p \in D : wire'[p] # wire[p] => wire[p] = "sent")
    BY Zenon, <1>1, Facts
  <1> QED
    BY Zenon, <1>1, <1>5, <1>6, <1>7, SvcStep

-----------------------------------------------------------------------------
(* Observation *)

\* A request whose target is already there changes nothing.
LEMMA ReachedIsOver ==
    ASSUME NEW D, J(D), sess.pc \notin Early \cup {"free"}, svc.spec = sess.target
    PROVE  Over(sess.op)
  <1>1. op[sess.op].target = svc.spec
    BY Zenon, LateFacts
  <1> QED
    BY Zenon, <1>1 DEF Over, MayTakeEffect, Matches, validateMutationPrecondition

LEMMA DeploymentDecided ==
    ASSUME NEW tasks, svc.us \in UpdateStates, classifyDeploymentSnapshot(svc, sess, tasks) = "SUCCESS"
    PROVE  svc.spec = sess.target
  BY DEF classifyDeploymentSnapshot, Decision, UpdateStates

LEMMA RollbackDecided ==
    ASSUME NEW tasks, classifyRollbackSnapshot(svc, sess, tasks) = "SUCCESS"
    PROVE  svc.spec = sess.target
  BY DEF classifyRollbackSnapshot

LEMMA MutationDecided ==
    ASSUME NEW o, NEW tasks, classifyMutationSnapshot(o, svc, sess, tasks) \in {"SUCCESS", "FAILED"}
    PROVE  svc.spec = sess.target
  BY DEF classifyMutationSnapshot

LEMMA InspectReconcileStep ==
    ASSUME NEW D \in SUBSET Ops, J(D), InspectReconcile
    PROVE  J(D)'
  <1> DEFINE Next1 == {"verify", "accepted", "attention", "rollbackFailed", "unseen", "convergenceFailed"}
  <1>1. sess.pc = "reconcile" /\ UNCHANGED <<svc, op, dep, wire, asked, release>> /\ sess \in SessType
    BY Zenon, Facts DEF InspectReconcile
  <1>2. sess.pc \notin Early \cup {"free"}
    BY <1>1 DEF Early
  <1>3. \/ \E pc \in Next1 : sess' = [sess EXCEPT !.pc = pc] /\ (pc = "convergenceFailed" => sess.op \in Deploys)
        \/ \E saw \in {"rollback", "waiting"} : sess' = [sess EXCEPT !.saw = saw]
    <2>1. CASE sess.op \in Deploys /\ sess' = ReconcileDeploy(sess.op)
      BY <2>1 DEF ReconcileDeploy, TargetObserved
    <2>2. CASE \E tasks \in Conditions : sess' = ReconcileRollback(sess.op, tasks)
      BY <2>2 DEF ReconcileRollback, TargetObserved
    <2>3. CASE sess' = ReconcileMutation(sess.op)
      BY <2>3 DEF ReconcileMutation, TargetObserved
    <2> QED
      BY Zenon, <2>1, <2>2, <2>3 DEF InspectReconcile
  <1>4. /\ sess' \in SessType /\ sess'.pc \in Next1 \cup {"reconcile"}
        /\ (sess'.pc = "convergenceFailed" => sess.op \in Deploys)
        /\ sess'.op = sess.op /\ sess'.before = sess.before /\ sess'.target = sess.target /\ sess'.ver = sess.ver
    <2>1. CASE \E pc \in Next1 : sess' = [sess EXCEPT !.pc = pc] /\ (pc = "convergenceFailed" => sess.op \in Deploys)
      BY <2>1, <1>1 DEF SessType, Steps, Outcomes
    <2>2. CASE \E saw \in {"rollback", "waiting"} : sess' = [sess EXCEPT !.saw = saw]
      BY <2>2, <1>1 DEF SessType
    <2> QED
      BY Zenon, <2>1, <2>2, <1>3
  <1>5. sess'.pc \notin Early \cup {"free", "dispatch"} /\ sess'.pc \notin {"success", "fail"}
    BY <1>4 DEF Early
  <1> QED
    BY Zenon, <1>1, <1>2, <1>4, <1>5, DecideStep

LEMMA InspectVerifyStep ==
    ASSUME NEW D \in SUBSET Ops, J(D), InspectVerify
    PROVE  J(D)'
  <1> DEFINE o == sess.op
             Next1 == {"verify", "final", "attention", "rollbackFailed", "convergenceFailed", "success", "fail"}
  <1>1. sess.pc \in {"verify", "final"} /\ UNCHANGED <<svc, op, dep, wire, asked, release>> /\ sess \in SessType
    BY Zenon, Facts DEF InspectVerify
  <1>2. sess.pc \notin Early \cup {"free"} /\ svc.us \in UpdateStates
    BY Zenon, <1>1, Facts DEF Early, SvcType
  <1>3. PICK tasks, pc :
           /\ pc \in IF o \in Deploys THEN VerifyDeploy(tasks)
                     ELSE IF o \in Rollbacks THEN VerifyRollback(tasks) ELSE VerifyMutation(o, tasks)
           /\ sess' = [sess EXCEPT !.pc = pc]
    BY Zenon DEF InspectVerify
  <1>4. /\ pc \in Next1
        /\ pc \in {"success", "fail"} \/ (pc = "convergenceFailed" /\ o \notin Deploys) => svc.spec = sess.target
    <2>1. CASE o \in Deploys
      <3>1. pc \in VerifyDeploy(tasks)
        BY Zenon, <2>1, <1>3
      <3>2. pc \in Next1 /\ (pc \in {"success", "fail"} => classifyDeploymentSnapshot(svc, sess, tasks) = "SUCCESS")
        BY <3>1 DEF VerifyDeploy
      <3> QED
        BY <2>1, <3>2, <1>2, DeploymentDecided
    <2>2. CASE o \notin Deploys /\ o \in Rollbacks
      <3>1. pc \in VerifyRollback(tasks)
        BY Zenon, <2>2, <1>3
      <3>2. /\ pc \in Next1 /\ pc \notin {"fail", "convergenceFailed"}
            /\ (pc = "success" => classifyRollbackSnapshot(svc, sess, tasks) = "SUCCESS")
        BY <3>1 DEF VerifyRollback
      <3> QED
        BY <3>2, RollbackDecided
    <2>3. CASE o \notin Deploys /\ o \notin Rollbacks
      <3>1. pc \in VerifyMutation(o, tasks)
        BY Zenon, <2>3, <1>3
      <3>2. /\ pc \in Next1 /\ pc # "fail"
            /\ (pc \in {"success", "convergenceFailed"} =>
                  classifyMutationSnapshot(o, svc, sess, tasks) \in {"SUCCESS", "FAILED"})
        BY <3>1 DEF VerifyMutation
      <3> QED
        BY <3>2, MutationDecided
    <2> QED
      BY Zenon, <2>1, <2>2, <2>3
  <1>5. /\ sess' \in SessType /\ sess'.pc = pc
        /\ sess'.op = sess.op /\ sess'.before = sess.before /\ sess'.target = sess.target /\ sess'.ver = sess.ver
    BY <1>1, <1>3, <1>4 DEF SessType, Steps, Outcomes
  <1>6. sess'.pc \notin Early \cup {"free", "dispatch"}
    BY <1>4, <1>5 DEF Early
  <1>7. sess'.pc \in {"success", "fail"} \/ (sess'.pc = "convergenceFailed" /\ sess.op \notin Deploys) => Over(sess.op)
    BY Zenon, <1>2, <1>4, <1>5, ReachedIsOver
  <1> QED
    BY Zenon, <1>1, <1>2, <1>5, <1>6, <1>7, DecideStep

LEMMA WindowEndsStep ==
    ASSUME NEW D \in SUBSET Ops, J(D), WindowEnds
    PROVE  J(D)'
  <1>1. sess.pc \in {"reconcile", "verify"} /\ UNCHANGED <<svc, op, dep, wire, asked, release>> /\ sess \in SessType
    BY Zenon, Facts DEF WindowEnds
  <1>2. sess.pc \notin Early \cup {"free"}
    BY <1>1 DEF Early
  <1>3. PICK pc \in {"attention", "pending", "unseen"} : sess' = [sess EXCEPT !.pc = pc]
    BY DEF WindowEnds
  <1>4. /\ sess' \in SessType /\ sess'.pc = pc
        /\ sess'.op = sess.op /\ sess'.before = sess.before /\ sess'.target = sess.target /\ sess'.ver = sess.ver
    BY <1>1, <1>3 DEF SessType, Steps, Outcomes
  <1>5. sess'.pc \notin Early \cup {"free", "dispatch"} /\ sess'.pc \notin {"success", "fail", "convergenceFailed"}
    BY <1>3, <1>4 DEF Early
  <1> QED
    BY Zenon, <1>1, <1>2, <1>4, <1>5, DecideStep

-----------------------------------------------------------------------------
(* What is recorded *)

\* A deployment that has not failed has no rollback.
LEMMA NoRollbackYet ==
    ASSUME NEW D, J(D), NEW d \in Deploys \cap D, op[d].st # "FAILED"
    PROVE  dep[d].rb = None
  <1>1. DepOK(d, D) /\ dep[d].rb \in Rollbacks \cup {None}
    BY Zenon, Facts DEF DepType
  <1>2. ASSUME dep[d].rb # None PROVE FALSE
    <2>1. dep[d].rb \in Rollbacks \cap D /\ asked[dep[d].rb] = d
      BY <1>1, <1>2 DEF DepOK
    <2>2. d # None
      BY ServiceAssumption DEF Ops
    <2> QED
      BY <2>1, <2>2, AskedFailed
  <1> QED
    BY <1>2

\* The rows after a record of an unfinished operation.
Written(D, o, st, code, ds) ==
    /\ op' \in [D -> OpType] /\ (\A p \in D : p # o => op'[p] = op[p])
    /\ op'[o].st = st /\ op'[o].code = code /\ op'[o].before = op[o].before
    /\ op'[o].target = op[o].target /\ op'[o].ver = op[o].ver
    /\ dep' \in [Deploys \cap D -> DepType]
    /\ \A d \in Deploys \cap D :
          dep'[d].rb = dep[d].rb /\ (d \in DepOf(o) => dep'[d].st = ds) /\ (d \notin DepOf(o) => dep'[d] = dep[d])

LEMMA Recorded ==
    ASSUME NEW D, J(D), NEW o \in D, Unfinished(o), NEW st \in Statuses, NEW code \in Codes, NEW ds \in DepStatuses,
           Record(o, st, code, ds)
    PROVE  Written(D, o, st, code, ds)
  <1>1. op[o].st \notin Terminal /\ op[o] \in OpType
    BY Zenon, Facts DEF Unfinished
  <1>2. PICK n : n = [op[o] EXCEPT !.st = st, !.code = code]
    OBVIOUS
  <1>3. /\ n \in OpType /\ n.st = st /\ n.code = code /\ n.before = op[o].before /\ n.target = op[o].target
        /\ n.ver = op[o].ver
    BY Zenon, <1>1, <1>2 DEF OpType
  <1>4. op' = [op EXCEPT ![o] = n]
    <2>1. op' = [op EXCEPT ![o].st = st, ![o].code = code]
      BY Zenon, <1>1 DEF Record
    <2> QED
      BY Zenon, <2>1, <1>2
  <1>5. op' \in [D -> OpType] /\ op'[o] = n /\ (\A p \in D : p # o => op'[p] = op[p])
    BY Zenon, <1>3, <1>4, Facts
  <1>6. dep' = [d \in Deploys \cap D |-> IF d \in DepOf(o) THEN [dep[d] EXCEPT !.st = ds] ELSE dep[d]]
    BY Zenon, Domains DEF Record
  <1>7. ASSUME NEW d \in Deploys \cap D
        PROVE  /\ dep'[d] \in DepType
               /\ dep'[d].rb = dep[d].rb /\ (d \in DepOf(o) => dep'[d].st = ds) /\ (d \notin DepOf(o) => dep'[d] = dep[d])
    <2>1. dep[d] \in DepType
      BY Zenon, Facts
    <2>2. [dep[d] EXCEPT !.st = ds] \in DepType /\ [dep[d] EXCEPT !.st = ds].rb = dep[d].rb /\ [dep[d] EXCEPT !.st = ds].st = ds
      BY <2>1 DEF DepType
    <2>3. dep'[d] = IF d \in DepOf(o) THEN [dep[d] EXCEPT !.st = ds] ELSE dep[d]
      BY Zenon, <1>6
    <2> QED
      BY Zenon, <2>1, <2>2, <2>3
  <1>8. dep' \in [Deploys \cap D -> DepType]
    BY Zenon, <1>6, <1>7
  <1> QED
    BY Zenon, <1>3, <1>5, <1>7, <1>8 DEF Written

\* A record of an unfinished operation: its deployment gets the status that fits.
LEMMA RecordStep ==
    ASSUME NEW D \in SUBSET Ops, J(D), NEW o \in D, Unfinished(o),
           NEW st \in Statuses \ {"none", "RUNNING"}, NEW code \in Codes, NEW ds \in DepStatuses,
           Record(o, st, code, ds),
           st \in Terminal => Over(o) \/ (o \in Deploys /\ code = "CONVERGENCE_FAILED"),
           o \in Deploys => ds = st, o \in Rollbacks => ByRollback(st, ds),
           UNCHANGED <<svc, wire, asked>>, release' \in Images \cup {None}, sess' \in SessType, SessOK(D)'
    PROVE  J(D)'
  <1>1. /\ op' \in [D -> OpType] /\ (\A p \in D : p # o => op'[p] = op[p])
        /\ op'[o].st = st /\ op'[o].code = code /\ op'[o].before = op[o].before
        /\ op'[o].target = op[o].target /\ op'[o].ver = op[o].ver
        /\ dep' \in [Deploys \cap D -> DepType]
        /\ \A d \in Deploys \cap D :
              dep'[d].rb = dep[d].rb /\ (d \in DepOf(o) => dep'[d].st = ds) /\ (d \notin DepOf(o) => dep'[d] = dep[d])
    <2>1. st \in Statuses
      OBVIOUS
    <2>2. Written(D, o, st, code, ds)
      BY Zenon, <2>1, Recorded
    <2> QED
      BY Zenon, <2>2 DEF Written
  <1>2. Typed(D)'
    BY Zenon, <1>1, Facts DEF Typed, OpsTyped
  <1>3. \A p \in D : Unfinished(p)' => Unfinished(p)
    BY Zenon, <1>1 DEF Unfinished
  <1>4. OneOpen(D)'
    BY Zenon, <1>3, Facts DEF OneOpen
  <1>5. op[o].st # "none" /\ op[o].st \notin Terminal
    BY Zenon DEF Unfinished
  <1>6. ASSUME NEW p \in D PROVE OpOK(p)'
    <2>1. Over(p)' <=> Over(p)
      <3>1. op'[p].ver = op[p].ver /\ op'[p].before = op[p].before /\ op'[p].target = op[p].target
        BY Zenon, <1>1
      <3> QED
        BY Zenon, <3>1 DEF Over, MayTakeEffect, Matches, validateMutationPrecondition
    <2>2. OpOK(p)
      BY Zenon, Facts
    <2>3. CASE p = o
      <3>1. op'[p].ver <= svc'.ver /\ op'[p].target \in Specs /\ op'[p].st # "none"
        BY Zenon, <2>2, <2>3, <1>1, <1>5 DEF OpOK
      <3> QED
        BY Zenon, <3>1, <2>1, <2>3, <1>1 DEF OpOK
    <2>4. CASE p # o
      BY Zenon, <2>1, <2>2, <2>4, <1>1 DEF OpOK
    <2> QED
      BY Zenon, <2>3, <2>4
  <1>7. ASSUME NEW r \in Rollbacks \cap D PROVE AskOK(r, D)'
    <2>1. asked'[r] = asked[r] /\ (op'[r].st # "none" => op[r].st # "none")
      BY Zenon, <1>1, <1>5
    <2>2. asked[r] # None => asked[r] \in Deploys \cap D /\ op[asked[r]].st = "FAILED"
      BY Zenon, AskedFailed
    <2>3. asked[r] # None => op'[asked[r]].st = "FAILED" /\ dep'[asked[r]].rb = dep[asked[r]].rb
      <3>1. asked[r] # None => asked[r] # o
        BY <2>2, <1>5 DEF Terminal
      <3> QED
        BY Zenon, <2>2, <3>1, <1>1
    <2>4. (op[r].st # "none" => asked[r] # None) /\ (Unfinished(r) => dep[asked[r]].rb = r)
      BY Zenon, Facts DEF AskOK
    <2>5. Unfinished(r)' => Unfinished(r) /\ asked[r] # None
      BY Zenon, <2>4, <1>3 DEF Unfinished
    <2>6. Unfinished(r)' => dep'[asked'[r]].rb = r
      BY Zenon, <2>1, <2>3, <2>4, <2>5
    <2> QED
      BY Zenon, <2>1, <2>2, <2>3, <2>4, <2>6 DEF AskOK
  <1>8. ASSUME NEW d \in Deploys \cap D PROVE DepOK(d, D)'
    <2>1. CASE d = o
      <3>1. dep[d].rb = None
        BY <2>1, <1>5, NoRollbackYet DEF Terminal
      <3>2. dep'[d].rb = None /\ dep'[d].st = st /\ op'[d].st = st
        BY Zenon, <2>1, <3>1, <1>1 DEF DepOf
      <3>3. Same(st, st) /\ Own(st, st)
        BY DEF Same, Own
      <3> QED
        BY Zenon, <3>2, <3>3 DEF DepOK
    <2>2. CASE o \in Rollbacks /\ asked[o] = d
      <3>1. o \notin Deploys /\ d # None /\ o # None /\ d # o
        BY <2>2, ServiceAssumption DEF Ops
      <3>2. dep[d].rb = o /\ op[d].st = "FAILED"
        BY Zenon, <2>2, <3>1, AskedFailed, Facts DEF AskOK
      <3>3. dep'[d].rb = o /\ dep'[d].st = ds /\ op'[d].st = "FAILED"
        BY Zenon, <2>2, <3>1, <3>2, <1>1 DEF DepOf
      <3>4. Same("FAILED", ds)
        BY <2>2 DEF Same, ByRollback
      <3> QED
        BY Zenon, <2>2, <3>1, <3>3, <3>4, <1>1 DEF DepOK
    <2>3. CASE d # o /\ (o \in Rollbacks => asked[o] # d)
      <3>1. d \notin DepOf(o)
        BY <2>3 DEF DepOf
      <3>2. dep'[d] = dep[d]
        BY Zenon, <3>1, <1>1
      <3> QED
        BY Zenon, <2>3, <3>2, <1>1, OtherDep
    <2> QED
      BY Zenon, <2>1, <2>2, <2>3
  <1> QED
    BY Zenon, <1>2, <1>4, <1>6, <1>7, <1>8 DEF J

LEMMA MarkVerifyingStep ==
    ASSUME NEW D \in SUBSET Ops, J(D), MarkVerifying
    PROVE  J(D)'
  <1>1. PICK o : o = sess.op
    OBVIOUS
  <1>2. sess.pc = "accepted" /\ sess.pc \notin Early \cup {"free"}
    BY DEF MarkVerifying, Early
  <1>3. /\ o \in D /\ sess.target \in Specs /\ Unfinished(o) /\ op[o].before = sess.before
        /\ op[o].target = sess.target /\ (o \in Rollbacks => asked[o] # None)
    BY Zenon, <1>1, <1>2, LateFacts
  <1>4. PICK ds : ds = VerifyingDep(o)
    OBVIOUS
  <1>5. Record(o, "VERIFYING", "none", ds) /\ UNCHANGED <<svc, wire, asked, release>>
    BY Zenon, <1>1, <1>4 DEF MarkVerifying
  <1>6. /\ "VERIFYING" \in Statuses \ {"none", "RUNNING"} /\ "VERIFYING" \in Statuses /\ "VERIFYING" \notin Terminal
        /\ "none" \in Codes
    BY DEF Statuses, Terminal, Codes
  <1>7. ds \in DepStatuses /\ (o \in Rollbacks => ByRollback("VERIFYING", ds))
    BY <1>4 DEF DepStatuses, VerifyingDep, ByRollback
  <1>8. o \in Deploys => ds = "VERIFYING"
    BY <1>4, ServiceAssumption DEF VerifyingDep
  <1>9. op'[o].st = "VERIFYING" /\ op'[o].before = op[o].before /\ op'[o].target = op[o].target
    <2>1. Written(D, o, "VERIFYING", "none", ds)
      BY Zenon, <1>3, <1>5, <1>6, <1>7, Recorded
    <2> QED
      BY Zenon, <2>1 DEF Written
  <1>10. sess' = [sess EXCEPT !.pc = "verify"] /\ sess \in SessType
    BY Zenon, Facts DEF MarkVerifying
  <1>11. sess' \in SessType /\ sess'.pc = "verify" /\ sess'.op = o /\ sess'.ver = sess.ver
         /\ sess'.before = sess.before /\ sess'.target = sess.target
    BY <1>1, <1>10 DEF SessType, Steps
  <1>12. Unfinished(o)'
    BY <1>9 DEF Unfinished, Terminal
  <1>13. sess'.ver <= svc'.ver
    BY Zenon, <1>2, <1>5, <1>11, Facts DEF SessOK
  <1>14. SessOK(D)'
    BY Zenon, <1>3, <1>5, <1>9, <1>11, <1>12, <1>13 DEF SessOK, Early
  <1>15. release' \in Images \cup {None}
    BY Zenon, <1>5, Facts
  <1> QED
    BY Zenon, <1>3, <1>5, <1>6, <1>7, <1>8, <1>11, <1>14, <1>15, RecordStep

\* The outcome that a decision leads to.
LEMMA CompleteStep ==
    ASSUME NEW D \in SUBSET Ops, J(D), Complete
    PROVE  J(D)'
  <1>1. PICK o : o = sess.op
    OBVIOUS
  <1>2. sess.pc \in Outcomes /\ sess.pc \notin Early \cup {"free"}
    BY DEF Complete, Early, Outcomes
  <1>3. o \in D /\ sess.target \in Specs /\ Unfinished(o)
    BY Zenon, <1>1, <1>2, LateFacts
  <1>4. /\ (sess.pc \in {"success", "fail"} => Over(o))
        /\ (sess.pc = "convergenceFailed" /\ o \notin Deploys => Over(o))
    BY Zenon, <1>1, <1>2, Facts DEF SessOK
  <1>5. PICK st, code, ds :
           /\ Record(o, st, code, ds)
           /\ st \in Statuses \ {"none", "RUNNING"} /\ code \in Codes /\ ds \in DepStatuses
           /\ (st \in Terminal => Over(o) \/ (o \in Deploys /\ code = "CONVERGENCE_FAILED"))
           /\ (o \in Deploys => ds = st) /\ (o \in Rollbacks => ByRollback(st, ds))
    <2> DEFINE Good(st, code, ds) ==
                  /\ Record(o, st, code, ds)
                  /\ st \in Statuses \ {"none", "RUNNING"} /\ code \in Codes /\ ds \in DepStatuses
                  /\ (st \in Terminal => Over(o) \/ (o \in Deploys /\ code = "CONVERGENCE_FAILED"))
                  /\ (o \in Deploys => ds = st) /\ (o \in Rollbacks => ByRollback(st, ds))
    <2>1. CASE o \in Deploys
      <3>1. o \notin Rollbacks \cup Scales \cup Restarts
        BY <2>1, ServiceAssumption
      <3>2. PICK st \in {"SUCCESS", "FAILED", "NEEDS_ATTENTION", "VERIFYING"}, code \in Codes :
               /\ Record(o, st, code, st) /\ (st = "SUCCESS" => sess.pc = "success")
               /\ (st = "FAILED" => sess.pc = "fail" \/ code = "CONVERGENCE_FAILED")
        <4>1. RecordDeploy(o)
          BY Zenon, <3>1, <1>1 DEF Complete
        <4> QED
          BY <4>1 DEF RecordDeploy, Codes
      <3>3. st \in Statuses \ {"none", "RUNNING"} /\ st \in DepStatuses
        BY <3>2 DEF Statuses, DepStatuses, Terminal
      <3>4. st \in Terminal => Over(o) \/ code = "CONVERGENCE_FAILED"
        BY <3>2, <1>4 DEF Terminal
      <3> QED
        BY Zenon, <2>1, <3>1, <3>2, <3>3, <3>4
    <2>2. CASE o \in Rollbacks
      <3>1. o \notin Deploys \cup Scales \cup Restarts
        BY <2>2, ServiceAssumption
      <3>2. PICK st \in {"SUCCESS", "FAILED", "NEEDS_ATTENTION", "VERIFYING"}, code \in Codes,
                 ds \in {"ROLLED_BACK", "FAILED", "ROLLBACK_FAILED", "NEEDS_ATTENTION", "ROLLBACK_VERIFYING"} :
               /\ Record(o, st, code, ds) /\ (st = "SUCCESS" => sess.pc = "success" /\ ds = "ROLLED_BACK")
               /\ (st = "FAILED" => sess.pc = "fail" /\ ds = "FAILED")
               /\ (st = "NEEDS_ATTENTION" => ds \in {"ROLLBACK_FAILED", "NEEDS_ATTENTION"})
               /\ (st = "VERIFYING" => ds = "ROLLBACK_VERIFYING")
        <4>1. RecordRollback(o)
          BY Zenon, <3>1, <1>1 DEF Complete
        <4> QED
          BY <4>1 DEF RecordRollback, Codes
      <3>3. st \in Statuses \ {"none", "RUNNING"} /\ ds \in DepStatuses /\ ByRollback(st, ds)
        BY <3>2 DEF Statuses, DepStatuses, Terminal, ByRollback
      <3>4. st \in Terminal => Over(o)
        BY <3>2, <1>4 DEF Terminal
      <3> QED
        BY Zenon, <3>1, <3>2, <3>3, <3>4
    <2>3. CASE o \in Scales \cup Restarts
      <3>1. o \notin Deploys \cup Rollbacks
        BY <2>3, ServiceAssumption
      <3>2. PICK st \in {"SUCCESS", "FAILED", "NEEDS_ATTENTION"}, code \in Codes :
               /\ Record(o, st, code, "none")
               /\ (st \in {"SUCCESS", "FAILED"} => sess.pc \in {"success", "fail", "convergenceFailed"})
        <4>1. RecordMutation(o)
          BY Zenon, <3>1, <1>1 DEF Complete
        <4> QED
          BY <4>1 DEF RecordMutation, Codes
      <3>3. st \in Statuses \ {"none", "RUNNING"} /\ "none" \in DepStatuses
        BY <3>2 DEF Statuses, DepStatuses, Terminal
      <3>4. st \in Terminal => Over(o)
        BY <3>1, <3>2, <1>4 DEF Terminal
      <3> QED
        BY Zenon, <3>1, <3>2, <3>3, <3>4
    <2> QED
      BY Zenon, <2>1, <2>2, <2>3, <1>3 DEF Ops
  <1>6. sess' = Free /\ UNCHANGED <<svc, wire, asked>>
    BY Zenon DEF Complete
  <1>7. sess' \in SessType /\ SessOK(D)'
    BY Zenon, <1>6, FreeSession
  <1>8. release' \in Images \cup {None}
    <2>1. sess.target.img \in Images
      BY <1>3 DEF Specs
    <2> QED
      BY Zenon, <2>1, Facts DEF Complete
  <1> QED
    BY Zenon, <1>3, <1>5, <1>6, <1>7, <1>8, RecordStep

LEMMA ManualResolveStep ==
    ASSUME NEW D \in SUBSET Ops, J(D), NEW o \in DOMAIN op, ManualResolve(o)
    PROVE  J(D)'
  <1>1. /\ o \in D /\ Unfinished(o) /\ Record(o, "FAILED", "none", "FAILED") /\ wire[o] # "sent" /\ sess.pc = "free"
        /\ UNCHANGED <<svc, wire, sess, asked, release>>
    BY Zenon, Domains DEF ManualResolve, LockFree
  <1>2. Over(o)
    BY Zenon, <1>1 DEF Over, MayTakeEffect
  <1>3. sess' \in SessType /\ release' \in Images \cup {None} /\ SessOK(D)'
    BY Zenon, <1>1, Facts DEF SessOK
  <1>4. "FAILED" \in Statuses \ {"none", "RUNNING"} /\ "none" \in Codes /\ "FAILED" \in DepStatuses
    BY DEF Statuses, Terminal, Codes, DepStatuses
  <1>5. ByRollback("FAILED", "FAILED")
    BY DEF ByRollback
  <1> QED
    BY Zenon, <1>1, <1>2, <1>3, <1>4, <1>5, RecordStep

\* A FAILED deployment has a FAILED operation.
LEMMA FailedTwice ==
    ASSUME NEW D, J(D), NEW d \in Deploys \cap D, dep[d].st = "FAILED"
    PROVE  op[d].st = "FAILED"
  <1>1. CASE dep[d].rb # None
    BY Zenon, <1>1, NoRollbackYet
  <1>2. CASE dep[d].rb = None
    <2>1. DepOK(d, D) /\ op[d].st \in Statuses
      BY Zenon, Facts DEF OpType
    <2> QED
      BY <1>2, <2>1 DEF DepOK, Same, Own, Statuses, Terminal
  <1> QED
    BY <1>1, <1>2

LEMMA AskRollbackStep ==
    ASSUME NEW D \in SUBSET Ops, J(D), NEW r \in DOMAIN asked, NEW d \in DOMAIN dep, AskRollback(r, d)
    PROVE  J(D)'
  <1>1. r \in Rollbacks \cap D /\ r \in D /\ d \in Deploys \cap D /\ d \in D
    BY Zenon, Domains
  <1>2. /\ op[r].st = "none" /\ asked[r] = None /\ dep[d].st = "FAILED" /\ asked' = [asked EXCEPT ![r] = d]
        /\ UNCHANGED <<svc, op, dep, wire, sess, release>>
    BY Zenon DEF AskRollback
  <1>3. op[d].st = "FAILED" /\ d # None
    BY <1>1, <1>2, FailedTwice, ServiceAssumption DEF Ops
  <1>4. /\ asked' \in [Rollbacks \cap D -> Deploys \cup {None}] /\ asked'[r] = d
        /\ \A q \in Rollbacks \cap D : q # r => asked'[q] = asked[q]
    BY Zenon, <1>1, <1>2, Facts
  <1>5. Typed(D)' /\ OneOpen(D)'
    BY Zenon, <1>2, <1>4, Facts DEF Typed, OpsTyped, OneOpen, Unfinished
  <1>6. \A o \in D : OpOK(o)' /\ (Over(o)' <=> Over(o)) /\ (Unfinished(o)' <=> Unfinished(o))
    BY Zenon, <1>2, Facts DEF OpOK, Over, MayTakeEffect, Matches, validateMutationPrecondition, Unfinished
  <1>7. SessOK(D)'
    <2>1. ASSUME sess.pc # "free", sess.op \in Rollbacks PROVE asked'[sess.op] # None
      <3>1. sess.op \in Rollbacks \cap D /\ asked[sess.op] # None
        BY Zenon, <2>1, Facts DEF SessOK
      <3> QED
        BY Zenon, <3>1, <1>3, <1>4
    <2> QED
      BY Zenon, <2>1, <1>2, <1>6, Facts DEF SessOK
  <1>8. ASSUME NEW q \in Rollbacks \cap D PROVE AskOK(q, D)'
    <2>1. CASE q = r
      <3>1. ~Unfinished(q)' /\ asked'[q] = d /\ op'[d].st = "FAILED" /\ d \in D
        BY Zenon, <2>1, <1>1, <1>2, <1>3, <1>4 DEF Unfinished
      <3> QED
        BY Zenon, <3>1, <1>3 DEF AskOK
    <2>2. CASE q # r
      BY Zenon, <2>2, <1>2, <1>4, <1>6, Facts DEF AskOK
    <2> QED
      BY Zenon, <2>1, <2>2
  <1>9. ASSUME NEW e \in Deploys \cap D PROVE DepOK(e, D)'
    <2>1. DepOK(e, D) /\ dep[e].rb \in Rollbacks \cup {None}
      BY Zenon, Facts DEF DepType
    <2>2. dep[e].rb # None => dep[e].rb \in Rollbacks \cap D /\ asked[dep[e].rb] = e
      BY <2>1 DEF DepOK
    <2>3. e # None
      BY ServiceAssumption DEF Ops
    <2>4. dep[e].rb # None => asked'[dep[e].rb] = e
      BY Zenon, <2>2, <2>3, <1>2, <1>4
    <2> QED
      BY Zenon, <2>1, <2>4, <1>2 DEF DepOK
  <1> QED
    BY Zenon, <1>5, <1>6, <1>7, <1>8, <1>9 DEF J

-----------------------------------------------------------------------------
(* The invariant is inductive *)

LEMMA InitIInv == Init => IInv
  <1> SUFFICES ASSUME Init PROVE IInv
    OBVIOUS
  <1>1. PICK mix \in Mixes :
          /\ svc \in [ver : {1}, spec : [img : Images \cap mix, rep : Replicas \cap mix, force : {0}], prev : {None},
                      us : {"none", "completed", "rollback_completed"}]
          /\ op = [o \in Ops \cap mix |-> NoOp]
          /\ dep = [d \in Deploys \cap mix |-> NoDep]
          /\ wire = [o \in Ops \cap mix |-> "none"]
          /\ asked = [r \in Rollbacks \cap mix |-> None]
    BY Zenon DEF Init
  <1>2. PICK D : D = Ops \cap mix
    BY Zenon
  <1>3. Deploys \cap mix = Deploys \cap D /\ Rollbacks \cap mix = Rollbacks \cap D /\ D \in SUBSET Ops
    BY <1>2 DEF Ops
  <1>4. sess = Free /\ release \in {None, svc.spec.img}
    BY Zenon DEF Init
  <1>5. svc \in SvcType /\ svc.ver = 1 /\ svc.spec.img \in Images
    BY <1>1, ServiceAssumption DEF SvcType, Specs, UpdateStates
  <1>6. NoOp \in OpType /\ NoOp.st = "none" /\ NoOp.ver = 0
    BY ServiceAssumption DEF NoOp, OpType, Statuses, Codes
  <1>7. NoDep \in DepType /\ NoDep.st = "none" /\ NoDep.rb = None
    BY DEF NoDep, DepType, DepStatuses
  <1>8. Free \in SessType /\ Free.pc = "free"
    BY ServiceAssumption DEF Free, SessType, Steps
  <1>9. Typed(D)
    <2>1. op \in [D -> OpType] /\ dep \in [Deploys \cap D -> DepType]
      BY <1>1, <1>2, <1>3, <1>6, <1>7
    <2>2. wire \in [D -> Wires] /\ asked \in [Rollbacks \cap D -> Deploys \cup {None}]
      BY <1>1, <1>2, <1>3 DEF Wires
    <2>3. release \in Images \cup {None}
      BY <1>4, <1>5
    <2> QED
      BY Zenon, <2>1, <2>2, <2>3, <1>4, <1>5, <1>8 DEF Typed, OpsTyped
  <1>10. \A o \in D : op[o].st = "none" /\ op[o].ver <= svc.ver /\ wire[o] = "none"
    BY <1>1, <1>2, <1>5, <1>6
  <1>11. \A o \in D : ~Unfinished(o) /\ OpOK(o)
    BY <1>10 DEF Unfinished, OpOK, Terminal
  <1>12. \A r \in Rollbacks \cap D : AskOK(r, D)
    <2>1. \A r \in Rollbacks \cap D : asked[r] = None /\ op[r].st = "none" /\ ~Unfinished(r)
      BY <1>1, <1>3, <1>10, <1>11
    <2> QED
      BY Zenon, <2>1 DEF AskOK
  <1>13. \A d \in Deploys \cap D : DepOK(d, D)
    <2>1. \A d \in Deploys \cap D : dep[d].st = "none" /\ dep[d].rb = None /\ op[d].st = "none"
      BY Zenon, <1>1, <1>3, <1>7, <1>10
    <2>2. Same("none", "none") /\ Own("none", "none")
      BY DEF Same, Own
    <2> QED
      BY Zenon, <2>1, <2>2 DEF DepOK
  <1>14. SessOK(D) /\ OneOpen(D)
    BY Zenon, <1>4, <1>8, <1>11 DEF SessOK, OneOpen
  <1> QED
    BY Zenon, <1>3, <1>9, <1>11, <1>12, <1>13, <1>14 DEF IInv, J

LEMMA Stutter ==
    ASSUME NEW D, J(D), UNCHANGED vars
    PROVE  J(D)'
  <1>1. UNCHANGED <<svc, op, dep, wire, asked, release>> /\ sess' = sess
    BY Zenon DEF vars
  <1>2. sess' \in SessType /\ SessOK(D)'
    BY Zenon, <1>1, Facts DEF SessOK, Unfinished, Over, MayTakeEffect, Matches, validateMutationPrecondition
  <1> QED
    BY Zenon, <1>1, <1>2, SessStep

LEMMA NextJ ==
    ASSUME NEW D \in SUBSET Ops, J(D), [Next]_vars
    PROVE  J(D)'
  <1>1. DOMAIN op = D /\ DOMAIN dep \subseteq D /\ DOMAIN asked \subseteq D
    BY Zenon, Domains
  <1>2. CASE \E d \in DOMAIN dep, i \in MixedImages : PlanDeploy(d, i)
    BY Zenon, <1>2, PlanDeployStep
  <1>3. CASE \E o \in DOMAIN op \cap Scales, n \in MixedReplicas : PlanScale(o, n)
    BY Zenon, <1>3, PlanScaleStep
  <1>4. CASE \E o \in DOMAIN op \cap Restarts : PlanRestart(o)
    BY Zenon, <1>4, PlanRestartStep
  <1>5. CASE \E r \in DOMAIN asked, d \in DOMAIN dep : AskRollback(r, d)
    BY Zenon, <1>5, AskRollbackStep
  <1>6. CASE \E r \in DOMAIN asked : PlanRollback(r)
    BY Zenon, <1>6, PlanRollbackStep
  <1>7. CASE PersistDeployIntent \/ PersistRollbackIntent \/ PersistMutationIntent
    BY Zenon, <1>7, PersistDeployStep, PersistRollbackStep, PersistMutationStep
  <1>8. CASE Send \/ Answered \/ MarkVerifying
    BY Zenon, <1>8, SendStep, AnsweredStep, MarkVerifyingStep
  <1>9. CASE InspectReconcile \/ InspectVerify \/ WindowEnds \/ Complete \/ SessionLost
    BY Zenon, <1>9, InspectReconcileStep, InspectVerifyStep, WindowEndsStep, CompleteStep, SessionLostStep
  <1>10. CASE \E o \in D, us \in UpdateStates : ServiceUpdate(o, us)
    BY Zenon, <1>10, ServiceUpdateStep
  <1>11. CASE \E o \in DOMAIN op : NotApplied(o) \/ Reconcile(o) \/ ManualResolve(o)
    BY Zenon, <1>11, NotAppliedStep, ReconcileStep, ManualResolveStep
  <1>12. CASE SwarmStep \/ ExternalUpdate
    BY Zenon, <1>12, SwarmStepStep, ExternalUpdateStep
  <1>13. CASE UNCHANGED vars
    BY Zenon, <1>13, Stutter
  <1>14. ASSUME \/ \E d \in DOMAIN dep : UpdateServiceImage(d)
                \/ \E o \in DOMAIN op \cap Scales : ScaleService(o)
                \/ \E o \in DOMAIN op \cap Restarts : RestartService(o)
                \/ \E r \in DOMAIN asked : RollbackService(r)
         PROVE  \E o \in D, us \in UpdateStates : ServiceUpdate(o, us)
    BY <1>1, <1>14 DEF UpdateServiceImage, ScaleService, RestartService, RollbackService, UpdateStates
  <1> QED
    BY Zenon, <1>2, <1>3, <1>4, <1>5, <1>6, <1>7, <1>8, <1>9, <1>10, <1>11, <1>12, <1>13, <1>14 DEF Next

\* Whatever operations meet, and whatever others do to the service, the invariant
\* holds: the lock holder's plan, the request, and the rows of both tables fit.
THEOREM Inductive == Spec => []IInv
  <1>1. ASSUME IInv, [Next]_vars PROVE IInv'
    BY Zenon, <1>1, NextJ DEF IInv
  <1> QED
    BY <1>1, InitIInv, PTL DEF Spec

\* Every row, the plan in hand and the service have the form the schema and the
\* inspections give them.
THEOREM TypeCorrect == Spec => []TypeOK
  <1>1. ASSUME IInv PROVE TypeOK
    <2>1. PICK D \in SUBSET Ops : J(D)
      BY Zenon, <1>1 DEF IInv
    <2>2. DOMAIN op = D /\ DOMAIN dep = Deploys \cap D /\ DOMAIN asked = Rollbacks \cap D
      BY Zenon, <2>1, Domains
    <2> QED
      BY Zenon, <2>1, <2>2, Facts DEF TypeOK, SvcType, OpType, DepType, SessType, Wires
  <1> QED
    BY <1>1, Inductive, PTL

\* At most one operation of a service is unfinished: what is uncertain keeps every
\* other mutation out, by the check under the lock and by nothing else.
THEOREM OneUnfinishedTheorem == Spec => []OneUnfinished
  <1>1. ASSUME IInv PROVE OneUnfinished
    <2>1. PICK D \in SUBSET Ops : J(D)
      BY Zenon, <1>1 DEF IInv
    <2> QED
      BY Zenon, <2>1, Domains, Facts DEF OneUnfinished, OneOpen
  <1> QED
    BY <1>1, Inductive, PTL

\* After an operation has ended, its request cannot change the service: the
\* version has moved on, or the target was there when the outcome was decided.
THEOREM EndedIsOverTheorem == Spec => []EndedIsOver
  <1>1. ASSUME IInv PROVE EndedIsOver
    <2>1. PICK D \in SUBSET Ops : J(D)
      BY Zenon, <1>1 DEF IInv
    <2> QED
      BY Zenon, <2>1, Domains, Facts DEF EndedIsOver, OpOK, Over
  <1> QED
    BY <1>1, Inductive, PTL

\* The operations and deployments tables agree after every transaction, with any
\* number of rollbacks asked for one deployment.
THEOREM TablesAgreeTheorem == Spec => []TablesAgree
  <1>1. ASSUME IInv PROVE TablesAgree
    <2>1. PICK D \in SUBSET Ops : J(D)
      BY Zenon, <1>1 DEF IInv
    <2>2. ASSUME NEW d \in DOMAIN dep
          PROVE  /\ Same(op[d].st, dep[d].st)
                 /\ (dep[d].rb = None => Own(op[d].st, dep[d].st))
                 /\ (dep[d].rb # None => ByRollback(op[dep[d].rb].st, dep[d].st))
      <3>1. d \in Deploys \cap D
        BY Zenon, <2>1, Domains
      <3> QED
        BY Zenon, <3>1, <2>1, Facts DEF DepOK
    <2> QED
      BY <2>2 DEF TablesAgree, Same, Own, ByRollback
  <1> QED
    BY <1>1, Inductive, PTL

\* No mutation is sent twice, by retries, reconciliation, restarts or a callback
\* that has lost its connection.
THEOREM NeverResentTheorem == Spec => NeverResent
  <1>1. ASSUME IInv, [Next]_vars
        PROVE  [\A o \in DOMAIN op : wire'[o] = "sent" => wire[o] \in {"none", "sent"}]_vars
    <2>1. PICK D \in SUBSET Ops : J(D)
      BY Zenon, <1>1 DEF IInv
    <2>2. wire \in [D -> Wires] /\ DOMAIN op = D
      BY Zenon, <2>1, Domains, Facts
    <2>3. ASSUME NEW o \in D, wire'[o] = "sent" PROVE wire[o] \in {"none", "sent"}
      <3>1. CASE wire' = wire
        BY <2>3, <3>1
      <3>2. CASE wire' = [wire EXCEPT ![sess.op] = "sent"] /\ sess.pc = "dispatch"
        <4>1. wire[sess.op] = "none"
          BY Zenon, <2>1, <3>2, Facts DEF SessOK
        <4> QED
          BY <2>2, <2>3, <3>2, <4>1
      <3>3. CASE \E p, w : wire' = [wire EXCEPT ![p] = w] /\ (w = "sent" => wire[p] = "sent")
        BY <2>2, <2>3, <3>3
      <3>4. Answered => \E p, w : wire' = [wire EXCEPT ![p] = w] /\ (w = "sent" => wire[p] = "sent")
        <4>1. PICK w : w = (IF wire[sess.op] = "sent" THEN wire[sess.op] ELSE "over")
          OBVIOUS
        <4>2. Answered => wire' = [wire EXCEPT ![sess.op] = w]
          BY Zenon, <4>1 DEF Answered
        <4>3. w = "sent" => wire[sess.op] = "sent"
          BY <4>1
        <4> QED
          BY Zenon, <4>2, <4>3
      <3>5. ASSUME NEW p, NEW v \in {"ok", "rejected", "over"}, Answer(p, v)
            PROVE  \E q, w : wire' = [wire EXCEPT ![q] = w] /\ (w = "sent" => wire[q] = "sent")
        <4>1. PICK w \in {"ok", "rejected", "over"} : wire' = [wire EXCEPT ![p] = w]
          BY Zenon, <3>5 DEF Answer
        <4>2. w # "sent"
          BY <4>1
        <4> QED
          BY Zenon, <4>1, <4>2
      <3>6. (\E p \in DOMAIN op : NotApplied(p)) \/ (\E p, us : ServiceUpdate(p, us)) =>
               \E p : \E v \in {"ok", "rejected", "over"} : Answer(p, v)
        BY Zenon DEF NotApplied, ServiceUpdate
      <3>7. SessionLost => \/ wire' = [wire EXCEPT ![sess.op] = "sent"] /\ sess.pc = "dispatch"
                           \/ \E p, w : wire' = [wire EXCEPT ![p] = w] /\ (w = "sent" => wire[p] = "sent")
        <4>1. PICK w : w = (IF wire[sess.op] \in {"ok", "rejected"} THEN "over" ELSE wire[sess.op])
          OBVIOUS
        <4>2. w = "sent" => wire[sess.op] = "sent"
          BY <4>1
        <4>3. SessionLost => \/ wire' = [wire EXCEPT ![sess.op] = "sent"] /\ sess.pc = "dispatch"
                             \/ wire' = [wire EXCEPT ![sess.op] = w]
          BY Zenon, <4>1 DEF SessionLost
        <4> QED
          BY Zenon, <4>2, <4>3
      <3>8. Send => wire' = [wire EXCEPT ![sess.op] = "sent"] /\ sess.pc = "dispatch"
        BY Zenon DEF Send
      <3>9. \/ wire' = wire \/ Send \/ Answered \/ SessionLost
            \/ (\E p \in DOMAIN op : NotApplied(p)) \/ (\E p, us : ServiceUpdate(p, us))
        BY Zenon, <1>1 DEF Next, vars, PlanDeploy, PlanScale, PlanRestart, AskRollback, PlanRollback, Intend,
              PersistDeployIntent, PersistRollbackIntent, PersistMutationIntent, MarkVerifying, InspectReconcile,
              InspectVerify, WindowEnds, Complete, Reconcile, ManualResolve, SwarmStep, ExternalUpdate,
              UpdateServiceImage, ScaleService, RestartService, RollbackService
      <3> QED
        BY Zenon, <3>1, <3>2, <3>3, <3>4, <3>5, <3>6, <3>7, <3>8, <3>9
    <2> QED
      BY Zenon, <2>2, <2>3
  <1> QED
    BY <1>1, Inductive, PTL DEF Spec, NeverResent

\* Records are written only for unfinished operations.
LEMMA WhoRecords ==
    ASSUME NEW D, J(D), Next
    PROVE  \/ dep' = dep \/ PersistDeployIntent \/ PersistRollbackIntent
           \/ \E o \in D : \E st, code, ds : Unfinished(o) /\ Record(o, st, code, ds)
  <1>1. CASE MarkVerifying
    <2>1. sess.pc \notin Early \cup {"free"}
      BY <1>1 DEF MarkVerifying, Early
    <2> QED
      BY Zenon, <1>1, <2>1, LateFacts DEF MarkVerifying
  <1>2. CASE Complete
    <2>1. sess.pc \notin Early \cup {"free"}
      BY <1>2 DEF Complete, Early, Outcomes
    <2>2. \E st, code, ds : Record(sess.op, st, code, ds)
      <3>1. RecordDeploy(sess.op) \/ RecordRollback(sess.op) \/ RecordMutation(sess.op)
        BY Zenon, <1>2 DEF Complete
      <3> QED
        BY Zenon, <3>1 DEF RecordDeploy, RecordRollback, RecordMutation
    <2> QED
      BY Zenon, <2>1, <2>2, LateFacts
  <1>3. CASE \E o \in DOMAIN op : ManualResolve(o)
    BY Zenon, <1>3, Domains DEF ManualResolve
  <1> QED
    BY Zenon, <1>1, <1>2, <1>3 DEF Next, PlanDeploy, PlanScale, PlanRestart, AskRollback, PlanRollback,
          PersistMutationIntent, Send, Answered, SessionLost, NotApplied, InspectReconcile, InspectVerify, WindowEnds,
          Reconcile, SwarmStep, ExternalUpdate, UpdateServiceImage, ScaleService, RestartService, RollbackService,
          ServiceUpdate

\* A SUCCESS deployment is never written again, although no writer of the
\* deployments table checks: a writer's operation is unfinished, or is a rollback
\* of a deployment that has failed.
THEOREM SuccessStandsTheorem == Spec => SuccessStands
  <1>1. ASSUME IInv, [Next]_vars
        PROVE  [\A d \in DOMAIN dep : dep[d].st = "SUCCESS" => dep'[d] = dep[d]]_vars
    <2>1. PICK D \in SUBSET Ops : J(D)
      BY Zenon, <1>1 DEF IInv
    <2>2. dep \in [Deploys \cap D -> DepType] /\ DOMAIN dep = Deploys \cap D
      BY Zenon, <2>1, Domains, Facts
    <2>3. ASSUME NEW d \in Deploys \cap D, dep[d].st = "SUCCESS", Next PROVE dep'[d] = dep[d]
      <3>1. op[d].st = "SUCCESS"
        <4>1. DepOK(d, D)
          BY Zenon, <2>1, Facts
        <4> QED
          BY <2>3, <4>1 DEF DepOK, Same
      <3>2. CASE PersistDeployIntent
        <4>1. sess.pc \in Early
          BY <3>2 DEF PersistDeployIntent, Early
        <4>2. sess.op # d
          BY <3>1, <4>1, <2>1, EarlyFacts
        <4> QED
          BY <2>2, <3>2, <4>2 DEF PersistDeployIntent
      <3>3. CASE PersistRollbackIntent
        <4>1. sess.pc \in Early /\ sess.op \in Rollbacks
          BY <3>3 DEF PersistRollbackIntent, Early
        <4>2. sess.op \in Rollbacks \cap D /\ asked[sess.op] # None
          BY Zenon, <4>1, <2>1, EarlyFacts
        <4>3. asked[sess.op] # d
          BY <3>1, <4>2, <2>1, AskedFailed
        <4> QED
          BY <2>2, <3>3, <4>3 DEF PersistRollbackIntent
      <3>4. ASSUME NEW o \in D, NEW st, NEW code, NEW ds, Unfinished(o), Record(o, st, code, ds)
            PROVE  dep'[d] = dep[d]
        <4>1. d # o
          BY <3>1, <3>4 DEF Unfinished, Terminal
        <4>2. d # None
          BY ServiceAssumption DEF Ops
        <4>3. o \in Rollbacks => asked[o] # d
          BY <3>1, <4>2, <2>1, AskedFailed
        <4>4. d \notin DepOf(o)
          BY <4>1, <4>3 DEF DepOf
        <4> QED
          BY Zenon, <4>4, <2>2, <3>4 DEF Record
      <3> QED
        BY Zenon, <2>1, <2>3, <3>2, <3>3, <3>4, WhoRecords
    <2> QED
      BY Zenon, <1>1, <2>2, <2>3
  <1> QED
    BY <1>1, Inductive, PTL DEF Spec, SuccessStands

-----------------------------------------------------------------------------
(* The operations keep their contract *)

KeepsContract(o) == UNCHANGED Operation(o)!operationVars \/ Operation(o)!OperationNext

\* The steps of one operation, by what they do to its row and its request.
LEMMA ContractSteps ==
    ASSUME NEW o,
           \/ Status(o)' = Status(o) /\ Request(o)' = Request(o)
           \/ Status(o) = "none" /\ Status(o)' = "unfinished" /\ Request(o)' = Request(o)
           \/ Status(o) = "unfinished" /\ Request(o) = "unsent" /\ Request(o)' \in {"live", "spent"} /\ Status(o)' = Status(o)
           \/ Request(o) = "live" /\ Request(o)' = "spent" /\ Status(o)' = Status(o)
           \/ Status(o) = "unfinished" /\ Request(o) # "live" /\ Status(o)' \in Terminal /\ Request(o)' = Request(o)
           \/ o \in Deploys /\ Status(o) = "unfinished" /\ Request(o) = "live" /\ Status(o)' = "FAILED" /\ Request(o)' = Request(o)
    PROVE  KeepsContract(o)
  BY Zenon DEF KeepsContract, Terminal, Operation!OperationNext, Operation!Intend, Operation!Dispatch, Operation!Expire,
     Operation!End, Operation!Disown, Operation!operationVars

\* Steps that write no row.  A change of the service moves its version past
\* every plan, and a request that is not on its way stays so.
LEMMA RowsStay ==
    ASSUME NEW D, J(D), op' = op, svc' = svc \/ svc'.ver = svc.ver + 1, NEW o \in D,
           \/ wire'[o] = wire[o]
           \/ wire[o] # "none" /\ wire'[o] \notin {"none", "sent"}
           \/ Unfinished(o) /\ wire[o] = "none" /\ wire'[o] # "none"
    PROVE  KeepsContract(o)
  <1>1. Status(o)' = Status(o)
    BY Zenon DEF Status, Unfinished
  <1>2. MayTakeEffect(o)' /\ wire[o] = "sent" => MayTakeEffect(o)
    <2>1. CASE svc' = svc
      BY Zenon, <2>1 DEF MayTakeEffect, Matches, validateMutationPrecondition
    <2>2. CASE svc'.ver = svc.ver + 1
      <3>1. op[o].ver <= svc.ver /\ op[o].ver \in Nat /\ svc.ver \in Nat
        BY Zenon, Versions, Facts DEF OpOK
      <3>2. svc'.ver # op[o].ver
        BY <2>2, <3>1
      <3> QED
        BY Zenon, <3>2 DEF MayTakeEffect, Matches, validateMutationPrecondition
    <2> QED
      BY Zenon, <2>1, <2>2
  <1>3. MayTakeEffect(o) => wire[o] = "sent"
    BY Zenon DEF MayTakeEffect
  <1>4. MayTakeEffect(o)' => wire'[o] = "sent"
    BY Zenon DEF MayTakeEffect
  <1>5. CASE wire'[o] = wire[o] \/ (wire[o] # "none" /\ wire'[o] \notin {"none", "sent"})
    <2>1. Request(o)' = Request(o) \/ (Request(o) = "live" /\ Request(o)' = "spent")
      BY <1>2, <1>3, <1>4, <1>5 DEF Request
    <2> QED
      BY Zenon, <1>1, <2>1, ContractSteps
  <1>6. CASE Unfinished(o) /\ wire[o] = "none" /\ wire'[o] # "none"
    <2>1. Status(o) = "unfinished" /\ Request(o) = "unsent" /\ Request(o)' \in {"live", "spent"}
      BY <1>6 DEF Status, Request
    <2> QED
      BY Zenon, <1>1, <2>1, ContractSteps
  <1> QED
    BY Zenon, <1>5, <1>6

\* A new row: none is unfinished before, and its request is not sent.
LEMMA IntentKeepsContract ==
    ASSUME NEW D, J(D), sess.pc \in Early, NEW pc, Intend(sess.op, pc), NEW o \in D
    PROVE  KeepsContract(o)
  <1>1. UNCHANGED <<svc, wire>>
    BY Zenon DEF Intend
  <1>2. op \in [D -> OpType] /\ sess.op \in D /\ op[sess.op].st = "none" /\ wire[sess.op] = "none"
    BY Zenon, Facts, EarlyFacts
  <1>3. CASE o = sess.op
    <2>1. op'[o].st = "RUNNING" /\ wire'[o] = "none" /\ wire[o] = "none" /\ op[o].st = "none"
      BY <1>1, <1>2, <1>3 DEF Intend
    <2>2. Status(o) = "none" /\ Status(o)' = "unfinished" /\ Request(o)' = Request(o)
      BY <2>1 DEF Status, Request, Unfinished, Terminal
    <2> QED
      BY Zenon, <2>2, ContractSteps
  <1>4. CASE o # sess.op
    <2>1. op'[o] = op[o]
      BY <1>2, <1>4 DEF Intend
    <2>2. Status(o)' = Status(o) /\ Request(o)' = Request(o)
      BY Zenon, <1>1, <2>1 DEF Status, Request, Unfinished, MayTakeEffect, Matches, validateMutationPrecondition
    <2> QED
      BY Zenon, <2>2, ContractSteps
  <1> QED
    BY Zenon, <1>3, <1>4

\* A row that is written is unfinished; when it ends, the invariant after the
\* step says what its request may still do.
LEMMA RecordKeepsContract ==
    ASSUME NEW D, J(D), J(D)', UNCHANGED <<svc, wire>>, NEW p \in D, Unfinished(p), NEW st \in Statuses \ {"none"}, NEW code, NEW ds,
           st = "SUCCESS" => code = "none", Record(p, st, code, ds), NEW o \in D
    PROVE  KeepsContract(o)
  <1>1. op \in [D -> OpType] /\ op[p].st \notin Terminal
    BY Zenon, Facts DEF Unfinished
  <1>2. CASE o # p
    <2>1. op'[o] = op[o]
      BY <1>1, <1>2 DEF Record
    <2>2. Status(o)' = Status(o) /\ Request(o)' = Request(o)
      BY Zenon, <2>1 DEF Status, Request, Unfinished, MayTakeEffect, Matches, validateMutationPrecondition
    <2> QED
      BY Zenon, <2>2, ContractSteps
  <1>3. CASE o = p
    <2>1. /\ op'[o].st = st /\ op'[o].code = code
          /\ op'[o].ver = op[o].ver /\ op'[o].before = op[o].before /\ op'[o].target = op[o].target
      BY <1>1, <1>3 DEF Record, OpType
    <2>2. MayTakeEffect(o)' <=> MayTakeEffect(o)
      BY Zenon, <2>1 DEF MayTakeEffect, Matches, validateMutationPrecondition
    <2>3. Request(o)' = Request(o) /\ Status(o) = "unfinished"
      BY Zenon, <1>3, <2>2 DEF Request, Status
    <2>4. CASE st \notin Terminal
      <3>1. Status(o)' = "unfinished"
        BY <2>1, <2>4 DEF Status, Unfinished
      <3> QED
        BY Zenon, <2>3, <3>1, ContractSteps
    <2>5. CASE st \in Terminal
      <3>1. Status(o)' = st
        BY Zenon, <2>1, <2>5 DEF Status, Unfinished
      <3>2. ~MayTakeEffect(o)' \/ (o \in Deploys /\ code = "CONVERGENCE_FAILED")
        <4>1. OpOK(o)'
          BY Zenon DEF J
        <4> QED
          BY Zenon, <2>1, <2>5, <4>1 DEF OpOK, Over
      <3>3. CASE ~MayTakeEffect(o)'
        <4>1. Request(o) # "live"
          BY <2>2, <3>3 DEF Request
        <4> QED
          BY Zenon, <2>3, <2>5, <3>1, <4>1, ContractSteps
      <3>4. CASE MayTakeEffect(o)
        <4>1. Request(o) = "live"
          BY <3>4 DEF Request, MayTakeEffect
        <4>2. o \in Deploys /\ st = "FAILED"
          BY <2>2, <2>5, <3>2, <3>4 DEF Terminal
        <4> QED
          BY Zenon, <2>3, <3>1, <4>1, <4>2, ContractSteps
      <3> QED
        BY Zenon, <2>2, <3>3, <3>4
    <2> QED
      BY Zenon, <2>4, <2>5
  <1> QED
    BY Zenon, <1>2, <1>3

LEMMA RecordsKeepContract ==
    ASSUME NEW D, J(D), J(D)', MarkVerifying \/ Complete \/ (\E p \in D : ManualResolve(p)), NEW o \in D
    PROVE  KeepsContract(o)
  <1>1. ASSUME NEW p \in D, Unfinished(p), UNCHANGED <<svc, wire>>,
               \E st \in Statuses \ {"none"} : \E code, ds : (st = "SUCCESS" => code = "none") /\ Record(p, st, code, ds)
        PROVE  KeepsContract(o)
    BY Zenon, <1>1, RecordKeepsContract
  <1>2. {"VERIFYING", "SUCCESS", "FAILED", "NEEDS_ATTENTION"} \subseteq Statuses \ {"none"}
    BY DEF Statuses, Terminal
  <1>3. CASE MarkVerifying
    <2>1. sess.pc \notin Early \cup {"free"} /\ UNCHANGED <<svc, wire>>
      BY <1>3 DEF MarkVerifying, Early
    <2>2. "VERIFYING" # "SUCCESS"
      OBVIOUS
    <2>3. \E code, ds : ("VERIFYING" = "SUCCESS" => code = "none") /\ Record(sess.op, "VERIFYING", code, ds)
      BY Zenon, <1>3, <2>2 DEF MarkVerifying
    <2> QED
      BY Zenon, <1>1, <1>2, <2>1, <2>3, LateFacts
  <1>4. CASE Complete
    <2>1. sess.pc \notin Early \cup {"free"} /\ UNCHANGED <<svc, wire>>
      BY <1>4 DEF Complete, Early, Outcomes
    <2>2. RecordDeploy(sess.op) \/ RecordRollback(sess.op) \/ RecordMutation(sess.op)
      BY Zenon, <1>4 DEF Complete
    <2>3. \E st \in {"VERIFYING", "SUCCESS", "FAILED", "NEEDS_ATTENTION"} : \E code, ds :
             (st = "SUCCESS" => code = "none") /\ Record(sess.op, st, code, ds)
      <3>1. "FAILED" # "SUCCESS" /\ "NEEDS_ATTENTION" # "SUCCESS" /\ "VERIFYING" # "SUCCESS"
        OBVIOUS
      <3> QED
        BY Zenon, <2>2, <3>1 DEF RecordDeploy, RecordRollback, RecordMutation
    <2> QED
      BY Zenon, <1>1, <1>2, <2>1, <2>3, LateFacts
  <1>5. CASE \E p \in D : ManualResolve(p)
    <2>1. PICK p \in D : ManualResolve(p)
      BY Zenon, <1>5
    <2>2. "FAILED" # "SUCCESS"
      OBVIOUS
    <2>3. Unfinished(p) /\ UNCHANGED <<svc, wire>> /\ Record(p, "FAILED", "none", "FAILED")
      BY Zenon, <2>1 DEF ManualResolve
    <2> QED
      BY Zenon, <1>1, <1>2, <2>2, <2>3
  <1> QED
    BY Zenon, <1>3, <1>4, <1>5

\* The request is sent by the lock holder, or by its callback when the lock was
\* lost; then it is answered, heard or not.
LEMMA RequestKeepsContract ==
    ASSUME NEW D, J(D), Send \/ Answered \/ SessionLost, NEW o \in D
    PROVE  KeepsContract(o)
  <1>1. wire \in [D -> Wires] /\ UNCHANGED <<svc, op>>
    BY Zenon, Facts DEF Send, Answered, SessionLost
  <1>2. PICK w : wire' = [wire EXCEPT ![sess.op] = w]
    BY Zenon DEF Send, Answered, SessionLost
  <1>3. CASE o # sess.op
    <2>1. wire'[o] = wire[o]
      BY <1>1, <1>2, <1>3
    <2> QED
      BY Zenon, <1>1, <2>1, RowsStay
  <1>4. CASE o = sess.op /\ (Send \/ Answered \/ sess.pc = "dispatch")
    <2>1. sess.pc \notin Early \cup {"free"}
      BY <1>4 DEF Send, Answered, Early
    <2>2. Unfinished(o)
      BY Zenon, <1>4, <2>1, LateFacts
    <2>3. \/ wire'[o] = wire[o]
          \/ wire[o] # "none" /\ wire'[o] \notin {"none", "sent"}
          \/ wire[o] = "none" /\ wire'[o] # "none"
      <3>1. sess.pc = "dispatch" => wire[o] = "none"
        BY Zenon, <1>4, <2>1, Facts DEF SessOK
      <3> QED
        BY <1>1, <1>4, <3>1 DEF Send, Answered, SessionLost
    <2> QED
      BY Zenon, <1>1, <2>2, <2>3, RowsStay
  <1>5. CASE o = sess.op /\ SessionLost /\ sess.pc # "dispatch"
    <2>1. wire'[o] = wire[o] \/ (wire[o] # "none" /\ wire'[o] \notin {"none", "sent"})
      BY <1>1, <1>5 DEF SessionLost
    <2> QED
      BY Zenon, <1>1, <2>1, RowsStay
  <1> QED
    BY Zenon, <1>3, <1>4, <1>5

\* What Agents, Docker and other writers do to the service.
LEMMA ServiceKeepsContract ==
    ASSUME NEW D, J(D), (\E p \in D, us \in UpdateStates : ServiceUpdate(p, us)) \/ (\E p \in D : NotApplied(p)) \/ SwarmStep \/ ExternalUpdate,
           NEW o \in D
    PROVE  KeepsContract(o)
  <1>1. wire \in [D -> Wires] /\ svc \in SvcType
    BY Zenon, Facts
  <1>2. CASE (\E p \in D, us \in UpdateStates : ServiceUpdate(p, us)) \/ (\E p \in D : NotApplied(p))
    <2>1. PICK p \in D : (\E us \in UpdateStates : ServiceUpdate(p, us)) \/ NotApplied(p)
      BY Zenon, <1>2
    <2>2. op' = op /\ wire[p] = "sent" /\ \E w \in {"ok", "rejected", "over"} : wire' = [wire EXCEPT ![p] = w]
      BY Zenon, <2>1 DEF ServiceUpdate, NotApplied, Answer
    <2>3. svc' = svc \/ svc'.ver = svc.ver + 1
      BY <2>1 DEF ServiceUpdate, NotApplied
    <2>4. wire'[o] = wire[o] \/ (wire[o] # "none" /\ wire'[o] \notin {"none", "sent"})
      BY <1>1, <2>2
    <2> QED
      BY Zenon, <2>2, <2>3, <2>4, RowsStay
  <1>3. CASE SwarmStep \/ ExternalUpdate
    <2>1. op' = op /\ wire' = wire
      BY Zenon, <1>3 DEF SwarmStep, ExternalUpdate
    <2>2. svc'.ver = svc.ver + 1
      <3>1. CASE \E us : svc' = [svc EXCEPT !.ver = @ + 1, !.us = us]
        BY <1>1, <3>1 DEF SvcType
      <3>2. CASE \E spec, prev, us : svc' = [ver |-> svc.ver + 1, spec |-> spec, prev |-> prev, us |-> us]
        BY <3>2
      <3> QED
        BY Zenon, <1>3, <3>1, <3>2 DEF SwarmStep, ExternalUpdate
    <2> QED
      BY Zenon, <2>1, <2>2, RowsStay
  <1> QED
    BY Zenon, <1>2, <1>3

LEMMA NextKeepsContract ==
    ASSUME NEW D \in SUBSET Ops, J(D), [Next]_vars, NEW o \in D
    PROVE  KeepsContract(o)
  <1>1. DOMAIN op = D /\ DOMAIN dep \subseteq D /\ DOMAIN asked \subseteq D /\ J(D)'
    BY Zenon, Domains, NextJ
  <1>2. CASE PersistDeployIntent \/ PersistRollbackIntent \/ PersistMutationIntent
    <2>1. sess.pc \in Early /\ \E pc : Intend(sess.op, pc)
      BY Zenon, <1>2 DEF PersistDeployIntent, PersistRollbackIntent, PersistMutationIntent, Early
    <2> QED
      BY Zenon, <2>1, IntentKeepsContract
  <1>3. CASE MarkVerifying \/ Complete \/ (\E p \in D : ManualResolve(p))
    BY Zenon, <1>1, <1>3, RecordsKeepContract
  <1>4. CASE Send \/ Answered \/ SessionLost
    BY Zenon, <1>4, RequestKeepsContract
  <1>5. CASE (\E p \in D, us \in UpdateStates : ServiceUpdate(p, us)) \/ (\E p \in D : NotApplied(p)) \/ SwarmStep \/ ExternalUpdate
    BY Zenon, <1>5, ServiceKeepsContract
  <1>6. CASE UNCHANGED <<svc, op, wire>>
    BY Zenon, <1>6, RowsStay
  <1>7. ASSUME \/ \E d \in DOMAIN dep : UpdateServiceImage(d)
               \/ \E p \in DOMAIN op \cap Scales : ScaleService(p)
               \/ \E p \in DOMAIN op \cap Restarts : RestartService(p)
               \/ \E r \in DOMAIN asked : RollbackService(r)
        PROVE  \E p \in D, us \in UpdateStates : ServiceUpdate(p, us)
    BY <1>1, <1>7 DEF UpdateServiceImage, ScaleService, RestartService, RollbackService, UpdateStates
  <1>8. ASSUME \/ UNCHANGED vars
               \/ \E d \in DOMAIN dep, i \in MixedImages : PlanDeploy(d, i)
               \/ \E p \in DOMAIN op \cap Scales, n \in MixedReplicas : PlanScale(p, n)
               \/ \E p \in DOMAIN op \cap Restarts : PlanRestart(p)
               \/ \E r \in DOMAIN asked, d \in DOMAIN dep : AskRollback(r, d)
               \/ \E r \in DOMAIN asked : PlanRollback(r)
               \/ InspectReconcile \/ InspectVerify \/ WindowEnds
               \/ \E p \in DOMAIN op : Reconcile(p)
        PROVE  UNCHANGED <<svc, op, wire>>
    BY Zenon, <1>8 DEF vars, PlanDeploy, PlanScale, PlanRestart, AskRollback, PlanRollback, InspectReconcile, InspectVerify,
       WindowEnds, Reconcile
  <1> QED
    BY Zenon, <1>1, <1>2, <1>3, <1>4, <1>5, <1>6, <1>7, <1>8 DEF Next

\* Every operation of a service keeps OperationContract, whatever operations,
\* retries, lost connections and changes by others meet: its row exists before
\* its request, the request is sent once, and the row ends once, when the request
\* can no longer take effect; a DEPLOY alone may be failed before (deployRelease,
\* reconcileLocked).
THEOREM ServiceOperations == Spec => OperationsKeepContract
  <1>1. Init => \A o \in DOMAIN op : Operation(o)!OperationInit
    <2> SUFFICES ASSUME Init, NEW o \in DOMAIN op PROVE Operation(o)!OperationInit
      BY Zenon
    <2>1. op[o] = NoOp /\ wire[o] = "none"
      BY Zenon DEF Init
    <2>2. Status(o) = "none" /\ Request(o) = "unsent"
      BY <2>1 DEF Status, Request, Unfinished, Terminal, NoOp
    <2> QED
      BY Zenon, <2>2 DEF Operation!OperationInit
  <1>2. ASSUME IInv, [Next]_vars
        PROVE  \A o \in DOMAIN op : UNCHANGED Operation(o)!operationVars \/ Operation(o)!OperationNext
    <2>1. PICK D \in SUBSET Ops : J(D)
      BY Zenon, <1>2 DEF IInv
    <2>2. DOMAIN op = D
      BY Zenon, <2>1, Domains
    <2> QED
      BY Zenon, <1>2, <2>1, <2>2, NextKeepsContract DEF KeepsContract
  <1> QED
    BY <1>1, <1>2, Inductive, PTL DEF Spec, OperationsKeepContract
============================================================================
