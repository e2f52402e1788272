---------------------------- MODULE NodeWorkflow ----------------------------
(***************************************************************************)
(* The operations on Swarm nodes, DRAIN, ACTIVATE and LABELS, and the      *)
(* locks that keep them apart from each other and from the operations on   *)
(* the services they disturb (operations/node-mutation.service.ts,         *)
(* operation-lock.ts, the Agent's node_mutator.go and node_labels.go).     *)
(*                                                                         *)
(*   node    the Docker node: version, availability, label, and the        *)
(*           services with a live task on it                               *)
(*   uses    the services whose placement names the label                  *)
(*   nop     the node_operations table                                     *)
(*   sop     the operations table, as far as node operations look at it    *)
(*   wire    the mutation request of a node operation                      *)
(*   owner   the session that holds each named lock (GET_LOCK)             *)
(*   sess    the database sessions of the requests being handled: a node   *)
(*           operation, a service operation or a recovery                  *)
(*                                                                         *)
(* A resource is a number: the rank of the digest that names its lock.     *)
(***************************************************************************)
EXTENDS Naturals, FiniteSets, FiniteSetsExt

CONSTANTS Nodes, Services,               \* resources
          Scheduled, Constrained,        \* services whose tasks may come to a node, and whose
                                         \* placement may come to name the label
          Drains, Activates, Labelings,  \* operation IDs of each type
          ServiceOps,                    \* operation IDs of any service mutation
          Sessions,
          None,
          Mixes,                         \* the sets of resources and IDs that meet in one behaviour
          Quiet,                         \* nodes that keep their version (a bound)
          MaxVer                         \* bound on the Docker object version

NodeOps == Drains \cup Activates \cup Labelings
Resources == Nodes \cup Services

ASSUME NodeAssumption ==
    /\ Nodes \subseteq Nat /\ Services \subseteq Nat /\ Nodes \cap Services = {}
    /\ Resources # {} => \E last \in Resources : \A k \in Resources : k <= last  \* digests have a fixed length
    /\ Scheduled \cup Constrained \subseteq Services
    /\ Drains \cap (Activates \cup Labelings) = {} /\ Activates \cap Labelings = {}
    /\ NodeOps \cap ServiceOps = {}
    /\ None \notin NodeOps \cup ServiceOps \cup Sessions \cup Resources
    /\ Mixes \subseteq SUBSET (Resources \cup NodeOps \cup ServiceOps) /\ Quiet \subseteq Nodes /\ MaxVer \in Nat \ {0}

VARIABLES node, uses, nop, sop, wire, owner, sess

vars == <<node, uses, nop, sop, wire, owner, sess>>

-----------------------------------------------------------------------------
\* A spec stands for its hash; there is one label, set or not.
Specs == [avail : {"active", "drain"}, label : BOOLEAN]
SpecOrNone == Specs \cup {None}

Terminal == {"SUCCESS", "FAILED"}
Unfinished(o) == nop[o].st \notin Terminal \cup {"none"}
ServiceUnfinished(v) == sop[v].st = "unfinished"

\* The outcomes are decided and remain to be written.
Outcomes == {"success", "fail", "unseen", "attention"}
Steps == {"free", "reading", "locking", "locked", "inspected", "planned", "dispatch", "waiting", "accepted",
          "reconcile", "verify", "serviceChecked", "serviceWork"} \cup Outcomes

\* req is the operation a request is about (none for a recovery), op the node
\* operation being worked on, seen the services it affects as read last.
Free == [pc |-> "free", req |-> None, op |-> None, at |-> None, label |-> FALSE, seen |-> {}, todo |-> {},
         ver |-> 0, before |-> None]
NoOp == [st |-> "none", unseen |-> FALSE, at |-> None, ver |-> 0, before |-> None, target |-> None, affected |-> {}]

\* The resources of the behaviour; the tables have a row for each of its IDs.
Present == DOMAIN owner

TypeOK ==
    /\ node \in [Nodes \cap Present -> [ver : 1 .. MaxVer, spec : Specs, tasks : SUBSET Scheduled]]
    /\ uses \subseteq Constrained
    /\ nop \in [DOMAIN wire -> [st : {"none", "RUNNING", "VERIFYING", "NEEDS_ATTENTION"} \cup Terminal,
                            unseen : BOOLEAN, at : Nodes \cup {None}, ver : 0 .. MaxVer,
                            before : SpecOrNone, target : SpecOrNone, affected : SUBSET Services]]
    /\ sop \in [DOMAIN sop -> [st : {"none", "unfinished", "ended"}, at : Services \cup {None}]]
    /\ wire \in [DOMAIN nop -> {"none", "sent", "checked", "ok", "rejected", "over"}]
    /\ owner \in [Present -> Sessions \cup {None}]
    /\ sess \in [Sessions -> [pc : Steps, req : NodeOps \cup ServiceOps \cup {None}, op : NodeOps \cup {None},
                              at : Resources \cup {None}, label : BOOLEAN, seen : SUBSET Services,
                              todo : SUBSET Resources, ver : 0 .. MaxVer, before : SpecOrNone]]

Init ==
    /\ \E mix \in Mixes :
          /\ node \in [Nodes \cap mix -> [ver : {1}, spec : [avail : {"active"}, label : {FALSE}],
                                         tasks : SUBSET (Scheduled \cap mix)]]
          /\ uses \in SUBSET (Constrained \cap mix)
          /\ nop = [o \in NodeOps \cap mix |-> NoOp]
          /\ sop = [v \in ServiceOps \cap mix |-> [st |-> "none", at |-> None]]
          /\ wire = [o \in NodeOps \cap mix |-> "none"]
          /\ owner = [k \in Resources \cap mix |-> None]
    /\ sess = [x \in Sessions |-> Free]

-----------------------------------------------------------------------------
(* What the Agent plans *)

planNodeAvailability(o, spec) ==
    [spec EXCEPT !.avail = IF o \in Drains THEN "drain" ELSE "active"]

PlanNodeLabels(spec, label) == [spec EXCEPT !.label = label]

Target(o, spec, label) ==
    IF o \in Labelings THEN PlanNodeLabels(spec, label) ELSE planNodeAvailability(o, spec)

serviceIDsAffectedByNodeLabels(before, after) == IF before.label # after.label THEN uses ELSE {}

\* The services an operation on node n affects at this moment.
AffectedNow(o, n, target) ==
    IF o \in Labelings THEN serviceIDsAffectedByNodeLabels(node[n].spec, target) ELSE node[n].tasks

-----------------------------------------------------------------------------
(* The named locks *)

Go(x, pc) == sess' = [sess EXCEPT ![x].pc = pc]

\* From here on the record of o says all there is to know.
WorkOn(x, o, pc) ==
    sess' = [sess EXCEPT ![x] = [Free EXCEPT !.pc = pc, !.req = o, !.op = o, !.at = sess[x].at]]

\* The locks are released with the connection, whichever way the callback ends.
Leave(x) ==
    /\ owner' = [k \in Present |-> IF owner[k] = x THEN None ELSE owner[k]]
    /\ sess' = [sess EXCEPT ![x] = Free]

\* Mutant: in the order the caller gives, which is any.
AcquireAny(x) ==
    \E k \in sess[x].todo :
        /\ sess[x].pc = "locking"
        /\ owner[k] = None
        /\ owner' = [owner EXCEPT ![k] = x]
        /\ sess' = [sess EXCEPT ![x].todo = @ \ {k},
                                ![x].pc = IF sess[x].todo = {k} THEN "locked" ELSE "locking"]
        /\ UNCHANGED <<node, uses, nop, sop, wire>>

\* withResourceLocks: GET_LOCK one by one, in the order of the lock names.
Acquire(x) ==
    /\ sess[x].pc = "locking"
    /\ LET k == Min(sess[x].todo) IN
          /\ owner[k] = None
          /\ owner' = [owner EXCEPT ![k] = x]
          /\ sess' = [sess EXCEPT ![x].todo = @ \ {k},
                                  ![x].pc = IF sess[x].todo = {k} THEN "locked" ELSE "locking"]
    /\ UNCHANGED <<node, uses, nop, sop, wire>>

\* GET_LOCK returns 0 after two seconds.
LockTimeout(x) ==
    /\ sess[x].pc = "locking" /\ owner[Min(sess[x].todo)] # None
    /\ Leave(x)
    /\ UNCHANGED <<node, uses, nop, sop, wire>>

-----------------------------------------------------------------------------
(* A node operation up to its intent *)

\* mutate, before the lock: the affected services are read, and an operation
\* with this ID.
Mutate(x, o, n, label) ==
    LET existing == nop[o].st # "none"
        seen == IF o \in Labelings /\ existing THEN nop[o].affected
                ELSE AffectedNow(o, n, Target(o, node[n].spec, label))
        known == IF nop[o].at = n THEN nop[o].affected ELSE {} IN
    /\ sess[x].pc = "free"
    /\ sess' = [sess EXCEPT ![x] = [Free EXCEPT !.pc = "reading", !.req = o, !.at = n, !.label = label,
                                                !.seen = seen, !.todo = {n} \cup seen \cup known]]
    /\ UNCHANGED <<node, uses, nop, sop, wire, owner>>

\* Then an unfinished operation of the node, whose services are locked as well.
findNonTerminalForNode(n) == {p \in DOMAIN nop : Unfinished(p) /\ nop[p].at = n}

ReadPrior(x) ==
    /\ sess[x].pc = "reading"
    /\ sess' = [sess EXCEPT ![x].pc = "locking",
                            ![x].todo = @ \cup UNION {nop[p].affected : p \in findNonTerminalForNode(sess[x].at)}]
    /\ UNCHANGED <<node, uses, nop, sop, wire, owner>>

\* Under the locks: the same operation was seen before (assertIdempotent: on
\* the same node).
TakeUpExisting(x) ==
    LET o == sess[x].req IN
    /\ sess[x].pc = "locked" /\ o \in NodeOps /\ nop[o].st # "none"
    /\ IF Unfinished(o) /\ nop[o].at = sess[x].at
       THEN WorkOn(x, o, "reconcile") /\ UNCHANGED owner
       ELSE Leave(x)
    /\ UNCHANGED <<node, uses, nop, sop, wire>>

\* Another operation of the node is unfinished: it is reconciled first.
TakeUpPrior(x) ==
    /\ sess[x].pc = "locked" /\ sess[x].req \in NodeOps /\ nop[sess[x].req].st = "none"
    /\ \E p \in findNonTerminalForNode(sess[x].at) :
          sess' = [sess EXCEPT ![x].pc = "reconcile", ![x].op = p]
    /\ UNCHANGED <<node, uses, nop, sop, wire, owner>>

Inspected(x) ==
    LET o == sess[x].req  n == sess[x].at IN
    /\ sess[x].pc = "locked" /\ o \in NodeOps /\ nop[o].st = "none"
    /\ findNonTerminalForNode(n) = {}
    /\ sess' = [sess EXCEPT ![x].pc = "inspected", ![x].ver = node[n].ver, ![x].before = node[n].spec,
                            ![x].seen = AffectedNow(o, n, Target(o, node[n].spec, sess[x].label))]
    /\ UNCHANGED <<node, uses, nop, sop, wire, owner>>

\* The node is read again under the locks; the affected services must be the
\* ones the locks were chosen for.
InspectLocked(x) ==
    LET o == sess[x].req  n == sess[x].at IN
    /\ Inspected(x)
    /\ sess[x].seen = AffectedNow(o, n, Target(o, node[n].spec, sess[x].label))

\* No unfinished operation touches an affected service, and a plan made now is
\* of the node as inspected (assertPlanMatchesLockedNode).
CheckConflicts(x) ==
    LET o == sess[x].req  n == sess[x].at IN
    /\ sess[x].pc = "inspected"
    /\ \A v \in DOMAIN sop : ServiceUnfinished(v) => sop[v].at \notin sess[x].seen
    /\ \A p \in DOMAIN nop : Unfinished(p) => nop[p].affected \cap sess[x].seen = {}
    /\ o \notin Labelings =>
          node[n].ver = sess[x].ver /\ node[n].spec = sess[x].before /\ node[n].tasks = sess[x].seen
    /\ Go(x, "planned")
    /\ UNCHANGED <<node, uses, nop, sop, wire, owner>>

\* Planning or one of the checks fails, or the transaction with the intent.
Conflict(x) ==
    /\ sess[x].pc \in {"locked", "inspected", "planned"} /\ sess[x].req # None
    /\ Leave(x)
    /\ UNCHANGED <<node, uses, nop, sop, wire>>

\* persistIntent, where the ID is the primary key; a plan that changes nothing
\* is not sent.
PersistIntent(x) ==
    LET o == sess[x].req  target == Target(o, sess[x].before, sess[x].label) IN
    /\ sess[x].pc = "planned" /\ nop[o].st = "none"
    /\ nop' = [nop EXCEPT ![o] = [st |-> "RUNNING", unseen |-> FALSE, at |-> sess[x].at, ver |-> sess[x].ver,
                                  before |-> sess[x].before, target |-> target, affected |-> sess[x].seen]]
    /\ WorkOn(x, o, IF sess[x].before = target THEN "verify" ELSE "dispatch")
    /\ UNCHANGED <<node, uses, sop, wire, owner>>

-----------------------------------------------------------------------------
(* Dispatch *)

Send(x) ==
    /\ sess[x].pc = "dispatch"
    /\ wire' = [wire EXCEPT ![sess[x].op] = "sent"]
    /\ Go(x, "waiting")
    /\ UNCHANGED <<node, uses, nop, sop, owner>>

Awaited(o) == \E x \in Sessions : sess[x].op = o /\ sess[x].pc = "waiting"
Answer(o, w) == wire' = [wire EXCEPT ![o] = IF Awaited(o) THEN w ELSE "over"]

MayChange(n) == n \notin Quiet /\ node[n].ver < MaxVer

Unchanged(o) == node[nop[o].at].ver = nop[o].ver /\ node[nop[o].at].spec = nop[o].before

\* updateNodeAvailability and UpdateNodeLabels: the checks.
AgentChecks(o) ==
    /\ wire[o] = "sent"
    /\ Unchanged(o)
    /\ o \notin Activates => AffectedNow(o, nop[o].at, nop[o].target) = nop[o].affected
    /\ wire' = [wire EXCEPT ![o] = "checked"]
    /\ UNCHANGED <<node, uses, nop, sop, owner, sess>>

\* NodeUpdate: Docker compares the version once more.  It may be reported as a
\* failure when the inspection after it fails.
NodeUpdate(o) ==
    LET n == nop[o].at IN
    /\ wire[o] = "checked"
    /\ node[n].ver = nop[o].ver /\ MayChange(n)
    /\ node' = [node EXCEPT ![n].ver = @ + 1, ![n].spec = nop[o].target]
    /\ \E w \in {"ok", "over"} : Answer(o, w)
    /\ UNCHANGED <<uses, nop, sop, owner, sess>>

\* Refused before the update, failed without a word, or it never arrives.
NotApplied(o) ==
    /\ wire[o] \in {"sent", "checked"}
    /\ \E w \in {"rejected", "over"} : Answer(o, w)
    /\ UNCHANGED <<node, uses, nop, sop, owner, sess>>

\* Mutant: a lost answer is taken for a failure.
AnsweredOrFailed(x) ==
    /\ sess[x].pc = "waiting"
    /\ Go(x, IF wire[sess[x].op] = "ok" THEN "accepted" ELSE "fail")
    /\ wire' = [wire EXCEPT ![sess[x].op] = IF @ \in {"ok", "rejected"} THEN "over" ELSE @]
    /\ UNCHANGED <<node, uses, nop, sop, owner>>

\* The answer; a timeout, with the request still under way, leads to
\* reconciliation, like everything but acceptance and a definite rejection.
Answered(x) ==
    LET w == wire[sess[x].op] IN
    /\ sess[x].pc = "waiting"
    /\ Go(x, CASE w = "ok" -> "accepted" [] w = "rejected" -> "fail" [] OTHER -> "reconcile")
    /\ wire' = [wire EXCEPT ![sess[x].op] = IF @ \in {"ok", "rejected"} THEN "over" ELSE @]
    /\ UNCHANGED <<node, uses, nop, sop, owner>>

-----------------------------------------------------------------------------
(* Verification, reconciliation, recovery *)

MarkVerifying(x) ==
    LET o == sess[x].op IN
    /\ sess[x].pc = "accepted"
    /\ nop' = [nop EXCEPT ![o].st = IF @ \in Terminal THEN @ ELSE "VERIFYING", ![o].unseen = FALSE]
    /\ Go(x, "verify")
    /\ UNCHANGED <<node, uses, sop, wire, owner>>

\* reconcileLocked: one inspection, which may fail.
InspectReconcile(x) ==
    LET o == sess[x].op IN
    /\ sess[x].pc = "reconcile"
    /\ \/ Go(x, CASE node[nop[o].at].spec = nop[o].target ->
                        IF nop[o].st = "VERIFYING" THEN "verify" ELSE "accepted"
                  [] node[nop[o].at].spec # nop[o].target /\ Unchanged(o) -> "unseen"
                  [] OTHER -> "attention")
       \/ Go(x, "attention")
    /\ UNCHANGED <<node, uses, nop, sop, wire, owner>>

\* "settled": no live task is left of a drained node; placement has converged
\* after a label change, which an inspection may or may not find.
classifyNodeMutation(o, settled) ==
    CASE node[nop[o].at].spec # nop[o].target -> "EXTERNAL_CONFLICT"
      [] node[nop[o].at].spec = nop[o].target /\ (o \in Activates \/ settled) -> "SUCCESS"
      [] OTHER -> "PENDING"

\* One round of verifyAndCompleteLocked.  A conflict ends in attention, and so
\* does the timeout, which may find the node at its target when the Agent's
\* errors hid it.
InspectVerify(x) ==
    LET o == sess[x].op IN
    /\ sess[x].pc = "verify"
    /\ \E settled \in IF o \in Drains THEN {node[nop[o].at].tasks = {}} ELSE BOOLEAN :
          \/ classifyNodeMutation(o, settled) = "SUCCESS" /\ Go(x, "success")
          \/ Go(x, "attention")
    /\ UNCHANGED <<node, uses, nop, sop, wire, owner>>

\* The transaction that records the outcome; terminal rows are left alone.  A
\* request that found a prior operation goes on once that one has ended.
Complete(x) ==
    LET o == sess[x].op
        st == CASE sess[x].pc = "success" -> "SUCCESS" [] sess[x].pc = "fail" -> "FAILED"
                [] OTHER -> "NEEDS_ATTENTION" IN
    /\ sess[x].pc \in Outcomes
    /\ nop' = IF nop[o].st \in Terminal THEN nop
              ELSE [nop EXCEPT ![o].st = st, ![o].unseen = (sess[x].pc = "unseen")]
    /\ IF sess[x].req \notin {o, None} /\ nop'[o].st \in Terminal
       THEN sess' = [sess EXCEPT ![x].pc = "locked", ![x].op = None] /\ UNCHANGED owner
       ELSE Leave(x)
    /\ UNCHANGED <<node, uses, sop, wire>>

\* Mutant: a recovery locks the services only.
RecoverServices(x, o) ==
    /\ sess[x].pc = "free" /\ Unfinished(o) /\ nop[o].affected # {}
    /\ sess' = [sess EXCEPT ![x] = [Free EXCEPT !.pc = "locking", !.op = o, !.at = nop[o].at,
                                                !.todo = nop[o].affected]]
    /\ UNCHANGED <<node, uses, nop, sop, wire, owner>>

\* onApplicationBootstrap and manual recovery take the locks of the record.
Recover(x, o) ==
    /\ sess[x].pc = "free" /\ Unfinished(o)
    /\ sess' = [sess EXCEPT ![x] = [Free EXCEPT !.pc = "locking", !.op = o, !.at = nop[o].at,
                                                !.todo = {nop[o].at} \cup nop[o].affected]]
    /\ UNCHANGED <<node, uses, nop, sop, wire, owner>>

TakeUpRecovery(x) ==
    /\ sess[x].pc = "locked" /\ sess[x].req = None
    /\ IF Unfinished(sess[x].op) THEN Go(x, "reconcile") /\ UNCHANGED owner ELSE Leave(x)
    /\ UNCHANGED <<node, uses, nop, sop, wire>>

\* resolveWithinTransaction; that no request is under way any more is what
\* MaintenanceFence shows of blockAll.
ManualResolve(x) ==
    LET o == sess[x].op IN
    /\ sess[x].pc = "locked" /\ sess[x].req = None
    /\ nop[o].st = "NEEDS_ATTENTION" /\ nop[o].unseen
    /\ Unchanged(o) /\ wire[o] \notin {"sent", "checked"}
    /\ nop' = [nop EXCEPT ![o].st = "FAILED", ![o].unseen = FALSE]
    /\ Leave(x)
    /\ UNCHANGED <<node, uses, sop, wire>>

\* The process dies or the connection is lost; then the callback may still
\* send a request it was about to send.
SessionLost(x) ==
    LET o == sess[x].op IN
    /\ sess[x].pc # "free"
    /\ Leave(x)
    /\ \/ sess[x].pc = "dispatch" /\ wire' = [wire EXCEPT ![o] = "sent"]
       \/ /\ sess[x].pc = "waiting"
          /\ wire' = [wire EXCEPT ![o] = IF @ \in {"ok", "rejected"} THEN "over" ELSE @]
       \/ sess[x].pc # "waiting" /\ UNCHANGED wire
    /\ UNCHANGED <<node, uses, nop, sop>>

-----------------------------------------------------------------------------
(* A service operation, as far as node operations see it *)

\* withServiceLock: a new operation, or a retry or recovery of an unfinished one.
MutateService(x, v, s) ==
    /\ sess[x].pc = "free"
    /\ sop[v].st = "none" \/ (ServiceUnfinished(v) /\ sop[v].at = s)
    /\ sess' = [sess EXCEPT ![x] = [Free EXCEPT !.pc = "locking", !.req = v, !.at = s, !.todo = {s}]]
    /\ UNCHANGED <<node, uses, nop, sop, wire, owner>>

\* Mutant: node operations are not looked at.
CheckServiceOnly(x) ==
    LET v == sess[x].req  s == sess[x].at IN
    /\ sess[x].pc = "locked" /\ v \in ServiceOps
    /\ \/ sop[v].st = "none" /\ (\A u \in DOMAIN sop : ServiceUnfinished(u) => sop[u].at # s)
             /\ Go(x, "serviceChecked") /\ UNCHANGED owner
       \/ ServiceUnfinished(v) /\ sop[v].at = s /\ Go(x, "serviceWork") /\ UNCHANGED owner
       \/ sop[v].st = "ended" /\ Leave(x)
    /\ UNCHANGED <<node, uses, nop, sop, wire>>

\* assertNoNodeOperationConflict and the search for a prior operation.
CheckService(x) ==
    LET v == sess[x].req  s == sess[x].at IN
    /\ sess[x].pc = "locked" /\ v \in ServiceOps
    /\ \/ /\ sop[v].st = "none"
          /\ \A u \in DOMAIN sop : ServiceUnfinished(u) => sop[u].at # s
          /\ \A p \in DOMAIN nop : Unfinished(p) => s \notin nop[p].affected
          /\ Go(x, "serviceChecked") /\ UNCHANGED owner
       \/ ServiceUnfinished(v) /\ sop[v].at = s /\ Go(x, "serviceWork") /\ UNCHANGED owner
       \/ sop[v].st = "ended" /\ Leave(x)
    /\ UNCHANGED <<node, uses, nop, sop, wire>>

PersistServiceIntent(x) ==
    /\ sess[x].pc = "serviceChecked" /\ sop[sess[x].req].st = "none"
    /\ sop' = [sop EXCEPT ![sess[x].req] = [st |-> "unfinished", at |-> sess[x].at]]
    /\ Go(x, "serviceWork")
    /\ UNCHANGED <<node, uses, nop, wire, owner>>

\* What ServiceWorkflow details: it ends, or is left for later.
EndService(x) ==
    /\ sess[x].pc = "serviceWork"
    /\ \E st \in {"unfinished", "ended"} : sop' = [sop EXCEPT ![sess[x].req].st = st]
    /\ Leave(x)
    /\ UNCHANGED <<node, uses, nop, wire>>

-----------------------------------------------------------------------------
(* Docker Swarm and other writers *)

\* Tasks come and go, without a change of the node's version.
TasksMove(n, s) ==
    /\ \/ s \in node[n].tasks /\ node' = [node EXCEPT ![n].tasks = @ \ {s}]
       \/ s \notin node[n].tasks /\ node[n].spec.avail = "active"
             /\ node' = [node EXCEPT ![n].tasks = @ \cup {s}]
    /\ UNCHANGED <<uses, nop, sop, wire, owner, sess>>

PlacementChanges(s) ==
    /\ uses' = IF s \in uses THEN uses \ {s} ELSE uses \cup {s}
    /\ UNCHANGED <<node, nop, sop, wire, owner, sess>>

ExternalUpdate(n) ==
    /\ MayChange(n)
    /\ \E spec \in Specs : node' = [node EXCEPT ![n].ver = @ + 1, ![n].spec = spec]
    /\ UNCHANGED <<uses, nop, sop, wire, owner, sess>>

-----------------------------------------------------------------------------
Next ==
    \/ \E x \in Sessions :
          \/ \E o \in DOMAIN nop \ Labelings, n \in DOMAIN node : Mutate(x, o, n, FALSE)
          \/ \E o \in DOMAIN nop \cap Labelings, n \in DOMAIN node, label \in BOOLEAN : Mutate(x, o, n, label)
          \/ \E v \in DOMAIN sop, s \in Services \cap Present : MutateService(x, v, s)
          \/ \E o \in DOMAIN nop : Recover(x, o)
          \/ ReadPrior(x) \/ Acquire(x) \/ LockTimeout(x)
          \/ TakeUpExisting(x) \/ TakeUpPrior(x) \/ TakeUpRecovery(x) \/ ManualResolve(x)
          \/ InspectLocked(x) \/ CheckConflicts(x) \/ Conflict(x) \/ PersistIntent(x)
          \/ Send(x) \/ Answered(x) \/ MarkVerifying(x) \/ InspectReconcile(x) \/ InspectVerify(x)
          \/ Complete(x) \/ SessionLost(x)
          \/ CheckService(x) \/ PersistServiceIntent(x) \/ EndService(x)
    \/ \E o \in DOMAIN nop : AgentChecks(o) \/ NodeUpdate(o) \/ NotApplied(o)
    \/ \E n \in DOMAIN node : ExternalUpdate(n) \/ \E s \in Scheduled \cap Present : TasksMove(n, s)
    \/ \E s \in Constrained \cap Present : PlacementChanges(s)

Spec == Init /\ [][Next]_vars

-----------------------------------------------------------------------------
\* Unfinished operations do not overlap: at most one on a node, none on a
\* service that an unfinished node operation affects, and no service is
\* affected by two of them (mutate, assertNoNodeOperationConflict).
Exclusion ==
    \A o \in DOMAIN nop : Unfinished(o) =>
        /\ \A p \in DOMAIN nop \ {o} : Unfinished(p) =>
              nop[p].at # nop[o].at /\ nop[p].affected \cap nop[o].affected = {}
        /\ \A v \in DOMAIN sop : ServiceUnfinished(v) => sop[v].at \notin nop[o].affected

WaitsFor(x, y) ==
    sess[x].pc = "locking" /\ x # y /\ owner[Min(sess[x].todo)] = y

\* No set of sessions waits for locks held within the set: a wait ends without
\* help of the two-second timeout (withResourceLocks sorts the lock names).
NoLockCycle ==
    \A S \in (SUBSET Sessions) \ {{}} : \E x \in S : \A y \in S : ~WaitsFor(x, y)

\* Sessions past the locks.
AtWork(x) == sess[x].pc \notin {"free", "reading", "locking"}

\* A node operation has one writer at a time: request, retry, a later request
\* that reconciles it, bootstrap and manual recovery keep each other out.
OneWriter ==
    \A x, y \in Sessions : x # y /\ AtWork(x) /\ AtWork(y) /\ sess[x].op # None => sess[x].op # sess[y].op

\* Once a node operation has ended, its request changes the node no more,
\* however late it arrives: with Exclusion, no node changes by Docklane's hand
\* while an operation on a service it affects is unfinished.
EndedIsOver ==
    \A o \in DOMAIN nop : nop[o].st \in Terminal =>
        ~(wire[o] \in {"sent", "checked"} /\ Unchanged(o) /\ nop[o].before # nop[o].target)
-----------------------------------------------------------------------------
(* The operations and their contract *)

\* A request that would change its node if it arrived.
MayTakeEffect(o) == wire[o] \in {"sent", "checked"} /\ Unchanged(o) /\ nop[o].before # nop[o].target

\* What the row says, and what has become of the request.
Status(o) == IF Unfinished(o) THEN "unfinished" ELSE nop[o].st
Request(o) == IF wire[o] = "none" THEN "unsent" ELSE IF MayTakeEffect(o) THEN "live" ELSE "spent"

\* One node operation as OperationContract sees it.
Operation(o) == INSTANCE OperationContract WITH
    MayDisown <- FALSE, status <- Status(o), request <- Request(o)

\* Every node operation keeps the contract, whichever sessions work on it in
\* turn: it is sent once, after its intent, and ends once, with a request that
\* can no longer take effect (mutate, reconcileLocked).  Both variables of the
\* contract are read off node, nop and wire.
OperationsKeepContract ==
    /\ \A o \in DOMAIN nop : Operation(o)!OperationInit
    /\ [][\/ UNCHANGED <<node, nop, wire>>
          \/ \A o \in DOMAIN nop : UNCHANGED Operation(o)!operationVars \/ Operation(o)!OperationNext]_vars
=============================================================================
