-------------------------- MODULE MaintenanceFence --------------------------
(***************************************************************************)
(* The maintenance fence of one registered Swarm: the durable maintenance  *)
(* state, the coordinators that move it, the admission and dispatch        *)
(* evidence that mutation workers leave, and the barriers of the manager   *)
(* Agents (apps/api/src/clusters/ and agent/, with maintenance enforced).  *)
(*                                                                         *)
(*   maint      cluster_maintenance_states: OPEN -> CLOSING -> CLOSED ->   *)
(*              RECONCILING -> OPEN, one generation per transition         *)
(*   lease      maintenance_control_leases: the holder of the live lease;  *)
(*              an expired one has no holder, as its token is fenced       *)
(*   adm        maintenance_active_admissions, one row per worker          *)
(*   disp       maintenance_dispatches, one row per operation              *)
(*   ack        maintenance_agent_barriers: the generation acknowledged    *)
(*   bar,avail  each Agent's barrier, as BarrierContract promises it       *)
(*                                                                         *)
(* An operation here is a mutation of a resource of its own; what its      *)
(* worker does under the resource lock is ServiceWorkflow's subject and is *)
(* reduced to the outcomes it may record.  Processes crash, connections    *)
(* drop, answers are lost and requests are delayed without bound.          *)
(***************************************************************************)
EXTENDS Naturals, FiniteSets

CONSTANTS Ops,           \* operation IDs, each with the worker that created it
          Agents,        \* the configured manager Agents
          Coordinators,  \* slots for maintenance requests being handled
          None,
          MaxGen         \* bound on the maintenance generation

ASSUME ConstantsAssumption ==
    /\ None \notin Agents /\ None \notin Coordinators /\ None \notin Ops
    /\ Agents # {}
    /\ MaxGen \in Nat

VARIABLES maint, lease, adm, op, disp, worker, wire, applied, bar, avail, ack, coord, puts

cpVars == <<adm, op, disp, worker>>
agentVars == <<bar, avail>>
vars == <<maint, lease, cpVars, wire, applied, agentVars, ack, coord, puts>>

-----------------------------------------------------------------------------
(* Operations, their workers and their HTTP requests *)

\* Operation status as far as the fence tells them apart: ACTIVE is RUNNING,
\* VERIFYING or NEEDS_ATTENTION; UNSEEN those with a *_MUTATION_NOT_OBSERVED or
\* ROLLBACK_STILL_IN_PROGRESS code; ENDED is SUCCESS or FAILED by observation,
\* REJECTED and MANUAL are FAILED by a definite rejection and by recovery.
Terminal == {"ENDED", "REJECTED", "MANUAL"}
Statuses == {"none", "ACTIVE", "UNSEEN"} \cup Terminal
Phases == {"none", "PREPARED", "SENDING", "ACKNOWLEDGED", "REJECTED", "UNCERTAIN"}

\* A worker holds its resource lock from admission until it is done or dies.
Alive == {"admitted", "intent", "gated", "checked", "prepared", "sending", "decided"}
WorkerSteps == {"idle", "dead", "done"} \cup Alive
NewWorker == [pc |-> "idle", gen |-> 0, agent |-> None]

\* A mutation request: on its way, in its handler (before and after the Docker
\* update), answered, or over without an answer its worker waits for.
Wires == {"none", "sent", "running", "updated", "ok", "rejected", "over"}
InHandler(o) == wire[o] \in {"running", "updated"}
Unheard(w) == IF w \in {"ok", "rejected"} THEN "over" ELSE w

Unresolved(o) == disp[o].phase \in {"PREPARED", "SENDING", "UNCERTAIN"} /\ ~disp[o].resolved

-----------------------------------------------------------------------------
(* Coordinators: the handlers of the endpoints close, begin, complete, resume *)
(* and resolve; which of them it is shows at the first step they differ in   *)

CoordSteps == {"idle", "start", "blocking", "blockPut", "blockAck", "blockRead", "blockCheck", "commit",
               "opening", "openPut", "openRead", "openCheck", "observed"}
IdleCoord == [pc |-> "idle", gen |-> 0, todo |-> {}, at |-> None, op |-> None, unchanged |-> FALSE]

\* The recovery lock of o is held by a resolver that has observed the resource.
ResourceFree(o) ==
    /\ worker[o].pc \notin Alive
    /\ \A c \in Coordinators : ~(coord[c].pc = "observed" /\ coord[c].op = o)

Messages == [to : Agents, from : Coordinators, gen : 1 .. MaxGen, st : {"OPEN", "BLOCKED"}]

TypeOK ==
    /\ maint \in [st : {"NONE", "OPEN", "CLOSING", "CLOSED", "RECONCILING"}, gen : 0 .. MaxGen]
    /\ lease \in Coordinators \cup {None}
    /\ adm \in [Ops -> {"none", "held", "resolved"}]
    /\ op \in [Ops -> Statuses]
    /\ disp \in [Ops -> [phase : Phases, resolved : BOOLEAN]]
    /\ worker \in [Ops -> [pc : WorkerSteps, gen : 0 .. MaxGen, agent : Agents \cup {None}]]
    /\ wire \in [Ops -> Wires]
    /\ applied \in [Ops -> BOOLEAN]
    /\ bar \in [Agents -> [gen : 0 .. MaxGen, st : {"OPEN", "BLOCKED"}]]
    /\ avail \in [Agents -> BOOLEAN]
    /\ ack \in [Agents -> 0 .. MaxGen]
    /\ coord \in [Coordinators -> [pc : CoordSteps, gen : 0 .. MaxGen, todo : SUBSET Agents,
                                   at : Agents \cup {None}, op : Ops \cup {None}, unchanged : BOOLEAN]]
    /\ puts \subseteq Messages

Init ==
    /\ maint = [st |-> "NONE", gen |-> 0]
    /\ lease = None
    /\ adm = [o \in Ops |-> "none"]
    /\ op = [o \in Ops |-> "none"]
    /\ disp = [o \in Ops |-> [phase |-> "none", resolved |-> FALSE]]
    /\ worker = [o \in Ops |-> NewWorker]
    /\ wire = [o \in Ops |-> "none"]
    /\ applied = [o \in Ops |-> FALSE]
    /\ bar = [a \in Agents |-> [gen |-> 0, st |-> "BLOCKED"]]
    /\ avail = [a \in Agents |-> FALSE]
    /\ ack = [a \in Agents |-> 0]
    /\ coord = [c \in Coordinators |-> IdleCoord]
    /\ puts = {}

-----------------------------------------------------------------------------
(* The mutation worker *)

Go(o, pc) == worker' = [worker EXCEPT ![o].pc = pc]
Status(o, s) == op' = [op EXCEPT ![o] = s]
Phase(o, p) == disp' = [disp EXCEPT ![o].phase = p]
WorkerOnly == UNCHANGED <<maint, lease, wire, applied, agentVars, ack, coord, puts>>

\* withServiceLock / withNodeAndServiceLocks: with the resource lock held, the
\* admission row is inserted only if the state is still OPEN at the generation
\* just read.
Admit(o) ==
    /\ worker[o].pc = "idle"
    /\ maint.st = "OPEN"
    /\ adm' = [adm EXCEPT ![o] = "held"]
    /\ Go(o, "admitted")
    /\ UNCHANGED <<op, disp>> /\ WorkerOnly

\* Planning may fail before there is an intent; otherwise the operation row is
\* created and marked RUNNING in one transaction.
PlanFails(o) ==
    /\ worker[o].pc = "admitted"
    /\ Go(o, "decided")
    /\ UNCHANGED <<adm, op, disp>> /\ WorkerOnly

PersistIntent(o) ==
    /\ worker[o].pc = "admitted"
    /\ Status(o, "ACTIVE")
    /\ Go(o, "intent")
    /\ UNCHANGED <<adm, disp>> /\ WorkerOnly

\* A definite rejection before or by the Agent ends the operation as FAILED.
Reject(o) == Status(o, "REJECTED") /\ Go(o, "decided")

\* registeredAgentClient reads the maintenance state again; not OPEN, or not
\* readable, is a definite rejection.
ReadGeneration(o) ==
    /\ worker[o].pc = "intent"
    /\ \/ /\ maint.st = "OPEN"
          /\ worker' = [worker EXCEPT ![o].pc = "gated", ![o].gen = maint.gen]
          /\ UNCHANGED op
       \/ Reject(o)
    /\ UNCHANGED <<adm, disp>> /\ WorkerOnly

\* What verification and reconciliation may record (ServiceWorkflow tells when).
\* They observe first and write later, so a delayed mutation may take effect
\* after the resource was seen unchanged.
Outcomes == {"ACTIVE", "UNSEEN", "ENDED"}

\* No manager Agent answers: an error that is not a definite rejection, so the
\* worker reconciles by observation.  Nothing was journalled.
NoAgent(o) ==
    /\ worker[o].pc = "gated"
    /\ \E s \in Outcomes : Status(o, s)
    /\ Go(o, "decided")
    /\ UNCHANGED <<adm, disp>> /\ WorkerOnly

\* mutationRequest reads the barrier of the Agent it selected; anything but
\* OPEN at the admitted generation, no answer included, is a rejection.
CheckBarrier(o) ==
    /\ worker[o].pc = "gated"
    /\ \E a \in Agents :
          \/ /\ avail[a] /\ bar[a] = [gen |-> worker[o].gen, st |-> "OPEN"]
             /\ worker' = [worker EXCEPT ![o].pc = "checked", ![o].agent = a]
             /\ UNCHANGED op
          \/ Reject(o)
    /\ UNCHANGED <<adm, disp>> /\ WorkerOnly

\* MaintenanceDispatchJournal.prepare: the row may be written although the
\* write is reported as failed, and then it stays PREPARED.
Prepare(o) ==
    /\ worker[o].pc = "checked"
    /\ \/ Phase(o, "PREPARED") /\ Go(o, "prepared") /\ UNCHANGED op
       \/ Phase(o, "PREPARED") /\ Reject(o)
       \/ UNCHANGED disp /\ Reject(o)
    /\ UNCHANGED adm /\ WorkerOnly

\* beginSend: SENDING is committed, only while OPEN at the same generation,
\* before a byte is sent.
BeginSend(o) ==
    /\ worker[o].pc = "prepared"
    /\ maint = [st |-> "OPEN", gen |-> worker[o].gen]
    /\ Phase(o, "SENDING")
    /\ wire' = [wire EXCEPT ![o] = "sent"]
    /\ Go(o, "sending")
    /\ UNCHANGED <<maint, lease, adm, op, applied, agentVars, ack, coord, puts>>

\* beginSend fails: the row is turned to REJECTED, or stays as it is when that
\* write fails too, or is SENDING after all when only the answer was lost.
BeginSendFails(o) ==
    /\ worker[o].pc = "prepared"
    /\ \/ Phase(o, "REJECTED")
       \/ UNCHANGED disp
       \/ maint = [st |-> "OPEN", gen |-> worker[o].gen] /\ Phase(o, "SENDING")
    /\ Reject(o)
    /\ UNCHANGED adm /\ WorkerOnly

\* The Agent's answer; each write of the final phase may fail and leave SENDING.
Answered(o) ==
    /\ worker[o].pc = "sending"
    /\ \/ /\ wire[o] = "ok"
          /\ Phase(o, "ACKNOWLEDGED") \/ UNCHANGED disp
          /\ \E s \in Outcomes : Status(o, s)
          /\ Go(o, "decided")
       \/ /\ wire[o] = "rejected"
          /\ Phase(o, "REJECTED") \/ UNCHANGED disp
          /\ Reject(o)
    /\ wire' = [wire EXCEPT ![o] = "over"]
    /\ UNCHANGED <<maint, lease, adm, applied, agentVars, ack, coord, puts>>

\* Mutant: a timeout is journalled as a rejection.
NoAnswerRejected(o) ==
    /\ worker[o].pc = "sending"
    /\ Phase(o, "REJECTED")
    /\ \E s \in Outcomes : Status(o, s)
    /\ Go(o, "decided")
    /\ wire' = [wire EXCEPT ![o] = Unheard(@)]
    /\ UNCHANGED <<maint, lease, adm, applied, agentVars, ack, coord, puts>>

\* A timeout or a lost connection, whatever the request is still doing.
NoAnswer(o) ==
    /\ worker[o].pc = "sending"
    /\ Phase(o, "UNCERTAIN") \/ UNCHANGED disp
    /\ \E s \in Outcomes : Status(o, s)
    /\ Go(o, "decided")
    /\ wire' = [wire EXCEPT ![o] = Unheard(@)]
    /\ UNCHANGED <<maint, lease, adm, applied, agentVars, ack, coord, puts>>

\* releaseAdmission; a failed DELETE leaves the row as evidence.
Release(o) ==
    /\ worker[o].pc = "decided"
    /\ adm' \in {adm, [adm EXCEPT ![o] = "none"]}
    /\ Go(o, "done")
    /\ UNCHANGED <<op, disp>> /\ WorkerOnly

\* The process dies, or the connection that carries lock and writes is lost.
WorkerDies(o) ==
    /\ worker[o].pc \in Alive
    /\ Go(o, "dead")
    /\ wire' = [wire EXCEPT ![o] = Unheard(@)]
    /\ UNCHANGED <<maint, lease, adm, op, disp, applied, agentVars, ack, coord, puts>>

\* Reconciliation of an operation nobody works on, under the recovery lock.
Reconcile(o) ==
    /\ ResourceFree(o)
    /\ op[o] \notin Terminal \cup {"none"}
    /\ \E s \in Outcomes : Status(o, s)
    /\ UNCHANGED <<adm, disp, worker>> /\ WorkerOnly

-----------------------------------------------------------------------------
(* The manager Agents *)

AgentOnly == UNCHANGED <<maint, lease, cpVars, ack, coord, puts>>
Wire(o, w) == wire' = [wire EXCEPT ![o] = w]
Answer(o, w) == Wire(o, IF worker[o].pc = "sending" THEN w ELSE "over")

\* Mutant: the guard asks for OPEN, not for the generation.
ArriveWhenOpen(o) ==
    /\ wire[o] = "sent"
    /\ LET a == worker[o].agent IN
          IF avail[a] /\ bar[a].st = "OPEN" THEN Wire(o, "running")
          ELSE Answer(o, "rejected") \/ Wire(o, "over")
    /\ UNCHANGED <<applied, agentVars>> /\ AgentOnly

\* The guard of the Agent the request was sent to.
Arrive(o) ==
    /\ wire[o] = "sent"
    /\ LET a == worker[o].agent IN
          \/ /\ avail[a] /\ bar[a] = [gen |-> worker[o].gen, st |-> "OPEN"]
             /\ Wire(o, "running")
          \/ /\ ~(avail[a] /\ bar[a] = [gen |-> worker[o].gen, st |-> "OPEN"])
             /\ Answer(o, "rejected") \/ Wire(o, "over")
    /\ UNCHANGED <<applied, agentVars>> /\ AgentOnly

\* The handler's Docker update.
Update(o) ==
    /\ wire[o] = "running"
    /\ applied' = [applied EXCEPT ![o] = TRUE]
    /\ Wire(o, "updated")
    /\ UNCHANGED agentVars /\ AgentOnly

\* The handler returns: a precondition or Docker conflict before the update, an
\* accepted update, or a failure that does not tell (502) on either side of it.
HandlerReturns(o) ==
    /\ \/ wire[o] = "running" /\ \E w \in {"rejected", "over"} : Answer(o, w)
       \/ wire[o] = "updated" /\ \E w \in {"ok", "over"} : Answer(o, w)
    /\ UNCHANGED <<applied, agentVars>> /\ AgentOnly

AgentDown(a) ==
    /\ avail[a]
    /\ avail' = [avail EXCEPT ![a] = FALSE]
    /\ wire' = [o \in Ops |-> IF InHandler(o) /\ worker[o].agent = a THEN "over" ELSE wire[o]]
    /\ UNCHANGED <<applied, bar>> /\ AgentOnly

AgentUp(a) ==
    /\ ~avail[a]
    /\ avail' = [avail EXCEPT ![a] = TRUE]
    /\ UNCHANGED <<bar, wire, applied>> /\ AgentOnly

-----------------------------------------------------------------------------
(* Maintenance endpoints *)

CoordOnly == UNCHANGED <<cpVars, wire, applied, agentVars>>
Step(c, pc) == coord' = [coord EXCEPT ![c].pc = pc]
OwnsLease(c) == lease = c

\* initializeOpen: only where there is no state yet.
Initialize ==
    /\ maint.st = "NONE" /\ MaxGen >= 1
    /\ maint' = [st |-> "OPEN", gen |-> 1]
    /\ UNCHANGED <<lease, ack, coord, puts>> /\ CoordOnly

\* requestClosing needs no lease.
RequestClosing ==
    /\ maint.st = "OPEN" /\ maint.gen < MaxGen
    /\ maint' = [st |-> "CLOSING", gen |-> maint.gen + 1]
    /\ UNCHANGED <<lease, ack, coord, puts>> /\ CoordOnly

\* Every other endpoint first acquires the lease.  gen = 0 stands for the
\* generation the operator names, which the first read of the state must find.
AcquireLease(c) ==
    /\ coord[c].pc = "idle"
    /\ lease = None
    /\ maint.gen > 0
    /\ lease' = c
    /\ coord' = [coord EXCEPT ![c] = [IdleCoord EXCEPT !.pc = "start"]]
    /\ UNCHANGED <<maint, ack, puts>> /\ CoordOnly

LeaseExpires ==
    /\ lease # None
    /\ lease' = None
    /\ UNCHANGED <<maint, ack, coord, puts>> /\ CoordOnly

\* The end of a request: done, a failed check, an error, a timeout or a crash.
\* The lease is released in the finally block; a crash leaves it to expire,
\* which only keeps the next request waiting.  A PUT already sent stays on its
\* way.
End(c) ==
    /\ coord' = [coord EXCEPT ![c] = IdleCoord]
    /\ lease' = IF lease = c THEN None ELSE lease

GiveUp(c) ==
    /\ coord[c].pc # "idle"
    /\ End(c)
    /\ UNCHANGED <<maint, ack, puts>> /\ CoordOnly

\* Mutant: the managers are not asked to block.
BlockNone(c) ==
    /\ coord[c].pc = "start" /\ coord[c].gen = 0
    /\ maint.st \in {"CLOSING", "RECONCILING"}
    /\ coord' = [coord EXCEPT ![c].pc = "commit", ![c].gen = maint.gen]
    /\ UNCHANGED <<maint, lease, ack, puts>> /\ CoordOnly

\* blockAll: read the state, then PUT BLOCKED and record the acknowledgement
\* manager by manager.
BlockAll(c) ==
    /\ coord[c].pc = "start" /\ coord[c].gen = 0
    /\ maint.st \in {"CLOSING", "RECONCILING"}
    /\ coord' = [coord EXCEPT ![c].pc = "blocking", ![c].todo = Agents, ![c].gen = maint.gen]
    /\ UNCHANGED <<maint, lease, ack, puts>> /\ CoordOnly

SendPut(c) ==
    /\ \E a \in coord[c].todo, s \in {"BLOCKED", "OPEN"} :
          /\ coord[c].pc = IF s = "BLOCKED" THEN "blocking" ELSE "opening"
          /\ puts' = puts \cup {[to |-> a, from |-> c, gen |-> coord[c].gen, st |-> s]}
          /\ coord' = [coord EXCEPT ![c].pc = IF s = "BLOCKED" THEN "blockPut" ELSE "openPut", ![c].at = a]
    /\ UNCHANGED <<maint, lease, ack>> /\ CoordOnly

\* The Agent takes the PUT up once no handler runs; a coordinator that still
\* waits for it goes on.  Messages that the Agent would refuse from now on are
\* dropped here, and a message may stay undelivered for ever.
Drained(a) == \A o \in Ops : ~(InHandler(o) /\ worker[o].agent = a)
Accepts(a, m) == m.gen > bar[a].gen \/ bar[a] = [gen |-> m.gen, st |-> m.st]

\* Mutant: the Agent takes up any position it is sent.
DeliverAnyPut(m) ==
    /\ m \in puts
    /\ puts' = puts \ {m}
    /\ avail[m.to] /\ Drained(m.to)
    /\ bar' = [bar EXCEPT ![m.to] = [gen |-> m.gen, st |-> m.st]]
    /\ LET c == m.from IN
          coord' = IF m.st = "BLOCKED" /\ coord[c].pc = "blockPut" /\ coord[c].gen = m.gen /\ coord[c].at = m.to
                   THEN [coord EXCEPT ![c].pc = "blockAck"] ELSE coord
    /\ UNCHANGED <<maint, lease, cpVars, wire, applied, avail, ack>>

DeliverPut(m) ==
    /\ m \in puts
    /\ puts' = {n \in puts \ {m} : n.to = m.to => n.gen > m.gen \/ (n.gen = m.gen /\ n.st = m.st)}
    /\ avail[m.to] /\ Drained(m.to) /\ Accepts(m.to, m)
    /\ bar' = [bar EXCEPT ![m.to] = [gen |-> m.gen, st |-> m.st]]
    /\ LET c == m.from
           waits(pc) == coord[c].pc = pc /\ coord[c].gen = m.gen /\ coord[c].at = m.to
       IN  coord' = IF m.st = "BLOCKED" /\ waits("blockPut") THEN [coord EXCEPT ![c].pc = "blockAck"]
                    ELSE IF m.st = "OPEN" /\ waits("openPut")
                    THEN [coord EXCEPT ![c].todo = IF @ = {m.to} THEN Agents ELSE @ \ {m.to},
                                       ![c].pc = IF coord[c].todo = {m.to} THEN "openRead" ELSE "opening"]
                    ELSE coord
    /\ UNCHANGED <<maint, lease, cpVars, wire, applied, avail, ack>>

RecordAck(c) ==
    /\ coord[c].pc = "blockAck"
    /\ ack' = [ack EXCEPT ![coord[c].at] = coord[c].gen]
    /\ LET rest == coord[c].todo \ {coord[c].at}
       IN  coord' = [coord EXCEPT ![c].todo = IF rest = {} THEN Agents ELSE rest,
                                  ![c].pc = IF rest = {} THEN "blockRead" ELSE "blocking"]
    /\ UNCHANGED <<maint, lease, puts>> /\ CoordOnly

\* inspectManagerBarrier of every manager, after the last acknowledgement.
ReadBack(c) ==
    /\ \E a \in coord[c].todo, s \in {"BLOCKED", "OPEN"} :
          /\ coord[c].pc = IF s = "BLOCKED" THEN "blockRead" ELSE "openRead"
          /\ avail[a] /\ bar[a] = [gen |-> coord[c].gen, st |-> s]
          /\ coord' = [coord EXCEPT ![c].todo = @ \ {a},
                          ![c].pc = IF coord[c].todo # {a} THEN @
                                    ELSE IF s = "BLOCKED" THEN "blockCheck" ELSE "openCheck"]
    /\ UNCHANGED <<maint, lease, ack, puts>> /\ CoordOnly

\* The maintenance record must be unchanged and every acknowledgement row be of
\* this generation.
AllAcknowledged(g) == \A a \in Agents : ack[a] = g

BlockAllDone(c) ==
    /\ coord[c].pc = "blockCheck"
    /\ maint.st \in {"CLOSING", "RECONCILING"} /\ maint.gen = coord[c].gen
    /\ AllAcknowledged(coord[c].gen)
    /\ Step(c, "commit")
    /\ UNCHANGED <<maint, lease, ack, puts>> /\ CoordOnly

\* Mutant: unfinished operations are not counted.
NoAdmissionOrDispatch == \A o \in Ops : adm[o] # "held" /\ ~Unresolved(o)

\* The transaction's counts: no admission, operation or dispatch is unresolved.
NothingUnresolved ==
    \A o \in Ops : adm[o] # "held" /\ op[o] \in Terminal \cup {"none"} /\ ~Unresolved(o)

CommitClosed(c) ==
    /\ coord[c].pc = "commit"
    /\ OwnsLease(c)
    /\ maint = [st |-> "CLOSING", gen |-> coord[c].gen] /\ maint.gen < MaxGen
    /\ NothingUnresolved
    /\ AllAcknowledged(maint.gen)
    /\ maint' = [st |-> "CLOSED", gen |-> maint.gen + 1]
    /\ End(c)
    /\ UNCHANGED <<ack, puts>> /\ CoordOnly

CommitReconciling(c) ==
    /\ coord[c].pc = "start" /\ coord[c].gen = 0
    /\ OwnsLease(c)
    /\ maint.st = "CLOSED" /\ maint.gen < MaxGen
    /\ maint' = [st |-> "RECONCILING", gen |-> maint.gen + 1]
    /\ End(c)
    /\ UNCHANGED <<ack, puts>> /\ CoordOnly

CommitOpen(c) ==
    /\ coord[c].pc = "commit"
    /\ OwnsLease(c)
    /\ maint = [st |-> "RECONCILING", gen |-> coord[c].gen] /\ maint.gen < MaxGen
    /\ NothingUnresolved
    /\ AllAcknowledged(maint.gen)
    /\ maint' = [st |-> "OPEN", gen |-> maint.gen + 1]
    /\ coord' = [coord EXCEPT ![c].pc = "start", ![c].gen = maint.gen + 1]
    /\ UNCHANGED <<lease, ack, puts>> /\ CoordOnly

\* openAll, of resume-managers and after CommitOpen.
OpenAll(c) ==
    /\ coord[c].pc = "start"
    /\ maint.st = "OPEN" /\ coord[c].gen \in {0, maint.gen}
    /\ coord' = [coord EXCEPT ![c].pc = "opening", ![c].todo = Agents, ![c].gen = maint.gen]
    /\ UNCHANGED <<maint, lease, ack, puts>> /\ CoordOnly

OpenAllDone(c) ==
    /\ coord[c].pc = "openCheck"
    /\ maint = [st |-> "OPEN", gen |-> coord[c].gen]
    /\ End(c)
    /\ UNCHANGED <<maint, ack, puts>> /\ CoordOnly

-----------------------------------------------------------------------------
(* Evidence recovery, after blockAll *)

\* resolve of DISPATCH evidence: with the resource's recovery lock, the Agent
\* is asked for the resource's version and fingerprint.
ObserveResource(c, o) ==
    /\ coord[c].pc = "commit"
    /\ disp[o].phase # "none" /\ ~disp[o].resolved
    /\ ResourceFree(o)
    /\ coord' = [coord EXCEPT ![c].pc = "observed", ![c].op = o, ![c].unchanged = ~applied[o]]
    /\ UNCHANGED <<maint, lease, ack, puts>> /\ CoordOnly

\* resolveWithinTransaction: an operation recorded as not observed is closed as
\* FAILED if the resource is unchanged; any other must already be terminal.
ResolveDispatch(c) ==
    LET o == coord[c].op IN
    /\ coord[c].pc = "observed"
    /\ OwnsLease(c)
    /\ maint.st \in {"CLOSING", "RECONCILING"} /\ maint.gen = coord[c].gen
    /\ \/ op[o] = "UNSEEN" /\ coord[c].unchanged /\ Status(o, "MANUAL")
       \/ op[o] \in Terminal /\ UNCHANGED op
    /\ disp' = [disp EXCEPT ![o].resolved = TRUE]
    /\ End(c)
    /\ UNCHANGED <<maint, adm, worker, wire, applied, agentVars, ack, puts>>

\* ADMISSION evidence is resolved on the operator's word.
ResolveAdmission(c, o) ==
    /\ coord[c].pc = "commit"
    /\ OwnsLease(c)
    /\ maint.st \in {"CLOSING", "RECONCILING"} /\ maint.gen = coord[c].gen
    /\ adm[o] = "held"
    /\ adm' = [adm EXCEPT ![o] = "resolved"]
    /\ End(c)
    /\ UNCHANGED <<maint, op, disp, worker, wire, applied, agentVars, ack, puts>>

-----------------------------------------------------------------------------
WorkerNext(o) ==
    \/ Admit(o) \/ PlanFails(o) \/ PersistIntent(o) \/ ReadGeneration(o) \/ NoAgent(o) \/ CheckBarrier(o)
    \/ Prepare(o) \/ BeginSend(o) \/ BeginSendFails(o) \/ Answered(o) \/ NoAnswer(o)
    \/ Release(o) \/ WorkerDies(o) \/ Reconcile(o)

RequestNext(o) == Arrive(o) \/ Update(o) \/ HandlerReturns(o)

CoordNext(c) ==
    \/ AcquireLease(c) \/ GiveUp(c)
    \/ BlockAll(c) \/ SendPut(c) \/ RecordAck(c) \/ ReadBack(c) \/ BlockAllDone(c)
    \/ CommitClosed(c) \/ CommitReconciling(c) \/ CommitOpen(c) \/ OpenAll(c) \/ OpenAllDone(c)
    \/ \E o \in Ops : ObserveResource(c, o) \/ ResolveAdmission(c, o)
    \/ ResolveDispatch(c)

Next ==
    \/ \E o \in Ops : WorkerNext(o) \/ RequestNext(o)
    \/ \E a \in Agents : AgentDown(a) \/ AgentUp(a)
    \/ Initialize \/ RequestClosing \/ LeaseExpires
    \/ \E c \in Coordinators : CoordNext(c)
    \/ \E m \in puts : DeliverPut(m)

Spec == Init /\ [][Next]_vars

-----------------------------------------------------------------------------
\* A mutation handler past the guard was admitted at generation g, and the
\* cluster is still OPEN at g or only CLOSING it: once CLOSED is committed,
\* however late the request, no Agent hands it to Docker, in this cycle or
\* after a later reopening (commitClosed, guard).
Fenced ==
    \A o \in Ops : InHandler(o) =>
        \/ maint = [st |-> "OPEN", gen |-> worker[o].gen]
        \/ maint = [st |-> "CLOSING", gen |-> worker[o].gen + 1]

\* No Agent is OPEN while the cluster is CLOSED or RECONCILING, whatever PUTs
\* are delayed and whichever Agents restart (commitClosed, openAll).
ClosedBlocksAgents ==
    maint.st \in {"CLOSED", "RECONCILING"} => \A a \in Agents : bar[a].st = "BLOCKED"

\* An operation recorded as FAILED because its mutation was rejected or was not
\* observed never took effect, before or after (isDeterministicAgentRejection,
\* resolveWithinTransaction).
FailedMeansNotApplied ==
    \A o \in Ops : op[o] \in {"REJECTED", "MANUAL"} => ~applied[o]

\* As long as an Agent could still let a mutation request through, or runs it,
\* its dispatch row counts as unresolved, so it holds up CLOSED and OPEN
\* (MaintenanceDispatchJournal.execute).
LiveRequestHasEvidence ==
    \A o \in Ops :
        /\ wire[o] \in {"sent", "running", "updated"}
        /\ bar[worker[o].agent] = [gen |-> worker[o].gen, st |-> "OPEN"]
        => Unresolved(o)

\* An operation recorded as not observed, with no worker left, can be handed to
\* evidence recovery, which finds operations only through their dispatch row
\* (MaintenanceEvidenceRecovery.resolve).
UnseenIsRecoverable ==
    \A o \in Ops : op[o] = "UNSEEN" /\ worker[o].pc \in {"dead", "done"} => disp[o].phase # "none"

\* While the cluster is CLOSED or RECONCILING no operation is unfinished, except
\* one whose admission an administrator declared resolved while its worker was
\* still alive (commitClosed's counts; ResolveAdmission does not ask the owner).
ClosedHasNoOpenWork ==
    maint.st \in {"CLOSED", "RECONCILING"} =>
        \A o \in Ops : op[o] \in Terminal \cup {"none"} \/ adm[o] = "resolved"
-----------------------------------------------------------------------------
(* The Agents and their contract *)

\* The requests in a handler of Agent a.
Serving(a) == {o \in Ops : InHandler(o) /\ worker[o].agent = a}

\* One Agent as BarrierContract sees it.  A barrier belongs to no Swarm until
\* its first position, and to this one from then on.
Agent(a) == INSTANCE BarrierContract WITH
    Requests <- Ops, Clusters <- {"swarm"}, NoCluster <- "none",
    committed <- [cluster |-> IF bar[a].gen = 0 THEN "none" ELSE "swarm", gen |-> bar[a].gen, st |-> bar[a].st],
    available <- avail[a],
    running <- Serving(a)

\* Every Agent keeps the contract that AgentBarrier keeps with its disk, whatever
\* workers, coordinators, delayed PUTs and restarts do around it: it moves only
\* forward, only when drained, and serves only while OPEN (guard,
\* setMaintenanceBarrier).
AgentsKeepContract ==
    /\ \A a \in Agents : Agent(a)!ContractInit
    /\ [][\A a \in Agents : Agent(a)!ContractNext \/ UNCHANGED Agent(a)!contractVars]_vars
=============================================================================
