# A TLA+ verification of Docklane

Docklane runs Docker Swarm clusters through a Control Plane (NestJS, MySQL;
`src/apps/api`) and an Agent on each Swarm manager (Go; `src/agent`). This
project models the parts in which processes, machines, connections and
operators interfere with each other, checks them with TLC, and proves with TLAPS
every safety property that a passing run checks.

Paths below are relative to the repository; `api/` is `apps/api/src/` and
`agent/` is `agent/internal/`.

## 1. The system

```
 operator ── HTTP ──► Control Plane ── mTLS HTTP ──► Agent ──► Docker Swarm
                        │    (several processes      │  (one per manager,
                        ▼     over time)             ▼   barrier on disk)
                      MySQL                      other writers (docker CLI)
```

Every mutation follows one pattern. Under a named MySQL lock (`GET_LOCK`) of its
resource, the Control Plane plans against an inspected version, writes an
*intent* (an operation row, RUNNING), sends one request, and from then on only
*observes*: the request is never sent again. Verification ends in SUCCESS or
FAILED; whatever remains uncertain is NEEDS_ATTENTION, which keeps other
mutations of the resource out. The Agent passes a request on only if version and
fingerprint are still the planned ones.

A cluster under *maintenance* goes OPEN → CLOSING → CLOSED → RECONCILING → OPEN,
one generation per step. CLOSED must mean that no mutation can reach Docker: all
Agents have durably blocked, and no admission, operation or dispatch is
unresolved.

### Inventory

| Part | State | Operations | What is hard about it |
|---|---|---|---|
| Agent barrier, `agent/httpserver/maintenance_barrier.go` | position in memory, state file, `.pending` marker, RWMutex | guard, PUT, boot | crash at any step of the durable write, failed write, draining, repeated and delayed PUTs |
| Maintenance coordination, `api/clusters/maintenance-*`, `cluster-maintenance.*` | maintenance row, lease, acknowledgement rows | initialize, request closing, confirm closed, begin/complete reconciliation, resume | lease lost half way, partial blockAll and openAll, stale coordinators |
| Admission and journal, `registered-operation-lock.ts`, `maintenance-dispatch-journal.ts` | admission rows, dispatch phases | admit, prepare, begin send, execute, release | crash or failed write between any two; answer lost, request delayed |
| Evidence recovery, `maintenance-evidence-*` | resolutions | resolve DISPATCH or ADMISSION | observation that is stale when it is used |
| Deployments, `api/deployments` | deployments, operations | deploy, historical redeploy, rollback, reconcile tick | two tables, Swarm's own rollback, uncertain outcomes, checks before the lock |
| Scale and restart, `api/operations/mutation.service.ts` | operations | scale, restart, start-up recovery | as above, one inspection decides |
| Node operations, `api/operations/node-mutation.service.ts` | node_operations | drain, activate, labels, start-up recovery | affected services change while locks are taken |
| Locks, `api/operations/operation-lock.ts` | GET_LOCK names | several locks in order | deadlock, lost connection |
| Agent mutators, `agent/dockerengine` | none | plan, check, update | Docker guards one object only |
| Agent client, `api/agent/http-agent.client.ts` | active manager, cooldowns, reference Swarm | failover of reads, selection and one send of mutations | an endpoint that fails, returns or joins another Swarm between two steps |
| Bootstrap, `api/bootstrap` | tokens, claims, audit events | issue, claim, complete | replays, lost answers, expiry between steps, a node that changes |
| Registration and binding, `api/clusters/cluster-registration.*`, `cluster-binding.*` | one row per cluster | register, admit | two processes at once, settings that differ |
| Capacity and placement, `agent/dockerengine/capacity.go`, `placement.go` | none | check | integer widths, three reads of a moving Swarm |
| Migrations, `api/db` | `schema_migrations`, the schema | run at start | crash between DDL and row, builds of different age |
| Releases, registry, auth, audit, web | see `PROJECT.json` | | |

What correctness means for each part is stated by the properties in section 3.

## 2. The modules

| Module | Models | Lines of the code it reads |
|---|---|---|
| `BarrierContract` | what an Agent's barrier promises: positions only advance, never below what was acknowledged, a running handler belongs to the current OPEN position | the outside of `maintenance_barrier.go` |
| `AgentBarrier` | the barrier: RWMutex, PUT, the five steps of `persist`, boot, process and machine crashes | `maintenance_barrier.go` |
| `AgentBarrierProofs` | its theorems | |
| `MaintenanceFence`, `MaintenanceFenceProofs` | maintenance state, lease, coordinators, workers with admission and journal, Agents (each keeps `BarrierContract`), evidence recovery; its theorems | `api/clusters`, `http-agent.client.ts` |
| `OperationContract` | what every operation promises: its row exists before its request, one send, one end, and no end while the request could still take effect | the common part of the three services under `api/deployments` and `api/operations` |
| `ServiceWorkflow`, `ServiceWorkflowProofs` | the four service operations on one service; its theorems | `deployment.service.ts`, `mutation.service.ts`, repositories, `mutator.go`, `planner.go` |
| `Bootstrap`, `BootstrapProofs` | registration, binding policy and the life of a bootstrap token, with its LABELS operation reduced; its theorems | `bootstrap.*.ts`, `cluster-registration.*.ts`, `cluster-binding.*.ts` |
| `AgentClient`, `AgentClientProofs` | candidates, failover, reference Swarm, the one send and the Agent's two checks of the Swarm; its theorems | `http-agent.client.ts`, `cluster_precondition.go`, `mutation_cluster.go` |
| `Migrations`, `MigrationsProofs` | the migrations at start-up; its theorems | `migrations.ts`, `*.migration.ts`, `database.ts` |
| `Capacity`, `CapacityProofs` | the Agent's capacity and placement verdicts; its theorems | `capacity.go`, `placement.go`, `capacity.service.ts` |
| `NodeWorkflow`, `NodeWorkflowProofs` | the three node operations, the named locks and the service operations they exclude; their theorems | `node-mutation.service.ts`, `operation-lock.ts`, `node_mutator.go`, `node_labels.go` |

`MC*` modules only add symmetry sets and, for the migrations, a small catalog. Every definition that models code is
in the `map` of `PROJECT.json` with its lines. Definitions whose comment starts
with *Mutant* are plausible mistakes in the definition after them; they are not
part of any specification, and `PROJECT.json` says which property catches each.

### State and steps

**AgentBarrier.** `state`, `invalid` are the fields of the Go struct. The disk is
what the process sees (`file`, `marker`) and what the last directory sync made
durable (`syncedFile`, `syncedMarker`); a machine crash keeps either, entry by
entry. `committed` and `acked` are history variables. A request past the guard
is an entry of `serving`, since it holds the read lock until its handler
returns; a PUT is a record in `put` with the step it is at.

**MaintenanceFence.** A worker runs admission → intent → generation read →
barrier check → prepare → send → answer → release, and may die between any two.
A request is a wire state of its own, so it outlives its worker and may arrive at
any later time. Every database write that the code allows to fail has both
outcomes, including the one in which only the acknowledgement is lost. A
coordinator runs lease → blockAll (PUT and acknowledgement row per Agent, then
read back, then the final check) → commit, or openAll; PUTs are messages that
may be delayed past the coordinator's own end. The lease may expire at any time.
What the worker finally records is a choice here; `ServiceWorkflow` has the
detail.

**ServiceWorkflow.** All database writes of a callback go through the connection
that holds the lock, so there is one session, and losing it loses lock and
writes together (`SessionLost`), while a request about to be sent may still go
out. One round of each observation loop is one step, and the end of the window is
a step that is possible at any time: no clock is needed. Tasks are not kept; an
inspection may find them in any condition. `SwarmStep` and `ExternalUpdate` are
Docker and other writers.

**NodeWorkflow.** Sessions take named locks one by one in the order of their
names, which are ranks here. The Agent's check of the affected services and
Docker's `NodeUpdate` are two steps, as tasks may move in between. The inspections of a
verification end with SUCCESS only when one classifies the node so; they may also
time out, with the node where it should be, as a label change waits for its services
too (`InspectVerify`). Service operations are reduced to lock, check, intent and end.

**Bootstrap.** Every transaction on a token locks its row first, so each is one
step; between the steps of a request (admission, inspection, binding, labels,
second inspection, audit) anything may happen, a crash included (`Fail`: what was
written stays, the caller asks again). A request carries the settings of the
process that handles it, so that processes in compat and enforce mode mix. The
LABELS operation, whose ID is the token's, is an intent, an update and an end;
how it gets there is `NodeWorkflow`. `told`, `given`, `done` and `fit` are
history.

**AgentClient.** One process. A call is at an endpoint with the candidates still
left; identity and request are two steps, and between them the endpoint may fail
or `Rejoin` another Swarm. Check and assignment of `referenceClusterId` are one
step, as nothing is awaited between them. A mutation's request has a state of its
own and outlives the call; once it is applied or refused the caller may make another.
Time appears as `CooldownEnds` and as the timeouts in
`AwaitMutation`.

**Migrations.** One statement is one step, or two when the code looks at
`information_schema` first. `schema` is what took effect, `rows` what
`schema_migrations` says. A build is the number of migrations it knows and the
one, if any, that was edited. A pooled session survives a failed `RELEASE_LOCK`
(`ReleaseFails`) and with it the lock.

**Capacity.** A check reads service, nodes and tasks one after the other into its
`view`, from which the verdict is computed with the names of the Go functions.
Between the reads the service is updated, nodes come, go and change labels, and tasks
are placed, start, are told to leave and end. A capacity check whose caller saw another
version of the service is refused (`ReadService`); a check of placement names no
version. `MaxInt` and `MaxUint` are int64 and uint64 scaled down, so that saturation
happens. A task keeps the reservation of the specification it was made from.

The verdicts are compared with two definitions that know nothing of the algorithms:
`Room` quantifies over assignments of replicas to nodes in unbounded integers, and
`Converged` asks that the tasks that occupy a node are as many as the replicas and all
where they may be. `past` is history: which of these facts was true at some moment
since the service was read. `check.moved` tells what changed when, and with it each
property says two things of a verdict: if what was read is still so at the last read
(`Current`), it is true then; if the three reads agree on some moment (`Together`), it
was true at a moment of the check. Nothing can be said of reads that agree on none.

### How they fit together

`BarrierContract` is where the two models of an Agent meet: `AgentBarrier`, with its
disk, implements it, and so does each of the many Agents in `MaintenanceFence`
(`AgentsKeepContract`). That the latter do everything the contract allows and the
former does is by inspection: a failed or torn write is, from outside, a PUT that was
or was not delivered, followed by a restart. `OperationContract` is the pattern of
section 1 for one operation; the operations of `ServiceWorkflow` and of `NodeWorkflow`
implement it, each with its own refinement mapping (`OperationsKeepContract`), and
the one difference between them is visible in its constant: `MayDisown` is true of
deployments only, which reconciliation may fail with the request under way
(`service_uncertain`). `Bootstrap` uses of `NodeWorkflow`
that an ended operation's request changes nothing any more (`EndedIsOver`), and
`NodeWorkflow` relies on a placement verdict that `Capacity` examines
(`ConvergedHappened`). `AgentClient` is the selection and the send that
`MaintenanceFence` and the workflows take as one step. `ServiceWorkflow` and
`NodeWorkflow` use one fact of `MaintenanceFence`: at the time of a manual resolution no request of
the operation is under way any more (`Fenced`, `FailedMeansNotApplied`), which
is the guard on `wire` in their `ManualResolve`.

## 3. What is checked

Passing runs:

| Run | Properties | What it shows |
|---|---|---|
| `agent_barrier` | `RunningOnlyWhileOpen`, `AckSurvives`, `ConfirmedOnly`, `ImplementsContract`, `PutGetsLock`, `IInv` | An acknowledged BLOCKED means drained and durable, at every crash point, and mutations cannot starve a PUT. |
| `fence_coordinators` | `Fenced`, `ClosedBlocksAgents`, `FailedMeansNotApplied`, `LiveRequestHasEvidence`, `ClosedHasNoOpenWork` | No mutation runs in a CLOSED cluster, not even after a reopening; FAILED by rejection or by recovery means never applied; what may still run is counted; all that with a coordinator that lost its lease. |
| `fence_agents` | `Fenced`, `AgentsKeepContract` | Two Agents, partly blocked or partly open: no mutation runs in a CLOSED cluster, and each Agent implements `BarrierContract`. |
| `service` | `EndedIsOver`, `NeverResent`, `OneUnfinished`, `TablesAgree`, `SuccessStands`, `OperationsKeepContract` | A deployment and two rollbacks of it, or a scale against a restart: an ended operation's late request changes nothing, nothing is sent twice, the two tables agree and SUCCESS is final, although the deployment writers are unguarded; each operation implements `OperationContract`. |
| `node` | `OneWriter`, `NoLockCycle`, `Exclusion`, `OperationsKeepContract` | A drain and an activation of one node, a label change against a service operation, or two nodes that share a service: requests, retries and recoveries keep each other and the service operations out, without deadlock, and each operation implements `OperationContract`. |
| `bootstrap` | `RegistrationStands`, `OneClaimant`, `AuditsFollowRow`, `CompletionAgrees`, `CompletedWasFit` | One claim ID gets credentials, one node is bound, labelled and recorded, each event is written once, and what was confirmed stays registered, through races, replays and crashes. |
| `agent_client` | `SentOnce`, `ReadsOfReference`, `UpdatedWhereMeant`, `FailoverServes`, `IInv` | Failover moves reads, never a sent mutation; what is read and updated belongs to the reference Swarm, but for the gaps the code names; and one healthy manager at which mutations do not keep failing is enough in the end. |
| `migrations` | `RecordedMeansApplied`, `ServingFits`, `LookIsFresh`, `StartEnds` | Crashes and rivals leave no row without its migration, no build serves a schema that is not its own, and every start ends. |
| `capacity` | `BlockedHasNoRoom`, `SufficientHasRoom`, `ConvergedHappened` | The verdicts are right for every small Swarm, also at the width of the integers, and with the service, the nodes and the tasks changing between the reads as far as the reads agree on a moment. |

Runs that find a disagreement between the code and what the repository says of
it (`findings` in `PROJECT.json` has the quotations):

* `fence_unseen`: an operation whose worker stopped before the journal's first
  row, or found no Agent, ends as `*_NOT_OBSERVED` without a dispatch row.
  Evidence recovery starts from that row, so it cannot close the operation, and
  the operation blocks CLOSED.
* `service_uncertain`: reconciliation takes `rollback_completed` or `paused`,
  left by an earlier update, for the failure of a deployment whose request is
  still under way; `EndedIsOver` has this one exception.
* `service_rollback_race`: the check that a deployment is FAILED is made before
  the lock; a second rollback request reopens a ROLLED_BACK deployment.

Every component's module defines `TypeOK`. In `AgentBarrier` and `AgentClient` it is
part of `IInv`, which is an invariant of the run, and in `Migrations` of the `IInv`
that is proved; for `NodeWorkflow`, `MaintenanceFence` and `ServiceWorkflow` it is
the theorem `TypeCorrect`, for `Capacity` `CapacityTypes`; in `Bootstrap` it documents
the state.

### Bounds

*Fence.* Generations reach 5: one full cycle is four transitions, so the requests
and PUTs of the first OPEN meet the next one and the CLOSING after it. One
operation is enough, as the fence never relates two (each has its own rows); two
Agents give the partial cases of blockAll and openAll, two coordinators the
overtaken one.

*Agent barrier.* Two requests, two PUTs and two generations in two clusters; the
theorems hold for every bound.

*Mixes.* In `ServiceWorkflow` and `NodeWorkflow` the operations and resources that
meet in a behaviour are one of the sets in `Mixes`, chosen by `Init`, so that one
run covers several constellations without their product. In `service` these are
a deployment with two rollbacks, and a scale with a restart. `MaxVer` 6 leaves room
for the operations' updates, Swarm's steps after them and a foreign writer (one
less for scale and restart, `LastVer`); `MaxForce` bounds the force-update counter.
In `node` they are a drain and an activation of one node with a service on it, a
label change against a service operation, and two nodes that share a service. In
the last one the nodes are `Quiet`: the activations change nothing and are not
sent, so that it is about intents and locks only. Two sessions are any pair of
competitors. `Scheduled` and `Constrained` say which services tasks or placement
may involve. These two runs do not check deadlock: operation IDs and versions
are bounded, so a behaviour ends when they are used up.

*Bootstrap.* One token, two claim IDs, two nodes, a role and the value "away" for
a node that has left, three Swarms of which one is registered under another name
from the start (`Taken`), two cluster names, two sessions, two changes of a node.
Tokens share nothing but the registration, so a second one adds nothing.

*Agent client.* Two endpoints in two Swarms, a read and a mutation, with
`DOCKLANE_EXPECTED_CLUSTER_ID` set or not.

*Migrations.* Two processes and a catalog of three migrations in place of
the eleven, with every kind of statement: repeatable, guarded by a look at
`information_schema`, and the unique index of migration 8, which fails on
duplicates.

*Capacity.* Two nodes with two labels, 3 CPU and 1 memory, two tasks that reserve 2
CPU, of this service or another, targets of 2 and 4 replicas, and integers that end at
3 (signed) and 4 (unsigned), so that two tasks on a node saturate the sum. The service
is one of five, and is updated from any to any: with a reservation of CPU, or of CPU
and memory on one label only, both updated start-first; with a limit per node and no
reservation; with a constraint that is not interpreted; and not replicated. Two
changes of the Swarm (`MaxChanges`) are the fewest with which three reads can agree on
no moment, and it happens: without `Together` as a premise, or with one of its
disjuncts weakened, each of the three properties is violated in this instance.

### Fairness

Three runs assume some.

* `agent_barrier`: handlers return, since the Control Plane's client gives up
  after its timeout and cancels the handler's context; a PUT that holds the lock
  goes on; and the write lock is granted to a waiter that could take it again and
  again (`sync.RWMutex` hands itself to waiting writers).
* `agent_client`: the client's own steps, including the timeouts of `fetch` and of
  the cooldown, happen. Endpoints, callers and restarts have no fairness.
  `FailoverServes` has two premises of its own: one Agent stays reachable in the
  reference Swarm from some time on, and from some time on no mutation fails at it.
  Without the second it is violated, since every mutation that times out puts the
  Agent into a new cooldown, during which reads go to the others only.
* `migrations`: MySQL answers every statement, `GET_LOCK` after at most its 30
  seconds. Nothing makes processes start, crash or stay alive.

## 4. What is proved

`AgentBarrierProofs`, for every set of requests, PUTs and clusters and every
bound on generations, from `ConstantsAssumption` alone:

* `Invariance`: `Spec => []IInv`;
* `TypeCorrect`, `Drained` (`RunningOnlyWhileOpen`), `AcknowledgedIsDurable`
  (`AckSurvives`), `NothingUnconfirmed` (`ConfirmedOnly`);
* `Implementation`: `Spec => ImplementsContract`.

None of the safety properties is inductive. `IInv` adds: the write lock has one
holder, and readers and writer exclude each other (`LockInv`); what holds at each
step of `persist` (`StepInv`), above all that marker and its sync come before the
rename; that the file is the committed one whenever the marker is, or after a
machine crash could be, missing (`DiskInv`); and that acknowledged is at or before
committed (`AckInv`). A machine crash is the step that needs `DiskInv`: it may
combine the new file with the old marker, and only the order of the syncs rules
out that a half-written position is found without its marker. `IInv` is
also an invariant of the `agent_barrier` run. The refinement is proved step by
step: `Guard` and `HandlerReturn` map to `Serve` and `Return`, `RemoveMarker` (the
point where the new position is committed) to `Advance`, boot, failure and crash
to availability, all the rest, `Publish` included, to stuttering.

`MigrationsProofs`, for every set of processes and every catalog that satisfies
`CatalogAssumption` (there are migrations, each with at least one statement of a
known kind):

* `Inductive`: `Spec => []IInv`;
* `RecordedTheorem` (`RecordedMeansApplied`), `ServingTheorem` (`ServingFits`) and
  `FreshTheorem` (`LookIsFresh`).

`IInv` adds `Progress`: only the holder of the migration lock is inside; its
position lies in the catalog; the migrations before it have the rows of its build,
and those from there on have a row exactly if it read one at the start; the
statements before its position took effect. The lock is what keeps the rows it
read true until it writes its own. `IInv` was checked by TLC with the constants of
`migrations.cfg`.

`AgentClientProofs`, for every set of endpoints, Swarms and calls, from
`ClientAssumption`:

* `Inductive`: `Spec => []IInv`;
* `SentOnceTheorem` (`SentOnce`), `ReadsTheorem` (`ReadsOfReference`) and
  `UpdatedTheorem` (`UpdatedWhereMeant`).

`IInv` adds `CallOK`: a mutation that has not come to its send has no request, so
that a send is the first; a read past the identity check is at an endpoint in the
reference Swarm, or that endpoint has moved since. And `ReqOK`: at most one send,
and a request past the Agent's last check is at an endpoint in the Swarm its header
names, or that endpoint has moved since. `moved` is the gap that no check can close.

`NodeWorkflowProofs`, for any number of nodes, services, operations and sessions, from `NodeAssumption`. Lock names are taken in one order,
and that order has a last name: they are digests of a fixed length.

* `Inductive`: `Spec => []IInv`;
* `ExclusionTheorem` (`Exclusion`), `OneWriterTheorem` (`OneWriter`),
  `EndedIsOverTheorem` (`EndedIsOver`), `NoLockCycleTheorem` (`NoLockCycle`) and
  `TypeCorrect`;
* `NodeOperations`: `Spec => OperationsKeepContract`.

`IInv` says, for each session, which locks it holds (`LocksOK`), which operation
or service it works on and that the record is still unfinished (`RolesOK`), that
what it found out under its locks is still so (`ChecksOK`) and that the node it
inspected has the spec it saw, unless its version has moved (`NodeOK`); and for each
operation, that the request of an ended one is over or can no longer take effect
(`OpOK`). The hard step is the intent: a
session that planned holds the locks of its node and of the services it saw, and
the others' `ChecksOK` is disturbed only by a session that holds the same lock.
The argument for `NoLockCycle` is that names are taken in rising order, so the
session that waits for the greatest name waits for one that does not wait. The
theorems cover any number of sessions, where the `node` run has two. `IInv` was
also checked by TLC with the constants of `node.cfg`, but is not a property of
that run.

`MaintenanceFenceProofs`, for any number of operations, Agents and coordinators and
any number of maintenance cycles, from `ConstantsAssumption`:

* `Inductive`: `Spec => []IInv`, and `TypeCorrect`;
* `MutationsFenced` (`Fenced`), `AgentsStayBlocked` (`ClosedBlocksAgents`),
  `FailuresAreReal` (`FailedMeansNotApplied`), `EvidenceCovers`
  (`LiveRequestHasEvidence`) and `ClosedIsQuiet` (`ClosedHasNoOpenWork`);
* `FenceAgentsKeepContract`: `Spec => AgentsKeepContract`.

The argument goes by generations. `Opened` is the generation at which the cluster
was last OPEN, and `WasOpen` holds of the generations at which it ever was. A
barrier never falls behind what it acknowledged, an OPEN barrier or an OPEN PUT on
its way is of a generation that was open, and in CLOSED and RECONCILING every
barrier is past `Opened` (`BarOK`, `PutsOK`): so a delayed PUT can reopen an Agent
at no generation but `Opened`, and while the cluster rests at none. A coordinator past blockAll has every
barrier at its generation or later (`CoordOK`). `Agree` says what a worker, its
admission, its operation, its dispatch row and its request tell of each other;
`RequestOK` that a handler runs only while its Agent is OPEN at the worker's
generation, and that a request whose dispatch was resolved comes too late;
`ObserverOK` that an administrator's observation still holds when it is used;
`Rested` how each operation stands while the cluster rests. The proof nowhere uses
that the lease has one holder: safety comes from the generations and the counts in
`commitClosed`, and a coordinator that lost its lease can do no harm. `IInv` was
checked by TLC with the constants of `fence_coordinators.cfg` and
`fence_agents.cfg` before it was proved.

`ServiceWorkflowProofs`, for any number of operations of each type, any images and
replica counts and any number of changes by others, from the module's assumption:

* `Inductive`: `Spec => []IInv`, and `TypeCorrect`;
* `OneUnfinishedTheorem` (`OneUnfinished`), `EndedIsOverTheorem` (`EndedIsOver`),
  `TablesAgreeTheorem` (`TablesAgree`), `NeverResentTheorem` (`NeverResent`) and
  `SuccessStandsTheorem` (`SuccessStands`); the last two are action properties;
* `ServiceOperations`: `Spec => OperationsKeepContract`.

`IInv` ties the lock holder's plan to the rows (`SessOK`): until the intent nothing
is unfinished, from then on one operation is, and it is the holder's, as planned;
SUCCESS and FAILED are decided only when the request cannot change the service any
more, but for a deployment that failed on Swarm's update state. No plan is of a later version than the service has (`OpOK`), so each change
of the service, by anyone, disarms all requests planned before it: this carries
`EndedIsOver` through steps of Docker and of other writers. A rollback
is asked for only once its deployment's operation has FAILED for good, and an
unfinished rollback is the one its deployment names (`AskOK`, `DepOK`). That is why
a SUCCESS deployment is never written again, although no writer of the table asks
for its status: a writer's own operation is unfinished, or it is a rollback of one
that failed. `IInv` was checked by TLC with the constants of `service.cfg`.

`BootstrapProofs`, for any number of tokens, claim IDs, nodes, Swarms and requests
at a time, from `BootstrapAssumption`:

* `Inductive`: `Spec => []IInv`;
* `RegistrationStandsTheorem` (`RegistrationStands`), `OneClaimantTheorem`
  (`OneClaimant`), `AuditsFollowRowTheorem` (`AuditsFollowRow`),
  `CompletionAgreesTheorem` (`CompletionAgrees`) and the action property
  `CompletedWasFitTheorem` (`CompletedWasFit`).

`IInv` says of each request what it found out and what is still so (`RecOK`): who
admitted it, that its token has a row, that past `bindCompletionNode` the row names
its node, that at `verify` its LABELS operation is SUCCESS and at `record` its node
has been fit. A token being issued is in the hands of one request (`Alone`). That
`RecOK` survives the steps of all others is one lemma: rows only advance
(`Advance`: a registration stays, an issued row keeps its label request, a bound
node stays bound, SUCCESS stays). `IInv` was checked by TLC with the constants of
`bootstrap.cfg`. The bound on versions in `TypeOK` rests on a sum over the nodes
(`Spare`), and is not a theorem; `IInv` types versions as natural numbers.

`CapacityProofs`, for any finite sets of nodes and tasks, any labels, any sizes,
reservations and specifications within the widths, each task with a reservation of its
own, and any widths with `MaxInt <= MaxUint`, from `CapacityAssumption`:

* `SchedulableMeansRoom`: the number the loop of `evaluateServiceCapacity` arrives at
  is below the required one exactly when no assignment of the required replicas
  exists;
* `CapacityInvariant` (`Spec => []IInv`), `CapacityTypes` (`TypeOK`), `CapacityBlocked`
  (`BlockedHasNoRoom`), `CapacitySufficient` (`SufficientHasRoom`) and
  `CapacityConverged` (`ConvergedHappened`), for any number of changes between the
  reads.

Both the algorithm and `Room` are folds over sets of nodes and tasks. The library's
induction theorems cannot be applied by the provers at hand, so induction is by least
counterexample: a set of naturals has a least element (`LeastOf`), hence a family that
has a set whenever it has all that lack one of its elements has every subset of a
finite set (`SubsetInduction`). From that: a fold's recursive function exists
(`RecursionExists`), a sum may take any element first and is monotonic (`SumTake`,
`SumMono`), and a number within the sum of some limits can be spread within them
(`SumSpread`). Then `SaturatedSum`: a saturated sum is the true one, capped at the
width; `SlotsFit`: a division counts what fits; `NodeRoom`: `NodeCapacity` is how many
replicas a node takes, up to the required number; and `SumHasRoom`: the capacities add
up to the room there is. Capping at the required number in every step is what makes
saturation harmless.

All that is about one view. `VerdictFacts` gives what a verdict says of the view it is
computed from, and the inductive invariant relates the view to the Swarm: before the
nodes are read, the service that was read is the current one, or goes with the current
nodes and tasks if those stayed (`AtNodes`); before the tasks are read, service and
nodes go with the current tasks if those stayed and the two went together (`AtTasks`).
"Goes with" means that the facts of the three were noted in `past`. A change of one
part adds the facts of the Swarm before it, which is what the parts already read need
(`ChangeStep`). TLC checked `IInv` with the constants of `capacity.cfg`.

### The contracts

The three refinements have one form: for each Agent or operation an `INSTANCE` of the
contract with its own mapping, and every step of the system is, for each of them, a
step of the contract or none at all. For the fence one fact is added to `IInv`: a
handler runs only at an Agent that is up (`Served`); a PUT that is accepted finds no
handler and a lower generation, which is `Advance`, and the steps of workers and
coordinators are `Unnoticed`. For operations, `status` is what the row says and
`request` is "live" while the request is under way and would be accepted. A step that
writes no row can only make a live request "spent", because versions grow
(`RowsStay`); a row that ends does so with a request that is not live, which is what
`OpOK` says of it after the step (`RecordKeepsContract`).

Only model-checked are liveness (`PutGetsLock`, `FailoverServes`, `StartEnds`), which
the prover does not handle, and the runs that expect a violation.

## 5. What is not modelled

* HTTP, TLS, JSON, hashing: a fingerprint stands for the spec, which takes
  SHA-256 as free of collisions.
* A Docker call whose client has gone: an update that the engine accepted is
  applied at once or not at all; an engine that applies it after the Agent
  process died is outside the model, as it is outside the barrier.
* Writers other than Docklane move versions (`ExternalUpdate`), but do not
  follow the maintenance protocol, and nothing is claimed about them.
* The manager roster is fixed in `MaintenanceFence`.
* Deployments recorded before fingerprints were kept
  (`hydrateLegacyRuntimeFingerprint`, `legacyIntentHasExternalConflict`).
* Releases and the registry: a release is an immutable row of which a deployment
  takes the image; the registry client is network input and output.
* The connection pool. Under a lock the workflows use the connection that holds
  it; only `observeResource` of evidence recovery takes a second one, under an
  exclusive lease.
* The syntax of placement constraints and platforms: a service accepts some labels of
  nodes, or the check cannot interpret it.

Two limits of what is claimed. When the three reads of a capacity check agree on no
moment, nothing is said of its verdict: INSUFFICIENT is then possible although there was
room throughout, where `docs/ARCHITECTURE.md:354` says that only a certain shortage
blocks. And a failed `RELEASE_LOCK` in `api/db/migrations.ts` is modelled as the code
has it (`ReleaseFails`): its comment counts on the release of the connection, which
returns the session to the pool with its lock. Until the pool closes the session every
other start fails; `StartEnds` only says that each of them ends.

## 6. Plan

1. *Liveness of operations.* With finitely many lost sessions and a reconciling tick,
   no operation stays RUNNING.
2. *Pure algorithms.* Snapshot classifiers against a declarative reading, lock
   names.
3. *Composition.* That an Agent of `MaintenanceFence` allows every step that
   `AgentBarrier` takes, seen from outside, for any number of Agents.
