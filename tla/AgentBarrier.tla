---------------------------- MODULE AgentBarrier ----------------------------
(***************************************************************************)
(* The mutation barrier of one manager Agent                               *)
(* (agent/internal/httpserver/maintenance_barrier.go).                     *)
(*                                                                         *)
(* Mutation handlers hold the barrier's RWMutex as readers for as long as  *)
(* they run; a PUT of a new position holds it as the writer while it       *)
(* checks, persists and publishes that position.  The position is kept in  *)
(* a file replaced by rename, with a ".pending" marker around the          *)
(* replacement.  The file system is modelled by what the process sees      *)
(* (file, marker) and what a directory sync has made durable (syncedFile,  *)
(* syncedMarker): a process crash keeps the first, a machine crash may     *)
(* keep either, entry by entry.                                            *)
(*                                                                         *)
(* A request the barrier rejects changes nothing and is not a step.        *)
(***************************************************************************)
EXTENDS Naturals

CONSTANTS Requests,   \* slots for mutation requests being served
          Puts,       \* slots for PUT /v1/maintenance/barrier requests
          Clusters,   \* Swarm cluster identities
          NoCluster,  \* no identity: barrier never set, or Docker not a manager
          MaxGen      \* bound on the generations requests carry

ASSUME ConstantsAssumption ==
    /\ NoCluster \notin Clusters
    /\ MaxGen \in Nat

VARIABLES up,            \* the Agent process runs
          state,         \* b.state
          invalid,       \* b.invalid
          file,          \* the state file, as the process sees it
          marker,        \* the .pending marker, as the process sees it
          syncedFile,    \* the state file, as last synced
          syncedMarker,  \* the marker, as last synced
          swarm,         \* the Swarm the local Docker engine belongs to
          serving,       \* the headers of each request past the guard
          put,           \* each PUT: its step and the position it asks for
          committed,     \* history: the last position whose marker was removed
          acked          \* history: the last position acknowledged with 200

disk == <<file, marker, syncedFile, syncedMarker>>
vars == <<up, state, invalid, disk, swarm, serving, put, committed, acked>>

Gens == 1 .. MaxGen

\* barrierState; the zero value stands for a file that does not exist.
Unset == [cluster |-> NoCluster, gen |-> 0, st |-> "BLOCKED"]
Positions == [cluster : Clusters, gen : Gens, st : {"OPEN", "BLOCKED"}]
States == [cluster : Clusters \cup {NoCluster}, gen : 0 .. MaxGen, st : {"OPEN", "BLOCKED"}]

Headers == [cluster : Clusters, gen : Gens]
NotServing == [cluster |-> NoCluster, gen |-> 0]
Running == {r \in Requests : serving[r] # NotServing}

\* The steps of setMaintenanceBarrier that run with the write lock held.
PersistSteps == {"create", "syncMarker", "rename", "syncDir", "remove"}
LockedSteps == {"check", "publish"} \cup PersistSteps
PutIdle == [step |-> "idle", input |-> Unset]
Locked == \E p \in Puts : put[p].step \in LockedSteps
Waiting == \E p \in Puts : put[p].step = "wait"

At(p, step) == put[p].step = step
Goto(p, step) == put' = [put EXCEPT ![p].step = step]
Finish(p) == put' = [put EXCEPT ![p] = PutIdle]

TypeOK ==
    /\ up \in BOOLEAN /\ invalid \in BOOLEAN
    /\ marker \in BOOLEAN /\ syncedMarker \in BOOLEAN
    /\ state \in States
    /\ file \in Positions \cup {Unset} /\ syncedFile \in Positions \cup {Unset}
    /\ committed \in Positions \cup {Unset} /\ acked \in Positions \cup {Unset}
    /\ swarm \in Clusters \cup {NoCluster}
    /\ serving \in [Requests -> Headers \cup {NotServing}]
    /\ put \in [Puts -> [step : {"idle", "wait"} \cup LockedSteps, input : Positions \cup {Unset}]]

Init ==
    /\ up = FALSE /\ invalid = FALSE
    /\ state = Unset
    /\ file = Unset /\ syncedFile = Unset
    /\ marker = FALSE /\ syncedMarker = FALSE
    /\ swarm \in Clusters
    /\ serving = [r \in Requests |-> NotServing]
    /\ put = [p \in Puts |-> PutIdle]
    /\ committed = Unset /\ acked = Unset

\* Mutant: the marker of an unfinished write is ignored.
BootIgnoringMarker ==
    /\ ~up
    /\ up' = TRUE
    /\ invalid' = FALSE /\ state' = file
    /\ UNCHANGED <<disk, swarm, serving, put, committed, acked>>

\* newMutationBarrier: a marker, or a file that cannot be read, is invalid.
Boot ==
    /\ ~up
    /\ up' = TRUE
    /\ \/ /\ invalid' = TRUE
          /\ state' = Unset
       \/ /\ ~marker
          /\ invalid' = FALSE
          /\ state' = file
    /\ UNCHANGED <<disk, swarm, serving, put, committed, acked>>

\* Mutant: readers pass a writer that waits for the lock.
GuardBeforeWaiting(r) ==
    /\ up /\ r \notin Running /\ ~Locked
    /\ ~invalid /\ state.st = "OPEN" /\ state.cluster = swarm
    /\ serving' = [serving EXCEPT ![r] = [cluster |-> state.cluster, gen |-> state.gen]]
    /\ UNCHANGED <<up, state, invalid, disk, swarm, put, committed, acked>>

\* guard: RWMutex readers wait behind a writer that holds or wants the lock.
Guard(r) ==
    /\ up /\ r \notin Running
    /\ ~Locked /\ ~Waiting
    /\ ~invalid /\ state.st = "OPEN"
    /\ \E h \in Headers :
          /\ h.cluster = state.cluster
          /\ h.cluster = swarm
          /\ h.gen = state.gen
          /\ serving' = [serving EXCEPT ![r] = h]
    /\ UNCHANGED <<up, state, invalid, disk, swarm, put, committed, acked>>

\* next.ServeHTTP returned, whatever its answer, and the read lock is released.
HandlerReturn(r) ==
    /\ r \in Running
    /\ serving' = [serving EXCEPT ![r] = NotServing]
    /\ UNCHANGED <<up, state, invalid, disk, swarm, put, committed, acked>>

\* setMaintenanceBarrier decodes the body and asks for the write lock.
PutArrives(p) ==
    /\ up /\ At(p, "idle")
    /\ \E input \in Positions : put' = [put EXCEPT ![p] = [step |-> "wait", input |-> input]]
    /\ UNCHANGED <<up, state, invalid, disk, swarm, serving, committed, acked>>

\* Mutant: the barrier does not wait for the handlers.
PutLocksUndrained(p) ==
    /\ At(p, "wait")
    /\ ~Locked
    /\ Goto(p, "check")
    /\ UNCHANGED <<up, state, invalid, disk, swarm, serving, committed, acked>>

PutLocks(p) ==
    /\ At(p, "wait")
    /\ ~Locked /\ Running = {}
    /\ Goto(p, "check")
    /\ UNCHANGED <<up, state, invalid, disk, swarm, serving, committed, acked>>

\* Mutant: a barrier pinned to one Swarm takes another one's position.
AcceptableUnpinned(input) ==
    /\ ~invalid
    /\ swarm = input.cluster
    /\ input.gen > state.gen \/ (input.gen = state.gen /\ input.st = state.st)

\* The checks made under the lock: an invalid barrier, a Swarm identity that
\* cannot be read, is foreign or is not the pinned one, and a generation that
\* moves backwards or contradicts the current one are refused.
Acceptable(input) ==
    /\ ~invalid
    /\ swarm = input.cluster
    /\ state.cluster \in {NoCluster, input.cluster}
    /\ \/ input.gen > state.gen
       \/ input.gen = state.gen /\ input.st = state.st

\* Reading the identity may itself fail, so refusal is always possible.
PutRefused(p) ==
    /\ At(p, "check")
    /\ Finish(p)
    /\ UNCHANGED <<up, state, invalid, disk, swarm, serving, committed, acked>>

\* The same generation and state again is acknowledged without a write.
PutRepeated(p) ==
    /\ At(p, "check")
    /\ Acceptable(put[p].input)
    /\ put[p].input.gen = state.gen
    /\ acked' = state
    /\ Finish(p)
    /\ UNCHANGED <<up, state, invalid, disk, swarm, serving, committed>>

PutAccepted(p) ==
    /\ At(p, "check")
    /\ Acceptable(put[p].input)
    /\ put[p].input.gen > state.gen
    /\ Goto(p, "create")
    /\ UNCHANGED <<up, state, invalid, disk, swarm, serving, committed, acked>>

\* persist: O_EXCL creation of the marker, its sync, the temporary file's
\* rename over the state file, the directory's sync, the marker's removal.
CreateMarker(p) ==
    /\ At(p, "create") /\ ~marker
    /\ marker' = TRUE
    /\ Goto(p, "syncMarker")
    /\ UNCHANGED <<up, state, invalid, file, syncedFile, syncedMarker, swarm, serving, committed, acked>>

\* Mutant: the marker is not synced before the file is replaced.
SyncMarkerSkipped(p) ==
    /\ At(p, "syncMarker")
    /\ Goto(p, "rename")
    /\ UNCHANGED <<up, state, invalid, disk, swarm, serving, committed, acked>>

SyncMarker(p) ==
    /\ At(p, "syncMarker")
    /\ syncedMarker' = marker /\ syncedFile' = file
    /\ Goto(p, "rename")
    /\ UNCHANGED <<up, state, invalid, file, marker, swarm, serving, committed, acked>>

RenameFile(p) ==
    /\ At(p, "rename")
    /\ file' = put[p].input
    /\ Goto(p, "syncDir")
    /\ UNCHANGED <<up, state, invalid, marker, syncedFile, syncedMarker, swarm, serving, committed, acked>>

SyncDirectory(p) ==
    /\ At(p, "syncDir")
    /\ syncedMarker' = marker /\ syncedFile' = file
    /\ Goto(p, "remove")
    /\ UNCHANGED <<up, state, invalid, file, marker, swarm, serving, committed, acked>>

RemoveMarker(p) ==
    /\ At(p, "remove")
    /\ marker' = FALSE
    /\ committed' = file
    /\ Goto(p, "publish")
    /\ UNCHANGED <<up, state, invalid, file, syncedFile, syncedMarker, swarm, serving, acked>>

\* Mutant: the error of persist is dropped and the position published.
PersistFailsUnnoticed(p) ==
    /\ put[p].step \in PersistSteps
    /\ state' = put[p].input /\ acked' = put[p].input
    /\ Finish(p)
    /\ UNCHANGED <<up, invalid, disk, swarm, serving, committed>>

\* Any step of persist may fail, and leaves the disk as it is.
PersistFails(p) ==
    /\ put[p].step \in PersistSteps
    /\ state' = [state EXCEPT !.st = "BLOCKED"]
    /\ invalid' = TRUE
    /\ Finish(p)
    /\ UNCHANGED <<up, disk, swarm, serving, committed, acked>>

\* b.state = next, and the acknowledgement.
Publish(p) ==
    /\ At(p, "publish")
    /\ state' = put[p].input
    /\ acked' = put[p].input
    /\ Finish(p)
    /\ UNCHANGED <<up, invalid, disk, swarm, serving, committed>>

\* The process is gone: its requests with it, the disk as the kernel has it.
ProcessGone ==
    /\ up' = FALSE
    /\ invalid' = FALSE /\ state' = Unset
    /\ serving' = [r \in Requests |-> NotServing]
    /\ put' = [p \in Puts |-> PutIdle]
    /\ UNCHANGED <<swarm, committed, acked>>

ProcessCrash == up /\ ProcessGone /\ UNCHANGED disk

\* Directory entries changed since their last sync survive or do not.
MachineCrash ==
    /\ ProcessGone
    /\ file' \in {file, syncedFile} /\ syncedFile' = file'
    /\ marker' \in {marker, syncedMarker} /\ syncedMarker' = marker'

\* An operator takes the engine out of its Swarm or into another one.
SwarmChanges ==
    /\ swarm' \in (Clusters \cup {NoCluster}) \ {swarm}
    /\ UNCHANGED <<up, state, invalid, disk, serving, put, committed, acked>>

PutSteps(p) ==
    \/ PutRefused(p) \/ PutRepeated(p) \/ PutAccepted(p)
    \/ CreateMarker(p) \/ SyncMarker(p) \/ RenameFile(p)
    \/ SyncDirectory(p) \/ RemoveMarker(p) \/ PersistFails(p) \/ Publish(p)

Next ==
    \/ Boot
    \/ \E r \in Requests : Guard(r) \/ HandlerReturn(r)
    \/ \E p \in Puts : PutArrives(p) \/ PutLocks(p) \/ PutSteps(p)
    \/ ProcessCrash
    \/ MachineCrash
    \/ SwarmChanges

Spec == Init /\ [][Next]_vars

\* Handlers return: the Control Plane drops its connection after 5 s, which
\* cancels the handler's context.  Go's mutex hands itself to a starving
\* waiter, hence the strong fairness of PutLocks.
Fairness ==
    /\ \A r \in Requests : WF_vars(HandlerReturn(r))
    /\ \A p \in Puts : SF_vars(PutLocks(p)) /\ WF_vars(PutSteps(p))

FairSpec == Spec /\ Fairness

-----------------------------------------------------------------------------
\* A handler past the guard runs under a barrier that is OPEN, in its Swarm
\* and at its generation, and no PUT is at work.  So once a PUT of BLOCKED, or
\* of a higher generation, is acknowledged, no handler that the earlier
\* position let through is still running (guard's read lock, lines 101-154;
\* setMaintenanceBarrier's write lock, lines 202-205).
RunningOnlyWhileOpen ==
    \A r \in Running :
        /\ up /\ ~invalid /\ ~Locked
        /\ state = [cluster |-> serving[r].cluster, gen |-> serving[r].gen, st |-> "OPEN"]

\* p is at or before q: an earlier generation, or the same position.
AtOrBefore(p, q) ==
    /\ p.gen <= q.gen
    /\ p.gen = q.gen => p = q
    /\ p.cluster \in {NoCluster, q.cluster}

\* A position acknowledged with 200 survives every crash: an Agent that comes
\* back with a valid barrier is at that position or at a later generation of
\* the same Swarm (setMaintenanceBarrier, line 238: never an acknowledgement
\* before the barrier is durable).
AckSurvives ==
    up /\ ~invalid => AtOrBefore(acked, state)

\* A valid barrier holds the last position whose replacement was confirmed
\* durable; a write that was interrupted or failed half way is never taken up,
\* in particular not an OPEN (newMutationBarrier, lines 49-53; persist).
ConfirmedOnly ==
    up /\ ~invalid /\ (\A p \in Puts : ~At(p, "publish")) => state = committed

\* Every PUT that waits for the write lock gets it or loses its connection with
\* the process: draining the handlers ends, because a waiting writer holds back
\* new readers (setMaintenanceBarrier, lines 202-204).
PutGetsLock == \A p \in Puts : At(p, "wait") ~> ~At(p, "wait")

\* The inductive invariant behind the properties above.  The write lock is
\* exclusive; what a PUT at each step of persist relies on; the disk holds the
\* committed position whenever the marker is, or could be found, missing; and
\* what was acknowledged never runs ahead of what was committed.
LockInv ==
    /\ \A p, q \in Puts : put[p].step \in LockedSteps /\ put[q].step \in LockedSteps => p = q
    /\ ~up => Running = {} /\ \A p \in Puts : At(p, "idle")
    /\ RunningOnlyWhileOpen

StepInv ==
    \A p \in Puts :
        /\ put[p].step # "idle" => put[p].input \in Positions
        /\ put[p].step \in PersistSteps \cup {"publish"} =>
              /\ ~invalid
              /\ put[p].input.gen > state.gen
              /\ state.cluster \in {NoCluster, put[p].input.cluster}
        /\ put[p].step \in PersistSteps => state = committed
        /\ At(p, "syncMarker") => marker
        /\ put[p].step \in {"rename", "syncDir", "remove"} => marker /\ syncedMarker
        /\ put[p].step \in {"syncDir", "remove", "publish"} => file = put[p].input
        /\ At(p, "remove") => syncedFile = put[p].input
        /\ At(p, "publish") => ~marker /\ committed = put[p].input

DiskInv == ~marker \/ ~syncedMarker => file = committed /\ syncedFile = committed

AckInv ==
    /\ AtOrBefore(acked, committed)
    /\ up /\ ~invalid => AtOrBefore(acked, state)

IInv == TypeOK /\ LockInv /\ StepInv /\ DiskInv /\ AckInv /\ ConfirmedOnly

\* The Agent keeps the promise the Control Plane's protocol is built on.
Contract == INSTANCE BarrierContract WITH available <- up /\ ~invalid, running <- Running
ImplementsContract == Contract!ContractSpec
=============================================================================
