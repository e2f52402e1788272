------------------------- MODULE AgentBarrierProofs -------------------------
(***************************************************************************)
(* Proofs that the Agent's barrier keeps its invariants and implements     *)
(* BarrierContract, for any number of requests, PUTs, Swarms and           *)
(* generations.                                                            *)
(***************************************************************************)
EXTENDS AgentBarrier, TLAPS

USE ConstantsAssumption

\* Positions that are set, and the unset one, are states of the barrier.
LEMMA StatesAre == Positions \subseteq States /\ Unset \in States
BY DEF Positions, States, Unset, Gens

\* Everything is unset when the Agent is first installed, so the inductive
\* invariant holds there.
LEMMA InitIInv == Init => IInv
<1> SUFFICES ASSUME Init PROVE IInv
  OBVIOUS
<1> USE DEF Init, PutIdle, At
<1>1. TypeOK
  BY Zenon, StatesAre DEF TypeOK, LockedSteps
<1>2. LockInv
  BY DEF LockInv, RunningOnlyWhileOpen, Running, LockedSteps, PersistSteps
<1>3. StepInv /\ DiskInv /\ ConfirmedOnly
  BY DEF StepInv, DiskInv, ConfirmedOnly, PersistSteps
<1>4. AckInv
  BY DEF AckInv, AtOrBefore, Unset
<1> QED
  BY <1>1, <1>2, <1>3, <1>4 DEF IInv

\* Starting the process restores only what the disk invariant vouches for.
LEMMA BootIInv == IInv /\ Boot => IInv'
<1> SUFFICES ASSUME IInv, Boot PROVE IInv'
  OBVIOUS
<1> USE DEF IInv, Boot, disk, At
<1>1. TypeOK'
  BY Zenon, StatesAre DEF TypeOK
<1>2. LockInv'
  BY DEF LockInv, RunningOnlyWhileOpen, Running, LockedSteps, PersistSteps
<1>3. StepInv' /\ DiskInv' /\ ConfirmedOnly'
  BY DEF LockInv, StepInv, DiskInv, ConfirmedOnly, PersistSteps
<1>4. AckInv'
  BY DEF AckInv, AtOrBefore, DiskInv
<1> QED
  BY <1>1, <1>2, <1>3, <1>4

\* The guard and the end of a handler touch nothing but the read locks.
LEMMA GuardIInv == ASSUME IInv, NEW r \in Requests, Guard(r) \/ HandlerReturn(r) PROVE IInv'
BY DEF Guard, HandlerReturn, IInv, TypeOK, LockInv, StepInv, DiskInv, AckInv, ConfirmedOnly, RunningOnlyWhileOpen, disk,
       AtOrBefore, Running, Locked, At, LockedSteps, PersistSteps, PutIdle, Unset, NotServing, Gens, Positions, Headers

\* A crash loses the process; the disk keeps the committed position or the
\* marker.  Nothing here depends on which Swarm the engine belongs to.
LEMMA CrashIInv == IInv /\ (ProcessCrash \/ MachineCrash) => IInv'
<1> SUFFICES ASSUME IInv, ProcessCrash \/ MachineCrash PROVE IInv'
  OBVIOUS
<1> USE DEF IInv, ProcessCrash, MachineCrash, ProcessGone, disk, At, PutIdle
<1>1. TypeOK'
  <2>1. marker' \in BOOLEAN /\ syncedMarker' \in BOOLEAN
    BY Zenon DEF TypeOK
  <2>2. file' \in Positions \cup {Unset} /\ syncedFile' \in Positions \cup {Unset}
    BY DEF TypeOK
  <2>3. put' \in [Puts -> [step : {"idle", "wait"} \cup LockedSteps, input : Positions \cup {Unset}]]
    BY DEF TypeOK
  <2>4. serving' \in [Requests -> Headers \cup {NotServing}]
    BY DEF TypeOK
  <2> HIDE DEF MachineCrash
  <2> QED
    BY <2>1, <2>2, <2>3, <2>4, StatesAre, Zenon DEF TypeOK, MachineCrash
<1>2. LockInv'
  BY DEF LockInv, RunningOnlyWhileOpen, Running, LockedSteps, PersistSteps
<1>3. StepInv' /\ DiskInv' /\ ConfirmedOnly'
  BY DEF TypeOK, StepInv, DiskInv, ConfirmedOnly, PersistSteps
<1>4. AckInv'
  BY DEF AckInv, AtOrBefore
<1> QED
  BY <1>1, <1>2, <1>3, <1>4

\* No part of the invariant depends on the Swarm the engine belongs to now.
LEMMA SwarmIInv == IInv /\ SwarmChanges => IInv'
BY DEF SwarmChanges, disk, IInv, TypeOK, LockInv, StepInv, DiskInv, AckInv, ConfirmedOnly, RunningOnlyWhileOpen, Running, Locked, At

\* A decoded PUT is a set position and waits without the lock.
LEMMA PutArrivesIInv == ASSUME IInv, NEW p \in Puts, PutArrives(p) PROVE IInv'
<1> USE DEF IInv, PutArrives, Goto, Finish, At, disk, LockedSteps, PersistSteps, PutIdle
<1>1. TypeOK'
  BY StatesAre DEF TypeOK, StepInv
<1>2. LockInv'
  BY DEF TypeOK, LockInv, RunningOnlyWhileOpen, Running, Locked
<1>3. StepInv'
  BY DEF TypeOK, LockInv, StepInv, ConfirmedOnly, DiskInv, Acceptable
<1>4. DiskInv'
  BY DEF TypeOK, DiskInv, StepInv
<1>5. ConfirmedOnly'
  BY DEF TypeOK, LockInv, StepInv, ConfirmedOnly, DiskInv
<1>6. AckInv'
  BY DEF TypeOK, LockInv, AckInv, StepInv, AtOrBefore, ConfirmedOnly, Positions, States, Unset, Gens
<1> QED
  BY <1>1, <1>2, <1>3, <1>4, <1>5, <1>6

\* The write lock is granted to one PUT, with every handler gone.
LEMMA PutLocksIInv == ASSUME IInv, NEW p \in Puts, PutLocks(p) PROVE IInv'
<1> USE DEF IInv, PutLocks, Goto, Finish, At, disk, LockedSteps, PersistSteps, PutIdle
<1>1. TypeOK'
  BY StatesAre DEF TypeOK, StepInv
<1>2. LockInv'
  BY DEF TypeOK, LockInv, RunningOnlyWhileOpen, Running, Locked
<1>3. StepInv'
  BY DEF TypeOK, LockInv, StepInv, ConfirmedOnly, DiskInv, Acceptable
<1>4. DiskInv'
  BY DEF TypeOK, DiskInv, StepInv
<1>5. ConfirmedOnly'
  BY DEF TypeOK, LockInv, StepInv, ConfirmedOnly, DiskInv
<1>6. AckInv'
  BY DEF TypeOK, LockInv, AckInv, StepInv, AtOrBefore, ConfirmedOnly, Positions, States, Unset, Gens
<1> QED
  BY <1>1, <1>2, <1>3, <1>4, <1>5, <1>6

\* A refused PUT leaves the barrier and the disk as they are.
LEMMA PutRefusedIInv == ASSUME IInv, NEW p \in Puts, PutRefused(p) PROVE IInv'
<1> USE DEF IInv, PutRefused, Goto, Finish, At, disk, LockedSteps, PersistSteps, PutIdle
<1>1. TypeOK'
  BY StatesAre DEF TypeOK, StepInv
<1>2. LockInv'
  BY DEF TypeOK, LockInv, RunningOnlyWhileOpen, Running, Locked
<1>3. StepInv'
  BY DEF TypeOK, LockInv, StepInv, ConfirmedOnly, DiskInv, Acceptable
<1>4. DiskInv'
  BY DEF TypeOK, DiskInv, StepInv
<1>5. ConfirmedOnly'
  BY DEF TypeOK, LockInv, StepInv, ConfirmedOnly, DiskInv
<1>6. AckInv'
  BY DEF TypeOK, LockInv, AckInv, StepInv, AtOrBefore, ConfirmedOnly, Positions, States, Unset, Gens
<1> QED
  BY <1>1, <1>2, <1>3, <1>4, <1>5, <1>6

\* A repeated PUT acknowledges the current position, which is committed.
LEMMA PutRepeatedIInv == ASSUME IInv, NEW p \in Puts, PutRepeated(p) PROVE IInv'
<1> USE DEF IInv, PutRepeated, Goto, Finish, At, disk, LockedSteps, PersistSteps, PutIdle
<1>0. state = committed
  BY DEF LockInv, ConfirmedOnly, Acceptable
<1>1. TypeOK'
  BY <1>0 DEF TypeOK, StepInv
<1>2. LockInv'
  BY DEF TypeOK, LockInv, RunningOnlyWhileOpen, Running, Locked
<1>3. StepInv'
  BY DEF TypeOK, LockInv, StepInv, ConfirmedOnly, DiskInv, Acceptable
<1>4. DiskInv'
  BY DEF TypeOK, DiskInv, StepInv
<1>5. ConfirmedOnly'
  BY DEF TypeOK, LockInv, StepInv, ConfirmedOnly, DiskInv
<1>6. AckInv'
  BY <1>0 DEF TypeOK, LockInv, AckInv, StepInv, AtOrBefore, ConfirmedOnly, Positions, States, Unset, Gens
<1> QED
  BY <1>1, <1>2, <1>3, <1>4, <1>5, <1>6

\* The checks give what the steps of persist rely on.
LEMMA PutAcceptedIInv == ASSUME IInv, NEW p \in Puts, PutAccepted(p) PROVE IInv'
<1> USE DEF IInv, PutAccepted, Goto, Finish, At, disk, LockedSteps, PersistSteps, PutIdle
<1>1. TypeOK'
  BY StatesAre DEF TypeOK, StepInv
<1>2. LockInv'
  BY DEF TypeOK, LockInv, RunningOnlyWhileOpen, Running, Locked
<1>3. StepInv'
  BY DEF TypeOK, LockInv, StepInv, ConfirmedOnly, DiskInv, Acceptable
<1>4. DiskInv'
  BY DEF TypeOK, DiskInv, StepInv
<1>5. ConfirmedOnly'
  BY DEF TypeOK, LockInv, StepInv, ConfirmedOnly, DiskInv
<1>6. AckInv'
  BY DEF TypeOK, LockInv, AckInv, StepInv, AtOrBefore, ConfirmedOnly, Positions, States, Unset, Gens
<1> QED
  BY <1>1, <1>2, <1>3, <1>4, <1>5, <1>6

\* The marker appears while file and disk still hold the committed position.
LEMMA CreateMarkerIInv == ASSUME IInv, NEW p \in Puts, CreateMarker(p) PROVE IInv'
<1> USE DEF IInv, CreateMarker, Goto, Finish, At, disk, LockedSteps, PersistSteps, PutIdle
<1>1. TypeOK'
  BY StatesAre DEF TypeOK, StepInv
<1>2. LockInv'
  BY DEF TypeOK, LockInv, RunningOnlyWhileOpen, Running, Locked
<1>3. StepInv'
  BY DEF TypeOK, LockInv, StepInv, ConfirmedOnly, DiskInv, Acceptable
<1>4. DiskInv'
  BY DEF TypeOK, DiskInv, StepInv
<1>5. ConfirmedOnly'
  BY DEF TypeOK, LockInv, StepInv, ConfirmedOnly, DiskInv
<1>6. AckInv'
  BY DEF TypeOK, LockInv, AckInv, StepInv, AtOrBefore, ConfirmedOnly, Positions, States, Unset, Gens
<1> QED
  BY <1>1, <1>2, <1>3, <1>4, <1>5, <1>6

\* The sync makes the marker durable before the file is replaced.
LEMMA SyncMarkerIInv == ASSUME IInv, NEW p \in Puts, SyncMarker(p) PROVE IInv'
<1> USE DEF IInv, SyncMarker, Goto, Finish, At, disk, LockedSteps, PersistSteps, PutIdle
<1>1. TypeOK'
  BY StatesAre DEF TypeOK, StepInv
<1>2. LockInv'
  BY DEF TypeOK, LockInv, RunningOnlyWhileOpen, Running, Locked
<1>3. StepInv'
  BY DEF TypeOK, LockInv, StepInv, ConfirmedOnly, DiskInv, Acceptable
<1>4. DiskInv'
  BY DEF TypeOK, DiskInv, StepInv
<1>5. ConfirmedOnly'
  BY DEF TypeOK, LockInv, StepInv, ConfirmedOnly, DiskInv
<1>6. AckInv'
  BY DEF TypeOK, LockInv, AckInv, StepInv, AtOrBefore, ConfirmedOnly, Positions, States, Unset, Gens
<1> QED
  BY <1>1, <1>2, <1>3, <1>4, <1>5, <1>6

\* The file is replaced under a marker that a crash cannot lose.
LEMMA RenameFileIInv == ASSUME IInv, NEW p \in Puts, RenameFile(p) PROVE IInv'
<1> USE DEF IInv, RenameFile, Goto, Finish, At, disk, LockedSteps, PersistSteps, PutIdle
<1>1. TypeOK'
  BY StatesAre DEF TypeOK, StepInv
<1>2. LockInv'
  BY DEF TypeOK, LockInv, RunningOnlyWhileOpen, Running, Locked
<1>3. StepInv'
  BY DEF TypeOK, LockInv, StepInv, ConfirmedOnly, DiskInv, Acceptable
<1>4. DiskInv'
  BY DEF TypeOK, DiskInv, StepInv
<1>5. ConfirmedOnly'
  BY DEF TypeOK, LockInv, StepInv, ConfirmedOnly, DiskInv
<1>6. AckInv'
  BY DEF TypeOK, LockInv, AckInv, StepInv, AtOrBefore, ConfirmedOnly, Positions, States, Unset, Gens
<1> QED
  BY <1>1, <1>2, <1>3, <1>4, <1>5, <1>6

\* The new file is durable before the marker may go.
LEMMA SyncDirectoryIInv == ASSUME IInv, NEW p \in Puts, SyncDirectory(p) PROVE IInv'
<1> USE DEF IInv, SyncDirectory, Goto, Finish, At, disk, LockedSteps, PersistSteps, PutIdle
<1>1. TypeOK'
  BY StatesAre DEF TypeOK, StepInv
<1>2. LockInv'
  BY DEF TypeOK, LockInv, RunningOnlyWhileOpen, Running, Locked
<1>3. StepInv'
  BY DEF TypeOK, LockInv, StepInv, ConfirmedOnly, DiskInv, Acceptable
<1>4. DiskInv'
  BY DEF TypeOK, DiskInv, StepInv
<1>5. ConfirmedOnly'
  BY DEF TypeOK, LockInv, StepInv, ConfirmedOnly, DiskInv
<1>6. AckInv'
  BY DEF TypeOK, LockInv, AckInv, StepInv, AtOrBefore, ConfirmedOnly, Positions, States, Unset, Gens
<1> QED
  BY <1>1, <1>2, <1>3, <1>4, <1>5, <1>6

\* Removing the marker commits the new position.
LEMMA RemoveMarkerIInv == ASSUME IInv, NEW p \in Puts, RemoveMarker(p) PROVE IInv'
<1> USE DEF IInv, RemoveMarker, Goto, Finish, At, disk, LockedSteps, PersistSteps, PutIdle
<1>1. TypeOK'
  <2>1. put' \in [Puts -> [step : {"idle", "wait"} \cup LockedSteps, input : Positions \cup {Unset}]]
    BY DEF TypeOK
  <2> QED
    BY <2>1, Zenon DEF TypeOK
<1>2. LockInv'
  BY DEF TypeOK, LockInv, RunningOnlyWhileOpen, Running, Locked
<1>3. StepInv'
  BY DEF TypeOK, LockInv, StepInv, ConfirmedOnly, DiskInv, Acceptable
<1>4. DiskInv'
  BY DEF TypeOK, DiskInv, StepInv
<1>5. ConfirmedOnly'
  BY DEF TypeOK, LockInv, StepInv, ConfirmedOnly, DiskInv
<1>6. AckInv'
  BY DEF TypeOK, LockInv, AckInv, StepInv, AtOrBefore, ConfirmedOnly, Positions, States, Unset, Gens
<1> QED
  BY <1>1, <1>2, <1>3, <1>4, <1>5, <1>6

\* A failed persist leaves an invalid barrier, which promises nothing.
LEMMA PersistFailsIInv == ASSUME IInv, NEW p \in Puts, PersistFails(p) PROVE IInv'
<1> USE DEF IInv, PersistFails, Goto, Finish, At, disk, LockedSteps, PersistSteps, PutIdle
<1>1. TypeOK'
  <2>1. state' \in States
    BY DEF TypeOK, States
  <2> QED
    BY <2>1 DEF TypeOK, StepInv
<1>2. LockInv'
  BY DEF TypeOK, LockInv, RunningOnlyWhileOpen, Running, Locked
<1>3. StepInv'
  BY DEF TypeOK, LockInv, StepInv, ConfirmedOnly, DiskInv, Acceptable
<1>4. DiskInv'
  BY DEF TypeOK, DiskInv, StepInv
<1>5. ConfirmedOnly'
  BY DEF TypeOK, LockInv, StepInv, ConfirmedOnly, DiskInv
<1>6. AckInv'
  BY DEF TypeOK, LockInv, AckInv, StepInv, AtOrBefore, ConfirmedOnly, Positions, States, Unset, Gens
<1> QED
  BY <1>1, <1>2, <1>3, <1>4, <1>5, <1>6

\* Publishing and acknowledging catch up with what was committed.
LEMMA PublishIInv == ASSUME IInv, NEW p \in Puts, Publish(p) PROVE IInv'
<1> USE DEF IInv, Publish, Goto, Finish, At, disk, LockedSteps, PersistSteps, PutIdle
<1>1. TypeOK'
  BY StatesAre DEF TypeOK, StepInv
<1>2. LockInv'
  BY DEF TypeOK, LockInv, RunningOnlyWhileOpen, Running, Locked
<1>3. StepInv'
  BY DEF TypeOK, LockInv, StepInv, ConfirmedOnly, DiskInv, Acceptable
<1>4. DiskInv'
  BY DEF TypeOK, DiskInv, StepInv
<1>5. ConfirmedOnly'
  BY DEF TypeOK, LockInv, StepInv, ConfirmedOnly, DiskInv
<1>6. AckInv'
  BY DEF TypeOK, LockInv, AckInv, StepInv, AtOrBefore, ConfirmedOnly, Positions, States, Unset, Gens
<1> QED
  BY <1>1, <1>2, <1>3, <1>4, <1>5, <1>6

\* Every step keeps the inductive invariant.
LEMMA NextIInv == IInv /\ [Next]_vars => IInv'
<1> SUFFICES ASSUME IInv, [Next]_vars PROVE IInv'
  OBVIOUS
<1>1. CASE Boot
  BY <1>1, BootIInv
<1>2. ASSUME NEW r \in Requests, Guard(r) \/ HandlerReturn(r) PROVE IInv'
  BY <1>2, GuardIInv
<1>3. ASSUME NEW p \in Puts, PutArrives(p) \/ PutLocks(p) \/ PutSteps(p) PROVE IInv'
  BY <1>3, PutArrivesIInv, PutLocksIInv, PutRefusedIInv, PutRepeatedIInv, PutAcceptedIInv, CreateMarkerIInv,
     SyncMarkerIInv, RenameFileIInv, SyncDirectoryIInv, RemoveMarkerIInv, PersistFailsIInv, PublishIInv DEF PutSteps
<1>4. CASE ProcessCrash \/ MachineCrash
  BY <1>4, CrashIInv
<1>5. CASE SwarmChanges
  BY <1>5, SwarmIInv
<1>6. CASE UNCHANGED vars
  BY <1>6 DEF vars, disk, IInv, TypeOK, LockInv, StepInv, DiskInv, AckInv, ConfirmedOnly, RunningOnlyWhileOpen, Running, Locked, At
<1> QED
  BY <1>1, <1>2, <1>3, <1>4, <1>5, <1>6 DEF Next

\* In every reachable state the inductive invariant holds.
THEOREM Invariance == Spec => []IInv
BY InitIInv, NextIInv, PTL DEF Spec

\* The Agent's variables keep their types.
THEOREM TypeCorrect == Spec => []TypeOK
<1>1. IInv => TypeOK
  BY DEF IInv
<1> QED
  BY <1>1, Invariance, PTL

\* No handler outlives the position that let it through: when a PUT of BLOCKED
\* or of a higher generation is acknowledged, the earlier handlers are drained.
THEOREM Drained == Spec => []RunningOnlyWhileOpen
<1>1. IInv => RunningOnlyWhileOpen
  BY DEF IInv, LockInv
<1> QED
  BY <1>1, Invariance, PTL

\* No crash undoes an acknowledged position.
THEOREM AcknowledgedIsDurable == Spec => []AckSurvives
<1>1. IInv => AckSurvives
  BY DEF IInv, AckInv, AckSurvives
<1> QED
  BY <1>1, Invariance, PTL

\* No restart takes up a position whose replacement was not confirmed durable.
THEOREM NothingUnconfirmed == Spec => []ConfirmedOnly
<1>1. IInv => ConfirmedOnly
  BY DEF IInv
<1> QED
  BY <1>1, Invariance, PTL

\* The barrier implements the contract: each step is one of the contract's
\* steps or changes nothing the contract speaks of.
THEOREM Implementation == Spec => ImplementsContract
<1> USE DEF Contract!contractVars
<1>1. Init => Contract!ContractInit
  BY DEF Init, Contract!ContractInit, Running, Unset
<1>2. IInv /\ [Next]_vars => [Contract!ContractNext]_Contract!contractVars
  <2> SUFFICES ASSUME IInv, [Next]_vars PROVE [Contract!ContractNext]_Contract!contractVars
    OBVIOUS
  <2> USE DEF IInv, Contract!ContractNext
  <2>1. CASE Boot
    <3>1. Running = {} /\ ~up /\ Running' = {} /\ committed' = committed
      BY <2>1 DEF LockInv, Boot, Running
    <3>2. (up /\ ~invalid)' \in BOOLEAN
      OBVIOUS
    <3> QED
      BY <2>1, <3>1, <3>2 DEF Contract!BecomeAvailable, Contract!BecomeUnavailable
  <2>2. ASSUME NEW r \in Requests, Guard(r) PROVE Contract!Serve(r)
    <3>1. Running' = Running \cup {r}
      BY <2>2 DEF Guard, Running, TypeOK, Headers, NotServing
    <3>2. committed = state
      BY <2>2 DEF Guard, ConfirmedOnly, Locked, At, LockedSteps
    <3> QED
      BY <2>2, <3>1, <3>2 DEF Guard, Contract!Serve
  <2>3. ASSUME NEW r \in Requests, HandlerReturn(r) PROVE Contract!Return(r)
    <3>1. Running' = Running \ {r}
      BY <2>3 DEF HandlerReturn, Running, TypeOK
    <3> QED
      BY <2>3, <3>1 DEF HandlerReturn, Contract!Return
  <2>4. ASSUME NEW p \in Puts, RemoveMarker(p) PROVE Contract!Advance
    <3>1. Running = {} /\ Running' = Running
      BY <2>4 DEF RemoveMarker, LockInv, RunningOnlyWhileOpen, Running, Locked, LockedSteps, PersistSteps, At
    <3>2. committed' = put[p].input /\ committed = state /\ put[p].input \in Positions
      BY <2>4 DEF RemoveMarker, StepInv, PersistSteps, At
    <3>3. put[p].input.gen > state.gen /\ state.cluster \in {NoCluster, put[p].input.cluster}
      BY <2>4 DEF RemoveMarker, StepInv, PersistSteps, At
    <3>4. put[p].input.cluster \in Clusters /\ put[p].input \in Contract!Positions
      BY <3>2 DEF Positions, Contract!Positions, Gens
    <3> QED
      BY <2>4, <3>1, <3>2, <3>3, <3>4 DEF RemoveMarker, Contract!Advance
  <2>5. ASSUME NEW p \in Puts, PersistFails(p) PROVE Contract!BecomeUnavailable
    <3>1. Running = {} /\ Running' = Running
      BY <2>5 DEF PersistFails, LockInv, RunningOnlyWhileOpen, Running, Locked, LockedSteps, PersistSteps
    <3> QED
      BY <2>5, <3>1 DEF PersistFails, Contract!BecomeUnavailable
  <2>6. ASSUME NEW p \in Puts,
               \/ PutArrives(p) \/ PutLocks(p) \/ PutRefused(p) \/ PutRepeated(p) \/ PutAccepted(p)
               \/ CreateMarker(p) \/ SyncMarker(p) \/ RenameFile(p) \/ SyncDirectory(p) \/ Publish(p)
        PROVE  UNCHANGED Contract!contractVars
    BY <2>6 DEF PutArrives, PutLocks, PutRefused, PutRepeated, PutAccepted, CreateMarker, SyncMarker, RenameFile,
                SyncDirectory, Publish, Running
  <2>7. CASE ProcessCrash \/ MachineCrash
    BY <2>7 DEF ProcessCrash, MachineCrash, ProcessGone, Running, Contract!BecomeUnavailable
  <2>8. CASE SwarmChanges \/ UNCHANGED vars
    BY <2>8 DEF SwarmChanges, vars, Running
  <2> QED
    BY <2>1, <2>2, <2>3, <2>4, <2>5, <2>6, <2>7, <2>8 DEF Next, PutSteps
<1> QED
  BY <1>1, <1>2, Invariance, PTL DEF Spec, ImplementsContract, Contract!ContractSpec
=============================================================================
