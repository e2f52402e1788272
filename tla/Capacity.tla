------------------------------ MODULE Capacity ------------------------------
(***************************************************************************)
(* The Agent's capacity and placement checks (dockerengine/capacity.go,    *)
(* placement.go) and what the Control Plane makes of them                  *)
(* (capacity.service.ts).  A check is three Docker reads, of the service,  *)
(* of the nodes and of the tasks, and all three change between them.  The  *)
(* verdicts are compared with definitions of "there is room" and "it has   *)
(* converged" that know nothing of the algorithms, and with the moments    *)
(* of the check at which they were so.                                     *)
(*                                                                         *)
(*   swarm    the service, the nodes and the tasks, as they are            *)
(*   version  the version of the service                                   *)
(*   check    the check being made; view is what it has read so far        *)
(*   past     what has been true of the Swarm at some moment since the     *)
(*            service was read (history)                                   *)
(*   changes  how many changes of the Swarm are left (a bound)             *)
(*                                                                         *)
(* check.moved is history: <<part, pc>> says that the part changed while   *)
(* the check was at pc.                                                    *)
(***************************************************************************)
EXTENDS Integers, FiniteSets, FiniteSetsExt, Functions

CONSTANTS Nodes, Tasks,
          Labels,           \* what constraints and platforms can tell of a node
          MaxInt, MaxUint,  \* the widths int64 and uint64, scaled down
          Sizes,            \* CPU and memory of nodes
          Reservations,     \* CPU and memory that tasks reserve
          Services,         \* the specifications of the service
          Targets,          \* the targets of requests
          MaxChanges,
          None

Resources == [cpu : 0 .. MaxInt, mem : 0 .. MaxInt]

\* replicas: None for a service that is not replicated.  fits: the labels that
\* its platforms and constraints accept.  opaque: the kind of thing that a check
\* meets and does not interpret, a constraint or a generic resource.
Specs == [replicas : {None} \cup 0 .. MaxUint, res : Resources, max : 0 .. MaxUint, fits : SUBSET Labels,
          opaque : {"nothing", "constraint", "generic"}, startFirst : BOOLEAN, parallelism : 0 .. MaxUint]

ASSUME CapacityAssumption ==
    /\ IsFiniteSet(Nodes) /\ IsFiniteSet(Tasks)
    /\ MaxInt \in Nat /\ MaxUint \in Nat /\ MaxInt <= MaxUint
    /\ Sizes \subseteq Resources /\ Reservations \subseteq Resources
    /\ Services \subseteq Specs /\ Targets \subseteq 0 .. MaxUint
    /\ MaxChanges \in Nat

VARIABLES swarm, version, check, past, changes

vars == <<swarm, version, check, past, changes>>

-----------------------------------------------------------------------------
NodeStates == [listed : BOOLEAN, ready : BOOLEAN, label : Labels, size : Sizes]

\* leaving: runs, and is to shut down (its desired state); over: a terminal
\* state.  A task that waits for a node has none.  A task keeps the reservation
\* of the specification it was made from.
TaskStates == [at : Nodes \cup {None}, mine : BOOLEAN, st : {"starting", "running", "leaving", "over"},
               res : Reservations]

Swarms == [service : Services, nodes : [Nodes -> NodeStates], tasks : [Tasks -> TaskStates]]

\* With the overlap of the update, or without.
Requests == [target : Targets, include : BOOLEAN]

Parts == {"service", "nodes", "tasks"}
Reading == {"nodes", "tasks"}
Unread == [service |-> None, nodes |-> None, tasks |-> None]

Idle == [pc |-> "idle", kind |-> "capacity", req |-> None, expected |-> 0, view |-> Unread, moved |-> {}, verdict |-> None]

Verdicts == {"SUFFICIENT", "INSUFFICIENT", "UNKNOWN", "CONVERGED", "PENDING"}

TypeOK ==
    /\ swarm \in Swarms /\ version \in Nat /\ changes \in 0 .. MaxChanges
    /\ check \in [pc : {"idle", "asked", "nodes", "tasks", "done", "refused"}, kind : {"capacity", "placement"},
                  req : Requests \cup {None}, expected : Nat,
                  view : [service : Services \cup {None}, nodes : [Nodes -> NodeStates] \cup {None},
                          tasks : [Tasks -> TaskStates] \cup {None}],
                  moved : SUBSET (Parts \X Reading), verdict : Verdicts \cup {None}]
    /\ past \subseteq {"room", "short", "converged"}

\* Every node is in the Swarm at first; tasks are where they may be.
Init ==
    /\ swarm \in [service : Services, nodes : [Nodes -> {n \in NodeStates : n.listed /\ n.ready}],
                  tasks : [Tasks -> {t \in TaskStates : /\ t.st # "over" /\ (t.at = None => t.mine /\ t.st = "starting")
                                                        /\ (~t.mine => t.st = "running")}]]
    /\ version = 1
    /\ check = Idle
    /\ past = {}
    /\ changes = MaxChanges

-----------------------------------------------------------------------------
(* The numbers *)

minUint64(l, r) == IF l < r THEN l ELSE r
clampNonNegative(v) == IF v < 0 THEN 0 ELSE v

saturatingAdd(l, r) == IF MaxUint - l < r THEN MaxUint ELSE l + r

\* Mutant: machine addition.
WrappingAdd(l, r) == (l + r) % (MaxInt + 1)

saturatingInt64Add(l, r) == IF r > 0 /\ l > MaxInt - r THEN MaxInt ELSE l + r

slotsForResource(available, reservation, cap) ==
    CASE reservation <= 0 -> cap
      [] reservation > 0 /\ available <= 0 -> 0
      [] OTHER -> minUint64(available \div reservation, cap)

-----------------------------------------------------------------------------
(* evaluateServiceCapacity, of the service, nodes and tasks of w *)

updateOverlapReplicas(s, r) ==
    CASE ~r.include \/ r.target = 0 \/ ~s.startFirst -> 0
      [] r.include /\ r.target > 0 /\ s.startFirst /\ (s.parallelism = 0 \/ s.parallelism > r.target) -> r.target
      [] OTHER -> s.parallelism

Additional(s, r) == clampNonNegative(r.target - s.replicas)
RequiredReplicas(s, r) == saturatingAdd(Additional(s, r), updateOverlapReplicas(s, r))

Reserved(w, what) == [t \in Tasks |-> w.tasks[t].res[what]]
ActiveOn(w, n) == {t \in Tasks : w.tasks[t].at = n /\ w.tasks[t].st # "over"}

\* capacityUsage, of CPU or memory, and of replicas.
capacityUsage(w, n, what) ==
    FoldSet(LAMBDA t, sum : saturatingInt64Add(sum, Reserved(w, what)[t]), 0, ActiveOn(w, n))
serviceTasks(w, n) ==
    Cardinality({t \in Tasks : w.tasks[t].at = n /\ w.tasks[t].mine /\ w.tasks[t].st \in {"starting", "running"}})

\* matchesPlatforms and matchesConstraints.
Matches(w, n) == w.nodes[n].label \in w.service.fits
Eligible(w) == {n \in Nodes : w.nodes[n].listed /\ w.nodes[n].ready /\ Matches(w, n)}

\* The slots of one node.
NodeCapacity(w, n, required) ==
    LET s == w.service
        slots(what) ==
            slotsForResource(clampNonNegative(w.nodes[n].size[what] - capacityUsage(w, n, what)), s.res[what], required)
        byResource == minUint64(minUint64(required, slots("cpu")), slots("mem"))
    IN IF s.max = 0 THEN byResource ELSE minUint64(byResource, clampNonNegative(s.max - serviceTasks(w, n)))

SchedulableReplicas(w, required) ==
    FoldSet(LAMBDA n, sum : minUint64(saturatingAdd(sum, NodeCapacity(w, n, required)), required), 0, Eligible(w))

\* Mutant: what cannot be interpreted is a shortage.
EvaluateStrictly(w, r) ==
    IF w.service.replicas = None THEN "UNKNOWN"
    ELSE LET required == RequiredReplicas(w.service, r) IN
         CASE required = 0 -> "SUFFICIENT"
           [] OTHER -> IF w.service.opaque # "nothing" \/ SchedulableReplicas(w, required) < required
                       THEN "INSUFFICIENT" ELSE "SUFFICIENT"

evaluateServiceCapacity(w, r) ==
    LET s == w.service IN
    IF s.replicas = None THEN "UNKNOWN"
    ELSE LET required == RequiredReplicas(s, r)
             schedulable == SchedulableReplicas(w, required) IN
         CASE required = 0 -> "SUFFICIENT"
           [] required > 0 /\ Eligible(w) = {} -> "INSUFFICIENT"
           [] required > 0 /\ Eligible(w) # {} /\ s.opaque # "nothing" -> "UNKNOWN"
           [] required > 0 /\ Eligible(w) # {} /\ s.opaque = "nothing" /\ s.res.cpu = 0 /\ s.res.mem = 0 ->
                 IF s.max > 0 /\ schedulable < required THEN "INSUFFICIENT" ELSE "UNKNOWN"
           [] OTHER -> IF schedulable < required THEN "INSUFFICIENT" ELSE "SUFFICIENT"

-----------------------------------------------------------------------------
(* evaluateServicePlacement *)

\* Mutant: the tasks whose desired state is running.
RunningAsDesired(w) == {t \in Tasks : w.tasks[t].mine /\ w.tasks[t].st = "running"}

\* The tasks whose observed state is running, those to shut down included.
Running(w) == {t \in Tasks : w.tasks[t].mine /\ w.tasks[t].st \in {"running", "leaving"}}

\* NODE_NOT_FOUND, PLATFORM_MISMATCH or PLACEMENT_CONSTRAINT_MISMATCH.
Violations(w) ==
    {t \in Running(w) : ~ \E n \in Nodes : n = w.tasks[t].at /\ w.nodes[n].listed /\ Matches(w, n)}

Reasons(w) ==
    (IF Cardinality(Running(w)) # w.service.replicas THEN {"REPLICA_CONVERGENCE_PENDING"} ELSE {})
        \cup (IF Violations(w) # {} THEN {"PLACEMENT_CONVERGENCE_PENDING"} ELSE {})

evaluateServicePlacement(w) ==
    IF w.service.replicas = None \/ w.service.opaque = "constraint" THEN "UNKNOWN"
    ELSE IF Reasons(w) = {} THEN "CONVERGED" ELSE "PENDING"

-----------------------------------------------------------------------------
(* What the verdicts are about *)

\* The reservations on a node, in unbounded numbers.
Load(w, n, what) == MapThenSumSet(LAMBDA t : Reserved(w, what)[t], ActiveOn(w, n))

\* An assignment of more replicas to the nodes that exceeds no limit.
Fits(w, f) ==
    \A n \in Nodes : f[n] > 0 =>
        /\ n \in Eligible(w)
        /\ \A what \in {"cpu", "mem"} :
              w.service.res[what] > 0 => Load(w, n, what) + f[n] * w.service.res[what] <= w.nodes[n].size[what]
        /\ w.service.max > 0 => serviceTasks(w, n) + f[n] <= w.service.max

Room(w, count) ==
    \E f \in [Nodes -> 0 .. count] : MapThenSumSet(LAMBDA n : f[n], Nodes) = count /\ Fits(w, f)

Wanted(s, r) == Additional(s, r) + updateOverlapReplicas(s, r)

\* The tasks of the service that use a node, to shut down or not, and those of
\* them that run where they may.  Converged: there are as many of these as
\* replicas, and no others.
Alive(w) == {t \in Tasks : w.tasks[t].mine /\ w.tasks[t].st \notin {"starting", "over"}}
Settled(w) == {t \in Alive(w) : \E n \in Nodes : n = w.tasks[t].at /\ w.nodes[n].listed /\ Matches(w, n)}
Converged(w) == Cardinality(Settled(w)) = w.service.replicas /\ Alive(w) = Settled(w)

\* short: no room for all that is wanted; room: for as much of it as the width
\* can express.
Facts(w, kind, r) ==
    IF w.service.replicas = None THEN {}
    ELSE IF kind = "placement" THEN {f \in {"converged"} : Converged(w)}
    ELSE {f \in {"short", "room"} : IF f = "short" THEN ~Room(w, Wanted(w.service, r))
                                    ELSE Room(w, minUint64(Wanted(w.service, r), MaxUint))}

\* Every step of a check that reads adds what is true as it is taken.
Note == past' = past \cup Facts(swarm, check.kind, check.req)

-----------------------------------------------------------------------------
(* The check *)

\* A request, with the version of the service as the caller inspected it, or a
\* check of placement, which names no version.
Ask ==
    /\ check.pc = "idle"
    /\ \/ \E r \in Requests : check' = [check EXCEPT !.pc = "asked", !.req = r, !.expected = version]
       \/ check' = [check EXCEPT !.pc = "asked", !.kind = "placement"]
    /\ UNCHANGED <<swarm, version, past, changes>>

\* The caller gets an error.
Refuse == check' = [Idle EXCEPT !.pc = "refused"] /\ past' = {}

\* resolveServiceForCapacity; a capacity check of a service that changed since
\* the caller looked at it is refused (ConflictError).
ReadService ==
    /\ check.pc = "asked"
    /\ IF check.kind = "capacity" /\ version # check.expected THEN Refuse
       ELSE check' = [check EXCEPT !.pc = "nodes", !.view.service = swarm.service] /\ UNCHANGED past
    /\ UNCHANGED <<swarm, version, changes>>

ReadNodes ==
    /\ check.pc = "nodes" /\ Note
    /\ check' = [check EXCEPT !.pc = "tasks", !.view.nodes = swarm.nodes]
    /\ UNCHANGED <<swarm, version, changes>>

\* The tasks are read last, and the verdict is computed from the three.
ReadTasks ==
    LET view == [check.view EXCEPT !.tasks = swarm.tasks] IN
    /\ check.pc = "tasks" /\ Note
    /\ check' = [check EXCEPT !.pc = "done", !.view = view,
                              !.verdict = IF check.kind = "placement" THEN evaluateServicePlacement(view)
                                          ELSE evaluateServiceCapacity(view, check.req)]
    /\ UNCHANGED <<swarm, version, changes>>

\* A list that fails, or has no such service, ends the check with an error.
ReadFails ==
    /\ check.pc \in {"asked", "nodes", "tasks"}
    /\ Refuse
    /\ UNCHANGED <<swarm, version, changes>>

\* assertAvailable: only INSUFFICIENT stops the mutation.
Blocked == check.verdict = "INSUFFICIENT"

-----------------------------------------------------------------------------
(* The Swarm, between the reads *)

Change(part) ==
    /\ changes > 0 /\ changes' = changes - 1
    /\ check.pc \in Reading /\ Note
    /\ check' = [check EXCEPT !.moved = @ \cup {<<part, check.pc>>}]

\* An update of the service, which may also come before it is read.
ServiceChanges ==
    /\ \/ Change("service")
       \/ check.pc = "asked" /\ changes > 0 /\ changes' = changes - 1 /\ UNCHANGED <<check, past>>
    /\ \E s \in Services \ {swarm.service} : swarm' = [swarm EXCEPT !.service = s]
    /\ version' = version + 1

NodeChanges(n) ==
    LET old == swarm.nodes[n] IN
    /\ Change("nodes")
    /\ \E new \in {[old EXCEPT !.ready = ~@], [old EXCEPT !.listed = FALSE]} \cup {[old EXCEPT !.label = l] : l \in Labels} :
          new # old /\ swarm' = [swarm EXCEPT !.nodes[n] = new]
    /\ UNCHANGED version

TaskChanges(t) ==
    LET old == swarm.tasks[t]  To(new) == swarm' = [swarm EXCEPT !.tasks[t] = new] IN
    /\ Change("tasks")
    /\ \/ old.at = None /\ \E n \in Nodes : To([old EXCEPT !.at = n])
       \/ old.at # None /\ old.st = "starting" /\ To([old EXCEPT !.st = "running"])
       \/ old.st = "running" /\ To([old EXCEPT !.st = "leaving"])
       \/ old.st # "over" /\ To([old EXCEPT !.st = "over"])
    /\ UNCHANGED version

\* The caller has its verdict, or its error.
Done == check.pc \in {"done", "refused"} /\ UNCHANGED vars

Next ==
    \/ Ask \/ ReadService \/ ReadNodes \/ ReadTasks \/ ReadFails \/ Done
    \/ ServiceChanges
    \/ \E n \in Nodes : NodeChanges(n)
    \/ \E t \in Tasks : TaskChanges(t)

Spec == Init /\ [][Next]_vars

-----------------------------------------------------------------------------
Stayed(part, pcs) == \A pc \in pcs : <<part, pc>> \notin check.moved

\* What was read is still so at the last read.
Current == Stayed("service", Reading) /\ Stayed("nodes", {"tasks"})

\* There was a moment at which all that was read was so: at the last read, when
\* the nodes were read, or when the service was read.
Together ==
    \/ Current
    \/ Stayed("service", {"nodes"}) /\ Stayed("tasks", {"tasks"})
    \/ Stayed("nodes", {"nodes"}) /\ Stayed("tasks", Reading)

\* A mutation is blocked for want of capacity only when there is no room: none
\* at the last read, if what was read before is still so, and none at some
\* moment of the check, if the three reads agree on a moment.  Saturation and
\* rounding never make the difference (evaluateServiceCapacity,
\* assertAvailable).
BlockedHasNoRoom ==
    check.pc = "done" /\ Blocked =>
        /\ Current => ~Room(swarm, Wanted(swarm.service, check.req))
        /\ Together => "short" \in past

\* SUFFICIENT is no guess: in the same sense there is room for every additional
\* replica that the width can express (CheckServiceCapacity).
SufficientHasRoom ==
    check.pc = "done" /\ check.verdict = "SUFFICIENT" =>
        /\ Current => Room(swarm, minUint64(Wanted(swarm.service, check.req), MaxUint))
        /\ Together => "room" \in past

\* CONVERGED, on which the verification of a label change relies, is about a
\* moment of the check, although a placement check names no version: the
\* service, as it was updated last, ran in full and only where it may, with the
\* tasks still being moved away counted (CheckServicePlacement).
ConvergedHappened ==
    check.pc = "done" /\ check.verdict = "CONVERGED" =>
        /\ Current => Converged(swarm)
        /\ Together => "converged" \in past
=============================================================================
