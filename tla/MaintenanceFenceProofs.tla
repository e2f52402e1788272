----------------------- MODULE MaintenanceFenceProofs -----------------------
(***************************************************************************)
(* The theorems of MaintenanceFence, for any number of operations, Agents  *)
(* and coordinators and any number of maintenance cycles.                  *)
(***************************************************************************)
EXTENDS MaintenanceFence, Integers, TLAPS

-----------------------------------------------------------------------------
(* The inductive invariant *)

\* The generation at which the cluster was OPEN last.
Opened ==
    CASE maint.st = "CLOSING" -> maint.gen - 1
      [] maint.st = "CLOSED" -> maint.gen - 2
      [] maint.st = "RECONCILING" -> maint.gen - 3
      [] OTHER -> maint.gen

Resting == {"CLOSED", "RECONCILING"}
Closing == {"CLOSING", "RECONCILING"}

\* The cluster is or was OPEN at g; the generation before an OPEN one is never OPEN.
WasOpen(g) == g >= 1 /\ (g = Opened \/ g + 1 < Opened)

MaintOK == maint.st = "NONE" <=> maint.gen = 0

\* A barrier never falls behind what was acknowledged for it, and so never
\* behind the generation of the last completed blockAll.
BarOK(a) ==
    /\ bar[a].st = "OPEN" => WasOpen(bar[a].gen)
    /\ ack[a] <= bar[a].gen
    /\ Opened <= bar[a].gen + 1
    /\ maint.st \in Resting => Opened < bar[a].gen

PutsOK == \A m \in puts : m.st = "OPEN" => WasOpen(m.gen)

\* A coordinator opens only at an OPEN generation; past blockAll, every barrier
\* is at its generation or later, and what it observed lasts.
Opening == {"opening", "openPut", "openRead", "openCheck"}
Blocking == {"blocking", "blockPut", "blockAck"}
Blocked == {"blockRead", "blockCheck", "commit", "observed"}

CoordOK(c) ==
    /\ coord[c].pc \in Opening => WasOpen(coord[c].gen)
    /\ coord[c].pc \in Blocking \cup Blocked =>
          1 <= coord[c].gen /\ coord[c].gen <= maint.gen /\ (coord[c].gen = maint.gen => maint.st \in Closing)
    /\ coord[c].pc \in {"blockPut", "blockAck"} => coord[c].at \in Agents
    /\ coord[c].pc = "blockAck" => coord[c].gen <= bar[coord[c].at].gen
    /\ coord[c].pc \in Blocking => \A a \in Agents \ coord[c].todo : coord[c].gen <= bar[a].gen
    /\ coord[c].pc \in Blocked => \A a \in Agents : coord[c].gen <= bar[a].gen

ObserverOK(c) ==
    coord[c].pc = "observed" =>
        /\ coord[c].op \in Ops
        /\ worker[coord[c].op].pc \in {"dead", "done"}
        /\ coord[c].gen = maint.gen /\ coord[c].unchanged => ~applied[coord[c].op]

\* What worker, rows and request of an operation say of each other.
Live == {"sent", "running", "updated"}
Agree(w, ad, s, d, wi, ap) ==
    /\ w.pc = "idle" => ad = "none" /\ d.phase = "none"
    /\ w.pc \in {"idle", "admitted"} => s = "none"
    /\ w.pc \in Alive => ad \in {"held", "resolved"}
    /\ w.pc \in {"intent", "gated", "checked", "prepared", "sending"} => s = "ACTIVE"
    /\ w.pc \in {"idle", "admitted", "intent", "gated", "checked", "prepared"} => wi = "none"
    /\ w.pc \in {"checked", "prepared", "sending"} \/ wi # "none" => w.agent \in Agents
    /\ wi \in {"ok", "rejected"} => w.pc = "sending"
    /\ wi \in Live => d.phase \in {"SENDING", "UNCERTAIN"}
    /\ d.resolved => w.pc \in {"dead", "done"}
    /\ ap => wi \in {"updated", "ok", "over"}
    /\ s = "REJECTED" => wi \in {"none", "over"} /\ ~ap /\ w.pc \in {"decided", "done", "dead"}
    /\ s = "MANUAL" => d.resolved /\ ~ap

\* While the cluster rests, an operation has ended or the administrator
\* answered for its admission, and no worker is past the second read.
Rested(w, ad, s) ==
    \/ s \in Terminal \cup {"none"} /\ (w.pc \in Alive => ad = "resolved" /\ w.pc \in {"admitted", "decided"})
    \/ ad = "resolved" /\ w.pc \in {"intent", "dead"}

\* A handler runs only while its Agent is OPEN at the worker's generation; a
\* request whose dispatch was resolved comes too late.
RequestOK(o) ==
    /\ worker[o].pc \in {"gated", "checked", "prepared", "sending"} \/ wire[o] # "none" => WasOpen(worker[o].gen)
    /\ InHandler(o) => bar[worker[o].agent] = [gen |-> worker[o].gen, st |-> "OPEN"]
    /\ disp[o].resolved /\ wire[o] \in Live => worker[o].gen < bar[worker[o].agent].gen

OpOK(o) ==
    /\ Agree(worker[o], adm[o], op[o], disp[o], wire[o], applied[o])
    /\ RequestOK(o)
    /\ maint.st \in Resting => Rested(worker[o], adm[o], op[o])

IInv ==
    /\ TypeOK /\ MaintOK /\ PutsOK
    /\ \A a \in Agents : BarOK(a)
    /\ \A c \in Coordinators : CoordOK(c) /\ ObserverOK(c)
    /\ \A o \in Ops : OpOK(o)

-----------------------------------------------------------------------------
(* Facts about the invariant and about updates *)

WorkerType == [pc : WorkerSteps, gen : 0 .. MaxGen, agent : Agents \cup {None}]
CoordType == [pc : CoordSteps, gen : 0 .. MaxGen, todo : SUBSET Agents,
              at : Agents \cup {None}, op : Ops \cup {None}, unchanged : BOOLEAN]
DispType == [phase : Phases, resolved : BOOLEAN]
BarType == [gen : 0 .. MaxGen, st : {"OPEN", "BLOCKED"}]
MaintType == [st : {"NONE", "OPEN", "CLOSING", "CLOSED", "RECONCILING"}, gen : 0 .. MaxGen]

\* What the variables of an operation contain.
OpTypes ==
    /\ adm \in [Ops -> {"none", "held", "resolved"}] /\ op \in [Ops -> Statuses]
    /\ disp \in [Ops -> DispType] /\ worker \in [Ops -> WorkerType]
    /\ wire \in [Ops -> Wires] /\ applied \in [Ops -> BOOLEAN]

LEMMA TypeSplit ==
    TypeOK <=> /\ OpTypes /\ maint \in MaintType /\ lease \in Coordinators \cup {None}
               /\ bar \in [Agents -> BarType] /\ avail \in [Agents -> BOOLEAN] /\ ack \in [Agents -> 0 .. MaxGen]
               /\ coord \in [Coordinators -> CoordType] /\ puts \subseteq Messages
  BY Zenon DEF TypeOK, OpTypes, WorkerType, CoordType, DispType, BarType, MaintType

LEMMA Facts ==
    ASSUME IInv
    PROVE  /\ OpTypes /\ maint \in MaintType /\ lease \in Coordinators \cup {None}
           /\ bar \in [Agents -> BarType] /\ avail \in [Agents -> BOOLEAN] /\ ack \in [Agents -> 0 .. MaxGen]
           /\ coord \in [Coordinators -> CoordType] /\ puts \subseteq Messages
           /\ MaintOK /\ PutsOK
           /\ \A a \in Agents : BarOK(a)
           /\ \A c \in Coordinators : CoordOK(c) /\ ObserverOK(c)
           /\ \A o \in Ops : OpOK(o)
  BY Zenon, TypeSplit DEF IInv

\* Numbers as the provers need them.
LEMMA Numbers ==
    ASSUME IInv
    PROVE  /\ maint.gen \in Nat /\ maint.gen <= MaxGen /\ Opened \in Int /\ MaxGen \in Nat
           /\ maint.st \in {"NONE", "OPEN", "CLOSING", "CLOSED", "RECONCILING"}
           /\ \A a \in Agents : bar[a].gen \in Nat /\ ack[a] \in Nat
           /\ \A c \in Coordinators : coord[c].gen \in Nat
           /\ \A o \in Ops : worker[o].gen \in Nat
           /\ \A m \in puts : m.gen \in Nat
  <1>1. maint.gen \in 0 .. MaxGen /\ MaxGen \in Nat /\ maint.st \in {"NONE", "OPEN", "CLOSING", "CLOSED", "RECONCILING"}
    BY Facts, ConstantsAssumption DEF MaintType
  <1>2. Opened \in Int
    BY <1>1 DEF Opened
  <1>3. \A a \in Agents : bar[a].gen \in 0 .. MaxGen /\ ack[a] \in 0 .. MaxGen
    BY Facts DEF BarType
  <1>4. \A c \in Coordinators : coord[c].gen \in 0 .. MaxGen
    BY Facts DEF CoordType
  <1>5. \A o \in Ops : worker[o].gen \in 0 .. MaxGen
    BY Facts DEF OpTypes, WorkerType
  <1>6. \A m \in puts : m.gen \in 1 .. MaxGen
    BY Facts DEF Messages
  <1> QED
    BY <1>1, <1>2, <1>3, <1>4, <1>5, <1>6

\* A step that leaves the maintenance state alone leaves the generations alone.
LEMMA SameMaint ==
    ASSUME maint' = maint
    PROVE  Opened' = Opened /\ (\A g : WasOpen(g)' <=> WasOpen(g)) /\ (MaintOK' <=> MaintOK)
  BY Zenon DEF Opened, WasOpen, MaintOK

LEMMA Started ==
    ASSUME IInv, maint.st # "NONE"
    PROVE  1 <= maint.gen
  <1>1. maint.gen # 0
    BY Zenon, Facts DEF MaintOK
  <1> QED
    BY <1>1, Numbers

\* A worker that goes on.
LEMMA GoFacts ==
    ASSUME IInv, NEW o \in Ops, NEW pc \in WorkerSteps, Go(o, pc)
    PROVE  /\ worker' \in [Ops -> WorkerType]
           /\ worker'[o].pc = pc /\ worker'[o].gen = worker[o].gen /\ worker'[o].agent = worker[o].agent
           /\ \A p \in Ops \ {o} : worker'[p] = worker[p]
  BY Facts DEF Go, OpTypes, WorkerType

\* A step of operation o, its worker or its request, that leaves maintenance
\* state, barriers and coordinators alone.
LEMMA OpStep ==
    ASSUME IInv, NEW o \in Ops, UNCHANGED <<maint, lease, bar, avail, ack, coord, puts>>, OpTypes',
           \A p \in Ops \ {o} : /\ worker'[p] = worker[p] /\ adm'[p] = adm[p] /\ op'[p] = op[p]
                                /\ disp'[p] = disp[p] /\ wire'[p] = wire[p] /\ applied'[p] = applied[p],
           Agree(worker'[o], adm'[o], op'[o], disp'[o], wire'[o], applied'[o]), RequestOK(o)',
           maint.st \in Resting => Rested(worker'[o], adm'[o], op'[o]),
           worker[o].pc \in {"dead", "done"} => worker'[o].pc \in {"dead", "done"},
           \A c \in Coordinators :
               coord[c].pc = "observed" /\ coord[c].op = o /\ coord[c].gen = maint.gen /\ coord[c].unchanged =>
                   applied'[o] = applied[o]
    PROVE  IInv'
  <1>1. TypeOK'
    BY Zenon, Facts, TypeSplit DEF OpTypes, TypeOK, MaintType, BarType, CoordType, DispType, WorkerType
  <1>2. MaintOK' /\ PutsOK' /\ \A a \in Agents : BarOK(a)'
    BY Zenon, Facts, SameMaint DEF PutsOK, BarOK
  <1>3. \A c \in Coordinators : CoordOK(c)'
    BY Zenon, Facts, SameMaint DEF CoordOK
  <1>4. ASSUME NEW c \in Coordinators PROVE ObserverOK(c)'
    <2>1. ObserverOK(c)
      BY Zenon, Facts
    <2>2. CASE coord[c].op = o
      BY Zenon, <2>1, <2>2 DEF ObserverOK
    <2>3. CASE coord[c].op # o
      BY Zenon, <2>1, <2>3 DEF ObserverOK
    <2> QED
      BY <2>2, <2>3
  <1>5. ASSUME NEW p \in Ops PROVE OpOK(p)'
    <2>1. CASE p = o
      BY Zenon, <2>1 DEF OpOK
    <2>2. CASE p # o
      <3>1. OpOK(p) /\ /\ worker'[p] = worker[p] /\ adm'[p] = adm[p] /\ op'[p] = op[p]
                       /\ disp'[p] = disp[p] /\ wire'[p] = wire[p] /\ applied'[p] = applied[p]
        BY Zenon, <2>2, Facts
      <3>2. RequestOK(p)'
        BY Zenon, <3>1, SameMaint DEF OpOK, RequestOK, InHandler
      <3> QED
        BY Zenon, <3>1, <3>2 DEF OpOK
    <2> QED
      BY <2>1, <2>2
  <1> QED
    BY Zenon, <1>1, <1>2, <1>3, <1>4, <1>5 DEF IInv

-----------------------------------------------------------------------------
(* Steps of a worker *)

\* A step of a worker that leaves its request alone.
LEMMA WorkerStep ==
    ASSUME IInv, NEW o \in Ops, WorkerOnly, OpTypes',
           \A p \in Ops \ {o} : worker'[p] = worker[p] /\ adm'[p] = adm[p] /\ op'[p] = op[p] /\ disp'[p] = disp[p],
           Agree(worker'[o], adm'[o], op'[o], disp'[o], wire[o], applied[o]),
           worker'[o].pc \in {"gated", "checked", "prepared", "sending"} => WasOpen(worker'[o].gen),
           wire[o] = "none" \/ (worker'[o].gen = worker[o].gen /\ worker'[o].agent = worker[o].agent),
           disp'[o].resolved = disp[o].resolved,
           maint.st \in Resting => Rested(worker'[o], adm'[o], op'[o]),
           worker[o].pc \notin {"dead", "done"} \/ worker'[o] = worker[o]
    PROVE  IInv'
  <1>1. UNCHANGED <<maint, lease, wire, applied, bar, avail, ack, coord, puts>>
    BY Zenon DEF WorkerOnly, agentVars
  <1>2. RequestOK(o)'
    <2>1. RequestOK(o)
      BY Zenon, Facts DEF OpOK
    <2>2. CASE wire[o] = "none"
      BY Zenon, <1>1, <2>2, SameMaint DEF RequestOK, InHandler, Live
    <2>3. CASE worker'[o].gen = worker[o].gen /\ worker'[o].agent = worker[o].agent
      BY Zenon, <1>1, <2>1, <2>3, SameMaint DEF RequestOK, InHandler
    <2> QED
      BY <2>2, <2>3
  <1> QED
    BY Zenon, <1>1, <1>2, OpStep

\* The rows a worker writes.
LEMMA StatusFacts ==
    ASSUME IInv, NEW o \in Ops, NEW s \in Statuses, Status(o, s)
    PROVE  op' \in [Ops -> Statuses] /\ op'[o] = s /\ \A p \in Ops \ {o} : op'[p] = op[p]
  BY Facts DEF Status, OpTypes

LEMMA PhaseFacts ==
    ASSUME IInv, NEW o \in Ops, NEW h \in Phases, Phase(o, h)
    PROVE  /\ disp' \in [Ops -> DispType] /\ disp'[o].phase = h /\ disp'[o].resolved = disp[o].resolved
           /\ \A p \in Ops \ {o} : disp'[p] = disp[p]
  BY Facts DEF Phase, OpTypes, DispType

\* A worker that has no request yet.
LEMMA Before ==
    ASSUME IInv, NEW o \in Ops, worker[o].pc \in {"idle", "admitted", "intent", "gated", "checked", "prepared"}
    PROVE  wire[o] = "none" /\ ~applied[o] /\ ~disp[o].resolved /\ Agree(worker[o], adm[o], op[o], disp[o], wire[o], applied[o])
           /\ (maint.st \in Resting => Rested(worker[o], adm[o], op[o]))
  BY Zenon, Facts DEF OpOK, Agree

LEMMA AdmitStep ==
    ASSUME IInv, NEW o \in Ops, Admit(o)
    PROVE  IInv'
  <1>1. /\ worker[o].pc = "idle" /\ maint.st = "OPEN" /\ adm' = [adm EXCEPT ![o] = "held"] /\ Go(o, "admitted")
        /\ UNCHANGED <<op, disp>> /\ WorkerOnly
    BY Zenon DEF Admit
  <1>2. "admitted" \in WorkerSteps
    BY DEF WorkerSteps, Alive
  <1>3. /\ worker' \in [Ops -> WorkerType]
        /\ worker'[o].pc = "admitted" /\ worker'[o].gen = worker[o].gen /\ worker'[o].agent = worker[o].agent
        /\ \A p \in Ops \ {o} : worker'[p] = worker[p]
    BY Zenon, <1>1, <1>2, GoFacts
  <1>4. adm' \in [Ops -> {"none", "held", "resolved"}] /\ adm'[o] = "held" /\ \A p \in Ops \ {o} : adm'[p] = adm[p]
    BY <1>1, Facts DEF OpTypes
  <1>5. OpTypes'
    BY Zenon, <1>1, <1>3, <1>4, Facts DEF OpTypes, WorkerOnly
  <1>6. Agree(worker'[o], adm'[o], op'[o], disp'[o], wire[o], applied[o])
    BY <1>1, <1>3, <1>4, Before DEF Agree, Alive, Live
  <1>7. maint.st \notin Resting /\ worker'[o].pc \notin {"gated", "checked", "prepared", "sending"}
    BY <1>1, <1>3 DEF Resting
  <1>8. /\ worker[o].pc \notin {"dead", "done"} /\ disp'[o].resolved = disp[o].resolved
        /\ \A p \in Ops \ {o} : worker'[p] = worker[p] /\ adm'[p] = adm[p] /\ op'[p] = op[p] /\ disp'[p] = disp[p]
    BY Zenon, <1>1, <1>3, <1>4
  <1> QED
    BY Zenon, <1>1, <1>3, <1>5, <1>6, <1>7, <1>8, WorkerStep

\* A step of a worker before its request: to the intent, to the journal, or to
\* a decision.
LEMMA EarlyStep ==
    ASSUME IInv, NEW o \in Ops, NEW pc, Go(o, pc), UNCHANGED adm, WorkerOnly,
           worker[o].pc \in {"admitted", "intent", "gated", "checked", "prepared"},
           op' \in [Ops -> Statuses], \A p \in Ops \ {o} : op'[p] = op[p],
           disp' \in [Ops -> DispType], \A p \in Ops \ {o} : disp'[p] = disp[p], disp'[o].resolved = disp[o].resolved,
           \/ pc = "intent" /\ worker[o].pc = "admitted" /\ op'[o] = "ACTIVE"
           \/ pc = "prepared" /\ worker[o].pc = "checked" /\ op'[o] = op[o]
           \/ pc = "decided" /\ op'[o] = "REJECTED"
           \/ pc = "decided" /\ worker[o].pc = "admitted" /\ op'[o] = op[o]
           \/ pc = "decided" /\ worker[o].pc = "gated" /\ op'[o] \in Outcomes
    PROVE  IInv'
  <1>1. pc \in {"intent", "prepared", "decided"} /\ pc \in WorkerSteps
    BY DEF WorkerSteps, Alive
  <1>2. /\ worker' \in [Ops -> WorkerType]
        /\ worker'[o].pc = pc /\ worker'[o].gen = worker[o].gen /\ worker'[o].agent = worker[o].agent
        /\ \A p \in Ops \ {o} : worker'[p] = worker[p]
    BY Zenon, <1>1, GoFacts
  <1>3. OpTypes'
    BY Zenon, <1>2, Facts DEF OpTypes, WorkerOnly
  <1>4. /\ wire[o] = "none" /\ ~applied[o] /\ ~disp[o].resolved
        /\ Agree(worker[o], adm[o], op[o], disp[o], wire[o], applied[o])
        /\ maint.st \in Resting => Rested(worker[o], adm[o], op[o])
    BY Zenon, Before
  <1>5. Agree(worker'[o], adm'[o], op'[o], disp'[o], wire[o], applied[o])
    BY <1>2, <1>4 DEF Agree, Alive, Live, Outcomes
  <1>6. maint.st \in Resting => Rested(worker'[o], adm'[o], op'[o])
    BY <1>2, <1>4 DEF Rested, Agree, Alive, Terminal, Outcomes
  <1>7. worker'[o].pc \in {"gated", "checked", "prepared", "sending"} => WasOpen(worker'[o].gen)
    BY Zenon, <1>1, <1>2, Facts DEF OpOK, RequestOK
  <1> QED
    BY Zenon, <1>2, <1>3, <1>4, <1>5, <1>6, <1>7, WorkerStep

LEMMA PlanFailsStep ==
    ASSUME IInv, NEW o \in Ops, PlanFails(o)
    PROVE  IInv'
  BY Zenon, EarlyStep, Facts DEF PlanFails, OpTypes

LEMMA PersistIntentStep ==
    ASSUME IInv, NEW o \in Ops, PersistIntent(o)
    PROVE  IInv'
  <1>1. "ACTIVE" \in Statuses
    BY DEF Statuses
  <1> QED
    BY Zenon, <1>1, EarlyStep, StatusFacts, Facts DEF PersistIntent, OpTypes

\* A rejection before anything was sent, whatever became of the journal row.
LEMMA RejectStep ==
    ASSUME IInv, NEW o \in Ops, Reject(o), UNCHANGED adm, WorkerOnly,
           worker[o].pc \in {"admitted", "intent", "gated", "checked", "prepared"},
           UNCHANGED disp \/ \E h \in Phases : Phase(o, h)
    PROVE  IInv'
  <1>1. "REJECTED" \in Statuses
    BY DEF Statuses, Terminal
  <1>2. op' \in [Ops -> Statuses] /\ op'[o] = "REJECTED" /\ \A p \in Ops \ {o} : op'[p] = op[p]
    BY Zenon, <1>1, StatusFacts DEF Reject
  <1>3. /\ disp' \in [Ops -> DispType] /\ disp'[o].resolved = disp[o].resolved
        /\ \A p \in Ops \ {o} : disp'[p] = disp[p]
    BY Zenon, PhaseFacts, Facts DEF OpTypes
  <1> QED
    BY Zenon, <1>2, <1>3, EarlyStep DEF Reject

LEMMA NoAgentStep ==
    ASSUME IInv, NEW o \in Ops, NoAgent(o)
    PROVE  IInv'
  <1>1. Outcomes \subseteq Statuses
    BY DEF Outcomes, Statuses, Terminal
  <1>2. PICK s \in Outcomes : Status(o, s)
    BY Zenon DEF NoAgent
  <1>3. op' \in [Ops -> Statuses] /\ op'[o] \in Outcomes /\ \A p \in Ops \ {o} : op'[p] = op[p]
    BY Zenon, <1>1, <1>2, StatusFacts
  <1> QED
    BY Zenon, <1>3, EarlyStep, Facts DEF NoAgent, OpTypes

\* The generation a worker goes on with is the one at which the cluster is OPEN.
LEMMA ReadGenerationStep ==
    ASSUME IInv, NEW o \in Ops, ReadGeneration(o)
    PROVE  IInv'
  <1>1. worker[o].pc = "intent" /\ UNCHANGED <<adm, disp>> /\ WorkerOnly
    BY Zenon DEF ReadGeneration
  <1>2. CASE Reject(o)
    BY Zenon, <1>1, <1>2, RejectStep
  <1>3. CASE /\ maint.st = "OPEN" /\ worker' = [worker EXCEPT ![o].pc = "gated", ![o].gen = maint.gen]
             /\ UNCHANGED op
    <2>1. /\ worker' \in [Ops -> WorkerType]
          /\ worker'[o].pc = "gated" /\ worker'[o].gen = maint.gen /\ worker'[o].agent = worker[o].agent
          /\ \A p \in Ops \ {o} : worker'[p] = worker[p]
      BY Zenon, <1>3, Facts DEF OpTypes, WorkerType, MaintType, WorkerSteps, Alive
    <2>2. OpTypes'
      BY Zenon, <1>1, <1>3, <2>1, Facts DEF OpTypes, WorkerOnly
    <2>3. wire[o] = "none" /\ Agree(worker[o], adm[o], op[o], disp[o], wire[o], applied[o])
      BY Zenon, <1>1, Before
    <2>4. Agree(worker'[o], adm'[o], op'[o], disp'[o], wire[o], applied[o])
      BY <1>1, <1>3, <2>1, <2>3 DEF Agree, Alive, Live
    <2>5. WasOpen(maint.gen)
      BY <1>3, Facts, Numbers DEF WasOpen, Opened, MaintOK
    <2>6. maint.st \notin Resting
      BY <1>3 DEF Resting
    <2> QED
      BY Zenon, <1>1, <1>3, <2>1, <2>2, <2>3, <2>4, <2>5, <2>6, WorkerStep
  <1> QED
    BY Zenon, <1>2, <1>3 DEF ReadGeneration

LEMMA CheckBarrierStep ==
    ASSUME IInv, NEW o \in Ops, CheckBarrier(o)
    PROVE  IInv'
  <1>1. worker[o].pc = "gated" /\ UNCHANGED <<adm, disp>> /\ WorkerOnly
    BY Zenon DEF CheckBarrier
  <1>2. CASE Reject(o)
    BY Zenon, <1>1, <1>2, RejectStep
  <1>3. ASSUME NEW a \in Agents, worker' = [worker EXCEPT ![o].pc = "checked", ![o].agent = a], UNCHANGED op
        PROVE  IInv'
    <2>1. /\ worker' \in [Ops -> WorkerType]
          /\ worker'[o].pc = "checked" /\ worker'[o].gen = worker[o].gen /\ worker'[o].agent = a
          /\ \A p \in Ops \ {o} : worker'[p] = worker[p]
      BY Zenon, <1>3, Facts DEF OpTypes, WorkerType, WorkerSteps, Alive
    <2>2. OpTypes'
      BY Zenon, <1>1, <1>3, <2>1, Facts DEF OpTypes, WorkerOnly
    <2>3. /\ wire[o] = "none" /\ Agree(worker[o], adm[o], op[o], disp[o], wire[o], applied[o])
          /\ maint.st \in Resting => Rested(worker[o], adm[o], op[o])
      BY Zenon, <1>1, Before
    <2>4. Agree(worker'[o], adm'[o], op'[o], disp'[o], wire[o], applied[o])
      BY <1>1, <1>3, <2>1, <2>3 DEF Agree, Alive, Live
    <2>5. WasOpen(worker'[o].gen)
      BY Zenon, <1>1, <2>1, Facts DEF OpOK, RequestOK
    <2>6. maint.st \notin Resting
      BY <1>1, <2>3 DEF Rested, Agree, Terminal, Alive
    <2>7. \A p \in Ops \ {o} : worker'[p] = worker[p] /\ adm'[p] = adm[p] /\ op'[p] = op[p] /\ disp'[p] = disp[p]
      BY Zenon, <1>1, <1>3, <2>1
    <2>8. disp'[o].resolved = disp[o].resolved /\ worker[o].pc \notin {"dead", "done"}
      BY <1>1
    <2> QED
      BY Zenon, <1>1, <2>2, <2>3, <2>4, <2>5, <2>6, <2>7, <2>8, WorkerStep
  <1> QED
    BY Zenon, <1>2, <1>3 DEF CheckBarrier

LEMMA PrepareStep ==
    ASSUME IInv, NEW o \in Ops, Prepare(o)
    PROVE  IInv'
  <1>1. worker[o].pc = "checked" /\ UNCHANGED adm /\ WorkerOnly /\ "PREPARED" \in Phases
    BY DEF Prepare, Phases
  <1>2. CASE Reject(o) /\ (UNCHANGED disp \/ Phase(o, "PREPARED"))
    BY Zenon, <1>1, <1>2, RejectStep
  <1>3. CASE Phase(o, "PREPARED") /\ Go(o, "prepared") /\ UNCHANGED op
    BY Zenon, <1>1, <1>3, PhaseFacts, EarlyStep, Facts DEF OpTypes
  <1> QED
    BY Zenon, <1>2, <1>3 DEF Prepare

LEMMA BeginSendFailsStep ==
    ASSUME IInv, NEW o \in Ops, BeginSendFails(o)
    PROVE  IInv'
  <1>1. "REJECTED" \in Phases /\ "SENDING" \in Phases
    BY DEF Phases
  <1> QED
    BY Zenon, <1>1, RejectStep DEF BeginSendFails

\* SENDING is committed while the cluster is OPEN at the worker's generation.
LEMMA BeginSendStep ==
    ASSUME IInv, NEW o \in Ops, BeginSend(o)
    PROVE  IInv'
  <1>1. /\ worker[o].pc = "prepared" /\ maint = [st |-> "OPEN", gen |-> worker[o].gen]
        /\ Phase(o, "SENDING") /\ wire' = [wire EXCEPT ![o] = "sent"] /\ Go(o, "sending")
        /\ UNCHANGED <<maint, lease, adm, op, applied, bar, avail, ack, coord, puts>>
    BY Zenon DEF BeginSend, agentVars
  <1>2. "SENDING" \in Phases /\ "sending" \in WorkerSteps /\ "sent" \in Wires
    BY DEF Phases, WorkerSteps, Alive, Wires
  <1>3. /\ worker' \in [Ops -> WorkerType]
        /\ worker'[o].pc = "sending" /\ worker'[o].gen = worker[o].gen /\ worker'[o].agent = worker[o].agent
        /\ \A p \in Ops \ {o} : worker'[p] = worker[p]
    BY Zenon, <1>1, <1>2, GoFacts
  <1>4. /\ disp' \in [Ops -> DispType] /\ disp'[o].phase = "SENDING" /\ disp'[o].resolved = disp[o].resolved
        /\ \A p \in Ops \ {o} : disp'[p] = disp[p]
    BY Zenon, <1>1, <1>2, PhaseFacts
  <1>5. wire' \in [Ops -> Wires] /\ wire'[o] = "sent" /\ \A p \in Ops \ {o} : wire'[p] = wire[p]
    BY <1>1, <1>2, Facts DEF OpTypes
  <1>6. OpTypes'
    BY Zenon, <1>1, <1>3, <1>4, <1>5, Facts DEF OpTypes
  <1>7. ~disp[o].resolved /\ Agree(worker[o], adm[o], op[o], disp[o], wire[o], applied[o])
    BY Zenon, <1>1, Before
  <1>8. Agree(worker'[o], adm'[o], op'[o], disp'[o], wire'[o], applied'[o])
    BY <1>1, <1>3, <1>4, <1>5, <1>7 DEF Agree, Alive, Live
  <1>9. WasOpen(worker[o].gen)
    BY Zenon, <1>1, Facts DEF OpOK, RequestOK
  <1>10. RequestOK(o)'
    BY Zenon, <1>1, <1>3, <1>4, <1>5, <1>7, <1>9, SameMaint DEF RequestOK, InHandler
  <1>11. maint.st \notin Resting
    BY <1>1 DEF Resting
  <1> QED
    BY Zenon, <1>1, <1>3, <1>4, <1>5, <1>6, <1>8, <1>10, <1>11, OpStep

\* What is known of an operation, taken apart.
LEMMA OpFacts ==
    ASSUME IInv, NEW o \in Ops
    PROVE  /\ Agree(worker[o], adm[o], op[o], disp[o], wire[o], applied[o]) /\ RequestOK(o)
           /\ maint.st \in Resting => Rested(worker[o], adm[o], op[o])
  BY Zenon, Facts DEF OpOK

\* The worker decides what to record, and its request is over or unheard.
LEMMA DecideStep ==
    ASSUME IInv, NEW o \in Ops, worker[o].pc = "sending", Go(o, "decided"),
           UNCHANGED <<maint, lease, adm, applied, bar, avail, ack, coord, puts>>,
           NEW s \in Outcomes \cup {"REJECTED"}, Status(o, s), s = "REJECTED" => wire[o] = "rejected",
           NEW w \in Wires, wire' = [wire EXCEPT ![o] = w], w = "over" \/ w = wire[o], w \notin {"ok", "rejected"},
           UNCHANGED disp \/ (\E h \in Phases : Phase(o, h) /\ (w \in Live => h = "UNCERTAIN"))
    PROVE  IInv'
  <1>1. "decided" \in WorkerSteps /\ s \in Statuses
    BY DEF WorkerSteps, Alive, Outcomes, Statuses, Terminal
  <1>2. /\ worker' \in [Ops -> WorkerType]
        /\ worker'[o].pc = "decided" /\ worker'[o].gen = worker[o].gen /\ worker'[o].agent = worker[o].agent
        /\ \A p \in Ops \ {o} : worker'[p] = worker[p]
    BY Zenon, <1>1, GoFacts
  <1>3. op' \in [Ops -> Statuses] /\ op'[o] = s /\ \A p \in Ops \ {o} : op'[p] = op[p]
    BY Zenon, <1>1, StatusFacts
  <1>4. /\ disp' \in [Ops -> DispType] /\ disp'[o].resolved = disp[o].resolved
        /\ \A p \in Ops \ {o} : disp'[p] = disp[p]
        /\ disp'[o].phase = disp[o].phase \/ (w \in Live => disp'[o].phase = "UNCERTAIN")
    BY Zenon, PhaseFacts, Facts DEF OpTypes
  <1>5. wire' \in [Ops -> Wires] /\ wire'[o] = w /\ \A p \in Ops \ {o} : wire'[p] = wire[p]
    BY Facts DEF OpTypes
  <1>6. OpTypes'
    BY Zenon, <1>2, <1>3, <1>4, <1>5, Facts DEF OpTypes
  <1>7. /\ Agree(worker[o], adm[o], op[o], disp[o], wire[o], applied[o]) /\ RequestOK(o)
        /\ maint.st \in Resting => Rested(worker[o], adm[o], op[o])
    BY Zenon, OpFacts
  <1>8. Agree(worker'[o], adm'[o], op'[o], disp'[o], wire'[o], applied'[o])
    BY <1>2, <1>3, <1>4, <1>5, <1>7 DEF Agree, Alive, Live, Outcomes
  <1>9. RequestOK(o)'
    <2>1. CASE w = "over"
      BY Zenon, <1>2, <1>5, <1>7, <2>1, SameMaint DEF RequestOK, InHandler, Live
    <2>2. CASE w = wire[o]
      BY Zenon, <1>2, <1>4, <1>5, <1>7, <2>2, SameMaint DEF RequestOK, InHandler
    <2> QED
      BY <2>1, <2>2
  <1>10. maint.st \notin Resting
    BY <1>7 DEF Rested, Agree, Terminal, Alive
  <1> QED
    BY Zenon, <1>2, <1>3, <1>4, <1>5, <1>6, <1>8, <1>9, <1>10, OpStep

LEMMA AnsweredStep ==
    ASSUME IInv, NEW o \in Ops, Answered(o)
    PROVE  IInv'
  <1>1. /\ worker[o].pc = "sending" /\ wire' = [wire EXCEPT ![o] = "over"]
        /\ UNCHANGED <<maint, lease, adm, applied, bar, avail, ack, coord, puts>>
        /\ "over" \in Wires /\ "ACKNOWLEDGED" \in Phases /\ "REJECTED" \in Phases /\ "over" \notin Live
    BY DEF Answered, agentVars, Wires, Phases, Live
  <1>2. CASE /\ wire[o] = "ok" /\ (Phase(o, "ACKNOWLEDGED") \/ UNCHANGED disp)
             /\ \E s \in Outcomes : Status(o, s) /\ Go(o, "decided")
    <2>1. PICK s \in Outcomes : Status(o, s) /\ Go(o, "decided") /\ s # "REJECTED"
      BY <1>2 DEF Outcomes
    <2> QED
      BY Zenon, <1>1, <1>2, <2>1, DecideStep
  <1>3. CASE wire[o] = "rejected" /\ (Phase(o, "REJECTED") \/ UNCHANGED disp) /\ Reject(o)
    BY Zenon, <1>1, <1>3, DecideStep DEF Reject
  <1> QED
    BY Zenon, <1>2, <1>3 DEF Answered

LEMMA NoAnswerStep ==
    ASSUME IInv, NEW o \in Ops, NoAnswer(o)
    PROVE  IInv'
  <1>1. /\ worker[o].pc = "sending" /\ wire' = [wire EXCEPT ![o] = Unheard(wire[o])]
        /\ UNCHANGED <<maint, lease, adm, applied, bar, avail, ack, coord, puts>>
        /\ Phase(o, "UNCERTAIN") \/ UNCHANGED disp
        /\ Go(o, "decided") /\ "UNCERTAIN" \in Phases
    BY DEF NoAnswer, agentVars, Phases
  <1>2. PICK s \in Outcomes : Status(o, s)
    BY Zenon DEF NoAnswer
  <1>3. s # "REJECTED"
    BY DEF Outcomes
  <1>4. /\ Unheard(wire[o]) \in Wires /\ (Unheard(wire[o]) = "over" \/ Unheard(wire[o]) = wire[o])
        /\ Unheard(wire[o]) \notin {"ok", "rejected"}
    BY Facts DEF OpTypes, Unheard, Wires
  <1> QED
    BY Zenon, <1>1, <1>2, <1>3, <1>4, DecideStep

LEMMA ReleaseStep ==
    ASSUME IInv, NEW o \in Ops, Release(o)
    PROVE  IInv'
  <1>1. /\ worker[o].pc = "decided" /\ adm' \in {adm, [adm EXCEPT ![o] = "none"]} /\ Go(o, "done")
        /\ UNCHANGED <<op, disp>> /\ WorkerOnly /\ "done" \in WorkerSteps
    BY DEF Release, WorkerSteps
  <1>2. /\ worker' \in [Ops -> WorkerType]
        /\ worker'[o].pc = "done" /\ worker'[o].gen = worker[o].gen /\ worker'[o].agent = worker[o].agent
        /\ \A p \in Ops \ {o} : worker'[p] = worker[p]
    BY Zenon, <1>1, GoFacts
  <1>3. adm' \in [Ops -> {"none", "held", "resolved"}] /\ \A p \in Ops \ {o} : adm'[p] = adm[p]
    BY <1>1, Facts DEF OpTypes
  <1>4. OpTypes'
    BY Zenon, <1>1, <1>2, <1>3, Facts DEF OpTypes, WorkerOnly
  <1>5. /\ Agree(worker[o], adm[o], op[o], disp[o], wire[o], applied[o])
        /\ maint.st \in Resting => Rested(worker[o], adm[o], op[o])
    BY Zenon, OpFacts
  <1>6. Agree(worker'[o], adm'[o], op'[o], disp'[o], wire[o], applied[o])
    BY <1>1, <1>2, <1>5 DEF Agree, Alive, Live
  <1>7. maint.st \in Resting => Rested(worker'[o], adm'[o], op'[o])
    BY <1>1, <1>2, <1>5 DEF Rested, Alive
  <1> QED
    BY Zenon, <1>1, <1>2, <1>3, <1>4, <1>6, <1>7, WorkerStep

\* What was on its way stays on its way.
LEMMA WorkerDiesStep ==
    ASSUME IInv, NEW o \in Ops, WorkerDies(o)
    PROVE  IInv'
  <1> DEFINE w == Unheard(wire[o])
  <1>1. /\ worker[o].pc \in Alive /\ Go(o, "dead") /\ wire' = [wire EXCEPT ![o] = w] /\ "dead" \in WorkerSteps
        /\ UNCHANGED <<maint, lease, adm, op, disp, applied, bar, avail, ack, coord, puts>>
    BY DEF WorkerDies, agentVars, WorkerSteps
  <1>2. w \in Wires /\ (w = wire[o] \/ (w = "over" /\ wire[o] \in {"ok", "rejected"})) /\ w \notin {"ok", "rejected"}
    BY Facts DEF OpTypes, Unheard, Wires
  <1> HIDE DEF w
  <1>3. /\ worker' \in [Ops -> WorkerType]
        /\ worker'[o].pc = "dead" /\ worker'[o].gen = worker[o].gen /\ worker'[o].agent = worker[o].agent
        /\ \A p \in Ops \ {o} : worker'[p] = worker[p]
    BY Zenon, <1>1, GoFacts
  <1>4. wire' \in [Ops -> Wires] /\ wire'[o] = w /\ \A p \in Ops \ {o} : wire'[p] = wire[p]
    BY <1>1, <1>2, Facts DEF OpTypes
  <1>5. OpTypes'
    BY Zenon, <1>1, <1>3, <1>4, Facts DEF OpTypes
  <1>6. /\ Agree(worker[o], adm[o], op[o], disp[o], wire[o], applied[o]) /\ RequestOK(o)
        /\ maint.st \in Resting => Rested(worker[o], adm[o], op[o])
    BY Zenon, OpFacts
  <1>7. Agree(worker'[o], adm'[o], op'[o], disp'[o], wire'[o], applied'[o])
    BY <1>1, <1>2, <1>3, <1>4, <1>6 DEF Agree, Alive, Live
  <1>8. RequestOK(o)'
    <2>1. CASE w = wire[o]
      BY Zenon, <1>1, <1>3, <1>4, <1>6, <2>1, SameMaint DEF RequestOK, InHandler
    <2>2. CASE w = "over" /\ wire[o] \in {"ok", "rejected"}
      BY Zenon, <1>1, <1>3, <1>4, <1>6, <2>2, SameMaint DEF RequestOK, InHandler, Live
    <2> QED
      BY <1>2, <2>1, <2>2
  <1>9. maint.st \in Resting => Rested(worker'[o], adm'[o], op'[o])
    BY <1>1, <1>3, <1>6 DEF Rested, Alive
  <1> QED
    BY Zenon, <1>1, <1>3, <1>4, <1>5, <1>7, <1>8, <1>9, OpStep

LEMMA ReconcileStep ==
    ASSUME IInv, NEW o \in Ops, Reconcile(o)
    PROVE  IInv'
  <1>1. /\ worker[o].pc \notin Alive /\ op[o] \notin Terminal \cup {"none"}
        /\ UNCHANGED <<adm, disp, worker>> /\ WorkerOnly
    BY Zenon DEF Reconcile, ResourceFree
  <1>2. PICK s \in Outcomes : Status(o, s)
    BY Zenon DEF Reconcile
  <1>3. s \in Statuses
    BY DEF Outcomes, Statuses, Terminal
  <1>4. op' \in [Ops -> Statuses] /\ op'[o] = s /\ \A p \in Ops \ {o} : op'[p] = op[p]
    BY Zenon, <1>2, <1>3, StatusFacts
  <1>5. OpTypes'
    BY Zenon, <1>1, <1>4, Facts DEF OpTypes, WorkerOnly
  <1>6. /\ Agree(worker[o], adm[o], op[o], disp[o], wire[o], applied[o])
        /\ maint.st \in Resting => Rested(worker[o], adm[o], op[o])
    BY Zenon, OpFacts
  <1>7. worker[o].pc \in {"dead", "done"}
    BY <1>1, <1>6, Facts DEF Agree, OpTypes, WorkerType, WorkerSteps
  <1>8. Agree(worker'[o], adm'[o], op'[o], disp'[o], wire[o], applied[o])
    BY <1>1, <1>4, <1>6, <1>7 DEF Agree, Alive, Live, Outcomes
  <1>9. maint.st \in Resting => Rested(worker'[o], adm'[o], op'[o])
    BY <1>1, <1>4, <1>6, <1>7 DEF Rested, Alive
  <1> QED
    BY Zenon, <1>1, <1>4, <1>5, <1>7, <1>8, <1>9, WorkerStep

-----------------------------------------------------------------------------
(* Steps of a request at its Agent *)

LEMMA RequestStep ==
    ASSUME IInv, NEW o \in Ops, NEW w \in Wires, Wire(o, w), AgentOnly, UNCHANGED <<bar, avail>>, wire[o] \in Live,
           applied' \in [Ops -> BOOLEAN], \A p \in Ops \ {o} : applied'[p] = applied[p],
           w \in Live \/ (w = "over" /\ applied'[o] = applied[o]) \/ (w = "rejected" /\ worker[o].pc = "sending" /\ ~applied'[o])
             \/ (w = "ok" /\ worker[o].pc = "sending"),
           applied'[o] => w \in {"updated", "ok", "over"},
           applied'[o] = applied[o] \/ wire[o] = "running",
           w \in {"running", "updated"} => bar[worker[o].agent] = [gen |-> worker[o].gen, st |-> "OPEN"]
    PROVE  IInv'
  <1>1. UNCHANGED <<maint, lease, adm, op, disp, worker, bar, avail, ack, coord, puts>>
    BY Zenon DEF AgentOnly, cpVars
  <1>2. wire' \in [Ops -> Wires] /\ wire'[o] = w /\ \A p \in Ops \ {o} : wire'[p] = wire[p]
    BY Facts DEF OpTypes, Wire
  <1>3. OpTypes'
    BY Zenon, <1>1, <1>2, Facts DEF OpTypes
  <1>4. /\ Agree(worker[o], adm[o], op[o], disp[o], wire[o], applied[o]) /\ RequestOK(o)
        /\ maint.st \in Resting => Rested(worker[o], adm[o], op[o])
    BY Zenon, OpFacts
  \* A request that runs was not resolved, and is not seen by a resolver that
  \* could still use what it observed.
  <1>5. wire[o] = "running" =>
            /\ worker[o].agent \in Agents /\ WasOpen(worker[o].gen)
            /\ bar[worker[o].agent].gen = worker[o].gen /\ ~disp[o].resolved
    <2>1. SUFFICES ASSUME wire[o] = "running"
                   PROVE  /\ worker[o].agent \in Agents /\ WasOpen(worker[o].gen)
                          /\ bar[worker[o].agent].gen = worker[o].gen /\ ~disp[o].resolved
      OBVIOUS
    <2>2. worker[o].agent \in Agents /\ WasOpen(worker[o].gen)
      BY Zenon, <1>4, <2>1 DEF Agree, RequestOK
    <2>3. bar[worker[o].agent].gen = worker[o].gen
      BY <1>4, <2>1 DEF RequestOK, InHandler
    <2>4. disp[o].resolved => worker[o].gen < bar[worker[o].agent].gen
      BY Zenon, <1>4, <2>1 DEF RequestOK
    <2> QED
      BY <2>2, <2>3, <2>4, Numbers
  <1>6. Agree(worker'[o], adm'[o], op'[o], disp'[o], wire'[o], applied'[o])
    BY <1>1, <1>2, <1>4, <1>5 DEF Agree, Live
  <1>7. RequestOK(o)'
    BY Zenon, <1>1, <1>2, <1>4, SameMaint DEF RequestOK, InHandler, Live
  <1>8. ASSUME NEW c \in Coordinators, coord[c].pc = "observed", coord[c].gen = maint.gen, wire[o] = "running"
        PROVE  FALSE
    <2>1. /\ maint.st \in Closing /\ \A a \in Agents : maint.gen <= bar[a].gen
      BY Zenon, <1>8, Facts DEF CoordOK, Blocked
    <2>2. maint.gen <= worker[o].gen
      BY Zenon, <1>5, <1>8, <2>1
    <2>3. worker[o].gen <= Opened /\ Opened < maint.gen
      BY <1>5, <1>8, <2>1, Numbers DEF WasOpen, Opened, Closing
    <2> QED
      BY <2>2, <2>3, Numbers
  <1> QED
    BY Zenon, <1>1, <1>2, <1>3, <1>4, <1>6, <1>7, <1>8, OpStep

\* How an answer reaches its worker, or does not.
LEMMA AnswerFacts ==
    ASSUME NEW o \in Ops, NEW x \in {"ok", "rejected", "over"}, Answer(o, x)
    PROVE  \E w \in Wires : Wire(o, w) /\ (w = "over" \/ (w = x /\ worker[o].pc = "sending"))
  BY DEF Answer, Wires

LEMMA ArriveStep ==
    ASSUME IInv, NEW o \in Ops, Arrive(o)
    PROVE  IInv'
  <1>1. /\ wire[o] = "sent" /\ applied' = applied /\ UNCHANGED <<bar, avail>> /\ AgentOnly
        /\ \/ bar[worker[o].agent] = [gen |-> worker[o].gen, st |-> "OPEN"] /\ Wire(o, "running")
           \/ Answer(o, "rejected") \/ Wire(o, "over")
    BY Zenon DEF Arrive, agentVars
  <1>2. wire[o] \in Live /\ applied' \in [Ops -> BOOLEAN] /\ (\A p \in Ops \ {o} : applied'[p] = applied[p]) /\ ~applied'[o]
    BY <1>1, Facts, OpFacts DEF OpTypes, Live, Agree
  <1>3. CASE bar[worker[o].agent] = [gen |-> worker[o].gen, st |-> "OPEN"] /\ Wire(o, "running")
    <2>1. "running" \in Wires /\ "running" \in Live
      BY DEF Wires, Live
    <2> QED
      BY Zenon, <1>1, <1>2, <1>3, <2>1, RequestStep
  <1>4. CASE Answer(o, "rejected") \/ Wire(o, "over")
    <2>1. PICK w \in Wires : Wire(o, w) /\ (w = "over" \/ (w = "rejected" /\ worker[o].pc = "sending"))
      BY Zenon, <1>4, AnswerFacts DEF Wires
    <2>2. w \notin {"running", "updated"}
      BY <2>1
    <2> QED
      BY Zenon, <1>1, <1>2, <2>1, <2>2, RequestStep
  <1> QED
    BY <1>1, <1>3, <1>4

LEMMA UpdateStep ==
    ASSUME IInv, NEW o \in Ops, Update(o)
    PROVE  IInv'
  <1>1. /\ wire[o] = "running" /\ applied' = [applied EXCEPT ![o] = TRUE] /\ UNCHANGED <<bar, avail>> /\ AgentOnly
        /\ Wire(o, "updated")
    BY Zenon DEF Update, agentVars
  <1>2. /\ wire[o] \in Live /\ "updated" \in Wires /\ "updated" \in Live
        /\ applied' \in [Ops -> BOOLEAN] /\ \A p \in Ops \ {o} : applied'[p] = applied[p]
    BY <1>1, Facts DEF OpTypes, Live, Wires
  <1>3. bar[worker[o].agent] = [gen |-> worker[o].gen, st |-> "OPEN"]
    BY <1>1, OpFacts DEF RequestOK, InHandler
  <1> QED
    BY Zenon, <1>1, <1>2, <1>3, RequestStep

LEMMA HandlerReturnsStep ==
    ASSUME IInv, NEW o \in Ops, HandlerReturns(o)
    PROVE  IInv'
  <1>1. /\ applied' = applied /\ UNCHANGED <<bar, avail>> /\ AgentOnly
        /\ \/ wire[o] = "running" /\ \E x \in {"rejected", "over"} : Answer(o, x)
           \/ wire[o] = "updated" /\ \E x \in {"ok", "over"} : Answer(o, x)
    BY Zenon DEF HandlerReturns, agentVars
  <1>2. wire[o] \in Live /\ applied' \in [Ops -> BOOLEAN] /\ \A p \in Ops \ {o} : applied'[p] = applied[p]
    BY <1>1, Facts DEF OpTypes, Live
  <1>3. wire[o] = "running" => ~applied'[o]
    BY <1>1, OpFacts DEF Agree
  <1>4. PICK w \in Wires : /\ Wire(o, w)
                           /\ \/ w = "over"
                              \/ w = "rejected" /\ worker[o].pc = "sending" /\ wire[o] = "running"
                              \/ w = "ok" /\ worker[o].pc = "sending"
    BY Zenon, <1>1, AnswerFacts
  <1>5. w \notin {"running", "updated"} /\ (applied'[o] => w \in {"ok", "over"})
    BY <1>3, <1>4
  <1> QED
    BY Zenon, <1>1, <1>2, <1>3, <1>4, <1>5, RequestStep

\* The handlers of an Agent end with it.
LEMMA AgentStep ==
    ASSUME IInv, AgentOnly, UNCHANGED <<bar, applied>>, avail' \in [Agents -> BOOLEAN], wire' \in [Ops -> Wires],
           \A o \in Ops : wire'[o] = wire[o] \/ (InHandler(o) /\ wire'[o] = "over")
    PROVE  IInv'
  <1>1. UNCHANGED <<maint, lease, adm, op, disp, worker, applied, bar, ack, coord, puts>>
    BY Zenon DEF AgentOnly, cpVars
  <1>2. OpTypes'
    BY Zenon, <1>1, Facts DEF OpTypes
  <1>3. TypeOK'
    BY Zenon, <1>1, <1>2, Facts, TypeSplit DEF OpTypes, TypeOK, MaintType, BarType, CoordType, DispType, WorkerType
  <1>4. MaintOK' /\ PutsOK' /\ \A a \in Agents : BarOK(a)'
    BY Zenon, <1>1, Facts, SameMaint DEF PutsOK, BarOK
  <1>5. \A c \in Coordinators : CoordOK(c)' /\ ObserverOK(c)'
    BY Zenon, <1>1, Facts, SameMaint DEF CoordOK, ObserverOK
  <1>6. ASSUME NEW o \in Ops PROVE OpOK(o)'
    <2>1. /\ Agree(worker[o], adm[o], op[o], disp[o], wire[o], applied[o]) /\ RequestOK(o)
          /\ maint.st \in Resting => Rested(worker[o], adm[o], op[o])
      BY Zenon, OpFacts
    <2>2. wire'[o] = wire[o] \/ (wire[o] \in {"running", "updated"} /\ wire'[o] = "over")
      BY Zenon DEF InHandler
    <2>3. Agree(worker[o], adm[o], op[o], disp[o], wire'[o], applied[o])
      BY <2>1, <2>2 DEF Agree, Live, Alive
    <2>4. RequestOK(o)'
      <3>1. CASE wire'[o] = wire[o]
        BY Zenon, <1>1, <2>1, <3>1, SameMaint DEF RequestOK, InHandler
      <3>2. CASE wire[o] \in {"running", "updated"} /\ wire'[o] = "over"
        BY Zenon, <1>1, <2>1, <3>2, SameMaint DEF RequestOK, InHandler, Live
      <3> QED
        BY <2>2, <3>1, <3>2
    <2> QED
      BY Zenon, <1>1, <2>1, <2>3, <2>4 DEF OpOK
  <1> QED
    BY Zenon, <1>3, <1>4, <1>5, <1>6 DEF IInv

LEMMA AgentDownStep ==
    ASSUME IInv, NEW a \in Agents, AgentDown(a)
    PROVE  IInv'
  <1>1. /\ avail' = [avail EXCEPT ![a] = FALSE] /\ UNCHANGED <<bar, applied>> /\ AgentOnly
        /\ wire' = [o \in Ops |-> IF InHandler(o) /\ worker[o].agent = a THEN "over" ELSE wire[o]]
    BY Zenon DEF AgentDown
  <1>2. avail' \in [Agents -> BOOLEAN]
    BY <1>1, Facts
  <1>3. \A o \in Ops : wire'[o] = wire[o] \/ (InHandler(o) /\ wire'[o] = "over")
    BY Zenon, <1>1
  <1>4. "over" \in Wires /\ wire \in [Ops -> Wires]
    BY Facts DEF Wires, OpTypes
  <1>5. wire' \in [Ops -> Wires]
    BY <1>1, <1>4
  <1> QED
    BY Zenon, <1>1, <1>2, <1>3, <1>5, AgentStep

LEMMA AgentUpStep ==
    ASSUME IInv, NEW a \in Agents, AgentUp(a)
    PROVE  IInv'
  <1>1. avail' = [avail EXCEPT ![a] = TRUE] /\ UNCHANGED <<bar, applied>> /\ AgentOnly /\ wire' = wire
    BY Zenon DEF AgentUp
  <1>2. avail' \in [Agents -> BOOLEAN]
    BY <1>1, Facts
  <1>3. wire' \in [Ops -> Wires] /\ \A o \in Ops : wire'[o] = wire[o]
    BY Zenon, <1>1, Facts DEF OpTypes
  <1> QED
    BY Zenon, <1>1, <1>2, <1>3, AgentStep

-----------------------------------------------------------------------------
(* Steps of a coordinator *)

\* A step of coordinator c that leaves the maintenance state alone.
LEMMA CoordStep ==
    ASSUME IInv, NEW c \in Coordinators, CoordOnly, maint' = maint, lease' \in Coordinators \cup {None},
           coord' \in [Coordinators -> CoordType], \A d \in Coordinators \ {c} : coord'[d] = coord[d],
           ack' \in [Agents -> 0 .. MaxGen], \A a \in Agents : ack'[a] = ack[a] \/ ack'[a] <= bar[a].gen,
           puts' \subseteq Messages, \A m \in puts' : m \in puts \/ (m.st = "OPEN" => WasOpen(m.gen)),
           CoordOK(c)', ObserverOK(c)'
    PROVE  IInv'
  <1>1. UNCHANGED <<maint, adm, op, disp, worker, wire, applied, bar, avail>>
    BY Zenon DEF CoordOnly, cpVars, agentVars
  <1>2. OpTypes'
    BY Zenon, <1>1, Facts DEF OpTypes
  <1>3. TypeOK'
    BY Zenon, <1>1, <1>2, Facts, TypeSplit DEF OpTypes, TypeOK, MaintType, BarType, CoordType, DispType, WorkerType
  <1>4. MaintOK' /\ PutsOK'
    BY Zenon, <1>1, Facts, SameMaint DEF PutsOK
  <1>5. ASSUME NEW a \in Agents PROVE BarOK(a)'
    <2>1. BarOK(a) /\ ack'[a] <= bar[a].gen
      BY Zenon, Facts DEF BarOK
    <2> QED
      BY Zenon, <1>1, <2>1, SameMaint DEF BarOK
  <1>6. ASSUME NEW d \in Coordinators PROVE CoordOK(d)' /\ ObserverOK(d)'
    <2>1. CASE d = c
      BY Zenon, <2>1
    <2>2. CASE d # c
      <3>1. CoordOK(d) /\ ObserverOK(d) /\ coord'[d] = coord[d]
        BY Zenon, <2>2, Facts
      <3> QED
        BY Zenon, <1>1, <3>1, SameMaint DEF CoordOK, ObserverOK
    <2> QED
      BY <2>1, <2>2
  <1>7. \A o \in Ops : OpOK(o)'
    BY Zenon, <1>1, Facts, SameMaint DEF OpOK, RequestOK, InHandler
  <1> QED
    BY Zenon, <1>3, <1>4, <1>5, <1>6, <1>7 DEF IInv

\* A coordinator that holds nothing over from its request.
LEMMA FreshCoord ==
    ASSUME NEW c, coord'[c].pc \in {"idle", "start"}
    PROVE  CoordOK(c)' /\ ObserverOK(c)'
  <1>1. /\ coord'[c].pc \notin Opening /\ coord'[c].pc \notin Blocking \cup Blocked
        /\ coord'[c].pc \notin {"blockPut", "blockAck"} /\ coord'[c].pc # "blockAck" /\ coord'[c].pc # "observed"
        /\ coord'[c].pc \notin Blocking /\ coord'[c].pc \notin Blocked
    BY DEF Opening, Blocking, Blocked
  <1> QED
    BY Zenon, <1>1 DEF CoordOK, ObserverOK

LEMMA IdleType == IdleCoord \in CoordType /\ [IdleCoord EXCEPT !.pc = "start"] \in CoordType
  <1>1. /\ "idle" \in CoordSteps /\ "start" \in CoordSteps /\ 0 \in 0 .. MaxGen
        /\ {} \in SUBSET Agents /\ FALSE \in BOOLEAN
    BY ConstantsAssumption DEF CoordSteps
  <1>2. IdleCoord \in CoordType
    BY Zenon, <1>1 DEF IdleCoord, CoordType
  <1> QED
    BY <1>1, <1>2 DEF CoordType

LEMMA EndFacts ==
    ASSUME IInv, NEW c \in Coordinators, End(c)
    PROVE  /\ coord' \in [Coordinators -> CoordType] /\ coord'[c].pc = "idle"
           /\ \A d \in Coordinators \ {c} : coord'[d] = coord[d]
           /\ lease' \in Coordinators \cup {None}
  <1>1. coord' = [coord EXCEPT ![c] = IdleCoord] /\ lease' = IF lease = c THEN None ELSE lease
    BY Zenon DEF End
  <1>2. IdleCoord.pc = "idle"
    BY DEF IdleCoord
  <1> QED
    BY <1>1, <1>2, IdleType, Facts

\* The rest of a step that changes nothing but coord and lease.
LEMMA QuietStep ==
    ASSUME IInv, NEW c \in Coordinators, CoordOnly, UNCHANGED <<maint, ack, puts>>, lease' \in Coordinators \cup {None},
           coord' \in [Coordinators -> CoordType], \A d \in Coordinators \ {c} : coord'[d] = coord[d],
           CoordOK(c)', ObserverOK(c)'
    PROVE  IInv'
  BY Zenon, CoordStep, Facts

LEMMA EndStep ==
    ASSUME IInv, NEW c \in Coordinators, End(c), UNCHANGED <<maint, ack, puts>>, CoordOnly
    PROVE  IInv'
  <1>1. /\ coord' \in [Coordinators -> CoordType] /\ coord'[c].pc = "idle"
        /\ \A d \in Coordinators \ {c} : coord'[d] = coord[d]
        /\ lease' \in Coordinators \cup {None}
    BY Zenon, EndFacts
  <1>2. CoordOK(c)' /\ ObserverOK(c)'
    BY <1>1, FreshCoord
  <1> QED
    BY Zenon, <1>1, <1>2, QuietStep

LEMMA AcquireLeaseStep ==
    ASSUME IInv, NEW c \in Coordinators, AcquireLease(c)
    PROVE  IInv'
  <1>1. /\ lease' = c /\ coord' = [coord EXCEPT ![c] = [IdleCoord EXCEPT !.pc = "start"]]
        /\ UNCHANGED <<maint, ack, puts>> /\ CoordOnly
    BY Zenon DEF AcquireLease
  <1>2. [IdleCoord EXCEPT !.pc = "start"].pc = "start"
    BY DEF IdleCoord
  <1>3. /\ coord' \in [Coordinators -> CoordType] /\ coord'[c].pc = "start"
        /\ \A d \in Coordinators \ {c} : coord'[d] = coord[d]
    BY <1>1, <1>2, IdleType, Facts
  <1>4. CoordOK(c)' /\ ObserverOK(c)'
    BY <1>3, FreshCoord
  <1> QED
    BY Zenon, <1>1, <1>3, <1>4, QuietStep

LEMMA GiveUpStep ==
    ASSUME IInv, NEW c \in Coordinators, GiveUp(c)
    PROVE  IInv'
  <1>1. End(c) /\ UNCHANGED <<maint, ack, puts>> /\ CoordOnly
    BY Zenon DEF GiveUp
  <1> QED
    BY Zenon, <1>1, EndStep

LEMMA OpenAllDoneStep ==
    ASSUME IInv, NEW c \in Coordinators, OpenAllDone(c)
    PROVE  IInv'
  <1>1. End(c) /\ UNCHANGED <<maint, ack, puts>> /\ CoordOnly
    BY Zenon DEF OpenAllDone
  <1> QED
    BY Zenon, <1>1, EndStep

LEMMA LeaseExpiresStep ==
    ASSUME IInv, LeaseExpires
    PROVE  IInv'
  <1>1. UNCHANGED <<maint, ack, coord, puts, adm, op, disp, worker, wire, applied, bar, avail>> /\ lease' = None
    BY Zenon DEF LeaseExpires, CoordOnly, cpVars, agentVars
  <1>2. TypeOK'
    BY Zenon, <1>1, Facts, TypeSplit DEF OpTypes, TypeOK, MaintType, BarType, CoordType, DispType, WorkerType
  <1>3. MaintOK' /\ PutsOK' /\ \A a \in Agents : BarOK(a)'
    BY Zenon, <1>1, Facts, SameMaint DEF PutsOK, BarOK
  <1>4. \A c \in Coordinators : CoordOK(c)' /\ ObserverOK(c)'
    BY Zenon, <1>1, Facts, SameMaint DEF CoordOK, ObserverOK
  <1>5. \A o \in Ops : OpOK(o)'
    BY Zenon, <1>1, Facts, SameMaint DEF OpOK, RequestOK, InHandler
  <1> QED
    BY Zenon, <1>2, <1>3, <1>4, <1>5 DEF IInv

\* What a coordinator owes, by the part of the protocol it is in.
LEMMA OpeningCoord ==
    ASSUME NEW c, coord'[c].pc \in Opening, WasOpen(coord[c].gen)'
    PROVE  CoordOK(c)' /\ ObserverOK(c)'
  <1>1. /\ coord'[c].pc \notin Blocking \cup Blocked /\ coord'[c].pc \notin {"blockPut", "blockAck"}
        /\ coord'[c].pc # "blockAck" /\ coord'[c].pc # "observed"
        /\ coord'[c].pc \notin Blocking /\ coord'[c].pc \notin Blocked
    BY DEF Opening, Blocking, Blocked
  <1> QED
    BY Zenon, <1>1 DEF CoordOK, ObserverOK

LEMMA BlockingCoord ==
    ASSUME NEW c, coord'[c].pc \in Blocking,
           1 <= coord'[c].gen, coord'[c].gen <= maint'.gen, coord'[c].gen = maint'.gen => maint'.st \in Closing,
           coord'[c].pc # "blocking" => coord'[c].at \in Agents,
           coord'[c].pc = "blockAck" => coord'[c].gen <= bar'[coord'[c].at].gen,
           \A a \in Agents \ coord'[c].todo : coord'[c].gen <= bar'[a].gen
    PROVE  CoordOK(c)' /\ ObserverOK(c)'
  <1>1. /\ coord'[c].pc \notin Opening /\ coord'[c].pc # "observed" /\ coord'[c].pc \notin Blocked
        /\ (coord'[c].pc \in {"blockPut", "blockAck"} => coord'[c].pc # "blocking")
    BY DEF Opening, Blocking, Blocked
  <1> QED
    BY Zenon, <1>1 DEF CoordOK, ObserverOK

LEMMA BlockedCoord ==
    ASSUME NEW c, coord'[c].pc \in Blocked,
           1 <= coord'[c].gen, coord'[c].gen <= maint'.gen, coord'[c].gen = maint'.gen => maint'.st \in Closing,
           \A a \in Agents : coord'[c].gen <= bar'[a].gen,
           coord'[c].pc = "observed" => ObserverOK(c)'
    PROVE  CoordOK(c)' /\ ObserverOK(c)'
  <1>1. /\ coord'[c].pc \notin Opening /\ coord'[c].pc \notin Blocking
        /\ coord'[c].pc \notin {"blockPut", "blockAck"} /\ coord'[c].pc # "blockAck"
    BY DEF Opening, Blocking, Blocked
  <1>2. CoordOK(c)'
    BY Zenon, <1>1 DEF CoordOK
  <1>3. ObserverOK(c)'
    BY Zenon DEF ObserverOK
  <1> QED
    BY <1>2, <1>3

LEMMA CoordAt ==
    ASSUME IInv, NEW c \in Coordinators, NEW r \in CoordType, coord' = [coord EXCEPT ![c] = r]
    PROVE  /\ coord' \in [Coordinators -> CoordType] /\ coord'[c] = r
           /\ \A d \in Coordinators \ {c} : coord'[d] = coord[d]
  BY Facts

\* A coordinator that turns to all managers.
LEMMA TurnToAll ==
    ASSUME IInv, NEW c \in Coordinators, NEW pc \in CoordSteps, NEW g \in 0 .. MaxGen,
           coord' = [coord EXCEPT ![c].pc = pc, ![c].todo = Agents, ![c].gen = g]
    PROVE  /\ coord' \in [Coordinators -> CoordType]
           /\ coord'[c].pc = pc /\ coord'[c].todo = Agents /\ coord'[c].gen = g
           /\ \A d \in Coordinators \ {c} : coord'[d] = coord[d]
  <1>1. coord \in [Coordinators -> CoordType] /\ coord[c] \in CoordType
    BY Zenon, Facts
  <1>2. PICK r : r = [coord[c] EXCEPT !.pc = pc, !.todo = Agents, !.gen = g]
    OBVIOUS
  <1>3. coord' = [coord EXCEPT ![c] = r]
    BY Zenon, <1>1, <1>2
  <1>4. r \in CoordType /\ r.pc = pc /\ r.todo = Agents /\ r.gen = g
    BY Zenon, <1>1, <1>2 DEF CoordType
  <1> QED
    BY Zenon, <1>3, <1>4, CoordAt

\* A coordinator that is through with a manager.
LEMMA TurnToRest ==
    ASSUME IInv, NEW c \in Coordinators, NEW pc \in CoordSteps, NEW td \in SUBSET Agents,
           coord' = [coord EXCEPT ![c].todo = td, ![c].pc = pc]
    PROVE  /\ coord' \in [Coordinators -> CoordType]
           /\ coord'[c].pc = pc /\ coord'[c].todo = td /\ coord'[c].gen = coord[c].gen
           /\ \A d \in Coordinators \ {c} : coord'[d] = coord[d]
  <1>1. coord \in [Coordinators -> CoordType] /\ coord[c] \in CoordType
    BY Zenon, Facts
  <1>2. PICK r : r = [coord[c] EXCEPT !.todo = td, !.pc = pc]
    OBVIOUS
  <1>3. coord' = [coord EXCEPT ![c] = r]
    BY Zenon, <1>1, <1>2
  <1>4. r \in CoordType /\ r.pc = pc /\ r.todo = td /\ r.gen = coord[c].gen
    BY Zenon, <1>1, <1>2 DEF CoordType
  <1> QED
    BY Zenon, <1>3, <1>4, CoordAt

LEMMA BlockAllStep ==
    ASSUME IInv, NEW c \in Coordinators, BlockAll(c)
    PROVE  IInv'
  <1>1. /\ maint.st \in Closing /\ UNCHANGED <<maint, lease, ack, puts>> /\ CoordOnly /\ bar' = bar
        /\ coord' = [coord EXCEPT ![c].pc = "blocking", ![c].todo = Agents, ![c].gen = maint.gen]
    BY Zenon DEF BlockAll, Closing, CoordOnly, agentVars
  <1>2. "blocking" \in CoordSteps /\ "blocking" \in Blocking /\ maint.gen \in 0 .. MaxGen
    BY Facts DEF CoordSteps, Blocking, MaintType
  <1>3. /\ coord' \in [Coordinators -> CoordType]
        /\ coord'[c].pc = "blocking" /\ coord'[c].todo = Agents /\ coord'[c].gen = maint.gen
        /\ \A d \in Coordinators \ {c} : coord'[d] = coord[d]
    BY Zenon, <1>1, <1>2, TurnToAll
  <1>4. 1 <= maint.gen /\ maint.gen <= maint.gen
    <2>1. maint.st # "NONE"
      BY Zenon DEF BlockAll
    <2> QED
      BY <2>1, Started, Numbers
  <1>5. CoordOK(c)' /\ ObserverOK(c)'
    BY Zenon, <1>1, <1>2, <1>3, <1>4, BlockingCoord
  <1> QED
    BY Zenon, <1>1, <1>3, <1>5, QuietStep, Facts

LEMMA OpenAllStep ==
    ASSUME IInv, NEW c \in Coordinators, OpenAll(c)
    PROVE  IInv'
  <1>1. /\ maint.st = "OPEN" /\ UNCHANGED <<maint, lease, ack, puts>> /\ CoordOnly
        /\ coord' = [coord EXCEPT ![c].pc = "opening", ![c].todo = Agents, ![c].gen = maint.gen]
    BY Zenon DEF OpenAll
  <1>2. "opening" \in CoordSteps /\ "opening" \in Opening /\ maint.gen \in 0 .. MaxGen
    BY Facts DEF CoordSteps, Opening, MaintType
  <1>3. /\ coord' \in [Coordinators -> CoordType]
        /\ coord'[c].pc = "opening" /\ coord'[c].todo = Agents /\ coord'[c].gen = maint.gen
        /\ \A d \in Coordinators \ {c} : coord'[d] = coord[d]
    BY Zenon, <1>1, <1>2, TurnToAll
  <1>4. WasOpen(maint.gen)
    <2>1. maint.st = "OPEN"
      BY Zenon DEF OpenAll
    <2> QED
      BY <2>1, Started, Numbers DEF WasOpen, Opened
  <1>5. WasOpen(coord[c].gen)'
    BY Zenon, <1>1, <1>3, <1>4, SameMaint DEF WasOpen
  <1>6. CoordOK(c)' /\ ObserverOK(c)'
    BY <1>2, <1>3, <1>5, OpeningCoord
  <1> QED
    BY Zenon, <1>1, <1>3, <1>6, QuietStep, Facts

LEMMA BlockAllDoneStep ==
    ASSUME IInv, NEW c \in Coordinators, BlockAllDone(c)
    PROVE  IInv'
  <1>1. /\ coord[c].pc = "blockCheck" /\ UNCHANGED <<maint, lease, ack, puts>> /\ CoordOnly /\ bar' = bar
        /\ coord' = [coord EXCEPT ![c].pc = "commit"]
    BY Zenon DEF BlockAllDone, Step, CoordOnly, agentVars
  <1>2. "commit" \in CoordSteps /\ "commit" \in Blocked /\ "blockCheck" \in Blocked
    BY DEF CoordSteps, Blocked
  <1>3. /\ coord' \in [Coordinators -> CoordType] /\ coord'[c].pc = "commit" /\ coord'[c].gen = coord[c].gen
        /\ \A d \in Coordinators \ {c} : coord'[d] = coord[d]
    BY <1>1, <1>2, Facts DEF CoordType
  <1>4. /\ 1 <= coord[c].gen /\ coord[c].gen <= maint.gen /\ (coord[c].gen = maint.gen => maint.st \in Closing)
        /\ \A a \in Agents : coord[c].gen <= bar[a].gen
    BY Zenon, <1>1, <1>2, Facts DEF CoordOK
  <1>5. coord'[c].pc \in Blocked /\ coord'[c].pc # "observed"
    BY <1>2, <1>3
  <1>6. CoordOK(c)' /\ ObserverOK(c)'
    BY Zenon, <1>1, <1>3, <1>4, <1>5, BlockedCoord
  <1> QED
    BY Zenon, <1>1, <1>3, <1>6, QuietStep, Facts

LEMMA SendPutStep ==
    ASSUME IInv, NEW c \in Coordinators, SendPut(c)
    PROVE  IInv'
  <1>1. UNCHANGED <<maint, lease, ack>> /\ CoordOnly /\ bar' = bar
    BY Zenon DEF SendPut, CoordOnly, agentVars
  <1>2. PICK a \in coord[c].todo, s \in {"BLOCKED", "OPEN"} :
          /\ coord[c].pc = IF s = "BLOCKED" THEN "blocking" ELSE "opening"
          /\ puts' = puts \cup {[to |-> a, from |-> c, gen |-> coord[c].gen, st |-> s]}
          /\ coord' = [coord EXCEPT ![c].pc = IF s = "BLOCKED" THEN "blockPut" ELSE "openPut", ![c].at = a]
    BY Zenon DEF SendPut
  <1>3. PICK pc : pc = IF s = "BLOCKED" THEN "blockPut" ELSE "openPut"
    OBVIOUS
  <1>4. a \in Agents /\ pc \in CoordSteps /\ coord[c].gen \in 0 .. MaxGen
    BY <1>3, Facts DEF CoordType, CoordSteps
  <1>5. /\ coord' \in [Coordinators -> CoordType] /\ coord'[c].pc = pc /\ coord'[c].at = a
        /\ coord'[c].gen = coord[c].gen /\ coord'[c].todo = coord[c].todo
        /\ \A d \in Coordinators \ {c} : coord'[d] = coord[d]
    <2>1. coord' = [coord EXCEPT ![c].pc = pc, ![c].at = a]
      BY Zenon, <1>2, <1>3
    <2>2. coord \in [Coordinators -> CoordType] /\ coord[c] \in CoordType
      BY Zenon, Facts
    <2>3. PICK r : r = [coord[c] EXCEPT !.pc = pc, !.at = a]
      OBVIOUS
    <2>4. coord' = [coord EXCEPT ![c] = r]
      BY Zenon, <2>1, <2>2, <2>3
    <2>5. r \in CoordType /\ r.pc = pc /\ r.at = a /\ r.gen = coord[c].gen /\ r.todo = coord[c].todo
      BY Zenon, <1>4, <2>2, <2>3 DEF CoordType
    <2> QED
      BY Zenon, <2>4, <2>5, CoordAt
  <1>6. CASE s = "BLOCKED"
    <2>1. coord[c].pc = "blocking" /\ pc = "blockPut" /\ "blocking" \in Blocking /\ "blockPut" \in Blocking
      BY <1>2, <1>3, <1>6 DEF Blocking
    <2>2. /\ 1 <= coord[c].gen /\ coord[c].gen <= maint.gen /\ (coord[c].gen = maint.gen => maint.st \in Closing)
          /\ \A x \in Agents \ coord[c].todo : coord[c].gen <= bar[x].gen
      BY Zenon, <2>1, Facts DEF CoordOK
    <2>3. CoordOK(c)' /\ ObserverOK(c)'
      BY Zenon, <1>1, <1>4, <1>5, <2>1, <2>2, BlockingCoord
    <2>4. coord[c].gen \in 1 .. MaxGen
      BY <1>4, <2>2, Numbers
    <2>5. /\ puts' \subseteq Messages
          /\ \A m \in puts' : m \in puts \/ (m.st = "OPEN" => WasOpen(m.gen))
      <3>1. [to |-> a, from |-> c, gen |-> coord[c].gen, st |-> "BLOCKED"] \in Messages
        BY Zenon, <1>4, <2>4 DEF Messages
      <3>2. puts' = puts \cup {[to |-> a, from |-> c, gen |-> coord[c].gen, st |-> "BLOCKED"]}
        BY Zenon, <1>2, <1>6
      <3> QED
        BY <3>1, <3>2, Facts
    <2> QED
      BY Zenon, <1>1, <1>5, <2>3, <2>5, CoordStep, Facts
  <1>7. CASE s = "OPEN"
    <2>1. coord[c].pc = "opening" /\ pc = "openPut" /\ "opening" \in Opening /\ "openPut" \in Opening
      BY <1>2, <1>3, <1>7 DEF Opening
    <2>2. WasOpen(coord[c].gen)
      BY Zenon, <2>1, Facts DEF CoordOK
    <2>3. WasOpen(coord[c].gen)'
      BY Zenon, <1>1, <1>5, <2>2, SameMaint DEF WasOpen
    <2>4. CoordOK(c)' /\ ObserverOK(c)'
      BY <1>5, <2>1, <2>3, OpeningCoord
    <2>5. coord[c].gen \in 1 .. MaxGen
      BY <1>4, <2>2, Numbers DEF WasOpen
    <2>6. /\ puts' \subseteq Messages
          /\ \A m \in puts' : m \in puts \/ (m.st = "OPEN" => WasOpen(m.gen))
      <3>1. [to |-> a, from |-> c, gen |-> coord[c].gen, st |-> "OPEN"] \in Messages
        BY Zenon, <1>4, <2>5 DEF Messages
      <3>2. puts' = puts \cup {[to |-> a, from |-> c, gen |-> coord[c].gen, st |-> "OPEN"]}
        BY Zenon, <1>2, <1>7
      <3>3. puts' \subseteq Messages
        BY Zenon, <3>1, <3>2, Facts
      <3>4. \A m \in puts' : m \in puts \/ m.gen = coord[c].gen
        BY <3>2
      <3> QED
        BY Zenon, <2>2, <3>3, <3>4
    <2> QED
      BY Zenon, <1>1, <1>5, <2>4, <2>6, CoordStep, Facts
  <1> QED
    BY <1>2, <1>6, <1>7

LEMMA RecordAckStep ==
    ASSUME IInv, NEW c \in Coordinators, RecordAck(c)
    PROVE  IInv'
  <1> DEFINE rest == coord[c].todo \ {coord[c].at}
  <1>1. /\ coord[c].pc = "blockAck" /\ UNCHANGED <<maint, lease, puts>> /\ CoordOnly /\ bar' = bar
        /\ ack' = [ack EXCEPT ![coord[c].at] = coord[c].gen]
    BY Zenon DEF RecordAck, CoordOnly, agentVars
  <1>2. coord' = [coord EXCEPT ![c].todo = IF rest = {} THEN Agents ELSE rest,
                               ![c].pc = IF rest = {} THEN "blockRead" ELSE "blocking"]
    BY Zenon DEF RecordAck
  <1>3. PICK td, pc : (td = IF rest = {} THEN Agents ELSE rest) /\ (pc = IF rest = {} THEN "blockRead" ELSE "blocking")
    BY Zenon
  <1>4. coord[c].todo \subseteq Agents /\ coord[c].gen \in 0 .. MaxGen
    BY Facts DEF CoordType
  <1>5. td \in SUBSET Agents /\ pc \in CoordSteps
    BY <1>3, <1>4 DEF CoordSteps
  <1>6. /\ coord' \in [Coordinators -> CoordType]
        /\ coord'[c].pc = pc /\ coord'[c].todo = td /\ coord'[c].gen = coord[c].gen
        /\ \A d \in Coordinators \ {c} : coord'[d] = coord[d]
    <2>1. coord' = [coord EXCEPT ![c].todo = td, ![c].pc = pc]
      BY Zenon, <1>2, <1>3
    <2> QED
      BY Zenon, <1>5, <2>1, TurnToRest
  <1>7. "blockAck" \in Blocking /\ "blocking" \in Blocking /\ "blockRead" \in Blocked
    BY DEF Blocking, Blocked
  <1>8. /\ 1 <= coord[c].gen /\ coord[c].gen <= maint.gen /\ (coord[c].gen = maint.gen => maint.st \in Closing)
        /\ coord[c].at \in Agents /\ coord[c].gen <= bar[coord[c].at].gen
        /\ \A a \in Agents \ coord[c].todo : coord[c].gen <= bar[a].gen
    BY Zenon, <1>1, <1>7, Facts DEF CoordOK
  <1>9. \A a \in Agents \ rest : coord[c].gen <= bar[a].gen
    BY Zenon, <1>8
  <1>10. CoordOK(c)' /\ ObserverOK(c)'
    <2>1. CASE rest = {}
      <3>1. pc = "blockRead" /\ \A a \in Agents : coord[c].gen <= bar[a].gen
        BY Zenon, <1>3, <1>9, <2>1
      <3>2. coord'[c].pc \in Blocked /\ coord'[c].pc # "observed"
        BY <1>6, <1>7, <3>1
      <3> QED
        BY Zenon, <1>1, <1>6, <1>8, <3>1, <3>2, BlockedCoord
    <2>2. CASE rest # {}
      <3>1. pc = "blocking" /\ td = rest
        BY Zenon, <1>3, <2>2
      <3>2. coord'[c].pc \in Blocking /\ coord'[c].pc = "blocking" /\ coord'[c].pc # "blockAck"
        BY <1>6, <1>7, <3>1
      <3>3. \A a \in Agents \ coord'[c].todo : coord'[c].gen <= bar'[a].gen
        BY Zenon, <1>1, <1>6, <1>9, <3>1
      <3> QED
        BY Zenon, <1>1, <1>6, <1>8, <3>2, <3>3, BlockingCoord
    <2> QED
      BY <2>1, <2>2
  <1>11. ack' \in [Agents -> 0 .. MaxGen] /\ \A a \in Agents : ack'[a] = ack[a] \/ ack'[a] <= bar[a].gen
    BY <1>1, <1>4, <1>8, Facts
  <1> QED
    BY Zenon, <1>1, <1>6, <1>10, <1>11, CoordStep, Facts

LEMMA ReadBackStep ==
    ASSUME IInv, NEW c \in Coordinators, ReadBack(c)
    PROVE  IInv'
  <1>1. UNCHANGED <<maint, lease, ack, puts>> /\ CoordOnly /\ bar' = bar
    BY Zenon DEF ReadBack, CoordOnly, agentVars
  <1>2. PICK a \in coord[c].todo, s \in {"BLOCKED", "OPEN"} :
          /\ coord[c].pc = IF s = "BLOCKED" THEN "blockRead" ELSE "openRead"
          /\ coord' = [coord EXCEPT ![c].todo = @ \ {a},
                          ![c].pc = IF coord[c].todo # {a} THEN @
                                    ELSE IF s = "BLOCKED" THEN "blockCheck" ELSE "openCheck"]
    BY Zenon DEF ReadBack
  <1>3. PICK td, pc : /\ td = coord[c].todo \ {a}
                      /\ pc = IF coord[c].todo # {a} THEN coord[c].pc
                              ELSE IF s = "BLOCKED" THEN "blockCheck" ELSE "openCheck"
    BY Zenon
  <1>4. coord \in [Coordinators -> CoordType] /\ coord[c].todo \subseteq Agents /\ coord[c].pc \in CoordSteps
    BY Facts DEF CoordType
  <1>5. td \in SUBSET Agents /\ pc \in CoordSteps
    BY <1>3, <1>4 DEF CoordSteps
  <1>6. /\ coord' \in [Coordinators -> CoordType] /\ coord'[c].pc = pc /\ coord'[c].gen = coord[c].gen
        /\ \A d \in Coordinators \ {c} : coord'[d] = coord[d]
    <2>1. coord' = [coord EXCEPT ![c].todo = td, ![c].pc = pc]
      BY <1>2, <1>3, <1>4 DEF CoordType
    <2> QED
      BY Zenon, <1>5, <2>1, TurnToRest
  <1>7. CoordOK(c)' /\ ObserverOK(c)'
    <2>1. CASE s = "BLOCKED"
      <3>1. coord[c].pc \in Blocked /\ pc \in Blocked /\ pc # "observed"
        BY <1>2, <1>3, <2>1 DEF Blocked
      <3>2. /\ 1 <= coord[c].gen /\ coord[c].gen <= maint.gen /\ (coord[c].gen = maint.gen => maint.st \in Closing)
            /\ \A x \in Agents : coord[c].gen <= bar[x].gen
        BY Zenon, <3>1, Facts DEF CoordOK
      <3> QED
        BY Zenon, <1>1, <1>6, <3>1, <3>2, BlockedCoord
    <2>2. CASE s = "OPEN"
      <3>1. coord[c].pc \in Opening /\ pc \in Opening
        BY <1>2, <1>3, <2>2 DEF Opening
      <3>2. WasOpen(coord[c].gen)'
        BY Zenon, <1>1, <1>6, <3>1, SameMaint, Facts DEF CoordOK, WasOpen
      <3> QED
        BY <1>6, <3>1, <3>2, OpeningCoord
    <2> QED
      BY <1>2, <2>1, <2>2
  <1> QED
    BY Zenon, <1>1, <1>6, <1>7, QuietStep, Facts

\* The resource is read when no worker is left.
LEMMA ObserveResourceStep ==
    ASSUME IInv, NEW c \in Coordinators, NEW o \in Ops, ObserveResource(c, o)
    PROVE  IInv'
  <1>1. /\ coord[c].pc = "commit" /\ disp[o].phase # "none" /\ worker[o].pc \notin Alive
        /\ coord' = [coord EXCEPT ![c].pc = "observed", ![c].op = o, ![c].unchanged = ~applied[o]]
        /\ UNCHANGED <<maint, lease, ack, puts, worker, applied, bar>> /\ CoordOnly
    BY Zenon DEF ObserveResource, ResourceFree, CoordOnly, agentVars, cpVars
  <1>2. coord \in [Coordinators -> CoordType] /\ coord[c] \in CoordType /\ "observed" \in CoordSteps
    BY Zenon, Facts DEF CoordSteps
  <1>3. PICK u : u = ~applied[o]
    OBVIOUS
  <1>4. u \in BOOLEAN
    BY <1>3
  <1>5. PICK r : r = [coord[c] EXCEPT !.pc = "observed", !.op = o, !.unchanged = u]
    OBVIOUS
  <1>6. coord' = [coord EXCEPT ![c] = r]
    BY Zenon, <1>1, <1>2, <1>3, <1>5
  <1>7. r \in CoordType /\ r.pc = "observed" /\ r.op = o /\ r.unchanged = u /\ r.gen = coord[c].gen
    BY Zenon, <1>2, <1>4, <1>5 DEF CoordType
  <1>8. /\ coord' \in [Coordinators -> CoordType]
        /\ coord'[c].pc = "observed" /\ coord'[c].op = o /\ coord'[c].unchanged = u /\ coord'[c].gen = coord[c].gen
        /\ \A d \in Coordinators \ {c} : coord'[d] = coord[d]
    BY Zenon, <1>6, <1>7, CoordAt
  <1>9. "commit" \in Blocked /\ "observed" \in Blocked
    BY DEF Blocked
  <1>10. /\ 1 <= coord[c].gen /\ coord[c].gen <= maint.gen /\ (coord[c].gen = maint.gen => maint.st \in Closing)
         /\ \A a \in Agents : coord[c].gen <= bar[a].gen
    BY Zenon, <1>1, <1>9, Facts DEF CoordOK
  <1>11. worker[o].pc \in {"dead", "done"}
    <2>1. worker[o].pc \in WorkerSteps /\ Agree(worker[o], adm[o], op[o], disp[o], wire[o], applied[o])
      BY Facts, OpFacts DEF OpTypes, WorkerType
    <2>2. worker[o].pc # "idle"
      BY Zenon, <1>1, <2>1 DEF Agree
    <2> QED
      BY Zenon, <1>1, <2>1, <2>2 DEF WorkerSteps
  <1>12. ObserverOK(c)'
    BY Zenon, <1>1, <1>3, <1>8, <1>11 DEF ObserverOK
  <1>13. CoordOK(c)'
    BY Zenon, <1>1, <1>8, <1>9, <1>10, <1>12, BlockedCoord
  <1> QED
    BY Zenon, <1>1, <1>8, <1>12, <1>13, QuietStep, Facts

\* A coordinator's answer to the evidence of operation o, which ends its request.
LEMMA ResolveStep ==
    ASSUME IInv, NEW c \in Coordinators, NEW o \in Ops, End(c),
           UNCHANGED <<maint, worker, wire, applied, bar, avail, ack, puts>>, OpTypes',
           \A p \in Ops \ {o} : adm'[p] = adm[p] /\ op'[p] = op[p] /\ disp'[p] = disp[p],
           Agree(worker[o], adm'[o], op'[o], disp'[o], wire[o], applied[o]),
           disp'[o].resolved /\ wire[o] \in Live => worker[o].gen < bar[worker[o].agent].gen,
           maint.st \in Resting => Rested(worker[o], adm'[o], op'[o])
    PROVE  IInv'
  <1>1. /\ coord' \in [Coordinators -> CoordType] /\ coord'[c].pc = "idle"
        /\ \A d \in Coordinators \ {c} : coord'[d] = coord[d]
        /\ lease' \in Coordinators \cup {None}
    BY Zenon, EndFacts
  <1>2. TypeOK'
    BY Zenon, <1>1, Facts, TypeSplit DEF OpTypes, TypeOK, MaintType, BarType, CoordType, DispType, WorkerType
  <1>3. MaintOK' /\ PutsOK' /\ \A a \in Agents : BarOK(a)'
    BY Zenon, Facts, SameMaint DEF PutsOK, BarOK
  <1>4. ASSUME NEW d \in Coordinators PROVE CoordOK(d)' /\ ObserverOK(d)'
    <2>1. CASE d = c
      BY <1>1, <2>1, FreshCoord
    <2>2. CASE d # c
      <3>1. CoordOK(d) /\ ObserverOK(d) /\ coord'[d] = coord[d]
        BY Zenon, <1>1, <2>2, Facts
      <3> QED
        BY Zenon, <3>1, SameMaint DEF CoordOK, ObserverOK
    <2> QED
      BY <2>1, <2>2
  <1>5. ASSUME NEW p \in Ops PROVE OpOK(p)'
    <2>1. OpOK(p)
      BY Zenon, Facts
    <2>2. CASE p = o
      <3>1. RequestOK(p)'
        BY Zenon, <2>1, <2>2, SameMaint DEF OpOK, RequestOK, InHandler
      <3> QED
        BY Zenon, <2>2, <3>1 DEF OpOK
    <2>3. CASE p # o
      <3>1. adm'[p] = adm[p] /\ op'[p] = op[p] /\ disp'[p] = disp[p]
        BY Zenon, <2>3
      <3>2. RequestOK(p)'
        BY Zenon, <2>1, <3>1, SameMaint DEF OpOK, RequestOK, InHandler
      <3> QED
        BY Zenon, <2>1, <3>1, <3>2 DEF OpOK
    <2> QED
      BY <2>2, <2>3
  <1> QED
    BY Zenon, <1>2, <1>3, <1>4, <1>5 DEF IInv

\* The request of a resolved dispatch, should it still be on its way, is of a
\* generation that every barrier has left behind.
LEMMA ResolveDispatchStep ==
    ASSUME IInv, NEW c \in Coordinators, ResolveDispatch(c)
    PROVE  IInv'
  <1>1. PICK o : o = coord[c].op
    OBVIOUS
  <1>2. /\ coord[c].pc = "observed" /\ maint.st \in Closing /\ maint.gen = coord[c].gen
        /\ \/ coord[c].unchanged /\ Status(o, "MANUAL")
           \/ op[o] \in Terminal /\ op' = op
        /\ disp' = [disp EXCEPT ![o].resolved = TRUE] /\ End(c) /\ adm' = adm
        /\ UNCHANGED <<maint, worker, wire, applied, bar, avail, ack, puts>>
    BY Zenon, <1>1 DEF ResolveDispatch, Closing, agentVars
  <1>3. o \in Ops /\ worker[o].pc \in {"dead", "done"} /\ (coord[c].unchanged => ~applied[o])
    BY Zenon, <1>1, <1>2, Facts DEF ObserverOK
  <1>4. \A a \in Agents : maint.gen <= bar[a].gen
    <2>1. "observed" \in Blocked
      BY DEF Blocked
    <2> QED
      BY Zenon, <1>2, <2>1, Facts DEF CoordOK
  <1>5. /\ op' \in [Ops -> Statuses] /\ (\A p \in Ops \ {o} : op'[p] = op[p])
        /\ (op'[o] = "MANUAL" /\ ~applied[o]) \/ (op'[o] = op[o] /\ op[o] \in Terminal)
    <2>1. "MANUAL" \in Statuses
      BY DEF Statuses, Terminal
    <2> QED
      BY Zenon, <1>2, <1>3, <2>1, StatusFacts, Facts DEF OpTypes
  <1>6. /\ disp' \in [Ops -> DispType] /\ disp'[o].phase = disp[o].phase /\ disp'[o].resolved = TRUE
        /\ \A p \in Ops \ {o} : disp'[p] = disp[p]
    BY Zenon, <1>2, <1>3, Facts DEF OpTypes, DispType
  <1>7. OpTypes'
    BY Zenon, <1>2, <1>5, <1>6, Facts DEF OpTypes
  <1>8. Agree(worker[o], adm[o], op[o], disp[o], wire[o], applied[o]) /\ RequestOK(o)
    BY Zenon, <1>3, OpFacts
  <1>9. Agree(worker[o], adm'[o], op'[o], disp'[o], wire[o], applied[o])
    BY <1>2, <1>3, <1>5, <1>6, <1>8 DEF Agree, Alive, Terminal
  <1>10. wire[o] \in Live => worker[o].gen < bar[worker[o].agent].gen
    <2>1. SUFFICES ASSUME wire[o] \in Live PROVE worker[o].gen < bar[worker[o].agent].gen
      OBVIOUS
    <2>2. wire[o] # "none"
      BY <2>1 DEF Live
    <2>3. worker[o].agent \in Agents /\ WasOpen(worker[o].gen)
      BY Zenon, <1>8, <2>2 DEF Agree, RequestOK
    <2>4. maint.gen <= bar[worker[o].agent].gen
      BY Zenon, <1>4, <2>3
    <2>5. maint.st \in {"CLOSING", "RECONCILING"}
      BY Zenon, <1>2 DEF Closing
    <2>6. Opened < maint.gen
      BY <2>5, Numbers DEF Opened
    <2> QED
      BY <1>3, <2>3, <2>4, <2>6, Numbers DEF WasOpen
  <1>11. maint.st \in Resting => Rested(worker[o], adm'[o], op'[o])
    BY <1>3, <1>5 DEF Rested, Alive, Terminal
  <1> QED
    BY Zenon, <1>2, <1>3, <1>5, <1>6, <1>7, <1>9, <1>10, <1>11, ResolveStep

LEMMA ResolveAdmissionStep ==
    ASSUME IInv, NEW c \in Coordinators, NEW o \in Ops, ResolveAdmission(c, o)
    PROVE  IInv'
  <1>1. /\ adm[o] = "held" /\ adm' = [adm EXCEPT ![o] = "resolved"] /\ End(c) /\ UNCHANGED <<op, disp>>
        /\ UNCHANGED <<maint, worker, wire, applied, bar, avail, ack, puts>>
    BY Zenon DEF ResolveAdmission, agentVars
  <1>2. /\ adm' \in [Ops -> {"none", "held", "resolved"}] /\ adm'[o] = "resolved"
        /\ \A p \in Ops \ {o} : adm'[p] = adm[p]
    BY <1>1, Facts DEF OpTypes
  <1>3. OpTypes'
    BY Zenon, <1>1, <1>2, Facts DEF OpTypes
  <1>4. /\ Agree(worker[o], adm[o], op[o], disp[o], wire[o], applied[o]) /\ RequestOK(o)
        /\ maint.st \in Resting => Rested(worker[o], adm[o], op[o])
    BY Zenon, OpFacts
  <1>5. Agree(worker[o], adm'[o], op'[o], disp'[o], wire[o], applied[o])
    BY <1>1, <1>2, <1>4 DEF Agree
  <1>6. maint.st \in Resting => Rested(worker[o], adm'[o], op'[o])
    BY <1>1, <1>2, <1>4 DEF Rested
  <1>7. disp'[o].resolved /\ wire[o] \in Live => worker[o].gen < bar[worker[o].agent].gen
    BY Zenon, <1>1, <1>4 DEF RequestOK
  <1> QED
    BY Zenon, <1>1, <1>2, <1>3, <1>5, <1>6, <1>7, ResolveStep

-----------------------------------------------------------------------------
(* A PUT that an Agent takes up *)

\* Barriers only go forward, and change only when no handler runs.
LEMMA DeliverStep ==
    ASSUME IInv, NEW b \in Agents, UNCHANGED <<maint, lease, adm, op, disp, worker, wire, applied, avail, ack>>, Drained(b),
           bar' \in [Agents -> BarType], \A a \in Agents \ {b} : bar'[a] = bar[a], bar[b].gen <= bar'[b].gen,
           bar'[b].st = "OPEN" => WasOpen(bar'[b].gen), puts' \subseteq puts,
           coord' \in [Coordinators -> CoordType], \A c \in Coordinators : coord'[c] = coord[c] \/ (CoordOK(c)' /\ ObserverOK(c)')
    PROVE  IInv'
  <1>1. OpTypes'
    BY Zenon, Facts DEF OpTypes
  <1>2. puts' \subseteq Messages
    BY Zenon, Facts
  <1>3. TypeOK'
    BY Zenon, <1>1, <1>2, Facts, TypeSplit DEF OpTypes, TypeOK, MaintType, BarType, CoordType, DispType, WorkerType
  <1>4. MaintOK' /\ PutsOK'
    BY Zenon, Facts, SameMaint DEF PutsOK
  <1>5. \A a \in Agents : bar[a].gen <= bar'[a].gen /\ bar'[a].gen \in Nat
    <2>1. \A a \in Agents : bar[a].gen <= bar[a].gen /\ bar[a].gen \in Nat
      BY Numbers
    <2>2. bar'[b].gen \in Nat
      BY DEF BarType
    <2> QED
      BY Zenon, <2>1, <2>2
  <1>6. ASSUME NEW a \in Agents PROVE BarOK(a)'
    <2>1. BarOK(a)
      BY Zenon, Facts
    <2>2. bar'[a].st = "OPEN" => WasOpen(bar'[a].gen)
      BY Zenon, <2>1 DEF BarOK
    <2>3. ack[a] <= bar'[a].gen /\ Opened <= bar'[a].gen + 1 /\ (maint.st \in Resting => Opened < bar'[a].gen)
      BY <1>5, <2>1, Numbers DEF BarOK
    <2> QED
      BY Zenon, <2>2, <2>3, SameMaint DEF BarOK
  <1>7. ASSUME NEW c \in Coordinators PROVE CoordOK(c)' /\ ObserverOK(c)'
    <2>1. CASE coord'[c] = coord[c]
      <3>1. CoordOK(c) /\ ObserverOK(c) /\ coord[c].gen \in Nat
        BY Zenon, Facts, Numbers
      <3>2. \A a \in Agents : coord[c].gen <= bar[a].gen => coord[c].gen <= bar'[a].gen
        BY <1>5, <3>1, Numbers
      <3>3. CoordOK(c)'
        BY Zenon, <2>1, <3>1, <3>2, SameMaint DEF CoordOK
      <3> QED
        BY Zenon, <2>1, <3>1, <3>3 DEF ObserverOK
    <2> QED
      BY Zenon, <2>1
  <1>8. ASSUME NEW o \in Ops PROVE OpOK(o)'
    <2>1. OpOK(o) /\ worker[o].gen \in Nat
      BY Zenon, Facts, Numbers
    <2>2. wire[o] # "none" => worker[o].agent \in Agents
      BY Zenon, <2>1 DEF OpOK, Agree
    <2>3. (InHandler(o) \/ wire[o] \in Live) => worker[o].agent \in Agents
      BY Zenon, <2>2 DEF InHandler, Live
    <2>4. InHandler(o) => bar'[worker[o].agent] = [gen |-> worker[o].gen, st |-> "OPEN"]
      BY Zenon, <2>1, <2>3 DEF OpOK, RequestOK, Drained
    <2>5. disp[o].resolved /\ wire[o] \in Live => worker[o].gen < bar'[worker[o].agent].gen
      <3>1. SUFFICES ASSUME disp[o].resolved, wire[o] \in Live PROVE worker[o].gen < bar'[worker[o].agent].gen
        OBVIOUS
      <3>2. worker[o].agent \in Agents /\ worker[o].gen < bar[worker[o].agent].gen
        BY Zenon, <2>1, <2>3, <3>1 DEF OpOK, RequestOK
      <3> QED
        BY <1>5, <2>1, <3>2, Numbers
    <2>6. RequestOK(o)'
      BY Zenon, <2>1, <2>4, <2>5, SameMaint DEF OpOK, RequestOK, InHandler
    <2> QED
      BY Zenon, <2>1, <2>6 DEF OpOK
  <1> QED
    BY Zenon, <1>3, <1>4, <1>6, <1>7, <1>8 DEF IInv

LEMMA DeliverPutStep ==
    ASSUME IInv, NEW m \in puts, DeliverPut(m)
    PROVE  IInv'
  <1>1. PICK b, c, g, s : b = m.to /\ c = m.from /\ g = m.gen /\ s = m.st
    BY Zenon
  <1>2. /\ puts' \subseteq puts /\ Drained(b) /\ (g > bar[b].gen \/ bar[b] = [gen |-> g, st |-> s])
        /\ bar' = [bar EXCEPT ![b] = [gen |-> g, st |-> s]]
        /\ UNCHANGED <<maint, lease, adm, op, disp, worker, wire, applied, avail, ack>>
    BY Zenon, <1>1 DEF DeliverPut, Accepts, cpVars
  <1>3. \/ s = "BLOCKED" /\ coord[c].pc = "blockPut" /\ coord[c].gen = g /\ coord[c].at = b
           /\ coord' = [coord EXCEPT ![c].pc = "blockAck"]
        \/ s = "OPEN" /\ coord[c].pc = "openPut" /\ coord[c].gen = g /\ coord[c].at = b
           /\ coord' = [coord EXCEPT ![c].todo = IF @ = {b} THEN Agents ELSE @ \ {b},
                                     ![c].pc = IF coord[c].todo = {b} THEN "openRead" ELSE "opening"]
        \/ coord' = coord
    BY Zenon, <1>1 DEF DeliverPut
  <1>4. b \in Agents /\ c \in Coordinators /\ g \in 1 .. MaxGen /\ s \in {"OPEN", "BLOCKED"}
    BY <1>1, Facts DEF Messages
  <1>5. s = "OPEN" => WasOpen(g)
    BY Zenon, <1>1, Facts DEF PutsOK
  <1>6. /\ bar' \in [Agents -> BarType] /\ bar'[b].gen = g /\ bar'[b].st = s
        /\ \A a \in Agents \ {b} : bar'[a] = bar[a]
    <2>1. g \in 0 .. MaxGen
      BY <1>4, ConstantsAssumption
    <2>2. [gen |-> g, st |-> s] \in BarType /\ [gen |-> g, st |-> s].gen = g /\ [gen |-> g, st |-> s].st = s
      BY Zenon, <1>4, <2>1 DEF BarType
    <2> QED
      BY Zenon, <1>2, <1>4, <2>2, Facts
  <1>7. bar[b].gen <= bar'[b].gen
    BY <1>2, <1>4, <1>6, Numbers
  <1>8. g <= bar'[b].gen
    BY <1>4, <1>6
  <1>9. coord \in [Coordinators -> CoordType]
    BY Zenon, Facts
  <1>10. CASE s = "BLOCKED" /\ coord[c].pc = "blockPut" /\ coord[c].gen = g /\ coord[c].at = b
              /\ coord' = [coord EXCEPT ![c].pc = "blockAck"]
    <2>1. "blockAck" \in CoordSteps /\ "blockAck" \in Blocking /\ "blockPut" \in Blocking
      BY DEF CoordSteps, Blocking
    <2>2. /\ coord' \in [Coordinators -> CoordType]
          /\ coord'[c].pc = "blockAck" /\ coord'[c].gen = g /\ coord'[c].at = b /\ coord'[c].todo = coord[c].todo
          /\ \A d \in Coordinators \ {c} : coord'[d] = coord[d]
      BY <1>4, <1>9, <1>10, <2>1 DEF CoordType
    <2>3. /\ 1 <= coord[c].gen /\ coord[c].gen <= maint.gen /\ (coord[c].gen = maint.gen => maint.st \in Closing)
          /\ \A a \in Agents \ coord[c].todo : coord[c].gen <= bar[a].gen
      BY Zenon, <1>4, <1>10, <2>1, Facts DEF CoordOK
    <2>4. \A a \in Agents \ coord'[c].todo : coord'[c].gen <= bar'[a].gen
      BY Zenon, <1>6, <1>8, <1>10, <2>2, <2>3
    <2>5. CoordOK(c)' /\ ObserverOK(c)'
      BY Zenon, <1>2, <1>4, <1>8, <1>10, <2>1, <2>2, <2>3, <2>4, BlockingCoord
    <2> QED
      BY Zenon, <1>2, <1>4, <1>5, <1>6, <1>7, <2>2, <2>5, DeliverStep
  <1>11. CASE s = "OPEN" /\ coord[c].pc = "openPut" /\ coord[c].gen = g /\ coord[c].at = b
              /\ coord' = [coord EXCEPT ![c].todo = IF @ = {b} THEN Agents ELSE @ \ {b},
                                        ![c].pc = IF coord[c].todo = {b} THEN "openRead" ELSE "opening"]
    <2>1. PICK td, pc : /\ td = IF coord[c].todo = {b} THEN Agents ELSE coord[c].todo \ {b}
                        /\ pc = IF coord[c].todo = {b} THEN "openRead" ELSE "opening"
      BY Zenon
    <2>2. coord[c].todo \subseteq Agents
      BY <1>4, <1>9 DEF CoordType
    <2>3. td \in SUBSET Agents /\ pc \in CoordSteps /\ pc \in Opening
      BY <2>1, <2>2 DEF CoordSteps, Opening
    <2>4. coord' = [coord EXCEPT ![c].todo = td, ![c].pc = pc]
      BY <1>4, <1>9, <1>11, <2>1 DEF CoordType
    <2>5. /\ coord' \in [Coordinators -> CoordType] /\ coord'[c].pc = pc /\ coord'[c].gen = g
          /\ \A d \in Coordinators \ {c} : coord'[d] = coord[d]
      <3>1. /\ coord' \in [Coordinators -> CoordType] /\ coord'[c].pc = pc /\ coord'[c].gen = coord[c].gen
            /\ \A d \in Coordinators \ {c} : coord'[d] = coord[d]
        BY Zenon, <1>4, <2>3, <2>4, TurnToRest
      <3> QED
        BY Zenon, <1>11, <3>1
    <2>6. WasOpen(coord[c].gen)'
      BY Zenon, <1>2, <1>5, <1>11, <2>5, SameMaint DEF WasOpen
    <2>7. CoordOK(c)' /\ ObserverOK(c)'
      BY <2>3, <2>5, <2>6, OpeningCoord
    <2> QED
      BY Zenon, <1>2, <1>4, <1>5, <1>6, <1>7, <2>5, <2>7, DeliverStep
  <1>12. CASE coord' = coord
    BY Zenon, <1>2, <1>4, <1>5, <1>6, <1>7, <1>9, <1>12, DeliverStep
  <1> QED
    BY <1>3, <1>10, <1>11, <1>12

-----------------------------------------------------------------------------
(* Steps of the maintenance state *)

\* Each step takes one generation.  What a coordinator found at an earlier one
\* no longer counts.
LEMMA MaintStep ==
    ASSUME IInv, CoordOnly, UNCHANGED <<ack, puts>>, maint' \in MaintType, lease' \in Coordinators \cup {None},
           maint'.st # "NONE", maint'.gen = maint.gen + 1,
           \A g \in Nat : WasOpen(g) => WasOpen(g)',
           \A a \in Agents : Opened' <= bar[a].gen + 1 /\ (maint'.st \in Resting => Opened' < bar[a].gen),
           maint'.st \in Resting => \A o \in Ops : Rested(worker[o], adm[o], op[o]),
           coord' \in [Coordinators -> CoordType],
           \A c \in Coordinators : coord'[c] = coord[c] \/ coord'[c].pc \in {"idle", "start"}
    PROVE  IInv'
  <1>1. UNCHANGED <<adm, op, disp, worker, wire, applied, bar, avail>>
    BY Zenon DEF CoordOnly, cpVars, agentVars
  <1>2. OpTypes'
    BY Zenon, <1>1, Facts DEF OpTypes
  <1>3. TypeOK'
    BY Zenon, <1>1, <1>2, Facts, TypeSplit DEF OpTypes, TypeOK, MaintType, BarType, CoordType, DispType, WorkerType
  <1>4. MaintOK'
    <2>1. maint'.gen # 0
      BY Numbers
    <2> QED
      BY Zenon, <2>1 DEF MaintOK
  <1>5. PutsOK'
    BY Zenon, Facts, Numbers DEF PutsOK
  <1>6. \A a \in Agents : BarOK(a)'
    BY Zenon, <1>1, Facts, Numbers DEF BarOK
  <1>7. ASSUME NEW c \in Coordinators PROVE CoordOK(c)' /\ ObserverOK(c)'
    <2>1. CASE coord'[c].pc \in {"idle", "start"}
      BY <2>1, FreshCoord
    <2>2. CASE coord'[c] = coord[c]
      <3>1. CoordOK(c) /\ ObserverOK(c) /\ coord[c].gen \in Nat
        BY Zenon, Facts, Numbers
      <3>2. coord[c].gen <= maint.gen => coord[c].gen <= maint'.gen /\ coord[c].gen # maint'.gen
        BY <3>1, Numbers
      <3>3. CoordOK(c)'
        BY Zenon, <1>1, <2>2, <3>1, <3>2 DEF CoordOK
      <3>4. coord[c].pc = "observed" => coord[c].gen # maint'.gen
        BY Zenon, <3>1, <3>2 DEF CoordOK, Blocked
      <3>5. ObserverOK(c)'
        BY Zenon, <1>1, <2>2, <3>1, <3>4 DEF ObserverOK
      <3> QED
        BY <3>3, <3>5
    <2> QED
      BY <2>1, <2>2
  <1>8. ASSUME NEW o \in Ops PROVE OpOK(o)'
    <2>1. OpOK(o) /\ worker[o].gen \in Nat
      BY Zenon, Facts, Numbers
    <2>2. RequestOK(o)'
      BY Zenon, <1>1, <2>1 DEF OpOK, RequestOK, InHandler
    <2> QED
      BY Zenon, <1>1, <2>1, <2>2 DEF OpOK
  <1> QED
    BY Zenon, <1>3, <1>4, <1>5, <1>6, <1>7, <1>8 DEF IInv

LEMMA MaintTypes ==
    ASSUME NEW s \in {"OPEN", "CLOSING", "CLOSED", "RECONCILING"}, NEW g \in 0 .. MaxGen, maint' = [st |-> s, gen |-> g]
    PROVE  maint' \in MaintType /\ maint'.st = s /\ maint'.gen = g /\ maint'.st # "NONE"
  BY DEF MaintType

LEMMA InitializeStep ==
    ASSUME IInv, Initialize
    PROVE  IInv'
  <1>1. /\ maint.st = "NONE" /\ MaxGen >= 1 /\ maint' = [st |-> "OPEN", gen |-> 1]
        /\ UNCHANGED <<lease, ack, coord, puts>> /\ CoordOnly
    BY Zenon DEF Initialize
  <1>2. maint.gen = 0
    BY Zenon, <1>1, Facts DEF MaintOK
  <1>3. maint' \in MaintType /\ maint'.st = "OPEN" /\ maint'.gen = 1 /\ maint'.st # "NONE"
    BY <1>1, MaintTypes, Numbers
  <1>4. Opened = 0 /\ Opened' = 1
    BY <1>1, <1>2, <1>3 DEF Opened
  <1>5. \A g \in Nat : WasOpen(g) => WasOpen(g)'
    BY <1>4 DEF WasOpen
  <1>6. \A a \in Agents : Opened' <= bar[a].gen + 1
    BY <1>4, Numbers
  <1>7. maint'.st \notin Resting /\ maint'.gen = maint.gen + 1
    BY <1>2, <1>3 DEF Resting
  <1> QED
    BY Zenon, <1>1, <1>3, <1>5, <1>6, <1>7, MaintStep, Facts

LEMMA RequestClosingStep ==
    ASSUME IInv, RequestClosing
    PROVE  IInv'
  <1>1. /\ maint.st = "OPEN" /\ maint.gen < MaxGen /\ maint' = [st |-> "CLOSING", gen |-> maint.gen + 1]
        /\ UNCHANGED <<lease, ack, coord, puts>> /\ CoordOnly
    BY Zenon DEF RequestClosing
  <1>2. maint.gen + 1 \in 0 .. MaxGen
    BY <1>1, Numbers
  <1>3. maint' \in MaintType /\ maint'.st = "CLOSING" /\ maint'.gen = maint.gen + 1 /\ maint'.st # "NONE"
    BY <1>1, <1>2, MaintTypes
  <1>4. Opened' = Opened
    BY <1>1, <1>3, Numbers DEF Opened
  <1>5. \A g \in Nat : WasOpen(g) => WasOpen(g)'
    BY <1>4 DEF WasOpen
  <1>6. \A a \in Agents : Opened' <= bar[a].gen + 1
    BY Zenon, <1>4, Facts DEF BarOK
  <1>7. maint'.st \notin Resting
    BY <1>3 DEF Resting
  <1> QED
    BY Zenon, <1>1, <1>3, <1>5, <1>6, <1>7, MaintStep, Facts

\* The acknowledgements put every barrier past the generation last OPEN, and the
\* counts leave no worker that is past its intent.
LEMMA CommitClosedStep ==
    ASSUME IInv, NEW c \in Coordinators, CommitClosed(c)
    PROVE  IInv'
  <1>1. /\ maint.st = "CLOSING" /\ maint.gen < MaxGen /\ NothingUnresolved /\ AllAcknowledged(maint.gen)
        /\ maint' = [st |-> "CLOSED", gen |-> maint.gen + 1] /\ End(c) /\ UNCHANGED <<ack, puts>> /\ CoordOnly
    <2>1. maint = [st |-> "CLOSING", gen |-> coord[c].gen]
      BY Zenon DEF CommitClosed
    <2>2. maint.st = "CLOSING"
      BY <2>1
    <2> QED
      BY Zenon, <2>2 DEF CommitClosed
  <1>2. maint.gen + 1 \in 0 .. MaxGen
    BY <1>1, Numbers
  <1>3. maint' \in MaintType /\ maint'.st = "CLOSED" /\ maint'.gen = maint.gen + 1 /\ maint'.st # "NONE"
    BY <1>1, <1>2, MaintTypes
  <1>4. Opened' = Opened /\ Opened < maint.gen
    BY <1>1, <1>3, Numbers DEF Opened
  <1>5. \A g \in Nat : WasOpen(g) => WasOpen(g)'
    BY <1>4 DEF WasOpen
  <1>6. \A a \in Agents : Opened' <= bar[a].gen + 1 /\ Opened' < bar[a].gen
    <2>1. \A a \in Agents : maint.gen <= bar[a].gen
      BY Zenon, <1>1, Facts DEF BarOK, AllAcknowledged
    <2> QED
      BY <1>4, <2>1, Numbers
  <1>7. ASSUME NEW o \in Ops PROVE Rested(worker[o], adm[o], op[o])
    <2>1. adm[o] # "held" /\ op[o] \in Terminal \cup {"none"}
      BY Zenon, <1>1 DEF NothingUnresolved
    <2>2. Agree(worker[o], adm[o], op[o], disp[o], wire[o], applied[o])
      BY Zenon, OpFacts
    <2> QED
      BY <2>1, <2>2 DEF Agree, Rested, Alive, Terminal
  <1>8. /\ coord' \in [Coordinators -> CoordType] /\ coord'[c].pc = "idle" /\ lease' \in Coordinators \cup {None}
        /\ \A d \in Coordinators \ {c} : coord'[d] = coord[d]
    BY Zenon, <1>1, EndFacts
  <1>9. \A d \in Coordinators : coord'[d] = coord[d] \/ coord'[d].pc \in {"idle", "start"}
    BY Zenon, <1>8
  <1> QED
    BY Zenon, <1>1, <1>3, <1>5, <1>6, <1>7, <1>8, <1>9, MaintStep

LEMMA CommitReconcilingStep ==
    ASSUME IInv, NEW c \in Coordinators, CommitReconciling(c)
    PROVE  IInv'
  <1>1. /\ maint.st = "CLOSED" /\ maint.gen < MaxGen
        /\ maint' = [st |-> "RECONCILING", gen |-> maint.gen + 1] /\ End(c) /\ UNCHANGED <<ack, puts>> /\ CoordOnly
    BY Zenon DEF CommitReconciling
  <1>2. maint.gen + 1 \in 0 .. MaxGen
    BY <1>1, Numbers
  <1>3. maint' \in MaintType /\ maint'.st = "RECONCILING" /\ maint'.gen = maint.gen + 1 /\ maint'.st # "NONE"
    BY <1>1, <1>2, MaintTypes
  <1>4. Opened' = Opened /\ maint.st \in Resting
    BY <1>1, <1>3, Numbers DEF Opened, Resting
  <1>5. \A g \in Nat : WasOpen(g) => WasOpen(g)'
    BY <1>4 DEF WasOpen
  <1>6. \A a \in Agents : Opened' <= bar[a].gen + 1 /\ Opened' < bar[a].gen
    BY Zenon, <1>4, Facts DEF BarOK
  <1>7. \A o \in Ops : Rested(worker[o], adm[o], op[o])
    BY Zenon, <1>4, OpFacts
  <1>8. /\ coord' \in [Coordinators -> CoordType] /\ coord'[c].pc = "idle" /\ lease' \in Coordinators \cup {None}
        /\ \A d \in Coordinators \ {c} : coord'[d] = coord[d]
    BY Zenon, <1>1, EndFacts
  <1>9. \A d \in Coordinators : coord'[d] = coord[d] \/ coord'[d].pc \in {"idle", "start"}
    BY Zenon, <1>8
  <1> QED
    BY Zenon, <1>1, <1>3, <1>5, <1>6, <1>7, <1>8, <1>9, MaintStep

\* Every barrier was acknowledged at the generation before the new one, so none
\* is at an older OPEN generation.
LEMMA CommitOpenStep ==
    ASSUME IInv, NEW c \in Coordinators, CommitOpen(c)
    PROVE  IInv'
  <1>1. /\ maint.st = "RECONCILING" /\ maint.gen < MaxGen /\ AllAcknowledged(maint.gen)
        /\ maint' = [st |-> "OPEN", gen |-> maint.gen + 1] /\ UNCHANGED <<lease, ack, puts>> /\ CoordOnly
    <2>1. maint = [st |-> "RECONCILING", gen |-> coord[c].gen]
      BY Zenon DEF CommitOpen
    <2>2. maint.st = "RECONCILING"
      BY <2>1
    <2> QED
      BY Zenon, <2>2 DEF CommitOpen
  <1>2. maint.gen + 1 \in 0 .. MaxGen
    BY <1>1, Numbers
  <1>3. maint' \in MaintType /\ maint'.st = "OPEN" /\ maint'.gen = maint.gen + 1 /\ maint'.st # "NONE"
    BY <1>1, <1>2, MaintTypes
  <1>4. Opened' = maint.gen + 1 /\ Opened = maint.gen - 3
    BY <1>1, <1>3, Numbers DEF Opened
  <1>5. \A g \in Nat : WasOpen(g) => WasOpen(g)'
    BY <1>4, Numbers DEF WasOpen
  <1>6. \A a \in Agents : Opened' <= bar[a].gen + 1
    <2>1. \A a \in Agents : maint.gen <= bar[a].gen
      BY Zenon, <1>1, Facts DEF BarOK, AllAcknowledged
    <2> QED
      BY <1>4, <2>1, Numbers
  <1>7. maint'.st \notin Resting
    BY <1>3 DEF Resting
  <1>8. /\ coord' \in [Coordinators -> CoordType] /\ coord'[c].pc = "start"
        /\ \A d \in Coordinators \ {c} : coord'[d] = coord[d]
    <2>1. coord' = [coord EXCEPT ![c].pc = "start", ![c].gen = maint.gen + 1]
      BY Zenon DEF CommitOpen
    <2>2. "start" \in CoordSteps
      BY DEF CoordSteps
    <2>3. coord \in [Coordinators -> CoordType] /\ coord[c] \in CoordType
      BY Zenon, Facts
    <2>4. PICK r : r = [coord[c] EXCEPT !.pc = "start", !.gen = maint.gen + 1]
      OBVIOUS
    <2>5. coord' = [coord EXCEPT ![c] = r]
      BY Zenon, <2>1, <2>3, <2>4
    <2>6. r \in CoordType /\ r.pc = "start"
      BY Zenon, <1>2, <2>2, <2>3, <2>4 DEF CoordType
    <2> QED
      BY Zenon, <2>5, <2>6, CoordAt
  <1>9. \A d \in Coordinators : coord'[d] = coord[d] \/ coord'[d].pc \in {"idle", "start"}
    BY Zenon, <1>8
  <1> QED
    BY Zenon, <1>1, <1>3, <1>5, <1>6, <1>7, <1>8, <1>9, MaintStep, Facts

-----------------------------------------------------------------------------
(* The invariant holds *)

LEMMA InitIInv == Init => IInv
  <1> SUFFICES ASSUME Init PROVE IInv
    OBVIOUS
  <1>1. /\ maint = [st |-> "NONE", gen |-> 0] /\ lease = None /\ puts = {}
        /\ \A o \in Ops : /\ adm[o] = "none" /\ op[o] = "none" /\ disp[o] = [phase |-> "none", resolved |-> FALSE]
                          /\ worker[o] = NewWorker /\ wire[o] = "none" /\ ~applied[o]
        /\ \A a \in Agents : bar[a] = [gen |-> 0, st |-> "BLOCKED"] /\ ack[a] = 0
        /\ \A c \in Coordinators : coord[c] = IdleCoord
    BY Zenon DEF Init
  <1>2. 0 \in 0 .. MaxGen
    BY ConstantsAssumption
  <1>3. OpTypes
    <2>1. NewWorker \in WorkerType /\ [phase |-> "none", resolved |-> FALSE] \in DispType
      BY Zenon, <1>2 DEF NewWorker, WorkerType, WorkerSteps, DispType, Phases
    <2>2. "none" \in Statuses /\ "none" \in Wires
      BY DEF Statuses, Wires
    <2> QED
      BY <2>1, <2>2 DEF Init, OpTypes
  <1>4. /\ maint \in MaintType /\ bar \in [Agents -> BarType] /\ avail \in [Agents -> BOOLEAN]
        /\ ack \in [Agents -> 0 .. MaxGen] /\ coord \in [Coordinators -> CoordType]
    <2>1. [gen |-> 0, st |-> "BLOCKED"] \in BarType /\ [st |-> "NONE", gen |-> 0] \in MaintType
      BY <1>2 DEF BarType, MaintType
    <2> QED
      BY <1>2, <2>1, IdleType DEF Init
  <1>5. TypeOK
    BY Zenon, <1>1, <1>3, <1>4, TypeSplit
  <1>6. maint.st = "NONE" /\ maint.gen = 0 /\ Opened = 0 /\ maint.st \notin Resting
    BY <1>1 DEF Opened, Resting
  <1>7. MaintOK /\ PutsOK
    BY Zenon, <1>1, <1>6 DEF MaintOK, PutsOK
  <1>8. ASSUME NEW a \in Agents PROVE BarOK(a)
    <2>1. bar[a].gen = 0 /\ bar[a].st # "OPEN" /\ ack[a] = 0
      BY <1>1
    <2> QED
      BY <1>6, <2>1 DEF BarOK
  <1>9. ASSUME NEW c \in Coordinators PROVE CoordOK(c) /\ ObserverOK(c)
    <2>1. coord[c].pc = "idle"
      BY <1>1 DEF IdleCoord
    <2> QED
      BY <2>1 DEF CoordOK, ObserverOK, Opening, Blocking, Blocked
  <1>10. ASSUME NEW o \in Ops PROVE OpOK(o)
    <2>1. /\ worker[o].pc = "idle" /\ adm[o] = "none" /\ op[o] = "none" /\ disp[o].phase = "none" /\ disp[o].resolved = FALSE
          /\ wire[o] = "none" /\ ~applied[o]
      BY <1>1 DEF NewWorker
    <2>2. Agree(worker[o], adm[o], op[o], disp[o], wire[o], applied[o])
      BY <2>1 DEF Agree, Alive, Live
    <2>3. RequestOK(o)
      BY <2>1 DEF RequestOK, InHandler, Live
    <2> QED
      BY Zenon, <1>6, <2>2, <2>3 DEF OpOK
  <1> QED
    BY Zenon, <1>5, <1>7, <1>8, <1>9, <1>10 DEF IInv

LEMMA WorkerNextIInv ==
    ASSUME IInv, NEW o \in Ops, WorkerNext(o) \/ RequestNext(o)
    PROVE  IInv'
  BY Zenon, AdmitStep, PlanFailsStep, PersistIntentStep, ReadGenerationStep, NoAgentStep, CheckBarrierStep, PrepareStep,
     BeginSendStep, BeginSendFailsStep, AnsweredStep, NoAnswerStep, ReleaseStep, WorkerDiesStep, ReconcileStep,
     ArriveStep, UpdateStep, HandlerReturnsStep DEF WorkerNext, RequestNext

LEMMA CoordNextIInv ==
    ASSUME IInv, NEW c \in Coordinators, CoordNext(c)
    PROVE  IInv'
  BY Zenon, AcquireLeaseStep, GiveUpStep, BlockAllStep, SendPutStep, RecordAckStep, ReadBackStep, BlockAllDoneStep,
     CommitClosedStep, CommitReconcilingStep, CommitOpenStep, OpenAllStep, OpenAllDoneStep, ObserveResourceStep,
     ResolveAdmissionStep, ResolveDispatchStep DEF CoordNext

LEMMA StutterIInv ==
    ASSUME IInv, UNCHANGED vars
    PROVE  IInv'
  <1>1. UNCHANGED <<maint, lease, adm, op, disp, worker, wire, applied, bar, avail, ack, coord, puts>>
    BY Zenon DEF vars, cpVars, agentVars
  <1>2. avail \in [Agents -> BOOLEAN] /\ wire \in [Ops -> Wires]
    BY Zenon, Facts DEF OpTypes
  <1> QED
    BY Zenon, <1>1, <1>2, AgentStep DEF AgentOnly, cpVars

LEMMA NextIInv ==
    ASSUME IInv, [Next]_vars
    PROVE  IInv'
  BY Zenon, WorkerNextIInv, CoordNextIInv, AgentDownStep, AgentUpStep, InitializeStep, RequestClosingStep,
     LeaseExpiresStep, DeliverPutStep, StutterIInv DEF Next

\* The inductive invariant holds in every reachable state, of any number of
\* operations, Agents, coordinators and maintenance cycles.
THEOREM Inductive == Spec => []IInv
  BY InitIInv, NextIInv, PTL DEF Spec

\* Every variable keeps to the values the tables and messages may hold.
THEOREM TypeCorrect == Spec => []TypeOK
  <1>1. IInv => TypeOK
    BY Zenon DEF IInv
  <1> QED
    BY <1>1, Inductive, PTL

\* Once CLOSED is committed no Agent hands a mutation to Docker, however late
\* its request arrives, in this cycle or after a later reopening (guard,
\* commitClosed).
THEOREM MutationsFenced == Spec => []Fenced
  <1>1. ASSUME IInv, NEW o \in Ops, InHandler(o)
        PROVE  \/ maint = [st |-> "OPEN", gen |-> worker[o].gen]
               \/ maint = [st |-> "CLOSING", gen |-> worker[o].gen + 1]
    <2>1. Agree(worker[o], adm[o], op[o], disp[o], wire[o], applied[o]) /\ RequestOK(o)
      BY Zenon, <1>1, OpFacts
    <2>2. wire[o] # "none"
      BY <1>1 DEF InHandler
    <2>3. worker[o].agent \in Agents /\ WasOpen(worker[o].gen)
      BY Zenon, <2>1, <2>2 DEF Agree, RequestOK
    <2>4. bar[worker[o].agent].gen = worker[o].gen
      BY <1>1, <2>1 DEF RequestOK
    <2>5. Opened <= worker[o].gen + 1 /\ (maint.st \in Resting => Opened < worker[o].gen)
      BY Zenon, <1>1, <2>3, <2>4, Facts DEF BarOK
    <2>6. worker[o].gen = Opened /\ maint.st \notin Resting /\ worker[o].gen >= 1
      BY <1>1, <2>3, <2>5, Numbers DEF WasOpen
    <2>7. maint.st \in {"OPEN", "CLOSING"} /\ maint.gen = IF maint.st = "OPEN" THEN worker[o].gen ELSE worker[o].gen + 1
      <3>1. maint.st # "NONE"
        <4>1. maint.st = "NONE" => maint.gen = 0
          BY Zenon, <1>1, Facts DEF MaintOK
        <4> QED
          BY <1>1, <2>6, <4>1, Numbers DEF Opened
      <3> QED
        BY <1>1, <2>6, <3>1, Numbers DEF Opened, Resting
    <2>8. maint \in MaintType
      BY Zenon, <1>1, Facts
    <2>9. maint = [st |-> maint.st, gen |-> maint.gen]
      BY <2>8 DEF MaintType
    <2> QED
      BY Zenon, <2>7, <2>9
  <1>2. IInv => Fenced
    BY Zenon, <1>1 DEF Fenced
  <1> QED
    BY <1>2, Inductive, PTL

\* No Agent is OPEN while the cluster is CLOSED or RECONCILING, whatever PUTs
\* are delayed and whichever Agents restart (openAll, acceptBarrier).
THEOREM AgentsStayBlocked == Spec => []ClosedBlocksAgents
  <1>1. ASSUME IInv, maint.st \in Resting, NEW a \in Agents
        PROVE  bar[a].st = "BLOCKED"
    <2>1. BarOK(a) /\ bar[a].st \in {"OPEN", "BLOCKED"}
      BY <1>1, Facts DEF BarType
    <2>2. bar[a].st = "OPEN" => FALSE
      BY <1>1, <2>1, Numbers DEF BarOK, WasOpen
    <2> QED
      BY <2>1, <2>2
  <1>2. IInv => ClosedBlocksAgents
    BY Zenon, <1>1 DEF ClosedBlocksAgents, Resting
  <1> QED
    BY <1>2, Inductive, PTL

\* An operation recorded as FAILED by a rejection or by evidence recovery never
\* took effect and never will (isDeterministicAgentRejection, resolve).
THEOREM FailuresAreReal == Spec => []FailedMeansNotApplied
  <1>1. IInv => FailedMeansNotApplied
    BY Zenon, OpFacts DEF FailedMeansNotApplied, Agree
  <1> QED
    BY <1>1, Inductive, PTL

\* A request an Agent could still let through has a dispatch row that counts as
\* unresolved (MaintenanceDispatchJournal.execute, resolve).
THEOREM EvidenceCovers == Spec => []LiveRequestHasEvidence
  <1>1. ASSUME IInv, NEW o \in Ops, wire[o] \in Live, bar[worker[o].agent] = [gen |-> worker[o].gen, st |-> "OPEN"]
        PROVE  Unresolved(o)
    <2>1. disp[o].phase \in {"SENDING", "UNCERTAIN"} /\ RequestOK(o)
      BY Zenon, <1>1, OpFacts DEF Agree
    <2>2. bar[worker[o].agent].gen = worker[o].gen /\ worker[o].gen \in Nat
      BY <1>1, Numbers
    <2>3. ~(worker[o].gen < bar[worker[o].agent].gen)
      BY <2>2
    <2>4. ~disp[o].resolved
      BY Zenon, <1>1, <2>1, <2>3 DEF RequestOK
    <2> QED
      BY <2>1, <2>4 DEF Unresolved
  <1>2. IInv => LiveRequestHasEvidence
    BY Zenon, <1>1 DEF LiveRequestHasEvidence, Live
  <1> QED
    BY <1>2, Inductive, PTL

\* While the cluster is CLOSED or RECONCILING no operation is unfinished but
\* those whose admission an administrator answered for (commitClosed's counts).
THEOREM ClosedIsQuiet == Spec => []ClosedHasNoOpenWork
  <1>1. IInv => ClosedHasNoOpenWork
    BY Zenon, OpFacts DEF ClosedHasNoOpenWork, Rested, Resting
  <1> QED
    BY <1>1, Inductive, PTL
-----------------------------------------------------------------------------
(* The Agents keep their contract *)

\* A handler runs at an Agent that is up: AgentDown ends the handlers.
Served == \A o \in Ops : InHandler(o) => avail[worker[o].agent]

KeepsContract(a) == Agent(a)!ContractNext \/ UNCHANGED Agent(a)!contractVars

\* No Agent notices the step: the barriers stay and the same requests are in
\* the same handlers.
Unnoticed ==
    /\ UNCHANGED <<bar, avail>>
    /\ \A o \in Ops : /\ InHandler(o)' <=> InHandler(o)
                      /\ InHandler(o) => worker'[o].agent = worker[o].agent

\* The variables of the contract, unfolded.
LEMMA ContractStutter ==
    ASSUME NEW a \in Agents, bar'[a] = bar[a], avail'[a] = avail[a], Serving(a)' = Serving(a)
    PROVE  KeepsContract(a)
  BY DEF KeepsContract, Agent!contractVars

LEMMA UnnoticedStep ==
    ASSUME Served, Unnoticed
    PROVE  Served' /\ \A a \in Agents : KeepsContract(a)
  <1>1. Served'
    BY Zenon DEF Served, Unnoticed
  <1>2. ASSUME NEW a \in Agents PROVE KeepsContract(a)
    <2>1. bar'[a] = bar[a] /\ avail'[a] = avail[a]
      BY Zenon DEF Unnoticed
    <2>2. \A o \in Ops : o \in Serving(a)' <=> o \in Serving(a)
      BY Zenon DEF Unnoticed, Serving
    <2>3. Serving(a) \subseteq Ops /\ Serving(a)' \subseteq Ops
      BY Zenon DEF Serving
    <2>4. Serving(a)' = Serving(a)
      BY Zenon, <2>2, <2>3
    <2> QED
      BY Zenon, <2>1, <2>4, ContractStutter
  <1> QED
    BY Zenon, <1>1, <1>2

\* A worker chooses its Agent before it has a request, and hears or gives up
\* an answer only when no handler has it.
LEMMA WorkerUnnoticed ==
    ASSUME IInv, NEW o \in Ops, WorkerNext(o)
    PROVE  Unnoticed
  <1>1. bar' = bar /\ avail' = avail
    BY Zenon DEF WorkerNext, Admit, PlanFails, PersistIntent, ReadGeneration, NoAgent, CheckBarrier, Prepare, BeginSend,
       BeginSendFails, Answered, NoAnswer, Release, WorkerDies, Reconcile, WorkerOnly, agentVars
  <1>2. worker \in [Ops -> WorkerType] /\ wire \in [Ops -> Wires]
    BY Zenon, Facts DEF OpTypes
  <1>3. CASE Admit(o) \/ PlanFails(o) \/ PersistIntent(o) \/ NoAgent(o) \/ Prepare(o) \/ BeginSendFails(o) \/ Release(o)
    <2>1. PICK pc : Go(o, pc)
      BY Zenon, <1>3 DEF Admit, PlanFails, PersistIntent, NoAgent, Prepare, BeginSendFails, Release, Reject
    <2>2. wire' = wire
      BY Zenon, <1>3 DEF Admit, PlanFails, PersistIntent, NoAgent, Prepare, BeginSendFails, Release, WorkerOnly
    <2>3. \A p \in Ops : worker'[p].agent = worker[p].agent
      BY <1>2, <2>1 DEF Go, WorkerType
    <2> QED
      BY Zenon, <1>1, <2>2, <2>3 DEF Unnoticed, InHandler
  <1>4. CASE ReadGeneration(o) \/ CheckBarrier(o)
    <2>1. wire' = wire /\ ~InHandler(o)
      <3>1. wire' = wire /\ worker[o].pc \in {"intent", "gated"}
        BY Zenon, <1>4 DEF ReadGeneration, CheckBarrier, WorkerOnly
      <3>2. wire[o] = "none"
        BY Zenon, <3>1, Before
      <3> QED
        BY <3>1, <3>2 DEF InHandler
    <2>2. \A p \in Ops \ {o} : worker'[p] = worker[p]
      BY <1>2, <1>4 DEF ReadGeneration, CheckBarrier, Reject, Go
    <2> QED
      BY Zenon, <1>1, <2>1, <2>2 DEF Unnoticed, InHandler
  <1>5. CASE BeginSend(o) \/ Answered(o) \/ NoAnswer(o) \/ WorkerDies(o)
    <2>1. PICK pc : Go(o, pc)
      BY Zenon, <1>5 DEF BeginSend, Answered, NoAnswer, WorkerDies, Reject
    <2>2. \A p \in Ops : worker'[p].agent = worker[p].agent
      BY <1>2, <2>1 DEF Go, WorkerType
    <2>3. \A p \in Ops \ {o} : wire'[p] = wire[p]
      BY <1>2, <1>5 DEF BeginSend, Answered, NoAnswer, WorkerDies
    <2>4. InHandler(o)' <=> InHandler(o)
      <3>1. CASE BeginSend(o)
        <4>1. wire[o] = "none" /\ wire'[o] = "sent"
          <5>1. worker[o].pc = "prepared" /\ wire' = [wire EXCEPT ![o] = "sent"]
            BY Zenon, <3>1 DEF BeginSend
          <5> QED
            BY <1>2, <5>1, Before
        <4> QED
          BY <4>1 DEF InHandler
      <3>2. CASE Answered(o)
        BY <1>2, <3>2 DEF Answered, InHandler
      <3>3. CASE NoAnswer(o) \/ WorkerDies(o)
        BY <1>2, <3>3 DEF NoAnswer, WorkerDies, InHandler, Unheard
      <3> QED
        BY Zenon, <1>5, <3>1, <3>2, <3>3
    <2>5. \A p \in Ops \ {o} : InHandler(p)' <=> InHandler(p)
      BY Zenon, <2>3 DEF InHandler
    <2> QED
      BY Zenon, <1>1, <2>2, <2>4, <2>5 DEF Unnoticed
  <1>6. CASE Reconcile(o)
    BY Zenon, <1>1, <1>6 DEF Reconcile, WorkerOnly, Unnoticed, InHandler
  <1> QED
    BY Zenon, <1>3, <1>4, <1>5, <1>6 DEF WorkerNext

\* Coordinators change neither requests nor barriers; only a delivered PUT does.
LEMMA CoordUnnoticed ==
    ASSUME Initialize \/ RequestClosing \/ LeaseExpires \/ (\E c \in Coordinators : CoordNext(c)) \/ UNCHANGED vars
    PROVE  Unnoticed
  <1>1. CoordOnly => UNCHANGED <<worker, wire, bar, avail>>
    BY Zenon DEF CoordOnly, cpVars, agentVars
  <1>2. ASSUME NEW c \in Coordinators, CoordNext(c)
        PROVE  UNCHANGED <<worker, wire, bar, avail>>
    <2>1. ASSUME NEW o \in Ops, ResolveAdmission(c, o) PROVE UNCHANGED <<worker, wire, bar, avail>>
      BY Zenon, <2>1 DEF ResolveAdmission, agentVars
    <2>2. ASSUME NEW o \in Ops, ObserveResource(c, o) PROVE CoordOnly
      BY Zenon, <2>2 DEF ObserveResource
    <2>3. CASE ResolveDispatch(c)
      BY Zenon, <2>3 DEF ResolveDispatch, agentVars
    <2>4. CASE \/ AcquireLease(c) \/ GiveUp(c) \/ BlockAll(c) \/ SendPut(c) \/ RecordAck(c) \/ ReadBack(c) \/ BlockAllDone(c)
      BY Zenon, <1>1, <2>4 DEF AcquireLease, GiveUp, BlockAll, SendPut, RecordAck, ReadBack, BlockAllDone
    <2>5. CASE CommitClosed(c) \/ CommitReconciling(c) \/ CommitOpen(c) \/ OpenAll(c) \/ OpenAllDone(c)
      BY Zenon, <1>1, <2>5 DEF CommitClosed, CommitReconciling, CommitOpen, OpenAll, OpenAllDone
    <2> QED
      BY Zenon, <1>1, <1>2, <2>1, <2>2, <2>3, <2>4, <2>5 DEF CoordNext
  <1>3. CASE Initialize \/ RequestClosing \/ LeaseExpires
    BY Zenon, <1>1, <1>3 DEF Initialize, RequestClosing, LeaseExpires, Unnoticed, InHandler
  <1>4. CASE UNCHANGED vars
    BY Zenon, <1>4 DEF vars, cpVars, agentVars, Unnoticed, InHandler
  <1>5. CASE \E c \in Coordinators : CoordNext(c)
    BY Zenon, <1>2, <1>5 DEF Unnoticed, InHandler
  <1> QED
    BY Zenon, <1>3, <1>4, <1>5
\* The steps of a request at its Agent: it enters the handler through an open
\* barrier (guard), works there, and leaves.
LEMMA RequestKeepsContract ==
    ASSUME IInv, Served, NEW o \in Ops, RequestNext(o)
    PROVE  Served' /\ \A a \in Agents : KeepsContract(a)
  <1> DEFINE b == worker[o].agent
  <1>1. UNCHANGED <<worker, bar, avail>>
    BY Zenon DEF RequestNext, Arrive, Update, HandlerReturns, AgentOnly, cpVars, agentVars
  <1>2. PICK w : Wire(o, w)
    BY Zenon DEF RequestNext, Arrive, Update, HandlerReturns, Answer
  <1>3. wire'[o] = w /\ \A p \in Ops \ {o} : wire'[p] = wire[p]
    BY <1>2, Facts DEF Wire, OpTypes
  <1>4. \A p \in Ops \ {o} : InHandler(p)' <=> InHandler(p)
    BY Zenon, <1>3 DEF InHandler
  <1>5. wire[o] \in {"sent", "running", "updated"} /\ b \in Agents
    <2>1. wire[o] \in {"sent", "running", "updated"}
      BY Zenon DEF RequestNext, Arrive, Update, HandlerReturns
    <2> QED
      BY <2>1, OpFacts DEF Agree
  <1>6. ~InHandler(o) /\ InHandler(o)' => avail[b] /\ bar[b].st = "OPEN"
    <2>1. ASSUME Arrive(o), InHandler(o)' PROVE avail[b] /\ bar[b].st = "OPEN"
      <3>1. "rejected" # w /\ "over" # w
        BY <1>3, <2>1 DEF InHandler
      <3>2. Wire(o, "over") => wire'[o] = "over"
        BY Facts DEF Wire, OpTypes
      <3>3. Answer(o, "rejected") => wire'[o] \in {"rejected", "over"}
        BY Facts DEF Answer, Wire, OpTypes
      <3>4. avail[b] /\ bar[b] = [gen |-> worker[o].gen, st |-> "OPEN"]
        BY <1>3, <2>1, <3>1, <3>2, <3>3 DEF Arrive
      <3> QED
        BY <3>4
    <2>2. Update(o) \/ HandlerReturns(o) => InHandler(o)
      BY Zenon DEF Update, HandlerReturns, InHandler
    <2> QED
      BY Zenon, <2>1, <2>2 DEF RequestNext
  <1>7. Served'
    <2>1. ASSUME NEW p \in Ops, InHandler(p)' PROVE avail'[worker'[p].agent]
      <3>1. CASE p = o
        BY Zenon, <1>1, <1>6, <2>1, <3>1 DEF Served
      <3>2. CASE p # o
        BY Zenon, <1>1, <1>4, <2>1, <3>2 DEF Served
      <3> QED
        BY Zenon, <3>1, <3>2
    <2> QED
      BY Zenon, <2>1 DEF Served
  <1>8. ASSUME NEW a \in Agents PROVE KeepsContract(a)
    <2>1. bar'[a] = bar[a] /\ avail'[a] = avail[a]
      BY Zenon, <1>1
    <2>2. \A p : p \in Serving(a) <=> p \in Ops /\ InHandler(p) /\ worker[p].agent = a
      BY Zenon DEF Serving
    <2>3. \A p : p \in Serving(a)' <=> p \in Ops /\ InHandler(p)' /\ worker[p].agent = a
      BY Zenon, <1>1 DEF Serving
    <2>4. CASE a # b \/ (InHandler(o)' <=> InHandler(o))
      <3>1. Serving(a)' = Serving(a)
        BY Zenon, <1>4, <2>2, <2>3, <2>4
      <3> QED
        BY Zenon, <2>1, <3>1, ContractStutter
    <2>5. CASE a = b /\ ~InHandler(o) /\ InHandler(o)'
      <3>1. Serving(a)' = Serving(a) \cup {o}
        BY Zenon, <1>4, <2>2, <2>3, <2>5
      <3>2. avail[a] /\ bar[a].st = "OPEN"
        BY Zenon, <1>6, <2>5
      <3>3. Agent(a)!Serve(o)
        BY <2>1, <3>1, <3>2 DEF Agent!Serve
      <3> QED
        BY Zenon, <3>3 DEF KeepsContract, Agent!ContractNext
    <2>6. CASE a = b /\ InHandler(o) /\ ~InHandler(o)'
      <3>1. Serving(a)' = Serving(a) \ {o}
        BY Zenon, <1>4, <2>2, <2>3, <2>6
      <3>2. Agent(a)!Return(o)
        BY <2>1, <3>1 DEF Agent!Return
      <3> QED
        BY Zenon, <3>2 DEF KeepsContract, Agent!ContractNext
    <2> QED
      BY Zenon, <2>4, <2>5, <2>6
  <1> QED
    BY Zenon, <1>7, <1>8
\* An Agent that goes down takes its handlers along.
LEMMA AgentDownKeepsContract ==
    ASSUME IInv, Served, NEW b \in Agents, AgentDown(b)
    PROVE  Served' /\ \A a \in Agents : KeepsContract(a)
  <1>1. UNCHANGED <<worker, bar>>
    BY Zenon DEF AgentDown, AgentOnly, cpVars
  <1>2. avail'[b] = FALSE /\ \A a \in Agents \ {b} : avail'[a] = avail[a]
    BY Facts DEF AgentDown
  <1>3. \A o \in Ops : InHandler(o)' <=> InHandler(o) /\ worker[o].agent # b
    BY DEF AgentDown, InHandler
  <1>4. Served'
    <2>1. ASSUME NEW o \in Ops, InHandler(o) PROVE worker[o].agent \in Agents
      BY <2>1, OpFacts DEF Agree, InHandler
    <2> QED
      BY Zenon, <1>1, <1>2, <1>3, <2>1 DEF Served
  <1>5. ASSUME NEW a \in Agents PROVE KeepsContract(a)
    <2>1. \A o : o \in Serving(a) <=> o \in Ops /\ InHandler(o) /\ worker[o].agent = a
      BY Zenon DEF Serving
    <2>2. \A o : o \in Serving(a)' <=> o \in Ops /\ InHandler(o)' /\ worker[o].agent = a
      BY Zenon, <1>1 DEF Serving
    <2>3. CASE a = b
      <3>1. Serving(a)' = {} /\ avail'[a] = FALSE /\ bar'[a] = bar[a]
        BY Zenon, <1>1, <1>2, <1>3, <2>2, <2>3
      <3>2. Agent(a)!BecomeUnavailable
        BY <3>1 DEF Agent!BecomeUnavailable
      <3> QED
        BY Zenon, <3>2 DEF KeepsContract, Agent!ContractNext
    <2>4. CASE a # b
      <3>1. Serving(a)' = Serving(a) /\ avail'[a] = avail[a] /\ bar'[a] = bar[a]
        BY Zenon, <1>1, <1>2, <1>3, <2>1, <2>2, <2>4
      <3> QED
        BY Zenon, <3>1, ContractStutter
    <2> QED
      BY Zenon, <2>3, <2>4
  <1> QED
    BY Zenon, <1>4, <1>5

\* An Agent comes back with no handler running.
LEMMA AgentUpKeepsContract ==
    ASSUME IInv, Served, NEW b \in Agents, AgentUp(b)
    PROVE  Served' /\ \A a \in Agents : KeepsContract(a)
  <1>1. UNCHANGED <<worker, wire, bar>> /\ ~avail[b]
    BY Zenon DEF AgentUp, AgentOnly, cpVars
  <1>2. avail'[b] = TRUE /\ \A a \in Agents \ {b} : avail'[a] = avail[a]
    BY Facts DEF AgentUp
  <1>3. \A o \in Ops : InHandler(o)' <=> InHandler(o)
    BY Zenon, <1>1 DEF InHandler
  <1>4. Served'
    <2>1. ASSUME NEW o \in Ops, InHandler(o) PROVE worker[o].agent \in Agents
      BY <2>1, OpFacts DEF Agree, InHandler
    <2> QED
      BY Zenon, <1>1, <1>2, <1>3, <2>1 DEF Served
  <1>5. ASSUME NEW a \in Agents PROVE KeepsContract(a)
    <2>1. Serving(a)' = Serving(a) /\ bar'[a] = bar[a]
      BY Zenon, <1>1 DEF Serving, InHandler
    <2>2. CASE a = b
      <3>1. Serving(a) = {}
        BY Zenon, <1>1, <2>2 DEF Serving, Served
      <3>2. Agent(a)!BecomeAvailable
        BY <1>1, <1>2, <2>1, <2>2, <3>1 DEF Agent!BecomeAvailable
      <3> QED
        BY Zenon, <3>2 DEF KeepsContract, Agent!ContractNext
    <2>3. CASE a # b
      BY Zenon, <1>2, <2>1, <2>3, ContractStutter
    <2> QED
      BY Zenon, <2>2, <2>3
  <1> QED
    BY Zenon, <1>4, <1>5

\* A delivered PUT moves the barrier forward with no handler running, or finds
\* it where it asks it to be (acceptBarrier).
LEMMA DeliverKeepsContract ==
    ASSUME IInv, Served, NEW m \in puts, DeliverPut(m)
    PROVE  Served' /\ \A a \in Agents : KeepsContract(a)
  <1> DEFINE b == m.to
  <1>1. UNCHANGED <<worker, wire, avail>> /\ Drained(b) /\ Accepts(b, m) /\ bar' = [bar EXCEPT ![b] = [gen |-> m.gen, st |-> m.st]]
    BY Zenon DEF DeliverPut, cpVars
  <1>2. m \in Messages /\ bar \in [Agents -> BarType]
    BY Zenon, Facts
  <1>3. /\ b \in Agents /\ m.gen \in 1 .. MaxGen /\ m.st \in {"OPEN", "BLOCKED"} /\ MaxGen \in Nat
        /\ bar'[b] = [gen |-> m.gen, st |-> m.st] /\ \A a \in Agents \ {b} : bar'[a] = bar[a]
    BY <1>1, <1>2, ConstantsAssumption DEF Messages
  <1>4. Served'
    BY Zenon, <1>1 DEF Served, InHandler
  <1>5. ASSUME NEW a \in Agents PROVE KeepsContract(a)
    <2>1. Serving(a)' = Serving(a) /\ avail'[a] = avail[a]
      BY Zenon, <1>1 DEF Serving, InHandler
    <2>2. CASE a # b \/ bar[b] = [gen |-> m.gen, st |-> m.st]
      <3>1. bar'[a] = bar[a]
        BY Zenon, <1>3, <2>2
      <3> QED
        BY Zenon, <2>1, <3>1, ContractStutter
    <2>3. CASE a = b /\ m.gen > bar[b].gen
      <3>1. Serving(a) = {}
        BY Zenon, <1>1, <2>3 DEF Serving, Drained
      <3>2. bar'[a].gen = m.gen /\ bar'[a].st = m.st /\ bar[a].gen \in 0 .. MaxGen
        BY <1>2, <1>3, <2>3 DEF BarType
      <3>3. Agent(a)!Advance
        BY <1>3, <2>1, <2>3, <3>1, <3>2 DEF Agent!Advance, Agent!Positions
      <3> QED
        BY Zenon, <3>3 DEF KeepsContract, Agent!ContractNext
    <2> QED
      BY Zenon, <1>1, <2>2, <2>3 DEF Accepts
  <1> QED
    BY Zenon, <1>4, <1>5

LEMMA NextKeepsContract ==
    ASSUME IInv, Served, [Next]_vars
    PROVE  Served' /\ \A a \in Agents : KeepsContract(a)
  BY Zenon, WorkerUnnoticed, CoordUnnoticed, UnnoticedStep, RequestKeepsContract, AgentDownKeepsContract, AgentUpKeepsContract,
     DeliverKeepsContract DEF Next

\* Every Agent of the fence keeps BarrierContract, which AgentBarrier implements
\* (AgentBarrierProofs!Implementation), at every step of any number of workers,
\* coordinators and Agents (guard, setMaintenanceBarrier).
THEOREM FenceAgentsKeepContract == Spec => AgentsKeepContract
  <1>1. ASSUME Init, NEW a \in Agents PROVE Agent(a)!ContractInit
    <2>1. bar[a] = [gen |-> 0, st |-> "BLOCKED"] /\ avail[a] = FALSE
      BY <1>1 DEF Init
    <2>2. Serving(a) = {}
      BY <1>1 DEF Init, Serving, InHandler
    <2> QED
      BY <2>1, <2>2 DEF Agent!ContractInit
  <1>2. Init => Served /\ \A a \in Agents : Agent(a)!ContractInit
    <2>1. Init => Served
      BY DEF Init, Served, InHandler
    <2> QED
      BY Zenon, <1>1, <2>1
  <1>3. IInv /\ Served /\ [Next]_vars => Served' /\ \A a \in Agents : Agent(a)!ContractNext \/ UNCHANGED Agent(a)!contractVars
    BY Zenon, NextKeepsContract DEF KeepsContract
  <1> QED
    BY <1>2, <1>3, Inductive, PTL DEF Spec, AgentsKeepContract
=============================================================================
