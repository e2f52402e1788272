------------------------- MODULE NodeWorkflowProofs -------------------------
(***************************************************************************)
(* The theorems of NodeWorkflow, for any number of nodes, services,        *)
(* operations and sessions.  The inductive invariant says what a session   *)
(* holds at each of its steps (LocksOK), what it works on (RolesOK), that  *)
(* what it found out under its locks is still so when it relies on it      *)
(* (ChecksOK, NodeOK), and that an ended operation's request meets a node  *)
(* that is not the planned one any more (OpOK).                            *)
(***************************************************************************)
EXTENDS NodeWorkflow, WellFoundedInduction, TLAPS

\* The resources and IDs of a behaviour do not change: P, D and E stand for
\* Present and the rows of node_operations and operations.
NodeType(P) == [ver : 1 .. MaxVer, spec : Specs, tasks : SUBSET (Scheduled \cap P)]
OpType(P) == [st : {"none", "RUNNING", "VERIFYING", "NEEDS_ATTENTION"} \cup Terminal,
              unseen : BOOLEAN, at : (Nodes \cap P) \cup {None}, ver : 0 .. MaxVer,
              before : SpecOrNone, target : SpecOrNone, affected : SUBSET (Services \cap P)]
SopType(P) == [st : {"none", "unfinished", "ended"}, at : (Services \cap P) \cup {None}]
WireType == {"none", "sent", "checked", "ok", "rejected", "over"}
SessType(P, D, E) ==
    [pc : Steps, req : D \cup E \cup {None}, op : D \cup {None}, at : P \cup {None}, label : BOOLEAN,
     seen : SUBSET (Services \cap P), todo : SUBSET P, ver : 0 .. MaxVer, before : SpecOrNone]

Rows == DOMAIN nop
ServiceRows == DOMAIN sop

Types ==
    /\ Present \subseteq Resources /\ Rows \subseteq NodeOps /\ ServiceRows \subseteq ServiceOps
    /\ node \in [Nodes \cap Present -> NodeType(Present)]
    /\ uses \subseteq Constrained \cap Present
    /\ nop \in [Rows -> OpType(Present)]
    /\ sop \in [ServiceRows -> SopType(Present)]
    /\ wire \in [Rows -> WireType]
    /\ owner \in [Present -> Sessions \cup {None}]
    /\ sess \in [Sessions -> SessType(Present, Rows, ServiceRows)]

Working == {"dispatch", "waiting", "accepted", "reconcile", "verify"} \cup Outcomes

\* What a session holds, and in which order it takes what it does not hold.
LocksOK(x) ==
    LET s == sess[x] IN
    /\ s.pc \in {"free", "reading"} => \A k \in Present : owner[k] # x
    /\ s.pc # "free" => s.at \in Present
    /\ s.pc = "reading" => s.at \in s.todo /\ s.seen \subseteq s.todo
    /\ s.pc = "locking" =>
          /\ s.todo # {}
          /\ \A k \in {s.at} \cup s.seen : k \in s.todo \/ owner[k] = x
          /\ \A k \in Present : owner[k] = x => \A j \in s.todo : k < j
    /\ AtWork(x) => \A k \in {s.at} \cup s.seen : owner[k] = x

\* What a session is about.
RolesOK(x) ==
    LET s == sess[x] IN
    /\ s.op # None => nop[s.op].st # "none" /\ nop[s.op].at = s.at
    /\ s.pc \in {"reading", "inspected", "planned"} => s.req \in Rows /\ s.at \in Nodes /\ s.op = None
    /\ s.pc \in {"locking", "locked"} => \/ s.req = None /\ s.op # None
                                         \/ s.req \in Rows /\ s.at \in Nodes /\ s.op = None
                                         \/ s.req \in ServiceRows /\ s.at \in Services /\ s.op = None
    /\ s.pc \in Working => /\ s.op # None /\ Unfinished(s.op)
                           /\ s.req \in Rows \cup {None}
    /\ s.pc \in {"serviceChecked", "serviceWork"} => s.req \in ServiceRows /\ s.at \in Services /\ s.op = None
    /\ s.pc = "serviceWork" => ServiceUnfinished(s.req) /\ sop[s.req].at = s.at

\* What a session found out under its locks is still so.
ChecksOK(x) ==
    LET s == sess[x] IN
    /\ s.pc \in {"inspected", "planned"} => \A p \in Rows : Unfinished(p) => nop[p].at # s.at
    /\ s.pc = "planned" =>
          /\ \A v \in ServiceRows : ServiceUnfinished(v) => sop[v].at \notin s.seen
          /\ \A p \in Rows : Unfinished(p) => nop[p].affected \cap s.seen = {}
    /\ s.pc = "serviceChecked" => \A p \in Rows : Unfinished(p) => s.at \notin nop[p].affected

\* Docker counts a node's changes: ver stands for the spec seen with it.
Seen(n, ver, spec) ==
    /\ ver \in Nat /\ spec \in Specs
    /\ node[n].ver >= ver
    /\ node[n].ver = ver => node[n].spec = spec
Passed(o) == ~(Unchanged(o) /\ nop[o].before # nop[o].target)

NodeOK(x) ==
    LET s == sess[x] IN
    /\ s.pc \in {"inspected", "planned"} => Seen(s.at, s.ver, s.before)
    /\ s.pc = "dispatch" => wire[s.op] = "none"
    /\ s.pc = "fail" => wire[s.op] \notin {"sent", "checked"}
    /\ s.pc = "success" => Passed(s.op)

OpOK(o) ==
    /\ nop[o].st = "none" => wire[o] = "none"
    /\ nop[o].st # "none" => /\ nop[o].at \in Nodes \cap Present /\ nop[o].target \in Specs
                             /\ Seen(nop[o].at, nop[o].ver, nop[o].before)
    /\ nop[o].st \in Terminal => wire[o] \notin {"sent", "checked"} \/ Passed(o)

IInv ==
    /\ Types
    /\ \A x \in Sessions : LocksOK(x) /\ RolesOK(x) /\ ChecksOK(x) /\ NodeOK(x)
    /\ \A o \in Rows : OpOK(o)
    /\ Exclusion

-----------------------------------------------------------------------------
(* Lock names are well ordered *)

Less == {ss \in Nat \X Nat : ss[1] < ss[2]}

LEMMA LessWellFounded == IsWellFoundedOn(Less, Nat)
  <1>1. OpToRel(<, Nat) = Less
    BY Zenon DEF OpToRel, Less
  <1> QED
    BY <1>1, NatLessThanWellFounded, Zenon

\* A set of lock names has a first one.
LEMMA MinOfSet ==
    ASSUME NEW T \in SUBSET Nat, T # {}
    PROVE  Min(T) \in T /\ \A y \in T : Min(T) <= y
  <1>1. PICK x \in T : \A y \in T : <<y, x>> \notin Less
    BY Zenon, LessWellFounded, WFMin
  <1>2. ASSUME NEW y \in T PROVE x <= y
    <2>1. x \in Nat /\ y \in Nat
      BY Zenon
    <2>2. <<y, x>> \in Less <=> y < x
      BY Zenon, <2>1 DEF Less
    <2> QED
      BY <1>1, <2>1, <2>2
  <1> QED
    BY Zenon, <1>2 DEF Min

\* A set of lock names with a bound has a last one.
LEMMA MaxOfSet ==
    ASSUME NEW T \in SUBSET Nat, T # {}, NEW b \in Nat, \A y \in T : y <= b
    PROVE  \E m \in T : \A y \in T : y <= m
  <1> DEFINE U == {b - y : y \in T}
  <1>1. U \in SUBSET Nat /\ U # {}
    <2>1. ASSUME NEW y \in T PROVE b - y \in Nat
      <3>1. y \in Nat /\ y <= b
        BY Zenon
      <3> QED
        BY <3>1
    <2> QED
      BY Zenon, <2>1
  <1>2. PICK u \in U : \A v \in U : u <= v
    BY Zenon, <1>1, MinOfSet
  <1>3. PICK m \in T : u = b - m
    BY Zenon, <1>2
  <1>4. \A y \in T : b - m <= b - y
    BY Zenon, <1>2, <1>3
  <1> QED
    BY <1>4

-----------------------------------------------------------------------------
(* Facts of the state *)

Good(x) == LocksOK(x) /\ RolesOK(x) /\ ChecksOK(x) /\ NodeOK(x)

LEMMA Facts ==
    ASSUME IInv
    PROVE  /\ Types /\ Exclusion
           /\ \A x \in Sessions : Good(x)
           /\ \A x \in Sessions : sess[x] \in SessType(Present, Rows, ServiceRows)
           /\ \A o \in Rows : OpOK(o) /\ nop[o] \in OpType(Present) /\ o \in NodeOps
           /\ \A v \in ServiceRows : sop[v] \in SopType(Present) /\ v \in ServiceOps
           /\ \A n \in Nodes \cap Present : node[n] \in NodeType(Present)
           /\ Present \subseteq Nat /\ Rows \cap ServiceRows = {} /\ Nodes \cap Services = {}
           /\ None \notin Rows /\ None \notin ServiceRows /\ None \notin Present /\ None \notin Sessions
  <1>1. Types /\ Exclusion /\ (\A x \in Sessions : Good(x)) /\ \A o \in Rows : OpOK(o)
    BY Zenon DEF IInv, Good
  <1>2. /\ Present \subseteq Nat /\ Rows \cap ServiceRows = {} /\ Nodes \cap Services = {}
        /\ None \notin Rows /\ None \notin ServiceRows /\ None \notin Present /\ None \notin Sessions
    BY Zenon, <1>1, NodeAssumption DEF Types, Resources
  <1>3. /\ \A x \in Sessions : sess[x] \in SessType(Present, Rows, ServiceRows)
        /\ \A o \in Rows : nop[o] \in OpType(Present) /\ o \in NodeOps
        /\ \A v \in ServiceRows : sop[v] \in SopType(Present) /\ v \in ServiceOps
        /\ \A n \in Nodes \cap Present : node[n] \in NodeType(Present)
    BY Zenon, <1>1 DEF Types
  <1> QED
    BY Zenon, <1>1, <1>2, <1>3

\* Two sessions at work are at different resources, and see different services.
LEMMA Apart ==
    ASSUME IInv, NEW x \in Sessions, NEW y \in Sessions, x # y, AtWork(x), AtWork(y)
    PROVE  /\ sess[x].at # sess[y].at /\ sess[x].at \notin sess[y].seen
           /\ sess[x].seen \cap sess[y].seen = {}
           /\ sess[x].op # None => sess[x].op # sess[y].op
  <1>1. /\ \A k \in {sess[x].at} \cup sess[x].seen : owner[k] = x
        /\ \A k \in {sess[y].at} \cup sess[y].seen : owner[k] = y
    BY Zenon, Facts DEF Good, LocksOK
  <1>2. sess[x].op # None => nop[sess[x].op].at = sess[x].at
    BY Zenon, Facts DEF Good, RolesOK
  <1>3. sess[y].op # None => nop[sess[y].op].at = sess[y].at
    BY Zenon, Facts DEF Good, RolesOK
  <1> QED
    BY <1>1, <1>2, <1>3

\* The sessions that do work on a node operation have the locks.
LEMMA WorkingAtWork ==
    ASSUME NEW x \in Sessions, sess[x].pc \in Working \cup {"locked", "inspected", "planned", "serviceChecked", "serviceWork"}
    PROVE  AtWork(x)
  BY Zenon DEF Working, AtWork, Outcomes

-----------------------------------------------------------------------------
(* Steps that change a session and the owners of locks, and nothing else *)

OwnersKept(x) == \A k \in Present : owner'[k] = owner[k] \/ (owner[k] \in {x, None} /\ owner'[k] \in {x, None})

LEMMA OthersLocks ==
    ASSUME IInv, NEW x \in Sessions, NEW y \in Sessions, x # y, sess'[y] = sess[y], Present' = Present, OwnersKept(x)
    PROVE  LocksOK(y)'
  <1>1. LocksOK(y) /\ sess[y] \in SessType(Present, Rows, ServiceRows) /\ y # None
    BY Zenon, Facts DEF Good
  <1>2. \A k \in Present : owner'[k] = y <=> owner[k] = y
    BY Zenon, <1>1 DEF OwnersKept
  <1>3. sess[y].seen \subseteq Present
    BY Zenon, <1>1 DEF SessType
  <1>4. sess[y].pc # "free" => sess[y].at \in Present
    BY Zenon, <1>1 DEF LocksOK
  <1>5. sess[y].pc # "free" => \A k \in {sess[y].at} \cup sess[y].seen : owner'[k] = y <=> owner[k] = y
    BY Zenon, <1>2, <1>3, <1>4
  <1> QED
    BY Zenon, <1>1, <1>2, <1>5 DEF LocksOK, AtWork

LEMMA SessionStep ==
    ASSUME IInv, NEW x \in Sessions, NEW new \in SessType(Present, Rows, ServiceRows),
           sess' = [sess EXCEPT ![x] = new], UNCHANGED <<node, uses, nop, sop, wire>>,
           owner' \in [Present -> Sessions \cup {None}], OwnersKept(x), Good(x)'
    PROVE  IInv'
  <1>1. Present' = Present /\ Rows' = Rows /\ ServiceRows' = ServiceRows
    BY Zenon DEF Present, Rows, ServiceRows
  <1>2. sess' \in [Sessions -> SessType(Present, Rows, ServiceRows)] /\ \A y \in Sessions \ {x} : sess'[y] = sess[y]
    BY Zenon, Facts DEF Types
  <1>3. Types'
    BY Zenon, <1>1, <1>2, Facts DEF Types
  <1>4. ASSUME NEW y \in Sessions \ {x} PROVE Good(y)'
    <2>1. LocksOK(y)'
      BY Zenon, <1>1, <1>2, OthersLocks
    <2>2. RolesOK(y)' /\ ChecksOK(y)' /\ NodeOK(y)'
      <3>1. RolesOK(y) /\ ChecksOK(y) /\ NodeOK(y) /\ sess'[y] = sess[y]
        BY Zenon, <1>2, Facts DEF Good
      <3>2. RolesOK(y)'
        BY <1>1, <3>1 DEF RolesOK, Unfinished, ServiceUnfinished
      <3>3. ChecksOK(y)'
        BY Zenon, <1>1, <3>1 DEF ChecksOK, Unfinished, ServiceUnfinished
      <3>4. NodeOK(y)'
        BY Zenon, <1>1, <3>1 DEF NodeOK, Seen, Passed, Unchanged
      <3> QED
        BY Zenon, <3>2, <3>3, <3>4
    <2> QED
      BY Zenon, <2>1, <2>2 DEF Good
  <1>5. Exclusion' /\ \A o \in Rows : OpOK(o)'
    BY Zenon, <1>1, Facts DEF Exclusion, OpOK, Unfinished, ServiceUnfinished, Seen, Passed, Unchanged, Rows
  <1> QED
    BY Zenon, <1>1, <1>3, <1>4, <1>5 DEF IInv, Good

LEMMA FreeType == Free \in SessType(Present, Rows, ServiceRows)
  BY NodeAssumption DEF Free, SessType, Steps, SpecOrNone

\* A session that leaves is free, and its locks are.
LEMMA LeaveStep ==
    ASSUME IInv, NEW x \in Sessions, Leave(x)
    PROVE  /\ Good(x)' /\ OwnersKept(x) /\ owner' \in [Present -> Sessions \cup {None}]
           /\ sess' = [sess EXCEPT ![x] = Free]
  <1>1. owner' \in [Present -> Sessions \cup {None}] /\ \A k \in Present : owner'[k] = IF owner[k] = x THEN None ELSE owner[k]
    BY Zenon, Facts DEF Leave, Types
  <1>2. Present' = Present
    BY Zenon, <1>1 DEF Present
  <1>3. sess'[x] = Free /\ x # None
    BY Zenon, Facts DEF Leave, Types
  <1>4. OwnersKept(x)
    BY Zenon, <1>1 DEF OwnersKept
  <1>5. LocksOK(x)'
    BY <1>1, <1>2, <1>3 DEF LocksOK, Free, AtWork
  <1>6. RolesOK(x)' /\ ChecksOK(x)' /\ NodeOK(x)'
    BY <1>3 DEF RolesOK, ChecksOK, NodeOK, Free, Working, Outcomes
  <1> QED
    BY Zenon, <1>1, <1>4, <1>5, <1>6 DEF Good, Leave

LEMMA LeaveOnly ==
    ASSUME IInv, NEW x \in Sessions, Leave(x), UNCHANGED <<node, uses, nop, sop, wire>>
    PROVE  IInv'
  BY Zenon, LeaveStep, FreeType, SessionStep

\* A session that keeps its locks, and whose other variables stay.
LEMMA KeepLocks ==
    ASSUME IInv, NEW x \in Sessions, NEW new \in SessType(Present, Rows, ServiceRows),
           sess' = [sess EXCEPT ![x] = new], UNCHANGED <<node, uses, nop, sop, wire, owner>>, Good(x)'
    PROVE  IInv'
  <1>1. OwnersKept(x) /\ owner' \in [Present -> Sessions \cup {None}]
    BY Zenon, Facts DEF OwnersKept, Types
  <1> QED
    BY Zenon, <1>1, SessionStep

LEMMA SpecFacts ==
    ASSUME NEW spec \in Specs, NEW o, NEW label \in BOOLEAN
    PROVE  Target(o, spec, label) \in Specs
  BY Zenon DEF Target, PlanNodeLabels, planNodeAvailability, Specs

LEMMA AffectedFacts ==
    ASSUME IInv, NEW o, NEW n \in Nodes \cap Present, NEW target
    PROVE  AffectedNow(o, n, target) \in SUBSET (Services \cap Present)
  <1>1. node[n].tasks \subseteq Scheduled \cap Present /\ uses \subseteq Constrained \cap Present
    BY Zenon, Facts DEF Types, NodeType
  <1> QED
    BY Zenon, <1>1, NodeAssumption DEF AffectedNow, serviceIDsAffectedByNodeLabels

LEMMA MutateStep ==
    ASSUME IInv, NEW x \in Sessions, NEW o \in Rows, NEW n \in Nodes \cap Present, NEW label \in BOOLEAN,
           Mutate(x, o, n, label)
    PROVE  IInv'
  <1> DEFINE seen == IF o \in Labelings /\ nop[o].st # "none" THEN nop[o].affected
                     ELSE AffectedNow(o, n, Target(o, node[n].spec, label))
             known == IF nop[o].at = n THEN nop[o].affected ELSE {}
             new == [Free EXCEPT !.pc = "reading", !.req = o, !.at = n, !.label = label,
                                 !.seen = seen, !.todo = {n} \cup seen \cup known]
  <1>1. sess[x].pc = "free" /\ sess' = [sess EXCEPT ![x] = new] /\ UNCHANGED <<node, uses, nop, sop, wire, owner>>
    BY Zenon DEF Mutate
  <1>2. seen \in SUBSET (Services \cap Present) /\ known \in SUBSET (Services \cap Present)
    BY Zenon, Facts, AffectedFacts DEF OpType
  <1> HIDE DEF seen, known
  <1>3. new \in SessType(Present, Rows, ServiceRows)
    BY Zenon, <1>2, FreeType DEF SessType, Free, Steps
  <1>4. sess'[x] = new /\ Present' = Present /\ Rows' = Rows
    BY Zenon, <1>1, Facts DEF Types, Present, Rows
  <1>5. new.pc = "reading" /\ new.at = n /\ new.op = None /\ new.req = o /\ new.seen = seen
        /\ new.todo = {n} \cup seen \cup known
    BY Zenon DEF Free
  <1> HIDE DEF new
  <1>6. LocksOK(x)'
    BY <1>1, <1>4, <1>5, Facts DEF LocksOK, Good, AtWork
  <1>7. RolesOK(x)' /\ ChecksOK(x)' /\ NodeOK(x)'
    BY Zenon, <1>4, <1>5 DEF RolesOK, ChecksOK, NodeOK, Working, Outcomes
  <1> QED
    BY Zenon, <1>1, <1>3, <1>6, <1>7, KeepLocks DEF Good

LEMMA MutateServiceStep ==
    ASSUME IInv, NEW x \in Sessions, NEW v \in ServiceRows, NEW s \in Services \cap Present, MutateService(x, v, s)
    PROVE  IInv'
  <1> DEFINE new == [Free EXCEPT !.pc = "locking", !.req = v, !.at = s, !.todo = {s}]
  <1>1. sess[x].pc = "free" /\ sess' = [sess EXCEPT ![x] = new] /\ UNCHANGED <<node, uses, nop, sop, wire, owner>>
    BY Zenon DEF MutateService
  <1>3. new \in SessType(Present, Rows, ServiceRows)
    BY Zenon, FreeType DEF SessType, Free, Steps
  <1>4. sess'[x] = new /\ Present' = Present /\ ServiceRows' = ServiceRows
    BY Zenon, <1>1, Facts DEF Types, Present, ServiceRows
  <1>5. new.pc = "locking" /\ new.at = s /\ new.op = None /\ new.req = v /\ new.seen = {} /\ new.todo = {s}
    BY Zenon DEF Free
  <1> HIDE DEF new
  <1>6. LocksOK(x)'
    BY <1>1, <1>4, <1>5, Facts DEF LocksOK, Good, AtWork
  <1>7. RolesOK(x)' /\ ChecksOK(x)' /\ NodeOK(x)'
    BY Zenon, <1>4, <1>5 DEF RolesOK, ChecksOK, NodeOK, Working, Outcomes
  <1> QED
    BY Zenon, <1>1, <1>3, <1>6, <1>7, KeepLocks DEF Good

LEMMA RecoverStep ==
    ASSUME IInv, NEW x \in Sessions, NEW o \in Rows, Recover(x, o)
    PROVE  IInv'
  <1> DEFINE new == [Free EXCEPT !.pc = "locking", !.op = o, !.at = nop[o].at, !.todo = {nop[o].at} \cup nop[o].affected]
  <1>1. sess[x].pc = "free" /\ sess' = [sess EXCEPT ![x] = new] /\ UNCHANGED <<node, uses, nop, sop, wire, owner>>
    BY Zenon DEF Recover
  <1>2. nop[o].st # "none" /\ nop[o].at \in Nodes \cap Present /\ nop[o].affected \in SUBSET Present /\ o # None
    BY Zenon, Facts DEF Recover, Unfinished, OpOK, OpType
  <1>3. new \in SessType(Present, Rows, ServiceRows)
    BY Zenon, <1>2, FreeType DEF SessType, Free, Steps
  <1>4. sess'[x] = new /\ Present' = Present /\ Rows' = Rows
    BY Zenon, <1>1, Facts DEF Types, Present, Rows
  <1>5. new.pc = "locking" /\ new.at = nop[o].at /\ new.op = o /\ new.req = None /\ new.seen = {}
        /\ new.todo = {nop[o].at} \cup nop[o].affected
    BY Zenon DEF Free
  <1> HIDE DEF new
  <1>6. LocksOK(x)'
    BY <1>1, <1>2, <1>4, <1>5, Facts DEF LocksOK, Good, AtWork
  <1>7. RolesOK(x)' /\ ChecksOK(x)' /\ NodeOK(x)'
    BY Zenon, <1>1, <1>2, <1>4, <1>5 DEF RolesOK, ChecksOK, NodeOK, Working, Outcomes
  <1> QED
    BY Zenon, <1>1, <1>3, <1>6, <1>7, KeepLocks DEF Good

LEMMA ReadPriorStep ==
    ASSUME IInv, NEW x \in Sessions, ReadPrior(x)
    PROVE  IInv'
  <1> DEFINE more == UNION {nop[p].affected : p \in findNonTerminalForNode(sess[x].at)}
             new == [sess[x] EXCEPT !.pc = "locking", !.todo = @ \cup more]
  <1>1. sess[x].pc = "reading" /\ sess' = [sess EXCEPT ![x] = new] /\ UNCHANGED <<node, uses, nop, sop, wire, owner>>
    BY Zenon, Facts DEF ReadPrior, Types, SessType
  <1>2. more \in SUBSET Present
    BY Zenon, Facts DEF findNonTerminalForNode, OpType, Rows
  <1> HIDE DEF more
  <1>3. new \in SessType(Present, Rows, ServiceRows)
    <2>1. sess[x] \in SessType(Present, Rows, ServiceRows)
      BY Zenon, Facts
    <2> QED
      BY Zenon, <1>2, <2>1 DEF SessType, Steps
  <1>4. sess'[x] = new /\ Present' = Present /\ Rows' = Rows
    BY Zenon, <1>1, Facts DEF Types, Present, Rows
  <1>5. new.pc = "locking" /\ new.at = sess[x].at /\ new.op = sess[x].op /\ new.req = sess[x].req
        /\ new.seen = sess[x].seen /\ new.todo = sess[x].todo \cup more
    BY Zenon, Facts DEF SessType
  <1> HIDE DEF new
  <1>6. LocksOK(x)'
    BY <1>1, <1>2, <1>4, <1>5, Facts DEF LocksOK, Good, AtWork
  <1>7. RolesOK(x)' /\ ChecksOK(x)' /\ NodeOK(x)'
    <2>1. RolesOK(x)
      BY Zenon, Facts DEF Good
    <2> QED
      BY <1>1, <1>4, <1>5, <2>1 DEF RolesOK, ChecksOK, NodeOK, Working, Outcomes
  <1> QED
    BY Zenon, <1>1, <1>3, <1>6, <1>7, KeepLocks DEF Good

\* The lock taken is after those held and before those still to take.
LEMMA AcquireStep ==
    ASSUME IInv, NEW x \in Sessions, Acquire(x)
    PROVE  IInv'
  <1> DEFINE todo == sess[x].todo
             k == Min(todo)
             new == [sess[x] EXCEPT !.todo = @ \ {k}, !.pc = IF todo = {k} THEN "locked" ELSE "locking"]
  <1>1. /\ sess[x].pc = "locking" /\ owner[k] = None /\ owner' = [owner EXCEPT ![k] = x]
        /\ sess' = [sess EXCEPT ![x] = new] /\ UNCHANGED <<node, uses, nop, sop, wire>>
    BY Zenon, Facts DEF Acquire, Types, SessType
  <1>2. todo \in SUBSET Present /\ todo # {} /\ todo \in SUBSET Nat
    BY Zenon, <1>1, Facts DEF Good, LocksOK, SessType
  <1>3. k \in todo /\ (\A j \in todo : k <= j) /\ k \in Nat
    BY Zenon, <1>2, MinOfSet
  <1> HIDE DEF k
  <1>4. \A j \in todo \ {k} : k < j
    BY <1>2, <1>3
  <1>5. new \in SessType(Present, Rows, ServiceRows)
    <2>1. sess[x] \in SessType(Present, Rows, ServiceRows)
      BY Zenon, Facts
    <2>2. (IF todo = {k} THEN "locked" ELSE "locking") \in Steps
      BY Zenon DEF Steps
    <2>3. todo \ {k} \in SUBSET Present
      BY Zenon, <1>2
    <2> QED
      BY Zenon, <2>1, <2>2, <2>3 DEF SessType
  <1>6. owner' \in [Present -> Sessions \cup {None}] /\ owner'[k] = x /\ \A j \in Present \ {k} : owner'[j] = owner[j]
    BY Zenon, <1>1, <1>2, <1>3, Facts DEF Types
  <1>7. OwnersKept(x)
    BY Zenon, <1>1, <1>6 DEF OwnersKept
  <1>8. sess'[x] = new /\ Present' = Present /\ Rows' = Rows /\ ServiceRows' = ServiceRows
    BY Zenon, <1>1, <1>6, Facts DEF Types, Present, Rows, ServiceRows
  <1>9. new.pc = (IF todo = {k} THEN "locked" ELSE "locking") /\ new.at = sess[x].at /\ new.op = sess[x].op
        /\ new.req = sess[x].req /\ new.seen = sess[x].seen /\ new.todo = todo \ {k}
    BY Zenon, Facts DEF SessType
  <1> HIDE DEF new
  <1>10. LocksOK(x)'
    <2>1. /\ sess[x].at \in Present /\ sess[x].seen \subseteq Present
          /\ \A j \in {sess[x].at} \cup sess[x].seen : j \in todo \/ owner[j] = x
          /\ \A i \in Present : owner[i] = x => \A j \in todo : i < j
      BY Zenon, <1>1, Facts DEF Good, LocksOK, SessType
    <2>2. \A j \in {sess[x].at} \cup sess[x].seen : j \in todo \ {k} \/ owner'[j] = x
      BY Zenon, <1>6, <2>1
    <2>3. \A i \in Present : owner'[i] = x => \A j \in todo \ {k} : i < j
      BY Zenon, <1>4, <1>6, <2>1
    <2>4. todo \ {k} = {} <=> todo = {k}
      BY Zenon, <1>3
    <2> QED
      BY Zenon, <1>8, <1>9, <2>1, <2>2, <2>3, <2>4 DEF LocksOK, AtWork
  <1>11. RolesOK(x)' /\ ChecksOK(x)' /\ NodeOK(x)'
    <2>1. RolesOK(x)
      BY Zenon, Facts DEF Good
    <2> QED
      BY <1>1, <1>8, <1>9, <2>1 DEF RolesOK, ChecksOK, NodeOK, Working, Outcomes
  <1> QED
    BY Zenon, <1>1, <1>5, <1>6, <1>7, <1>10, <1>11, SessionStep DEF Good

LEMMA LockTimeoutStep ==
    ASSUME IInv, NEW x \in Sessions, LockTimeout(x)
    PROVE  IInv'
  BY Zenon, LeaveOnly DEF LockTimeout

-----------------------------------------------------------------------------
(* Steps under the locks that change the session only *)

\* A session at work that goes on, with the locks it has.
LEMMA GoOnStep ==
    ASSUME IInv, NEW x \in Sessions, AtWork(x), NEW new \in SessType(Present, Rows, ServiceRows),
           sess' = [sess EXCEPT ![x] = new], UNCHANGED <<node, uses, nop, sop, wire, owner>>,
           new.pc \notin {"free", "reading", "locking"},
           new.at = sess[x].at, new.seen \subseteq sess[x].seen,
           RolesOK(x)', ChecksOK(x)', NodeOK(x)'
    PROVE  IInv'
  <1>1. sess'[x] = new /\ Present' = Present
    BY Zenon, Facts DEF Types, Present
  <1>2. LocksOK(x) /\ sess[x].pc # "free"
    BY Zenon, Facts DEF Good, AtWork
  <1>3. LocksOK(x)'
    BY <1>1, <1>2 DEF LocksOK, AtWork
  <1> QED
    BY Zenon, <1>3, KeepLocks DEF Good

LEMMA GoType ==
    ASSUME IInv, NEW x \in Sessions, NEW pc \in Steps, Go(x, pc)
    PROVE  /\ [sess[x] EXCEPT !.pc = pc] \in SessType(Present, Rows, ServiceRows)
           /\ sess' = [sess EXCEPT ![x] = [sess[x] EXCEPT !.pc = pc]]
           /\ sess'[x].pc = pc /\ sess'[x].req = sess[x].req /\ sess'[x].op = sess[x].op /\ sess'[x].at = sess[x].at
           /\ sess'[x].seen = sess[x].seen /\ sess'[x].ver = sess[x].ver /\ sess'[x].before = sess[x].before
           /\ \A y \in Sessions \ {x} : sess'[y] = sess[y]
  <1>1. sess[x] \in SessType(Present, Rows, ServiceRows) /\ sess \in [Sessions -> SessType(Present, Rows, ServiceRows)]
    BY Zenon, Facts DEF Types
  <1>2. [sess[x] EXCEPT !.pc = pc] \in SessType(Present, Rows, ServiceRows)
    BY Zenon, <1>1 DEF SessType
  <1>3. sess' = [sess EXCEPT ![x] = [sess[x] EXCEPT !.pc = pc]]
    BY Zenon, <1>1 DEF Go, SessType
  <1>4. sess'[x] = [sess[x] EXCEPT !.pc = pc] /\ \A y \in Sessions \ {x} : sess'[y] = sess[y]
    BY Zenon, <1>1, <1>3
  <1> QED
    BY Zenon, <1>1, <1>2, <1>3, <1>4 DEF SessType

\* Most steps only go on to another one.
LEMMA GoStep ==
    ASSUME IInv, NEW x \in Sessions, AtWork(x), NEW pc \in Steps, Go(x, pc), pc \notin {"free", "reading", "locking"},
           UNCHANGED <<node, uses, nop, sop, wire, owner>>, RolesOK(x)', ChecksOK(x)', NodeOK(x)'
    PROVE  IInv'
  <1> DEFINE new == [sess[x] EXCEPT !.pc = pc]
  <1>1. new \in SessType(Present, Rows, ServiceRows) /\ sess' = [sess EXCEPT ![x] = new]
    BY Zenon, GoType
  <1>2. new.pc = pc /\ new.at = sess[x].at /\ new.seen = sess[x].seen
    BY Zenon, Facts DEF SessType
  <1> QED
    BY Zenon, <1>1, <1>2, GoOnStep

Worker(x, o, pc) == [Free EXCEPT !.pc = pc, !.req = o, !.op = o, !.at = sess[x].at]

LEMMA WorkOnFacts ==
    ASSUME IInv, NEW x \in Sessions, NEW o \in Rows, NEW pc \in Steps, WorkOn(x, o, pc)
    PROVE  /\ Worker(x, o, pc) \in SessType(Present, Rows, ServiceRows)
           /\ sess' = [sess EXCEPT ![x] = Worker(x, o, pc)] /\ sess'[x] = Worker(x, o, pc)
           /\ sess'[x].pc = pc /\ sess'[x].req = o /\ sess'[x].op = o /\ sess'[x].at = sess[x].at /\ sess'[x].seen = {}
           /\ \A y \in Sessions \ {x} : sess'[y] = sess[y]
  <1> DEFINE new == Worker(x, o, pc)
  <1>1. sess[x].at \in Present \cup {None} /\ sess \in [Sessions -> SessType(Present, Rows, ServiceRows)]
    BY Zenon, Facts DEF SessType, Types
  <1>2. new \in SessType(Present, Rows, ServiceRows)
    BY Zenon, <1>1, FreeType DEF SessType, Free, Worker
  <1>3. new.pc = pc /\ new.req = o /\ new.op = o /\ new.at = sess[x].at /\ new.seen = {}
    BY Zenon DEF Free, Worker
  <1>4. sess' = [sess EXCEPT ![x] = new]
    BY Zenon DEF WorkOn, Worker
  <1> HIDE DEF new
  <1>5. sess'[x] = new /\ \A y \in Sessions \ {x} : sess'[y] = sess[y]
    BY Zenon, <1>1, <1>4
  <1> QED
    BY Zenon, <1>2, <1>3, <1>4, <1>5 DEF new

LEMMA TakeUpExistingStep ==
    ASSUME IInv, NEW x \in Sessions, TakeUpExisting(x)
    PROVE  IInv'
  <1> DEFINE o == sess[x].req
  <1>1. CASE Unfinished(o) /\ nop[o].at = sess[x].at
    <2>1. /\ sess[x].pc = "locked" /\ o \in NodeOps /\ nop[o].st # "none" /\ WorkOn(x, o, "reconcile")
          /\ UNCHANGED <<node, uses, nop, sop, wire, owner>>
      BY Zenon, <1>1 DEF TakeUpExisting
    <2>2. o \in Rows
      BY <2>1, Facts, NodeAssumption DEF SessType, Types
    <2>3. AtWork(x) /\ "reconcile" \in Steps /\ o # None
      BY Zenon, <2>1, <2>2, Facts DEF AtWork, Steps
    <2> DEFINE new == Worker(x, o, "reconcile")
    <2>4. /\ new \in SessType(Present, Rows, ServiceRows) /\ sess' = [sess EXCEPT ![x] = new] /\ sess'[x] = new
          /\ new.pc = "reconcile" /\ new.req = o /\ new.op = o /\ new.at = sess[x].at /\ new.seen = {}
      BY <2>1, <2>2, <2>3, WorkOnFacts
    <2> HIDE DEF new
    <2>5. RolesOK(x)' /\ ChecksOK(x)' /\ NodeOK(x)'
      BY Zenon, <1>1, <2>1, <2>2, <2>3, <2>4 DEF RolesOK, ChecksOK, NodeOK, Unfinished, Working, Outcomes, Rows
    <2> QED
      BY Zenon, <2>1, <2>3, <2>4, <2>5, GoOnStep
  <1>2. CASE ~(Unfinished(o) /\ nop[o].at = sess[x].at)
    BY Zenon, <1>2, LeaveOnly DEF TakeUpExisting
  <1> QED
    BY Zenon, <1>1, <1>2

LEMMA TakeUpPriorStep ==
    ASSUME IInv, NEW x \in Sessions, TakeUpPrior(x)
    PROVE  IInv'
  <1>1. sess[x].pc = "locked" /\ sess[x].req \in NodeOps /\ UNCHANGED <<node, uses, nop, sop, wire, owner>>
    BY Zenon DEF TakeUpPrior
  <1>2. PICK p \in findNonTerminalForNode(sess[x].at) : sess' = [sess EXCEPT ![x].pc = "reconcile", ![x].op = p]
    BY Zenon DEF TakeUpPrior
  <1>3. p \in Rows /\ Unfinished(p) /\ nop[p].at = sess[x].at /\ p # None /\ nop[p].st # "none"
    BY Zenon, <1>2, Facts DEF findNonTerminalForNode, Rows, Unfinished
  <1> DEFINE new == [sess[x] EXCEPT !.pc = "reconcile", !.op = p]
  <1>4. sess[x] \in SessType(Present, Rows, ServiceRows) /\ sess \in [Sessions -> SessType(Present, Rows, ServiceRows)]
    BY Zenon, Facts DEF Types
  <1>5. sess' = [sess EXCEPT ![x] = new] /\ new \in SessType(Present, Rows, ServiceRows)
    BY Zenon, <1>2, <1>3, <1>4 DEF SessType, Steps
  <1>6. new.pc = "reconcile" /\ new.op = p /\ new.req = sess[x].req /\ new.at = sess[x].at /\ new.seen = sess[x].seen
    BY Zenon, <1>4 DEF SessType
  <1> HIDE DEF new
  <1>7. sess'[x] = new /\ AtWork(x)
    BY Zenon, <1>1, <1>4, <1>5 DEF AtWork
  <1>8. sess[x].req \in Rows
    BY <1>1, <1>4, Facts, NodeAssumption DEF SessType, Types
  <1>9. RolesOK(x)' /\ ChecksOK(x)' /\ NodeOK(x)'
    BY Zenon, <1>1, <1>3, <1>6, <1>7, <1>8 DEF RolesOK, ChecksOK, NodeOK, Unfinished, Working, Outcomes, Rows
  <1> QED
    BY Zenon, <1>1, <1>5, <1>6, <1>7, <1>9, GoOnStep

LEMMA InspectLockedStep ==
    ASSUME IInv, NEW x \in Sessions, InspectLocked(x)
    PROVE  IInv'
  <1> DEFINE o == sess[x].req
             n == sess[x].at
             seen == AffectedNow(o, n, Target(o, node[n].spec, sess[x].label))
             new == [sess[x] EXCEPT !.pc = "inspected", !.ver = node[n].ver, !.before = node[n].spec, !.seen = seen]
  <1>1. /\ sess[x].pc = "locked" /\ o \in NodeOps /\ findNonTerminalForNode(n) = {} /\ seen = sess[x].seen
        /\ sess' = [sess EXCEPT ![x].pc = "inspected", ![x].ver = node[n].ver, ![x].before = node[n].spec, ![x].seen = seen]
        /\ UNCHANGED <<node, uses, nop, sop, wire, owner>>
    BY Zenon DEF InspectLocked, Inspected
  <1> HIDE DEF seen
  <1>2. sess[x] \in SessType(Present, Rows, ServiceRows) /\ sess \in [Sessions -> SessType(Present, Rows, ServiceRows)]
    BY Zenon, Facts DEF Types
  <1>3. o \in Rows
    BY <1>1, <1>2, Facts, NodeAssumption DEF SessType, Types
  <1>4. n \in Nodes \cap Present /\ sess[x].op = None
    BY Zenon, <1>1, <1>3, Facts DEF Good, RolesOK, LocksOK
  <1>5. node[n].ver \in 0 .. MaxVer /\ node[n].ver \in Nat /\ node[n].spec \in Specs
    BY <1>4, Facts, NodeAssumption DEF NodeType
  <1>6. sess' = [sess EXCEPT ![x] = new] /\ new \in SessType(Present, Rows, ServiceRows)
    <2>1. sess' = [sess EXCEPT ![x] = new]
      BY Zenon, <1>1, <1>2 DEF SessType
    <2>2. "inspected" \in Steps /\ node[n].spec \in SpecOrNone /\ seen \in SUBSET (Services \cap Present)
      BY Zenon, <1>1, <1>2, <1>5 DEF Steps, SpecOrNone, SessType
    <2>3. new \in SessType(Present, Rows, ServiceRows)
      BY Zenon, <1>2, <1>5, <2>2 DEF SessType
    <2> QED
      BY Zenon, <2>1, <2>3
  <1>7. /\ new.pc = "inspected" /\ new.op = sess[x].op /\ new.req = o /\ new.at = n /\ new.seen = sess[x].seen
        /\ new.ver = node[n].ver /\ new.before = node[n].spec
    BY Zenon, <1>1, <1>2 DEF SessType
  <1> HIDE DEF new
  <1>8. sess'[x] = new /\ AtWork(x)
    BY Zenon, <1>1, <1>2, <1>6 DEF AtWork
  <1>9. RolesOK(x)'
    BY Zenon, <1>1, <1>3, <1>4, <1>7, <1>8 DEF RolesOK, Working, Outcomes, Rows
  <1>10. ChecksOK(x)'
    BY Zenon, <1>1, <1>7, <1>8 DEF ChecksOK, findNonTerminalForNode, Rows, Unfinished
  <1>11. NodeOK(x)'
    <2>1. /\ sess'[x].pc = "inspected" /\ sess'[x].at = n
          /\ sess'[x].ver = node'[n].ver /\ sess'[x].before = node'[n].spec
      BY Zenon, <1>1, <1>7, <1>8
    <2>2. node'[n].ver \in Nat /\ node'[n].spec \in Specs
      BY Zenon, <1>1, <1>5
    <2>3. node'[n].ver >= node'[n].ver
      BY <2>2
    <2>4. Seen(sess[x].at, sess[x].ver, sess[x].before)'
      BY Zenon, <2>1, <2>2, <2>3 DEF Seen
    <2> QED
      BY Zenon, <2>1, <2>4 DEF NodeOK
  <1> QED
    BY Zenon, <1>1, <1>6, <1>7, <1>8, <1>9, <1>10, <1>11, GoOnStep

LEMMA CheckConflictsStep ==
    ASSUME IInv, NEW x \in Sessions, CheckConflicts(x)
    PROVE  IInv'
  <1>1. /\ sess[x].pc = "inspected" /\ Go(x, "planned") /\ UNCHANGED <<node, uses, nop, sop, wire, owner>>
        /\ \A v \in ServiceRows : ServiceUnfinished(v) => sop[v].at \notin sess[x].seen
        /\ \A p \in Rows : Unfinished(p) => nop[p].affected \cap sess[x].seen = {}
    BY Zenon DEF CheckConflicts, Rows, ServiceRows
  <1>2. /\ sess'[x].pc = "planned" /\ sess'[x].req = sess[x].req /\ sess'[x].op = sess[x].op /\ sess'[x].at = sess[x].at
        /\ sess'[x].seen = sess[x].seen /\ sess'[x].ver = sess[x].ver /\ sess'[x].before = sess[x].before
    BY Zenon, <1>1, GoType DEF Steps
  <1>3. RolesOK(x) /\ ChecksOK(x) /\ NodeOK(x) /\ AtWork(x)
    BY Zenon, <1>1, Facts DEF Good, AtWork
  <1>4. RolesOK(x)' /\ ChecksOK(x)' /\ NodeOK(x)'
    BY Zenon, <1>1, <1>2, <1>3
       DEF RolesOK, ChecksOK, NodeOK, Seen, Unfinished, ServiceUnfinished, Working, Outcomes, Rows, ServiceRows
  <1> QED
    BY Zenon, <1>1, <1>3, <1>4, GoStep DEF Steps

LEMMA ConflictStep ==
    ASSUME IInv, NEW x \in Sessions, Conflict(x)
    PROVE  IInv'
  BY Zenon, LeaveOnly DEF Conflict

LEMMA TakeUpRecoveryStep ==
    ASSUME IInv, NEW x \in Sessions, TakeUpRecovery(x)
    PROVE  IInv'
  <1>1. CASE Unfinished(sess[x].op)
    <2>1. /\ sess[x].pc = "locked" /\ sess[x].req = None /\ Go(x, "reconcile")
          /\ UNCHANGED <<node, uses, nop, sop, wire, owner>>
      BY Zenon, <1>1 DEF TakeUpRecovery
    <2>2. sess'[x].pc = "reconcile" /\ sess'[x].req = None /\ sess'[x].op = sess[x].op /\ sess'[x].at = sess[x].at
      BY Zenon, <2>1, GoType DEF Steps
    <2>3. RolesOK(x) /\ AtWork(x) /\ None \notin Rows /\ None \notin ServiceRows
      BY Zenon, <2>1, Facts DEF Good, AtWork
    <2>4. RolesOK(x)' /\ ChecksOK(x)' /\ NodeOK(x)'
      BY Zenon, <1>1, <2>1, <2>2, <2>3 DEF RolesOK, ChecksOK, NodeOK, Unfinished, Working, Outcomes, Rows, ServiceRows
    <2> QED
      BY Zenon, <2>1, <2>3, <2>4, GoStep DEF Steps
  <1>2. CASE ~Unfinished(sess[x].op)
    BY Zenon, <1>2, LeaveOnly DEF TakeUpRecovery
  <1> QED
    BY Zenon, <1>1, <1>2

\* From one step of the work on an operation to another.
LEMMA WorkingStep ==
    ASSUME IInv, NEW x \in Sessions, sess[x].pc \in Working, NEW pc \in Working \ {"dispatch", "fail"}, Go(x, pc),
           UNCHANGED <<node, uses, nop, sop, wire, owner>>, pc = "success" => Passed(sess[x].op)
    PROVE  IInv'
  <1>1. pc \in Steps /\ pc \notin {"free", "reading", "locking"}
    BY Zenon DEF Working, Steps, Outcomes
  <1>2. sess'[x].pc = pc /\ sess'[x].req = sess[x].req /\ sess'[x].op = sess[x].op /\ sess'[x].at = sess[x].at
    BY Zenon, <1>1, GoType
  <1>3. RolesOK(x) /\ AtWork(x)
    BY Zenon, Facts, WorkingAtWork DEF Good
  <1>4. RolesOK(x)' /\ ChecksOK(x)'
    BY Zenon, <1>2, <1>3 DEF RolesOK, ChecksOK, Unfinished, Working, Outcomes, Rows
  <1>5. NodeOK(x)'
    BY Zenon, <1>2, <1>3 DEF NodeOK, Working, Outcomes, Passed, Unchanged
  <1> QED
    BY Zenon, <1>1, <1>3, <1>4, <1>5, GoStep

LEMMA InspectReconcileStep ==
    ASSUME IInv, NEW x \in Sessions, InspectReconcile(x)
    PROVE  IInv'
  <1>1. sess[x].pc = "reconcile" /\ UNCHANGED <<node, uses, nop, sop, wire, owner>>
    BY Zenon DEF InspectReconcile
  <1>2. \E pc \in {"verify", "accepted", "unseen", "attention"} : Go(x, pc)
    BY Zenon DEF InspectReconcile
  <1>3. PICK pc \in {"verify", "accepted", "unseen", "attention"} : Go(x, pc)
    BY Zenon, <1>2
  <1> QED
    BY Zenon, <1>1, <1>3, WorkingStep DEF Working, Outcomes

LEMMA InspectVerifyStep ==
    ASSUME IInv, NEW x \in Sessions, InspectVerify(x)
    PROVE  IInv'
  <1> DEFINE o == sess[x].op
  <1>1. sess[x].pc = "verify" /\ UNCHANGED <<node, uses, nop, sop, wire, owner>>
    BY Zenon DEF InspectVerify
  <1>2. PICK settled : \/ classifyNodeMutation(o, settled) = "SUCCESS" /\ Go(x, "success")
                       \/ Go(x, "attention")
    BY Zenon DEF InspectVerify
  <1>3. classifyNodeMutation(o, settled) = "SUCCESS" => Passed(o)
    BY Zenon DEF classifyNodeMutation, Passed, Unchanged
  <1> QED
    BY Zenon, <1>1, <1>2, <1>3, WorkingStep DEF Working, Outcomes

LEMMA CheckServiceStep ==
    ASSUME IInv, NEW x \in Sessions, CheckService(x)
    PROVE  IInv'
  <1> DEFINE v == sess[x].req
             s == sess[x].at
  <1>1. sess[x].pc = "locked" /\ v \in ServiceOps /\ UNCHANGED <<node, uses, nop, sop, wire>>
    BY Zenon DEF CheckService
  <1>2. v \in ServiceRows
    BY Zenon, <1>1, Facts, NodeAssumption DEF SessType, Types
  <1>3. s \in Services /\ sess[x].op = None /\ AtWork(x) /\ v \notin Rows /\ v # None
    BY Zenon, <1>1, <1>2, Facts DEF Good, RolesOK, AtWork
  <1>4. CASE (\A p \in Rows : Unfinished(p) => s \notin nop[p].affected) /\ Go(x, "serviceChecked") /\ UNCHANGED owner
    <2>1. sess'[x].pc = "serviceChecked" /\ sess'[x].req = v /\ sess'[x].op = None /\ sess'[x].at = s
      BY Zenon, <1>3, <1>4, GoType DEF Steps
    <2>2. RolesOK(x)' /\ ChecksOK(x)' /\ NodeOK(x)'
      BY Zenon, <1>1, <1>2, <1>3, <1>4, <2>1 DEF RolesOK, ChecksOK, NodeOK, Unfinished, Working, Outcomes, Rows, ServiceRows
    <2> QED
      BY Zenon, <1>1, <1>3, <1>4, <2>2, GoStep DEF Steps
  <1>5. CASE ServiceUnfinished(v) /\ sop[v].at = s /\ Go(x, "serviceWork") /\ UNCHANGED owner
    <2>1. sess'[x].pc = "serviceWork" /\ sess'[x].req = v /\ sess'[x].op = None /\ sess'[x].at = s
      BY Zenon, <1>3, <1>5, GoType DEF Steps
    <2>2. RolesOK(x)' /\ ChecksOK(x)' /\ NodeOK(x)'
      BY Zenon, <1>1, <1>2, <1>3, <1>5, <2>1
         DEF RolesOK, ChecksOK, NodeOK, ServiceUnfinished, Working, Outcomes, Rows, ServiceRows
    <2> QED
      BY Zenon, <1>1, <1>3, <1>5, <2>2, GoStep DEF Steps
  <1>6. CASE Leave(x)
    BY Zenon, <1>1, <1>6, LeaveOnly
  <1> QED
    BY Zenon, <1>4, <1>5, <1>6 DEF CheckService, Rows

-----------------------------------------------------------------------------
(* Steps that change nodes or requests *)

NodesAdvance ==
    /\ node' \in [Nodes \cap Present -> NodeType(Present)]
    /\ \A n \in Nodes \cap Present :
          node'[n].ver >= node[n].ver /\ (node'[n].ver = node[n].ver => node'[n].spec = node[n].spec)

WiresAdvance ==
    /\ wire' \in [Rows -> WireType]
    /\ \A o \in Rows : \/ wire'[o] = wire[o]
                       \/ /\ nop[o].st # "none"
                          /\ wire'[o] \in {"sent", "checked"} => wire[o] \in {"sent", "checked"} \/ Unfinished(o)

LEMMA SeenKept ==
    ASSUME IInv, NodesAdvance, NEW n \in Nodes \cap Present, NEW ver, NEW spec, Seen(n, ver, spec)
    PROVE  Seen(n, ver, spec)'
  <1>1. node[n] \in NodeType(Present) /\ node'[n] \in NodeType(Present)
    BY Zenon, Facts DEF NodesAdvance
  <1>2. node[n].ver \in Nat /\ node'[n].ver \in Nat
    BY <1>1 DEF NodeType
  <1>3. node'[n].ver >= node[n].ver /\ (node'[n].ver = node[n].ver => node'[n].spec = node[n].spec)
    BY Zenon DEF NodesAdvance
  <1> QED
    BY <1>2, <1>3 DEF Seen

LEMMA PassedKept ==
    ASSUME IInv, NodesAdvance, UNCHANGED nop, NEW o \in Rows, nop[o].st # "none", Passed(o)
    PROVE  Passed(o)'
  <1> DEFINE n == nop[o].at
  <1>1. n \in Nodes \cap Present /\ Seen(n, nop[o].ver, nop[o].before)
    BY Zenon, Facts DEF OpOK
  <1>2. node[n] \in NodeType(Present) /\ node'[n] \in NodeType(Present)
    BY Zenon, <1>1, Facts DEF NodesAdvance
  <1>3. node[n].ver \in Nat /\ node'[n].ver \in Nat /\ nop[o].ver \in Nat
    BY <1>1, <1>2 DEF NodeType, Seen
  <1>4. node'[n].ver >= node[n].ver /\ (node'[n].ver = node[n].ver => node'[n].spec = node[n].spec)
    BY Zenon, <1>1 DEF NodesAdvance
  <1>5. node[n].ver >= nop[o].ver /\ (node[n].ver = nop[o].ver => node[n].spec = nop[o].before)
    BY Zenon, <1>1 DEF Seen
  <1> QED
    BY <1>3, <1>4, <1>5 DEF Passed, Unchanged

LEMMA World ==
    ASSUME IInv, NodesAdvance, WiresAdvance, UNCHANGED <<nop, sop>>, Present' = Present
    PROVE  /\ Exclusion' /\ \A o \in Rows : OpOK(o)'
           /\ \A y \in Sessions :
                 sess'[y] = sess[y] /\ (sess[y].pc \in {"dispatch", "fail"} => wire'[sess[y].op] = wire[sess[y].op])
                 => RolesOK(y)' /\ ChecksOK(y)' /\ NodeOK(y)'
  <1>1. Rows' = Rows /\ ServiceRows' = ServiceRows
    BY Zenon DEF Rows, ServiceRows
  <1>2. Exclusion'
    BY Zenon, <1>1, Facts DEF Exclusion, Unfinished, ServiceUnfinished
  <1>3. ASSUME NEW o \in Rows PROVE OpOK(o)'
    <2>1. OpOK(o)
      BY Zenon, Facts
    <2>2. nop[o].st = "none" => wire'[o] = "none"
      BY Zenon, <2>1 DEF OpOK, WiresAdvance
    <2>3. nop[o].st # "none" => /\ nop[o].at \in Nodes \cap Present /\ nop[o].target \in Specs
                                /\ Seen(nop[o].at, nop[o].ver, nop[o].before)'
      BY Zenon, <2>1, SeenKept DEF OpOK
    <2>4. nop[o].st \in Terminal => wire'[o] \notin {"sent", "checked"} \/ Passed(o)'
      <3> SUFFICES ASSUME nop[o].st \in Terminal, wire'[o] \in {"sent", "checked"} PROVE Passed(o)'
        BY Zenon
      <3>1. ~Unfinished(o) /\ nop[o].st # "none"
        BY Zenon DEF Unfinished, Terminal
      <3>2. wire[o] \in {"sent", "checked"}
        BY Zenon, <3>1 DEF WiresAdvance
      <3> QED
        BY Zenon, <2>1, <3>1, <3>2, PassedKept DEF OpOK
    <2> QED
      BY Zenon, <2>2, <2>3, <2>4 DEF OpOK, Seen
  <1>4. ASSUME NEW y \in Sessions, sess'[y] = sess[y],
               sess[y].pc \in {"dispatch", "fail"} => wire'[sess[y].op] = wire[sess[y].op]
        PROVE  RolesOK(y)' /\ ChecksOK(y)' /\ NodeOK(y)'
    <2>1. /\ RolesOK(y) /\ ChecksOK(y) /\ NodeOK(y) /\ LocksOK(y) /\ sess[y] \in SessType(Present, Rows, ServiceRows)
          /\ sess'[y] = sess[y]
      BY Zenon, <1>4, Facts DEF Good
    <2>2. RolesOK(y)'
      <3>1. (\A o : Unfinished(o)' <=> Unfinished(o)) /\ (\A v : ServiceUnfinished(v)' <=> ServiceUnfinished(v))
        BY Zenon DEF Unfinished, ServiceUnfinished
      <3>2. nop' = nop /\ sop' = sop /\ RolesOK(y)
        BY Zenon, <2>1
      <3>3. PICK s : s = sess[y] /\ s = sess'[y]
        BY Zenon, <2>1
      <3>4. /\ s.op # None => nop'[s.op].st # "none" /\ nop'[s.op].at = s.at
            /\ s.pc \in {"reading", "inspected", "planned"} => s.req \in Rows' /\ s.at \in Nodes /\ s.op = None
            /\ s.pc \in {"serviceChecked", "serviceWork"} => s.req \in ServiceRows' /\ s.at \in Services /\ s.op = None
        BY <1>1, <3>2, <3>3 DEF RolesOK
      <3>5. s.pc \in {"locking", "locked"} => \/ s.req = None /\ s.op # None
                                              \/ s.req \in Rows' /\ s.at \in Nodes /\ s.op = None
                                              \/ s.req \in ServiceRows' /\ s.at \in Services /\ s.op = None
        BY Zenon, <1>1, <3>2, <3>3 DEF RolesOK
      <3>6. s.pc \in Working => s.op # None /\ Unfinished(s.op)' /\ s.req \in Rows' \cup {None}
        BY Zenon, <1>1, <3>1, <3>2, <3>3 DEF RolesOK
      <3>7. s.pc = "serviceWork" => ServiceUnfinished(s.req)' /\ sop'[s.req].at = s.at
        BY Zenon, <3>1, <3>2, <3>3 DEF RolesOK
      <3> QED
        BY Zenon, <3>3, <3>4, <3>5, <3>6, <3>7 DEF RolesOK
    <2>3. ChecksOK(y)'
      BY Zenon, <1>1, <1>4, <2>1 DEF ChecksOK, Unfinished, ServiceUnfinished
    <2>4. sess[y].pc \in {"inspected", "planned"} => Seen(sess[y].at, sess[y].ver, sess[y].before)'
      <3> SUFFICES ASSUME sess[y].pc \in {"inspected", "planned"}
                   PROVE  Seen(sess[y].at, sess[y].ver, sess[y].before)'
        BY Zenon
      <3>1. sess[y].at \in Nodes \cap Present /\ Seen(sess[y].at, sess[y].ver, sess[y].before)
        BY Zenon, <2>1 DEF RolesOK, LocksOK, NodeOK
      <3> QED
        BY <1>4, <3>1, SeenKept DEF Seen
    <2>5. sess[y].pc = "success" => Passed(sess[y].op)'
      <3> SUFFICES ASSUME sess[y].pc = "success" PROVE Passed(sess[y].op)'
        BY Zenon
      <3>1. sess[y].op \in Rows /\ nop[sess[y].op].st # "none" /\ Passed(sess[y].op)
        BY Zenon, <2>1 DEF RolesOK, NodeOK, Working, Outcomes, SessType
      <3>2. \A p \in Rows : nop[p].st # "none" /\ Passed(p) => Passed(p)'
        BY Zenon, PassedKept
      <3> QED
        BY Zenon, <1>4, <3>1, <3>2 DEF Passed, Unchanged
    <2> QED
      BY Zenon, <1>4, <2>1, <2>2, <2>3, <2>4, <2>5 DEF NodeOK
  <1> QED
    BY Zenon, <1>2, <1>3, <1>4

\* A step of the world: no session moves.
LEMMA WorldStep ==
    ASSUME IInv, NodesAdvance, WiresAdvance, UNCHANGED <<nop, sop, owner, sess>>, uses' \subseteq Constrained \cap Present,
           \A y \in Sessions : sess[y].pc \in {"dispatch", "fail"} => wire'[sess[y].op] = wire[sess[y].op]
    PROVE  IInv'
  <1>1. Present' = Present /\ Rows' = Rows /\ ServiceRows' = ServiceRows
    BY Zenon DEF Present, Rows, ServiceRows
  <1>2. Types'
    BY Zenon, <1>1, Facts DEF Types, NodesAdvance, WiresAdvance
  <1>3. ASSUME NEW y \in Sessions PROVE Good(y)'
    <2>1. LocksOK(y)'
      <3>1. LocksOK(y)
        BY Zenon, Facts DEF Good
      <3> QED
        BY Zenon, <1>1, <3>1 DEF LocksOK, AtWork
    <2>2. RolesOK(y)' /\ ChecksOK(y)' /\ NodeOK(y)'
      BY Zenon, <1>1, World
    <2> QED
      BY Zenon, <2>1, <2>2 DEF Good
  <1>4. Exclusion' /\ \A o \in Rows : OpOK(o)'
    BY Zenon, <1>1, World
  <1> QED
    BY Zenon, <1>1, <1>2, <1>3, <1>4 DEF IInv, Good

LEMMA NodesStay ==
    ASSUME IInv, UNCHANGED node
    PROVE  NodesAdvance
  <1>1. node \in [Nodes \cap Present -> NodeType(Present)]
    BY Zenon, Facts DEF Types
  <1>2. \A n \in Nodes \cap Present : node[n].ver \in Nat
    BY <1>1 DEF NodeType
  <1> QED
    BY <1>1, <1>2 DEF NodesAdvance

LEMMA WiresStay ==
    ASSUME IInv, UNCHANGED wire
    PROVE  WiresAdvance
  BY Zenon, Facts DEF WiresAdvance, Types

\* The wire of a request that is under way changes.
LEMMA UnderWay ==
    ASSUME IInv, NEW o \in Rows, wire[o] \in {"sent", "checked"}, NEW w \in WireType,
           wire' = [wire EXCEPT ![o] = w]
    PROVE  /\ WiresAdvance
           /\ \A y \in Sessions : sess[y].pc \in {"dispatch", "fail"} => wire'[sess[y].op] = wire[sess[y].op]
           /\ nop[o].st # "none" /\ nop[o].at \in Nodes \cap Present
  <1>1. wire \in [Rows -> WireType] /\ OpOK(o)
    BY Zenon, Facts DEF Types
  <1>2. nop[o].st # "none" /\ nop[o].at \in Nodes \cap Present
    BY Zenon, <1>1 DEF OpOK
  <1>3. WiresAdvance
    BY Zenon, <1>1, <1>2 DEF WiresAdvance
  <1>4. ASSUME NEW y \in Sessions, sess[y].pc \in {"dispatch", "fail"} PROVE wire'[sess[y].op] = wire[sess[y].op]
    <2>1. sess[y].op # o
      BY Zenon, <1>4, Facts DEF Good, NodeOK
    <2> QED
      BY <1>1, <2>1
  <1> QED
    BY Zenon, <1>2, <1>3, <1>4

LEMMA AgentChecksStep ==
    ASSUME IInv, NEW o \in Rows, AgentChecks(o)
    PROVE  IInv'
  <1>1. wire[o] \in {"sent", "checked"} /\ wire' = [wire EXCEPT ![o] = "checked"] /\ "checked" \in WireType
        /\ UNCHANGED <<node, uses, nop, sop, owner, sess>>
    BY Zenon DEF AgentChecks, WireType
  <1>2. uses' \subseteq Constrained \cap Present /\ NodesAdvance
    BY Zenon, <1>1, Facts, NodesStay DEF Types
  <1> QED
    BY Zenon, <1>1, <1>2, UnderWay, WorldStep

\* A write moves the version of the node.
LEMMA NodeWritten ==
    ASSUME IInv, NEW n \in Nodes \cap Present, MayChange(n), NEW spec \in Specs,
           node' = [node EXCEPT ![n].ver = @ + 1, ![n].spec = spec]
    PROVE  NodesAdvance
  <1>1. node \in [Nodes \cap Present -> NodeType(Present)] /\ node[n] \in NodeType(Present)
    BY Zenon, Facts DEF Types
  <1>2. node[n].ver \in 1 .. MaxVer /\ node[n].ver < MaxVer /\ MaxVer \in Nat
    BY Zenon, <1>1, NodeAssumption DEF MayChange, NodeType
  <1> DEFINE new == [node[n] EXCEPT !.ver = @ + 1, !.spec = spec]
  <1>3. node' = [node EXCEPT ![n] = new]
    BY Zenon, <1>1 DEF NodeType
  <1>4. new.ver = node[n].ver + 1 /\ new \in NodeType(Present)
    <2>1. new.ver = node[n].ver + 1
      BY Zenon, <1>1 DEF NodeType
    <2>2. node[n].ver + 1 \in 1 .. MaxVer
      BY <1>2
    <2>3. new \in NodeType(Present)
      BY Zenon, <1>1, <2>2 DEF NodeType
    <2> QED
      BY Zenon, <2>1, <2>3
  <1> HIDE DEF new
  <1>5. node' \in [Nodes \cap Present -> NodeType(Present)] /\ node'[n] = new
        /\ \A m \in (Nodes \cap Present) \ {n} : node'[m] = node[m]
    BY Zenon, <1>1, <1>3, <1>4
  <1>6. ASSUME NEW m \in Nodes \cap Present
        PROVE  node'[m].ver >= node[m].ver /\ (node'[m].ver = node[m].ver => node'[m].spec = node[m].spec)
    <2>1. node[m].ver \in Nat
      BY <1>1 DEF NodeType
    <2> QED
      BY <1>2, <1>4, <1>5, <2>1
  <1> QED
    BY Zenon, <1>5, <1>6 DEF NodesAdvance

LEMMA NodeUpdateStep ==
    ASSUME IInv, NEW o \in Rows, NodeUpdate(o)
    PROVE  IInv'
  <1> DEFINE n == nop[o].at
  <1>1. /\ wire[o] \in {"sent", "checked"} /\ MayChange(n)
        /\ node' = [node EXCEPT ![n].ver = @ + 1, ![n].spec = nop[o].target]
        /\ UNCHANGED <<uses, nop, sop, owner, sess>>
    BY Zenon DEF NodeUpdate
  <1>2. PICK w \in WireType : wire' = [wire EXCEPT ![o] = w]
    BY Zenon DEF NodeUpdate, Answer, WireType
  <1>3. nop[o].st # "none" /\ n \in Nodes \cap Present
    BY Zenon, <1>1, <1>2, UnderWay
  <1>4. nop[o].target \in Specs
    BY Zenon, <1>3, Facts DEF OpOK
  <1>5. NodesAdvance
    BY Zenon, <1>1, <1>3, <1>4, NodeWritten
  <1>6. uses' \subseteq Constrained \cap Present
    BY Zenon, <1>1, Facts DEF Types
  <1> QED
    BY Zenon, <1>1, <1>2, <1>5, <1>6, UnderWay, WorldStep

LEMMA NotAppliedStep ==
    ASSUME IInv, NEW o \in Rows, NotApplied(o)
    PROVE  IInv'
  <1>1. wire[o] \in {"sent", "checked"} /\ UNCHANGED <<node, uses, nop, sop, owner, sess>>
    BY Zenon DEF NotApplied
  <1>2. PICK w \in WireType : wire' = [wire EXCEPT ![o] = w]
    BY Zenon DEF NotApplied, Answer, WireType
  <1>3. uses' \subseteq Constrained \cap Present /\ NodesAdvance
    BY Zenon, <1>1, Facts, NodesStay DEF Types
  <1> QED
    BY Zenon, <1>1, <1>2, <1>3, UnderWay, WorldStep

LEMMA ExternalUpdateStep ==
    ASSUME IInv, NEW n \in Nodes \cap Present, ExternalUpdate(n)
    PROVE  IInv'
  <1>1. MayChange(n) /\ UNCHANGED <<uses, nop, sop, wire, owner, sess>>
    BY Zenon DEF ExternalUpdate
  <1>2. PICK spec \in Specs : node' = [node EXCEPT ![n].ver = @ + 1, ![n].spec = spec]
    BY Zenon DEF ExternalUpdate
  <1>3. NodesAdvance /\ WiresAdvance /\ uses' \subseteq Constrained \cap Present
    BY Zenon, <1>1, <1>2, NodeWritten, WiresStay, Facts DEF Types
  <1> QED
    BY Zenon, <1>1, <1>3, WorldStep

LEMMA TasksMoveStep ==
    ASSUME IInv, NEW n \in Nodes \cap Present, NEW s \in Scheduled \cap Present, TasksMove(n, s)
    PROVE  IInv'
  <1>1. UNCHANGED <<uses, nop, sop, wire, owner, sess>>
    BY Zenon DEF TasksMove
  <1>2. node \in [Nodes \cap Present -> NodeType(Present)] /\ node[n] \in NodeType(Present)
    BY Zenon, Facts DEF Types
  <1>3. PICK tasks \in SUBSET (Scheduled \cap Present) : node' = [node EXCEPT ![n].tasks = tasks]
    BY Zenon, <1>2 DEF TasksMove, NodeType
  <1>4. node' \in [Nodes \cap Present -> NodeType(Present)]
    BY Zenon, <1>2, <1>3 DEF NodeType
  <1>5. \A m \in Nodes \cap Present : node'[m].ver = node[m].ver /\ node'[m].spec = node[m].spec /\ node[m].ver \in Nat
    BY <1>2, <1>3 DEF NodeType
  <1>6. NodesAdvance /\ WiresAdvance /\ uses' \subseteq Constrained \cap Present
    BY <1>1, <1>4, <1>5, WiresStay, Facts DEF Types, NodesAdvance
  <1> QED
    BY Zenon, <1>1, <1>6, WorldStep

LEMMA PlacementChangesStep ==
    ASSUME IInv, NEW s \in Constrained \cap Present, PlacementChanges(s)
    PROVE  IInv'
  <1>1. UNCHANGED <<node, nop, sop, wire, owner, sess>> /\ uses' \subseteq Constrained \cap Present
    BY Zenon, Facts DEF PlacementChanges, Types
  <1>2. NodesAdvance /\ WiresAdvance
    BY Zenon, <1>1, NodesStay, WiresStay
  <1> QED
    BY Zenon, <1>1, <1>2, WorldStep

-----------------------------------------------------------------------------
(* Steps of a session that change the wire of its operation *)

LEMMA SessionWireStep ==
    ASSUME IInv, NEW x \in Sessions, NEW new \in SessType(Present, Rows, ServiceRows), AtWork(x),
           sess' = [sess EXCEPT ![x] = new], owner' \in [Present -> Sessions \cup {None}], OwnersKept(x), Good(x)',
           NEW o \in Rows, sess[x].op = o, NEW w \in WireType, wire' = [wire EXCEPT ![o] = w],
           w \in {"sent", "checked"} => wire[o] \in {"sent", "checked"} \/ Unfinished(o),
           UNCHANGED <<node, uses, nop, sop>>
    PROVE  IInv'
  <1>1. Present' = Present /\ Rows' = Rows /\ ServiceRows' = ServiceRows
    BY Zenon DEF Present, Rows, ServiceRows
  <1>2. sess' \in [Sessions -> SessType(Present, Rows, ServiceRows)] /\ \A y \in Sessions \ {x} : sess'[y] = sess[y]
    BY Zenon, Facts DEF Types
  <1>3. wire' \in [Rows -> WireType] /\ \A p \in Rows \ {o} : wire'[p] = wire[p]
    BY Zenon, Facts DEF Types
  <1>4. wire'[o] = w /\ o # None
    BY Zenon, Facts DEF Types
  <1>5. nop[o].st # "none"
    BY Zenon, <1>4, Facts DEF Good, RolesOK
  <1>6. WiresAdvance
    BY Zenon, <1>3, <1>4, <1>5 DEF WiresAdvance
  <1>7. NodesAdvance
    BY Zenon, NodesStay
  <1>8. Types'
    BY Zenon, <1>1, <1>2, <1>3, Facts DEF Types
  <1>9. ASSUME NEW y \in Sessions \ {x} PROVE Good(y)'
    <2>1. LocksOK(y)'
      BY Zenon, <1>1, <1>2, OthersLocks
    <2>2. sess[y].pc \in {"dispatch", "fail"} => wire'[sess[y].op] = wire[sess[y].op]
      <3> SUFFICES ASSUME sess[y].pc \in {"dispatch", "fail"} PROVE wire'[sess[y].op] = wire[sess[y].op]
        BY Zenon
      <3>1. AtWork(y)
        BY Zenon DEF AtWork
      <3>2. sess[y].op # o
        BY Zenon, <1>4, <3>1, Apart
      <3>3. sess[y].op \in Rows
        <4>1. RolesOK(y) /\ sess[y] \in SessType(Present, Rows, ServiceRows)
          BY Zenon, Facts DEF Good
        <4> QED
          BY Zenon, <4>1 DEF RolesOK, SessType, Working, Outcomes
      <3> QED
        BY Zenon, <1>3, <3>2, <3>3
    <2>3. RolesOK(y)' /\ ChecksOK(y)' /\ NodeOK(y)'
      BY Zenon, <1>1, <1>2, <1>6, <1>7, <2>2, World
    <2> QED
      BY Zenon, <2>1, <2>3 DEF Good
  <1>10. Exclusion' /\ \A p \in Rows : OpOK(p)'
    BY Zenon, <1>1, <1>6, <1>7, World
  <1> QED
    BY Zenon, <1>1, <1>8, <1>9, <1>10 DEF IInv, Good

LEMMA OwnersStay ==
    ASSUME IInv, NEW x \in Sessions, UNCHANGED owner
    PROVE  owner' \in [Present -> Sessions \cup {None}] /\ OwnersKept(x)
  BY Zenon, Facts DEF Types, OwnersKept

\* The locks of a session at work that only goes on.
LEMMA GoLocks ==
    ASSUME IInv, NEW x \in Sessions, AtWork(x), NEW pc \in Steps \ {"free", "reading", "locking"}, Go(x, pc), UNCHANGED owner
    PROVE  LocksOK(x)'
  <1>1. sess'[x].pc = pc /\ sess'[x].at = sess[x].at /\ sess'[x].seen = sess[x].seen
    BY Zenon, GoType
  <1>2. LocksOK(x) /\ sess[x].pc # "free" /\ Present' = Present
    BY Zenon, Facts DEF Good, AtWork, Present
  <1> QED
    BY Zenon, <1>1, <1>2 DEF LocksOK, AtWork

LEMMA WorkingRow ==
    ASSUME IInv, NEW x \in Sessions, sess[x].pc \in Working
    PROVE  /\ sess[x].op \in Rows /\ Unfinished(sess[x].op) /\ AtWork(x) /\ nop[sess[x].op].st # "none"
           /\ nop[sess[x].op].at = sess[x].at
           /\ sess[x].req \in Rows \cup {None} /\ sess[x].at \in Nodes \cap Present
  <1>1. RolesOK(x) /\ sess[x] \in SessType(Present, Rows, ServiceRows) /\ AtWork(x)
    BY Zenon, Facts, WorkingAtWork DEF Good
  <1>2. sess[x].op \in Rows /\ Unfinished(sess[x].op) /\ nop[sess[x].op].st # "none" /\ nop[sess[x].op].at = sess[x].at
        /\ sess[x].req \in Rows \cup {None}
    BY Zenon, <1>1 DEF RolesOK, SessType
  <1>3. sess[x].at \in Nodes \cap Present
    BY Zenon, <1>2, Facts DEF OpOK
  <1> QED
    BY Zenon, <1>1, <1>2, <1>3

LEMMA SendStep ==
    ASSUME IInv, NEW x \in Sessions, Send(x)
    PROVE  IInv'
  <1> DEFINE o == sess[x].op
  <1>1. /\ sess[x].pc = "dispatch" /\ wire' = [wire EXCEPT ![o] = "sent"] /\ Go(x, "waiting")
        /\ UNCHANGED <<node, uses, nop, sop, owner>>
    BY Zenon DEF Send
  <1>2. o \in Rows /\ Unfinished(o) /\ AtWork(x)
    BY Zenon, <1>1, WorkingRow DEF Working
  <1>3. "waiting" \in Steps \ {"free", "reading", "locking"} /\ "sent" \in WireType
    BY Zenon DEF Steps, WireType
  <1>4. sess'[x].pc = "waiting" /\ sess'[x].req = sess[x].req /\ sess'[x].op = o /\ sess'[x].at = sess[x].at
    BY Zenon, <1>1, <1>3, GoType
  <1>5. LocksOK(x)'
    BY Zenon, <1>1, <1>2, <1>3, GoLocks
  <1>6. RolesOK(x)' /\ ChecksOK(x)' /\ NodeOK(x)'
    <2>1. RolesOK(x)
      BY Zenon, Facts DEF Good
    <2> QED
      BY Zenon, <1>1, <1>4, <2>1 DEF RolesOK, ChecksOK, NodeOK, Unfinished, Working, Outcomes, Rows
  <1>7. [sess[x] EXCEPT !.pc = "waiting"] \in SessType(Present, Rows, ServiceRows)
        /\ sess' = [sess EXCEPT ![x] = [sess[x] EXCEPT !.pc = "waiting"]]
    BY Zenon, <1>1, <1>3, GoType
  <1>8. owner' \in [Present -> Sessions \cup {None}] /\ OwnersKept(x)
    BY Zenon, <1>1, OwnersStay
  <1> HIDE DEF o
  <1>9. sess[x].op = o
    BY Zenon DEF o
  <1> QED
    BY Zenon, <1>1, <1>2, <1>3, <1>5, <1>6, <1>7, <1>8, <1>9, SessionWireStep DEF Good

LEMMA AnsweredStep ==
    ASSUME IInv, NEW x \in Sessions, Answered(x)
    PROVE  IInv'
  <1> DEFINE o == sess[x].op
             w == IF wire[o] \in {"ok", "rejected"} THEN "over" ELSE wire[o]
             pc == CASE wire[o] = "ok" -> "accepted" [] wire[o] = "rejected" -> "fail" [] OTHER -> "reconcile"
  <1>1. /\ sess[x].pc = "waiting" /\ wire' = [wire EXCEPT ![o] = w] /\ Go(x, pc)
        /\ UNCHANGED <<node, uses, nop, sop, owner>>
    BY Zenon DEF Answered
  <1>2. o \in Rows /\ Unfinished(o) /\ AtWork(x)
    BY Zenon, <1>1, WorkingRow DEF Working
  <1>3. w \in WireType /\ (w \in {"sent", "checked"} => wire[o] \in {"sent", "checked"}) /\ wire'[o] = w
    BY Zenon, <1>1, <1>2, Facts DEF Types, WireType
  <1>4. pc \in {"accepted", "fail", "reconcile"} /\ (pc = "fail" => w = "over")
    BY Zenon DEF pc, w
  <1> HIDE DEF pc, w
  <1>5. pc \in Steps \ {"free", "reading", "locking"}
    BY Zenon, <1>4 DEF Steps, Outcomes
  <1>6. sess'[x].pc = pc /\ sess'[x].req = sess[x].req /\ sess'[x].op = o /\ sess'[x].at = sess[x].at
    BY Zenon, <1>1, <1>5, GoType
  <1>7. LocksOK(x)'
    BY Zenon, <1>1, <1>2, <1>5, GoLocks
  <1>8. RolesOK(x)' /\ ChecksOK(x)' /\ NodeOK(x)'
    <2>1. RolesOK(x)
      BY Zenon, Facts DEF Good
    <2> QED
      BY Zenon, <1>1, <1>3, <1>4, <1>6, <2>1 DEF RolesOK, ChecksOK, NodeOK, Unfinished, Working, Outcomes, Rows
  <1>9. [sess[x] EXCEPT !.pc = pc] \in SessType(Present, Rows, ServiceRows)
        /\ sess' = [sess EXCEPT ![x] = [sess[x] EXCEPT !.pc = pc]]
    BY Zenon, <1>1, <1>5, GoType
  <1>10. owner' \in [Present -> Sessions \cup {None}] /\ OwnersKept(x)
    BY Zenon, <1>1, OwnersStay
  <1> HIDE DEF o
  <1>11. sess[x].op = o
    BY Zenon DEF o
  <1> QED
    BY Zenon, <1>1, <1>2, <1>3, <1>7, <1>8, <1>9, <1>10, <1>11, SessionWireStep DEF Good

LEMMA SessionLostStep ==
    ASSUME IInv, NEW x \in Sessions, SessionLost(x)
    PROVE  IInv'
  <1> DEFINE o == sess[x].op
             w == IF wire[o] \in {"ok", "rejected"} THEN "over" ELSE wire[o]
  <1>1. Leave(x) /\ UNCHANGED <<node, uses, nop, sop>>
    BY Zenon DEF SessionLost
  <1>2. /\ Good(x)' /\ OwnersKept(x) /\ owner' \in [Present -> Sessions \cup {None}]
        /\ sess' = [sess EXCEPT ![x] = Free] /\ Free \in SessType(Present, Rows, ServiceRows)
    BY Zenon, <1>1, LeaveStep, FreeType
  <1>3. sess[x].pc \in {"dispatch", "waiting"} => o \in Rows /\ Unfinished(o) /\ AtWork(x)
    BY Zenon, WorkingRow DEF Working
  <1>4. CASE sess[x].pc = "dispatch" /\ wire' = [wire EXCEPT ![o] = "sent"]
    <2>1. "sent" \in WireType
      BY Zenon DEF WireType
    <2> QED
      BY Zenon, <1>1, <1>2, <1>3, <1>4, <2>1, SessionWireStep
  <1>5. CASE sess[x].pc = "waiting" /\ wire' = [wire EXCEPT ![o] = w]
    <2>1. w \in WireType /\ (w \in {"sent", "checked"} => wire[o] \in {"sent", "checked"})
      BY Zenon, <1>3, <1>5, Facts DEF Types, WireType
    <2> HIDE DEF w
    <2> QED
      BY Zenon, <1>1, <1>2, <1>3, <1>5, <2>1, SessionWireStep
  <1>6. CASE UNCHANGED wire
    BY Zenon, <1>1, <1>6, LeaveOnly
  <1> QED
    BY Zenon, <1>4, <1>5, <1>6 DEF SessionLost

-----------------------------------------------------------------------------
(* Steps that change the record of the operation a session works on *)

LEMMA StatusStep ==
    ASSUME IInv, NEW x \in Sessions, NEW new \in SessType(Present, Rows, ServiceRows), AtWork(x),
           sess' = [sess EXCEPT ![x] = new], owner' \in [Present -> Sessions \cup {None}], OwnersKept(x), Good(x)',
           NEW o \in Rows, sess[x].op = o, Unfinished(o),
           NEW st \in {"RUNNING", "VERIFYING", "NEEDS_ATTENTION"} \cup Terminal, NEW unseen \in BOOLEAN,
           nop' = [nop EXCEPT ![o].st = st, ![o].unseen = unseen],
           st \in Terminal => wire[o] \notin {"sent", "checked"} \/ Passed(o),
           UNCHANGED <<node, uses, sop, wire>>
    PROVE  IInv'
  <1>1. Present' = Present /\ ServiceRows' = ServiceRows
    BY Zenon DEF Present, ServiceRows
  <1>2. sess' \in [Sessions -> SessType(Present, Rows, ServiceRows)] /\ \A y \in Sessions \ {x} : sess'[y] = sess[y]
    BY Zenon, Facts DEF Types
  <1>3. nop \in [Rows -> OpType(Present)] /\ nop[o] \in OpType(Present) /\ o # None
    BY Zenon, Facts DEF Types
  <1>4. nop' \in [Rows -> OpType(Present)] /\ Rows' = Rows
    BY Zenon, <1>3 DEF OpType, Rows
  <1>5. \A p \in Rows : /\ p # o => nop'[p] = nop[p]
                        /\ nop'[p].at = nop[p].at /\ nop'[p].ver = nop[p].ver /\ nop'[p].before = nop[p].before
                        /\ nop'[p].target = nop[p].target /\ nop'[p].affected = nop[p].affected
    BY Zenon, <1>3 DEF OpType
  <1>6. nop'[o].st = st /\ st # "none" /\ nop[o].st # "none"
    BY Zenon, <1>3 DEF OpType, Terminal, Unfinished
  <1>7. \A p \in Rows : (Unfinished(p)' => Unfinished(p)) /\ (nop[p].st # "none" => nop'[p].st # "none")
                        /\ (p # o => (Unfinished(p)' <=> Unfinished(p)))
    BY Zenon, <1>5, <1>6 DEF Unfinished
  <1>8. Types'
    BY Zenon, <1>1, <1>2, <1>4, Facts DEF Types
  <1>9. ASSUME NEW y \in Sessions \ {x} PROVE Good(y)'
    <2>1. LocksOK(y)'
      BY Zenon, <1>1, <1>2, OthersLocks
    <2>2. RolesOK(y) /\ ChecksOK(y) /\ NodeOK(y) /\ sess'[y] = sess[y] /\ sess[y] \in SessType(Present, Rows, ServiceRows)
      BY Zenon, <1>2, Facts DEF Good
    <2>3. sess[y].pc \in Working => sess[y].op # o
      BY Zenon, <1>3, WorkingAtWork, Apart
    <2>4. RolesOK(y)'
      BY <1>1, <1>4, <1>5, <1>7, <2>2, <2>3 DEF RolesOK, SessType, ServiceUnfinished
    <2>5. ChecksOK(y)'
      BY <1>1, <1>4, <1>5, <1>7, <2>2 DEF ChecksOK, ServiceUnfinished
    <2>6. NodeOK(y)'
      <3>1. sess[y].pc = "success" => sess[y].op \in Rows
        <4>1. "success" \in Working
          BY Zenon DEF Working, Outcomes
        <4>2. sess[y].op \in Rows \cup {None}
          BY Zenon, <2>2 DEF SessType
        <4> QED
          BY Zenon, <2>2, <4>1, <4>2 DEF RolesOK
      <3>2. ASSUME sess[y].pc = "success" PROVE Passed(sess[y].op)'
        <4> DEFINE p == sess[y].op
        <4>1. p \in Rows /\ Passed(p) /\ p = sess'[y].op
          BY Zenon, <2>2, <3>1, <3>2 DEF NodeOK
        <4>2. /\ nop'[p].at = nop[p].at /\ nop'[p].ver = nop[p].ver /\ nop'[p].before = nop[p].before
              /\ nop'[p].target = nop[p].target
          BY Zenon, <1>5, <4>1
        <4> QED
          BY Zenon, <4>1, <4>2 DEF Passed, Unchanged
      <3>3. sess[y].pc \in {"inspected", "planned"} => Seen(sess[y].at, sess[y].ver, sess[y].before)'
        BY Zenon, <2>2 DEF NodeOK, Seen
      <3> QED
        BY Zenon, <2>2, <3>2, <3>3 DEF NodeOK
    <2> QED
      BY Zenon, <2>1, <2>4, <2>5, <2>6 DEF Good
  <1>10. ASSUME NEW p \in Rows PROVE OpOK(p)'
    <2>1. OpOK(p)
      BY Zenon, Facts
    <2>2. Passed(p)' <=> Passed(p)
      BY Zenon, <1>5 DEF Passed, Unchanged
    <2>3. nop[p].st # "none" => Seen(nop[p].at, nop[p].ver, nop[p].before)'
      BY Zenon, <1>5, <2>1 DEF OpOK, Seen
    <2>4. CASE p = o
      <3>1. nop'[p].st = st /\ (st \in Terminal => wire[p] \notin {"sent", "checked"} \/ Passed(p))
        BY Zenon, <1>6, <2>4
      <3> QED
        BY Zenon, <1>1, <1>5, <1>6, <2>1, <2>2, <2>3, <2>4, <3>1 DEF OpOK
    <2>5. CASE p # o
      BY Zenon, <1>1, <1>5, <2>1, <2>2, <2>3, <2>5 DEF OpOK
    <2> QED
      BY Zenon, <2>4, <2>5
  <1>11. Exclusion'
    <2>1. Exclusion
      BY Zenon, Facts
    <2> QED
      BY <1>4, <1>5, <1>7, <2>1 DEF Exclusion, Rows, ServiceUnfinished
  <1> QED
    BY Zenon, <1>1, <1>4, <1>8, <1>9, <1>10, <1>11 DEF IInv, Good

LEMMA MarkVerifyingStep ==
    ASSUME IInv, NEW x \in Sessions, MarkVerifying(x)
    PROVE  IInv'
  <1> DEFINE o == sess[x].op
  <1>1. sess[x].pc = "accepted" /\ Go(x, "verify") /\ UNCHANGED <<node, uses, sop, wire, owner>>
    BY Zenon DEF MarkVerifying
  <1>2. o \in Rows /\ Unfinished(o) /\ AtWork(x) /\ nop[o].at = sess[x].at /\ sess[x].req \in Rows \cup {None} /\ o # None
    BY Zenon, <1>1, WorkingRow, Facts DEF Working
  <1>3. nop' = [nop EXCEPT ![o].st = "VERIFYING", ![o].unseen = FALSE]
    BY Zenon, <1>2 DEF MarkVerifying, Unfinished
  <1>4. "verify" \in Steps \ {"free", "reading", "locking"}
    BY Zenon DEF Steps
  <1>5. sess'[x].pc = "verify" /\ sess'[x].req = sess[x].req /\ sess'[x].op = o /\ sess'[x].at = sess[x].at
    BY Zenon, <1>1, <1>4, GoType
  <1>6. LocksOK(x)'
    BY Zenon, <1>1, <1>2, <1>4, GoLocks
  <1>7. nop'[o].st = "VERIFYING" /\ nop'[o].at = nop[o].at /\ Rows' = Rows
    BY <1>2, <1>3, Facts DEF OpType, Types, Rows
  <1>8. RolesOK(x)' /\ ChecksOK(x)' /\ NodeOK(x)'
    BY Zenon, <1>2, <1>5, <1>7 DEF RolesOK, ChecksOK, NodeOK, Unfinished, Terminal, Working, Outcomes
  <1>9. [sess[x] EXCEPT !.pc = "verify"] \in SessType(Present, Rows, ServiceRows)
        /\ sess' = [sess EXCEPT ![x] = [sess[x] EXCEPT !.pc = "verify"]]
    BY Zenon, <1>1, <1>4, GoType
  <1>10. owner' \in [Present -> Sessions \cup {None}] /\ OwnersKept(x)
    BY Zenon, <1>1, OwnersStay
  <1>11. Good(x)' /\ "VERIFYING" \notin Terminal
    BY Zenon, <1>6, <1>8 DEF Good, Terminal
  <1> QED
    BY Zenon, <1>1, <1>2, <1>3, <1>9, <1>10, <1>11, StatusStep

LEMMA CompleteStep ==
    ASSUME IInv, NEW x \in Sessions, Complete(x)
    PROVE  IInv'
  <1> DEFINE o == sess[x].op
             st == CASE sess[x].pc = "success" -> "SUCCESS" [] sess[x].pc = "fail" -> "FAILED"
                     [] OTHER -> "NEEDS_ATTENTION"
             unseen == (sess[x].pc = "unseen")
  <1>1. sess[x].pc \in Outcomes /\ UNCHANGED <<node, uses, sop, wire>>
    BY Zenon DEF Complete
  <1>2. /\ o \in Rows /\ Unfinished(o) /\ AtWork(x) /\ nop[o].at = sess[x].at /\ sess[x].req \in Rows \cup {None}
        /\ sess[x].at \in Nodes \cap Present /\ o # None
    BY Zenon, <1>1, WorkingRow, Facts DEF Working
  <1>3. nop' = [nop EXCEPT ![o].st = st, ![o].unseen = unseen]
    BY Zenon, <1>2 DEF Complete, Unfinished
  <1>4. st \in {"RUNNING", "VERIFYING", "NEEDS_ATTENTION"} \cup Terminal /\ unseen \in BOOLEAN
    BY Zenon DEF Terminal
  <1>5. st \in Terminal => wire[o] \notin {"sent", "checked"} \/ Passed(o)
    <2>1. NodeOK(x)
      BY Zenon, Facts DEF Good
    <2> QED
      BY Zenon, <2>1 DEF NodeOK, Terminal
  <1>6. CASE sess[x].req \notin {o, None} /\ nop'[o].st \in Terminal
    <2> DEFINE new == [sess[x] EXCEPT !.pc = "locked", !.op = None]
    <2>1. sess' = [sess EXCEPT ![x].pc = "locked", ![x].op = None] /\ UNCHANGED owner
      BY Zenon, <1>6 DEF Complete
    <2>2. sess[x] \in SessType(Present, Rows, ServiceRows) /\ sess \in [Sessions -> SessType(Present, Rows, ServiceRows)]
      BY Zenon, Facts DEF Types
    <2>3. sess' = [sess EXCEPT ![x] = new] /\ new \in SessType(Present, Rows, ServiceRows)
      BY Zenon, <2>1, <2>2 DEF SessType, Steps
    <2>4. new.pc = "locked" /\ new.op = None /\ new.req = sess[x].req /\ new.at = sess[x].at /\ new.seen = sess[x].seen
      BY Zenon, <2>2 DEF SessType
    <2> HIDE DEF new, st, unseen
    <2>5. sess'[x] = new
      BY Zenon, <2>2, <2>3
    <2>6. Rows' = Rows /\ Present' = Present
      BY Zenon, <1>3, <2>1 DEF Rows, Present
    <2>7. LocksOK(x)'
      <3>1. LocksOK(x)
        BY Zenon, Facts DEF Good
      <3>2. \A k \in {sess[x].at} \cup sess[x].seen : owner'[k] = x
        BY Zenon, <1>2, <2>1, <3>1 DEF LocksOK
      <3> QED
        BY Zenon, <1>2, <2>4, <2>5, <2>6, <3>2 DEF LocksOK, AtWork
    <2>8. RolesOK(x)' /\ ChecksOK(x)' /\ NodeOK(x)'
      BY Zenon, <1>2, <1>6, <2>4, <2>5, <2>6 DEF RolesOK, ChecksOK, NodeOK, Working, Outcomes
    <2>9. owner' \in [Present -> Sessions \cup {None}] /\ OwnersKept(x) /\ Good(x)'
      BY Zenon, <2>1, <2>7, <2>8, OwnersStay DEF Good
    <2> QED
      BY Zenon, <1>1, <1>2, <1>3, <1>4, <1>5, <2>3, <2>9, StatusStep
  <1>7. CASE ~(sess[x].req \notin {o, None} /\ nop'[o].st \in Terminal)
    <2>1. Leave(x)
      BY Zenon, <1>7 DEF Complete
    <2>2. /\ Good(x)' /\ OwnersKept(x) /\ owner' \in [Present -> Sessions \cup {None}]
          /\ sess' = [sess EXCEPT ![x] = Free] /\ Free \in SessType(Present, Rows, ServiceRows)
      BY Zenon, <2>1, LeaveStep, FreeType
    <2> HIDE DEF st, unseen
    <2> QED
      BY Zenon, <1>1, <1>2, <1>3, <1>4, <1>5, <2>2, StatusStep
  <1> QED
    BY Zenon, <1>6, <1>7

LEMMA ManualResolveStep ==
    ASSUME IInv, NEW x \in Sessions, ManualResolve(x)
    PROVE  IInv'
  <1> DEFINE o == sess[x].op
  <1>1. /\ sess[x].pc = "locked" /\ sess[x].req = None /\ nop[o].st = "NEEDS_ATTENTION" /\ wire[o] \notin {"sent", "checked"}
        /\ nop' = [nop EXCEPT ![o].st = "FAILED", ![o].unseen = FALSE] /\ Leave(x) /\ UNCHANGED <<node, uses, sop, wire>>
    BY Zenon DEF ManualResolve
  <1>2. o \in Rows /\ AtWork(x)
    <2>1. RolesOK(x) /\ sess[x] \in SessType(Present, Rows, ServiceRows) /\ None \notin Rows /\ None \notin ServiceRows
      BY Zenon, Facts DEF Good
    <2> QED
      BY Zenon, <1>1, <2>1 DEF RolesOK, SessType, AtWork
  <1>3. Unfinished(o) /\ "FAILED" \in Terminal
    BY Zenon, <1>1 DEF Unfinished, Terminal
  <1>4. /\ Good(x)' /\ OwnersKept(x) /\ owner' \in [Present -> Sessions \cup {None}]
        /\ sess' = [sess EXCEPT ![x] = Free] /\ Free \in SessType(Present, Rows, ServiceRows)
    BY Zenon, <1>1, LeaveStep, FreeType
  <1> QED
    BY Zenon, <1>1, <1>2, <1>3, <1>4, StatusStep

\* The new record overlaps with none: its session holds the locks of the node
\* and the services, and found nothing unfinished under them.
LEMMA PersistIntentStep ==
    ASSUME IInv, NEW x \in Sessions, PersistIntent(x)
    PROVE  IInv'
  <1> DEFINE o == sess[x].req
             n == sess[x].at
             target == Target(o, sess[x].before, sess[x].label)
             pc == IF sess[x].before = target THEN "verify" ELSE "dispatch"
             rec == [st |-> "RUNNING", unseen |-> FALSE, at |-> n, ver |-> sess[x].ver,
                     before |-> sess[x].before, target |-> target, affected |-> sess[x].seen]
  <1>1. /\ sess[x].pc = "planned" /\ nop[o].st = "none" /\ nop' = [nop EXCEPT ![o] = rec] /\ WorkOn(x, o, pc)
        /\ UNCHANGED <<node, uses, sop, wire, owner>>
    BY Zenon DEF PersistIntent
  <1>2. sess[x] \in SessType(Present, Rows, ServiceRows) /\ RolesOK(x) /\ ChecksOK(x) /\ NodeOK(x) /\ LocksOK(x)
    BY Zenon, Facts DEF Good
  <1>3. o \in Rows /\ n \in Nodes \cap Present /\ AtWork(x) /\ Seen(n, sess[x].ver, sess[x].before) /\ o # None
    BY Zenon, <1>1, <1>2, Facts DEF RolesOK, LocksOK, NodeOK, AtWork
  <1>4. target \in Specs /\ sess[x].before \in Specs
    BY Zenon, <1>2, <1>3, SpecFacts DEF Seen, SessType
  <1>5. pc \in {"verify", "dispatch"} /\ pc \in Steps
    BY Zenon DEF Steps
  <1> HIDE DEF pc, target
  <1>6. rec \in OpType(Present)
    BY Zenon, <1>2, <1>3, <1>4 DEF OpType, SessType, SpecOrNone, Terminal
  <1>7. /\ rec.st = "RUNNING" /\ rec.at = n /\ rec.ver = sess[x].ver /\ rec.before = sess[x].before
        /\ rec.target = target /\ rec.affected = sess[x].seen
    BY Zenon
  <1> HIDE DEF rec
  <1>8. /\ Present' = Present /\ Rows' = Rows /\ ServiceRows' = ServiceRows
        /\ nop' \in [Rows -> OpType(Present)] /\ nop'[o] = rec /\ \A p \in Rows \ {o} : nop'[p] = nop[p]
    BY Zenon, <1>1, <1>3, <1>6, Facts DEF Types, Present, Rows, ServiceRows
  <1>9. /\ Worker(x, o, pc) \in SessType(Present, Rows, ServiceRows) /\ sess' = [sess EXCEPT ![x] = Worker(x, o, pc)]
        /\ sess'[x].pc = pc /\ sess'[x].req = o /\ sess'[x].op = o /\ sess'[x].at = n /\ sess'[x].seen = {}
        /\ \A y \in Sessions \ {x} : sess'[y] = sess[y]
    <2>1. WorkOn(x, o, pc) /\ o \in Rows /\ pc \in Steps /\ n = sess[x].at
      BY Zenon, <1>1, <1>3, <1>5
    <2> HIDE DEF o, n
    <2> QED
      BY <2>1, WorkOnFacts
  <1>10. sess' \in [Sessions -> SessType(Present, Rows, ServiceRows)]
    BY Zenon, <1>9, Facts DEF Types
  <1>11. Types'
    BY Zenon, <1>1, <1>8, <1>10, Facts DEF Types
  <1>12. Good(x)'
    <2>7. /\ sess'[x].pc \notin {"free", "reading", "locking", "locked", "inspected", "planned"}
          /\ sess'[x].pc \notin {"serviceChecked", "serviceWork"}
      BY Zenon, <1>5, <1>9
    <2>1. LocksOK(x)'
      <3>1. owner'[n] = x
        BY Zenon, <1>1, <1>2, <1>3 DEF LocksOK
      <3>2. sess'[x].at \in Present' /\ \A k \in {sess'[x].at} \cup sess'[x].seen : owner'[k] = x
        BY <1>3, <1>8, <1>9, <3>1
      <3> QED
        BY Zenon, <2>7, <3>2 DEF LocksOK
    <2>2. nop'[o].st = "RUNNING" /\ nop'[o].at = n
      BY Zenon, <1>7, <1>8
    <2>5. RolesOK(x)'
      <3>1. Unfinished(sess[x].op)'
        BY Zenon, <1>9, <2>2 DEF Unfinished, Terminal
      <3>2. nop'[sess'[x].op].st # "none" /\ nop'[sess'[x].op].at = sess'[x].at
        BY Zenon, <1>9, <2>2
      <3>3. sess'[x].op # None /\ sess'[x].req \in Rows' \cup {None}
        BY Zenon, <1>3, <1>8, <1>9
      <3> QED
        BY Zenon, <2>7, <3>1, <3>2, <3>3 DEF RolesOK
    <2>6. ChecksOK(x)'
      BY Zenon, <1>5, <1>9 DEF ChecksOK
    <2>3. wire[o] = "none"
      BY Zenon, <1>1, <1>3, Facts DEF OpOK
    <2>4. NodeOK(x)'
      BY Zenon, <1>1, <1>5, <1>9, <2>3 DEF NodeOK
    <2> QED
      BY Zenon, <2>1, <2>4, <2>5, <2>6 DEF Good
  <1>13. ASSUME NEW y \in Sessions \ {x} PROVE Good(y)'
    <2>1. sess'[y] = sess[y] /\ sess[y] \in SessType(Present, Rows, ServiceRows) /\ RolesOK(y) /\ ChecksOK(y) /\ NodeOK(y)
      BY Zenon, <1>9, Facts DEF Good
    <2>2. sess[y].op # o
      BY Zenon, <1>1, <1>3, <2>1 DEF RolesOK
    <2>3. LocksOK(y)'
      BY Zenon, <1>1, <1>8, <2>1, OthersLocks, OwnersStay
    <2>4. RolesOK(y)'
      <3>1. sess[y].op # None => sess[y].op \in Rows \ {o}
        BY Zenon, <2>1, <2>2 DEF SessType
      <3> QED
        BY Zenon, <1>1, <1>8, <2>1, <3>1 DEF RolesOK, Unfinished, ServiceUnfinished
    <2>5. AtWork(y) => /\ n # sess[y].at /\ sess[y].at \notin sess[x].seen /\ sess[x].seen \cap sess[y].seen = {}
      BY Zenon, <1>3, Apart
    <2>6. ChecksOK(y)'
      <3>1. sess[y].pc \in {"inspected", "planned"} => \A p \in Rows : Unfinished(p)' => nop'[p].at # sess[y].at
        BY Zenon, <1>7, <1>8, <2>1, <2>5, WorkingAtWork DEF ChecksOK, Unfinished
      <3>2. sess[y].pc = "planned" => \A p \in Rows : Unfinished(p)' => nop'[p].affected \cap sess[y].seen = {}
        BY Zenon, <1>7, <1>8, <2>1, <2>5, WorkingAtWork DEF ChecksOK, Unfinished
      <3>3. sess[y].pc = "serviceChecked" => \A p \in Rows : Unfinished(p)' => sess[y].at \notin nop'[p].affected
        BY Zenon, <1>7, <1>8, <2>1, <2>5, WorkingAtWork DEF ChecksOK, Unfinished
      <3> QED
        BY Zenon, <1>1, <1>8, <2>1, <3>1, <3>2, <3>3 DEF ChecksOK, ServiceUnfinished
    <2>7. NodeOK(y)'
      <3>1. ASSUME sess[y].pc = "success" PROVE Passed(sess[y].op)'
        <4> DEFINE p == sess[y].op
        <4>1. p \in Rows \ {o} /\ Passed(p) /\ p = sess'[y].op
          BY Zenon, <2>1, <2>2, <3>1 DEF NodeOK, RolesOK, SessType, Working, Outcomes
        <4>2. nop'[p] = nop[p]
          BY Zenon, <1>8, <4>1
        <4> QED
          BY Zenon, <1>1, <4>1, <4>2 DEF Passed, Unchanged
      <3>2. sess[y].pc \in {"inspected", "planned"} => Seen(sess[y].at, sess[y].ver, sess[y].before)'
        BY Zenon, <1>1, <2>1 DEF NodeOK, Seen
      <3> QED
        BY Zenon, <1>1, <2>1, <3>1, <3>2 DEF NodeOK
    <2> QED
      BY Zenon, <2>3, <2>4, <2>6, <2>7 DEF Good
  <1>14. ASSUME NEW p \in Rows PROVE OpOK(p)'
    <2>1. OpOK(p)
      BY Zenon, Facts
    <2>2. CASE p = o
      <3>1. nop'[p] = rec
        BY Zenon, <1>8, <2>2
      <3>2. Seen(nop[p].at, nop[p].ver, nop[p].before)'
        BY Zenon, <1>1, <1>3, <1>7, <3>1 DEF Seen
      <3> QED
        BY Zenon, <1>3, <1>4, <1>7, <1>8, <3>1, <3>2 DEF OpOK, Terminal
    <2>3. CASE p # o
      <3>1. nop'[p] = nop[p]
        BY Zenon, <1>8, <2>3
      <3>2. nop[p].st # "none" => Seen(nop[p].at, nop[p].ver, nop[p].before)'
        BY Zenon, <1>1, <2>1, <3>1 DEF OpOK, Seen
      <3>3. Passed(p)' <=> Passed(p)
        BY Zenon, <1>1, <3>1 DEF Passed, Unchanged
      <3> QED
        BY Zenon, <1>1, <1>8, <2>1, <3>1, <3>2, <3>3 DEF OpOK
    <2> QED
      BY Zenon, <2>2, <2>3
  <1>15. Exclusion'
    <2>1. Exclusion
      BY Zenon, Facts
    <2>2. \A p \in Rows \ {o} : Unfinished(p)' <=> Unfinished(p)
      BY Zenon, <1>8 DEF Unfinished
    <2>3. ASSUME NEW p \in Rows \ {o}, Unfinished(p)
          PROVE  nop'[p].at # n /\ nop'[p].affected \cap sess[x].seen = {}
      BY Zenon, <1>1, <1>2, <1>8, <2>3 DEF ChecksOK
    <2>4. \A v \in ServiceRows : ServiceUnfinished(v)' => sop'[v].at \notin sess[x].seen
      BY Zenon, <1>1, <1>2 DEF ChecksOK, ServiceUnfinished
    <2>5. ASSUME NEW p \in Rows, NEW q \in Rows \ {p}, Unfinished(p)', Unfinished(q)'
          PROVE  nop'[q].at # nop'[p].at /\ nop'[q].affected \cap nop'[p].affected = {}
      <3>1. CASE p = o
        BY Zenon, <1>7, <1>8, <2>2, <2>3, <2>5, <3>1
      <3>2. CASE q = o
        BY Zenon, <1>7, <1>8, <2>2, <2>3, <2>5, <3>2
      <3>3. CASE p # o /\ q # o
        BY Zenon, <1>8, <2>1, <2>2, <2>5, <3>3 DEF Exclusion, Rows
      <3> QED
        BY Zenon, <3>1, <3>2, <3>3
    <2>6. ASSUME NEW p \in Rows, Unfinished(p)', NEW v \in ServiceRows, ServiceUnfinished(v)'
          PROVE  sop'[v].at \notin nop'[p].affected
      <3>1. CASE p = o
        BY Zenon, <1>7, <1>8, <2>4, <2>6, <3>1
      <3>2. CASE p # o
        BY Zenon, <1>1, <1>8, <2>1, <2>2, <2>6, <3>2 DEF Exclusion, Rows, ServiceRows, ServiceUnfinished
      <3> QED
        BY Zenon, <3>1, <3>2
    <2> QED
      BY Zenon, <1>8, <2>5, <2>6 DEF Exclusion, Rows, ServiceRows
  <1> QED
    BY Zenon, <1>8, <1>11, <1>12, <1>13, <1>14, <1>15 DEF IInv, Good

-----------------------------------------------------------------------------
(* Steps that change the record of a service operation *)

\* What a change of sop may not disturb.
LEMMA ServiceStep ==
    ASSUME IInv, NEW x \in Sessions, NEW new \in SessType(Present, Rows, ServiceRows), AtWork(x),
           sess' = [sess EXCEPT ![x] = new], owner' \in [Present -> Sessions \cup {None}], OwnersKept(x), Good(x)',
           NEW v \in ServiceRows, NEW rec \in SopType(Present), sop' = [sop EXCEPT ![v] = rec],
           UNCHANGED <<node, uses, nop, wire>>,
           \A y \in Sessions \ {x} : sess[y].pc = "serviceWork" => sess[y].req # v,
           rec.st = "unfinished" => /\ rec.at = sess[x].at
                                    /\ \A p \in Rows : Unfinished(p) => sess[x].at \notin nop[p].affected
    PROVE  IInv'
  <1>1. Present' = Present /\ Rows' = Rows
    BY Zenon DEF Present, Rows
  <1>2. sess' \in [Sessions -> SessType(Present, Rows, ServiceRows)] /\ \A y \in Sessions \ {x} : sess'[y] = sess[y]
    BY Zenon, Facts DEF Types
  <1>3. ServiceRows' = ServiceRows /\ sop' \in [ServiceRows -> SopType(Present)]
        /\ sop'[v] = rec /\ \A u \in ServiceRows \ {v} : sop'[u] = sop[u]
    BY Zenon, Facts DEF Types, ServiceRows
  <1>4. Types'
    BY Zenon, <1>1, <1>2, <1>3, Facts DEF Types
  <1>5. ASSUME NEW y \in Sessions \ {x} PROVE Good(y)'
    <2>1. sess'[y] = sess[y] /\ RolesOK(y) /\ ChecksOK(y) /\ NodeOK(y)
      BY Zenon, <1>2, Facts DEF Good
    <2>2. LocksOK(y)'
      BY Zenon, <1>1, <1>2, OthersLocks
    <2>3. RolesOK(y)'
      <3>1. sess[y].pc = "serviceWork" => sop'[sess[y].req] = sop[sess[y].req]
        BY Zenon, <1>3, <2>1 DEF RolesOK
      <3>2. sess[y].pc = "serviceWork" => /\ ServiceUnfinished(sess[y].req)'
                                          /\ sop'[sess[y].req].at = sess[y].at
        BY Zenon, <2>1, <3>1 DEF RolesOK, ServiceUnfinished
      <3>3. sess[y].pc \in Working => Unfinished(sess[y].op)'
        BY Zenon, <2>1 DEF RolesOK, Unfinished
      <3>4. ServiceRows' = ServiceRows /\ Rows' = Rows
        BY Zenon, <1>1, <1>3 DEF Rows
      <3>5. sess[y].op # None => nop'[sess[y].op].st # "none" /\ nop'[sess[y].op].at = sess[y].at
        BY Zenon, <2>1 DEF RolesOK
      <3>6. sess[y].pc \in Working => Unfinished(sess[y].op)' /\ sess[y].op # None /\ sess[y].req \in Rows \cup {None}
        BY Zenon, <2>1, <3>3 DEF RolesOK
      <3>7. LET s == sess'[y] IN
            /\ s.op # None => nop'[s.op].st # "none" /\ nop'[s.op].at = s.at
            /\ s.pc \in Working => s.op # None /\ Unfinished(sess[y].op)' /\ s.req \in Rows' \cup {None}
            /\ s.pc = "serviceWork" => ServiceUnfinished(sess[y].req)' /\ sop'[s.req].at = s.at
        BY Zenon, <2>1, <3>2, <3>4, <3>5, <3>6
      <3>18. sess[y].pc \in {"reading", "inspected", "planned"} =>
                sess[y].req \in Rows /\ sess[y].at \in Nodes /\ sess[y].op = None
        BY Zenon, <2>1 DEF RolesOK
      <3>8. sess'[y].pc \in {"reading", "inspected", "planned"} =>
                sess'[y].req \in Rows' /\ sess'[y].at \in Nodes /\ sess'[y].op = None
        BY <2>1, <3>4, <3>18
      <3>19. sess[y].pc \in {"locking", "locked"} =>
                \/ sess[y].req = None /\ sess[y].op # None
                \/ sess[y].req \in Rows /\ sess[y].at \in Nodes /\ sess[y].op = None
                \/ sess[y].req \in ServiceRows /\ sess[y].at \in Services /\ sess[y].op = None
        BY Zenon, <2>1 DEF RolesOK
      <3>9. sess'[y].pc \in {"locking", "locked"} =>
                \/ sess'[y].req = None /\ sess'[y].op # None
                \/ sess'[y].req \in Rows' /\ sess'[y].at \in Nodes /\ sess'[y].op = None
                \/ sess'[y].req \in ServiceRows' /\ sess'[y].at \in Services /\ sess'[y].op = None
        BY <2>1, <3>4, <3>19
      <3>20. sess[y].pc \in {"serviceChecked", "serviceWork"} =>
                sess[y].req \in ServiceRows /\ sess[y].at \in Services /\ sess[y].op = None
        BY Zenon, <2>1 DEF RolesOK
      <3>10. sess'[y].pc \in {"serviceChecked", "serviceWork"} =>
                sess'[y].req \in ServiceRows' /\ sess'[y].at \in Services /\ sess'[y].op = None
        BY <2>1, <3>4, <3>20
      <3> QED
        BY Zenon, <3>7, <3>8, <3>9, <3>10 DEF RolesOK
    <2>4. ChecksOK(y)'
      <3>1. sess[y].pc = "planned" => sess[x].at \notin sess[y].seen
        BY Zenon, WorkingAtWork, Apart
      <3> QED
        BY Zenon, <1>1, <1>3, <2>1, <3>1 DEF ChecksOK, Unfinished, ServiceUnfinished
    <2>5. NodeOK(y)'
      BY Zenon, <2>1 DEF NodeOK, Seen, Passed, Unchanged
    <2> QED
      BY Zenon, <2>2, <2>3, <2>4, <2>5 DEF Good
  <1>6. ASSUME NEW o \in Rows PROVE OpOK(o)'
    <2>1. OpOK(o)
      BY Zenon, Facts
    <2> QED
      BY Zenon, <1>1, <2>1 DEF OpOK, Seen, Passed, Unchanged
  <1>7. Exclusion'
    <2>1. Exclusion
      BY Zenon, Facts
    <2> QED
      BY Zenon, <1>1, <1>3, <2>1 DEF Exclusion, Unfinished, ServiceUnfinished, Rows, ServiceRows
  <1> QED
    BY Zenon, <1>1, <1>4, <1>5, <1>6, <1>7 DEF IInv, Good

LEMMA PersistServiceIntentStep ==
    ASSUME IInv, NEW x \in Sessions, PersistServiceIntent(x)
    PROVE  IInv'
  <1> DEFINE v == sess[x].req
             s == sess[x].at
             rec == [st |-> "unfinished", at |-> s]
             new == [sess[x] EXCEPT !.pc = "serviceWork"]
  <1>1. /\ sess[x].pc = "serviceChecked" /\ sop[v].st = "none" /\ sop' = [sop EXCEPT ![v] = rec]
        /\ Go(x, "serviceWork") /\ UNCHANGED <<node, uses, nop, wire, owner>>
    BY Zenon DEF PersistServiceIntent
  <1>2. RolesOK(x) /\ ChecksOK(x) /\ LocksOK(x) /\ AtWork(x)
    BY Zenon, <1>1, Facts DEF Good, AtWork
  <1>3. v \in ServiceRows /\ s \in Services \cap Present /\ sess[x].op = None
    BY Zenon, <1>1, <1>2 DEF RolesOK, LocksOK
  <1>4. rec \in SopType(Present)
    BY Zenon, <1>3 DEF SopType
  <1>5. "serviceWork" \in Steps \ {"free", "reading", "locking"}
    BY Zenon DEF Steps
  <1>6. sess'[x].pc = "serviceWork" /\ sess'[x].req = v /\ sess'[x].op = None /\ sess'[x].at = s
    BY Zenon, <1>1, <1>3, <1>5, GoType
  <1>7. sop'[v] = rec /\ ServiceRows' = ServiceRows
    BY Zenon, <1>1, <1>3, Facts DEF Types, ServiceRows
  <1>8. LocksOK(x)'
    BY Zenon, <1>1, <1>2, <1>5, GoLocks
  <1>9. RolesOK(x)' /\ ChecksOK(x)' /\ NodeOK(x)'
    <2>1. "serviceWork" \notin Working
      BY Zenon DEF Working, Outcomes
    <2>6. sop'[v].st = "unfinished" /\ sop'[v].at = s
      BY <1>7
    <2>2. ServiceUnfinished(sess[x].req)' /\ sop'[v].at = s
      BY Zenon, <1>6, <2>6 DEF ServiceUnfinished
    <2>3. RolesOK(x)'
      BY Zenon, <1>3, <1>6, <1>7, <2>1, <2>2 DEF RolesOK
    <2>4. ChecksOK(x)'
      BY Zenon, <1>6 DEF ChecksOK
    <2>5. NodeOK(x)'
      BY Zenon, <1>6 DEF NodeOK
    <2> QED
      BY Zenon, <2>3, <2>4, <2>5
  <1>10. new \in SessType(Present, Rows, ServiceRows) /\ sess' = [sess EXCEPT ![x] = new]
    BY Zenon, <1>1, <1>5, GoType
  <1>11. owner' \in [Present -> Sessions \cup {None}] /\ OwnersKept(x) /\ Good(x)'
    BY Zenon, <1>1, <1>8, <1>9, OwnersStay DEF Good
  <1>12. \A y \in Sessions \ {x} : sess[y].pc = "serviceWork" => sess[y].req # v
    BY Zenon, <1>1, Facts DEF Good, RolesOK, ServiceUnfinished
  <1>13. rec.at = sess[x].at /\ \A p \in Rows : Unfinished(p) => sess[x].at \notin nop[p].affected
    BY Zenon, <1>1, <1>2 DEF ChecksOK
  <1>14. sop' = [sop EXCEPT ![v] = rec] /\ UNCHANGED <<node, uses, nop, wire>> /\ AtWork(x) /\ v \in ServiceRows
    BY Zenon, <1>1, <1>2, <1>3
  <1> HIDE DEF v, s, rec, new
  <1> QED
    BY Zenon, <1>4, <1>10, <1>11, <1>12, <1>13, <1>14, ServiceStep

LEMMA EndServiceStep ==
    ASSUME IInv, NEW x \in Sessions, EndService(x)
    PROVE  IInv'
  <1> DEFINE v == sess[x].req
             s == sess[x].at
  <1>1. sess[x].pc = "serviceWork" /\ Leave(x) /\ UNCHANGED <<node, uses, nop, wire>>
    BY Zenon DEF EndService
  <1>2. PICK st \in {"unfinished", "ended"} : sop' = [sop EXCEPT ![v].st = st]
    BY Zenon DEF EndService
  <1>3. RolesOK(x) /\ LocksOK(x) /\ AtWork(x)
    BY Zenon, <1>1, Facts DEF Good, AtWork
  <1>4. v \in ServiceRows /\ sop[v].at = s /\ ServiceUnfinished(v)
    BY Zenon, <1>1, <1>3 DEF RolesOK
  <1> DEFINE rec == [sop[v] EXCEPT !.st = st]
  <1>5. rec \in SopType(Present) /\ rec.at = s /\ rec.st = st /\ sop' = [sop EXCEPT ![v] = rec]
    BY <1>2, <1>4, Facts DEF SopType, Types
  <1> HIDE DEF rec
  <1>6. /\ Good(x)' /\ OwnersKept(x) /\ owner' \in [Present -> Sessions \cup {None}]
        /\ sess' = [sess EXCEPT ![x] = Free] /\ Free \in SessType(Present, Rows, ServiceRows)
    BY Zenon, <1>1, LeaveStep, FreeType
  <1>7. ASSUME NEW y \in Sessions \ {x}, sess[y].pc = "serviceWork" PROVE sess[y].req # v
    <2>1. RolesOK(y) /\ AtWork(y)
      BY Zenon, <1>7, Facts, WorkingAtWork DEF Good
    <2>2. sess[y].at # s
      BY Zenon, <1>3, <2>1, Apart
    <2> QED
      BY Zenon, <1>4, <1>7, <2>1, <2>2 DEF RolesOK
  <1>8. rec.at = sess[x].at /\ \A p \in Rows : Unfinished(p) => sess[x].at \notin nop[p].affected
    BY Zenon, <1>4, <1>5, Facts DEF Exclusion, Rows, ServiceRows
  <1> HIDE DEF v, s
  <1> QED
    BY Zenon, <1>1, <1>3, <1>4, <1>5, <1>6, <1>7, <1>8, ServiceStep

-----------------------------------------------------------------------------
LEMMA InitIInv == Init => IInv
  <1> SUFFICES ASSUME Init PROVE IInv
    BY Zenon
  <1>1. PICK mix \in Mixes :
          /\ node \in [Nodes \cap mix -> [ver : {1}, spec : [avail : {"active"}, label : {FALSE}],
                                         tasks : SUBSET (Scheduled \cap mix)]]
          /\ uses \in SUBSET (Constrained \cap mix)
          /\ nop = [o \in NodeOps \cap mix |-> NoOp]
          /\ sop = [v \in ServiceOps \cap mix |-> [st |-> "none", at |-> None]]
          /\ wire = [o \in NodeOps \cap mix |-> "none"]
          /\ owner = [k \in Resources \cap mix |-> None]
    BY Zenon DEF Init
  <1>2. sess = [x \in Sessions |-> Free]
    BY Zenon DEF Init
  <1>3. Present = Resources \cap mix /\ Rows = NodeOps \cap mix /\ ServiceRows = ServiceOps \cap mix
    BY Zenon, <1>1 DEF Present, Rows, ServiceRows
  <1>4. Nodes \cap mix = Nodes \cap Present /\ Scheduled \cap mix = Scheduled \cap Present
        /\ Constrained \cap mix = Constrained \cap Present
    BY Zenon, <1>3, NodeAssumption DEF Resources
  <1>5. node \in [Nodes \cap Present -> NodeType(Present)]
    <2>1. 1 \in 1 .. MaxVer
      BY NodeAssumption
    <2>2. [avail : {"active"}, label : {FALSE}] \subseteq Specs
      BY Zenon DEF Specs
    <2>3. [ver : {1}, spec : [avail : {"active"}, label : {FALSE}], tasks : SUBSET (Scheduled \cap Present)]
            \subseteq NodeType(Present)
      BY Zenon, <2>1, <2>2 DEF NodeType
    <2> QED
      BY Zenon, <1>1, <1>4, <2>3
  <1>6. NoOp \in OpType(Present) /\ NoOp.st = "none" /\ [st |-> "none", at |-> None] \in SopType(Present)
    BY NodeAssumption DEF NoOp, OpType, SopType, SpecOrNone
  <1>7. Types
    BY Zenon, <1>1, <1>2, <1>3, <1>4, <1>5, <1>6, FreeType DEF Types, WireType
  <1>8. \A x \in Sessions : sess[x] = Free /\ Free.pc = "free" /\ Free.op = None /\ x # None
    BY Zenon, <1>2, NodeAssumption DEF Free
  <1>9. ASSUME NEW x \in Sessions PROVE Good(x)
    <2>1. LocksOK(x)
      BY Zenon, <1>1, <1>3, <1>8 DEF LocksOK, AtWork
    <2>2. RolesOK(x) /\ ChecksOK(x) /\ NodeOK(x)
      BY Zenon, <1>8 DEF RolesOK, ChecksOK, NodeOK, Working, Outcomes
    <2> QED
      BY Zenon, <2>1, <2>2 DEF Good
  <1>10. \A o \in Rows : nop[o].st = "none" /\ wire[o] = "none" /\ ~Unfinished(o)
    BY Zenon, <1>1, <1>3, <1>6 DEF Unfinished
  <1>11. Exclusion
    BY Zenon, <1>10 DEF Exclusion, Rows
  <1>12. \A o \in Rows : OpOK(o)
    BY Zenon, <1>10 DEF OpOK, Terminal
  <1> QED
    BY Zenon, <1>7, <1>9, <1>11, <1>12 DEF IInv, Good

LEMMA NextIInv == IInv /\ [Next]_vars => IInv'
  <1> SUFFICES ASSUME IInv, [Next]_vars PROVE IInv'
    BY Zenon
  <1>1. DOMAIN nop = Rows /\ DOMAIN sop = ServiceRows /\ DOMAIN node = Nodes \cap Present
    BY Zenon, Facts DEF Rows, ServiceRows, Types
  <1>2. ASSUME NEW x \in Sessions, NEW o \in Rows, NEW n \in Nodes \cap Present, NEW label \in BOOLEAN,
               Mutate(x, o, n, label)
        PROVE  IInv'
    BY Zenon, <1>2, MutateStep
  <1>3. ASSUME NEW x \in Sessions, NEW v \in ServiceRows, NEW s \in Services \cap Present, MutateService(x, v, s)
        PROVE  IInv'
    BY Zenon, <1>3, MutateServiceStep
  <1>4. ASSUME NEW x \in Sessions, NEW o \in Rows, Recover(x, o) PROVE IInv'
    BY Zenon, <1>4, RecoverStep
  <1>5. ASSUME NEW x \in Sessions, ReadPrior(x) \/ Acquire(x) \/ LockTimeout(x) PROVE IInv'
    BY Zenon, <1>5, ReadPriorStep, AcquireStep, LockTimeoutStep
  <1>6. ASSUME NEW x \in Sessions, TakeUpExisting(x) \/ TakeUpPrior(x) \/ TakeUpRecovery(x) \/ ManualResolve(x) PROVE IInv'
    BY Zenon, <1>6, TakeUpExistingStep, TakeUpPriorStep, TakeUpRecoveryStep, ManualResolveStep
  <1>7. ASSUME NEW x \in Sessions, InspectLocked(x) \/ CheckConflicts(x) \/ Conflict(x) \/ PersistIntent(x) PROVE IInv'
    BY Zenon, <1>7, InspectLockedStep, CheckConflictsStep, ConflictStep, PersistIntentStep
  <1>8. ASSUME NEW x \in Sessions,
               Send(x) \/ Answered(x) \/ MarkVerifying(x) \/ InspectReconcile(x) \/ InspectVerify(x)
        PROVE  IInv'
    BY Zenon, <1>8, SendStep, AnsweredStep, MarkVerifyingStep, InspectReconcileStep, InspectVerifyStep
  <1>9. ASSUME NEW x \in Sessions, Complete(x) \/ SessionLost(x) PROVE IInv'
    BY Zenon, <1>9, CompleteStep, SessionLostStep
  <1>10. ASSUME NEW x \in Sessions, CheckService(x) \/ PersistServiceIntent(x) \/ EndService(x) PROVE IInv'
    BY Zenon, <1>10, CheckServiceStep, PersistServiceIntentStep, EndServiceStep
  <1>11. ASSUME NEW o \in Rows, AgentChecks(o) \/ NodeUpdate(o) \/ NotApplied(o) PROVE IInv'
    BY Zenon, <1>11, AgentChecksStep, NodeUpdateStep, NotAppliedStep
  <1>12. ASSUME NEW n \in Nodes \cap Present, ExternalUpdate(n) \/ \E s \in Scheduled \cap Present : TasksMove(n, s)
         PROVE  IInv'
    BY Zenon, <1>12, ExternalUpdateStep, TasksMoveStep
  <1>13. ASSUME NEW s \in Constrained \cap Present, PlacementChanges(s) PROVE IInv'
    BY Zenon, <1>13, PlacementChangesStep
  <1>14. CASE UNCHANGED vars
    <2>1. UNCHANGED <<node, uses, nop, sop, wire, owner, sess>>
      BY Zenon, <1>14 DEF vars
    <2>2. uses' \subseteq Constrained \cap Present /\ NodesAdvance /\ WiresAdvance
      BY Zenon, <2>1, Facts, NodesStay, WiresStay DEF Types
    <2> QED
      BY Zenon, <2>1, <2>2, WorldStep
  <1> QED
    BY Zenon, <1>1, <1>2, <1>3, <1>4, <1>5, <1>6, <1>7, <1>8, <1>9, <1>10, <1>11, <1>12, <1>13, <1>14 DEF Next

-----------------------------------------------------------------------------
(* The theorems *)

\* IInv holds throughout.
THEOREM Inductive == Spec => []IInv
  BY InitIInv, NextIInv, PTL DEF Spec

\* Unfinished operations do not overlap, whatever the number of requests,
\* retries and recoveries: the locks that mutate and withServiceLock take cover
\* the time between the checks and the intent.
THEOREM ExclusionTheorem == Spec => []Exclusion
  <1>1. IInv => Exclusion
    BY Zenon DEF IInv
  <1> QED
    BY <1>1, Inductive, PTL

\* A node operation has one writer at a time, among any number of sessions.
THEOREM OneWriterTheorem == Spec => []OneWriter
  <1>1. IInv => OneWriter
    BY Zenon, Apart DEF OneWriter
  <1> QED
    BY <1>1, Inductive, PTL

\* An ended operation's request changes its node no more, however many writers
\* there are and however late it arrives.
THEOREM EndedIsOverTheorem == Spec => []EndedIsOver
  <1>1. IInv => EndedIsOver
    BY Zenon, Facts DEF EndedIsOver, OpOK, Passed, Rows
  <1> QED
    BY <1>1, Inductive, PTL

\* Locks taken in the order of their names (withResourceLocks) never wait in a
\* circle, of any number of sessions: the one that waits for the last name
\* waits for a session that does not wait.
THEOREM NoLockCycleTheorem == Spec => []NoLockCycle
  <1>1. ASSUME IInv, NEW S \in (SUBSET Sessions) \ {{}}, \A x \in S : \E y \in S : WaitsFor(x, y)
        PROVE  FALSE
    <2> DEFINE Name(x) == Min(sess[x].todo)
               T == {Name(x) : x \in S}
    <2>1. ASSUME NEW x \in S PROVE /\ sess[x].pc = "locking" /\ Name(x) \in sess[x].todo /\ Name(x) \in Present
      <3>1. sess[x].pc = "locking" /\ x \in Sessions
        BY Zenon, <1>1 DEF WaitsFor
      <3>2. sess[x].todo # {} /\ sess[x].todo \in SUBSET Present /\ sess[x].todo \in SUBSET Nat
        BY Zenon, <1>1, <3>1, Facts DEF Good, LocksOK, SessType
      <3> QED
        BY Zenon, <3>1, <3>2, MinOfSet
    <2>2. ASSUME NEW x \in S, NEW y \in S, WaitsFor(x, y) PROVE Name(x) < Name(y)
      <3>1. owner[Name(x)] = y
        BY Zenon, <2>2 DEF WaitsFor
      <3>2. LocksOK(y) /\ sess[y].pc = "locking" /\ Name(y) \in sess[y].todo /\ Name(x) \in Present
        BY Zenon, <1>1, <2>1, Facts DEF Good
      <3> HIDE DEF Name
      <3> QED
        BY Zenon, <3>1, <3>2 DEF LocksOK
    <2>3. T \in SUBSET Nat /\ T # {} /\ T \subseteq Resources
      BY <1>1, <2>1, Facts DEF Types
    <2>4. PICK b \in Nat : \A k \in T : k <= b
      BY Zenon, <2>3, NodeAssumption DEF Resources
    <2>5. PICK m \in T : \A k \in T : k <= m
      BY Zenon, <2>3, <2>4, MaxOfSet
    <2>6. PICK x \in S : m = Name(x)
      BY Zenon, <2>5
    <2>7. PICK y \in S : WaitsFor(x, y)
      BY Zenon, <1>1
    <2>8. Name(x) < Name(y) /\ Name(y) <= Name(x) /\ Name(x) \in Nat /\ Name(y) \in Nat
      BY Zenon, <2>2, <2>3, <2>5, <2>6, <2>7
    <2> HIDE DEF Name
    <2> QED
      BY <2>8
  <1>2. IInv => NoLockCycle
    BY Zenon, <1>1 DEF NoLockCycle
  <1> QED
    BY <1>2, Inductive, PTL

\* Every variable keeps its type, in particular every lock of a request is one
\* of the resources at hand.
THEOREM TypeCorrect == Spec => []TypeOK
  <1>1. IInv => TypeOK
    <2> SUFFICES ASSUME IInv PROVE TypeOK
      BY Zenon
    <2>1. Types
      BY Zenon, Facts
    <2>2. node \in [Nodes \cap Present -> [ver : 1 .. MaxVer, spec : Specs, tasks : SUBSET Scheduled]]
          /\ uses \subseteq Constrained
      BY Zenon, <2>1 DEF Types, NodeType
    <2>3. /\ nop \in [DOMAIN wire -> [st : {"none", "RUNNING", "VERIFYING", "NEEDS_ATTENTION"} \cup Terminal,
                                      unseen : BOOLEAN, at : Nodes \cup {None}, ver : 0 .. MaxVer,
                                      before : SpecOrNone, target : SpecOrNone, affected : SUBSET Services]]
          /\ wire \in [DOMAIN nop -> {"none", "sent", "checked", "ok", "rejected", "over"}]
      BY Zenon, <2>1 DEF Types, OpType, WireType, Rows
    <2>4. sop \in [DOMAIN sop -> [st : {"none", "unfinished", "ended"}, at : Services \cup {None}]]
      BY Zenon, <2>1 DEF Types, SopType, ServiceRows
    <2>5. SessType(Present, Rows, ServiceRows) \subseteq
            [pc : Steps, req : NodeOps \cup ServiceOps \cup {None}, op : NodeOps \cup {None},
             at : Resources \cup {None}, label : BOOLEAN, seen : SUBSET Services,
             todo : SUBSET Resources, ver : 0 .. MaxVer, before : SpecOrNone]
      BY Zenon, <2>1 DEF Types, SessType
    <2> QED
      BY Zenon, <2>1, <2>2, <2>3, <2>4, <2>5 DEF Types, TypeOK
  <1> QED
    BY <1>1, Inductive, PTL
-----------------------------------------------------------------------------
(* The operations keep their contract *)

KeepsContract(o) == UNCHANGED Operation(o)!operationVars \/ Operation(o)!OperationNext

\* The steps of one operation, by what they do to its row and its request.
LEMMA ContractSteps ==
    ASSUME NEW o,
           \/ Status(o)' = Status(o) /\ Request(o)' = Request(o)
           \/ Status(o) = "none" /\ Status(o)' = "unfinished" /\ Request(o)' = Request(o)
           \/ Status(o) = "unfinished" /\ Request(o) = "unsent" /\ Request(o)' \in {"live", "spent"} /\ Status(o)' = Status(o)
           \/ Request(o) = "live" /\ Request(o)' = "spent" /\ Status(o)' = Status(o)
           \/ Status(o) = "unfinished" /\ Request(o) # "live" /\ Status(o)' \in Terminal /\ Request(o)' = Request(o)
    PROVE  KeepsContract(o)
  BY Zenon DEF KeepsContract, Terminal, Operation!OperationNext, Operation!Intend, Operation!Dispatch, Operation!Expire,
     Operation!End, Operation!Disown, Operation!operationVars

\* Steps that write no row.  A node that has moved on from a plan does not come
\* back to it, and a request that is not under way any more stays so.
LEMMA RowsStay ==
    ASSUME IInv, nop' = nop, NodesAdvance, NEW o \in Rows,
           \/ wire'[o] = wire[o]
           \/ wire[o] \in {"sent", "checked"} /\ wire'[o] # "none"
           \/ wire[o] # "none" /\ wire'[o] \notin {"none", "sent", "checked"}
           \/ Unfinished(o) /\ wire[o] = "none" /\ wire'[o] # "none"
    PROVE  KeepsContract(o)
  <1>1. Status(o)' = Status(o)
    BY Zenon DEF Status, Unfinished
  <1>2. MayTakeEffect(o)' /\ wire[o] \in {"sent", "checked"} => MayTakeEffect(o)
    <2> SUFFICES ASSUME wire[o] \in {"sent", "checked"}, Passed(o) PROVE Passed(o)'
      BY Zenon DEF MayTakeEffect, Passed
    <2>1. nop[o].st # "none"
      BY Zenon, Facts DEF OpOK
    <2> QED
      BY Zenon, <2>1, PassedKept
  <1>3. MayTakeEffect(o) => wire[o] \in {"sent", "checked"}
    BY Zenon DEF MayTakeEffect
  <1>4. MayTakeEffect(o)' => wire'[o] \in {"sent", "checked"}
    BY Zenon DEF MayTakeEffect
  <1>5. CASE \/ wire'[o] = wire[o]
             \/ wire[o] \in {"sent", "checked"} /\ wire'[o] # "none"
             \/ wire[o] # "none" /\ wire'[o] \notin {"none", "sent", "checked"}
    <2>1. Request(o)' = Request(o) \/ (Request(o) = "live" /\ Request(o)' = "spent")
      BY <1>2, <1>3, <1>4, <1>5 DEF Request
    <2> QED
      BY Zenon, <1>1, <2>1, ContractSteps
  <1>6. CASE Unfinished(o) /\ wire[o] = "none" /\ wire'[o] # "none"
    <2>1. Status(o) = "unfinished" /\ Request(o) = "unsent" /\ Request(o)' \in {"live", "spent"}
      BY <1>6 DEF Status, Request
    <2> QED
      BY Zenon, <1>1, <2>1, ContractSteps
  <1> QED
    BY Zenon, <1>5, <1>6

\* The rows a step does not write, with their nodes and wires as they were.
LEMMA RowStays ==
    ASSUME NEW o, nop'[o] = nop[o], UNCHANGED <<node, wire>>
    PROVE  KeepsContract(o)
  <1>1. Status(o)' = Status(o) /\ Request(o)' = Request(o)
    BY Zenon DEF Status, Request, Unfinished, MayTakeEffect, Unchanged
  <1> QED
    BY Zenon, <1>1, ContractSteps

\* A new row: its request is not sent.
LEMMA IntentKeepsContract ==
    ASSUME IInv, NEW x \in Sessions, PersistIntent(x), NEW o \in Rows
    PROVE  KeepsContract(o)
  <1> DEFINE target == Target(sess[x].req, sess[x].before, sess[x].label)
             rec == [st |-> "RUNNING", unseen |-> FALSE, at |-> sess[x].at, ver |-> sess[x].ver,
                     before |-> sess[x].before, target |-> target, affected |-> sess[x].seen]
  <1>1. nop' = [nop EXCEPT ![sess[x].req] = rec] /\ rec.st = "RUNNING"
    BY Zenon DEF PersistIntent
  <1> HIDE DEF rec
  <1>2. nop \in [Rows -> OpType(Present)] /\ UNCHANGED <<node, wire>> /\ nop[sess[x].req].st = "none"
    BY Zenon, Facts DEF PersistIntent, Types
  <1>3. CASE o # sess[x].req
    <2>1. nop'[o] = nop[o]
      BY Zenon, <1>1, <1>2, <1>3
    <2> QED
      BY Zenon, <1>2, <2>1, RowStays
  <1>4. CASE o = sess[x].req
    <2>1. nop'[o].st = "RUNNING" /\ nop[o].st = "none"
      BY Zenon, <1>1, <1>2, <1>4
    <2>2. wire[o] = "none" /\ wire'[o] = "none"
      BY Zenon, <1>2, <2>1, Facts DEF OpOK
    <2>3. Status(o) = "none" /\ Status(o)' = "unfinished" /\ Request(o)' = Request(o)
      BY <2>1, <2>2 DEF Status, Request, Unfinished, Terminal
    <2> QED
      BY Zenon, <2>3, ContractSteps
  <1> QED
    BY Zenon, <1>3, <1>4

\* A row that is written is unfinished; when it ends, the invariant after the
\* step says that its request can no longer take effect.
LEMMA RecordKeepsContract ==
    ASSUME IInv, IInv', UNCHANGED <<node, wire>>, NEW p \in Rows, Unfinished(p), NEW st, st # "none", NEW unseen,
           nop' = [nop EXCEPT ![p].st = st, ![p].unseen = unseen], NEW o \in Rows
    PROVE  KeepsContract(o)
  <1>1. nop \in [Rows -> OpType(Present)]
    BY Zenon, Facts DEF Types
  <1>2. CASE o # p
    <2>1. nop'[o] = nop[o]
      BY <1>1, <1>2
    <2> QED
      BY Zenon, <2>1, RowStays
  <1>3. CASE o = p
    <2>1. /\ nop'[o].st = st /\ nop'[o].at = nop[o].at /\ nop'[o].ver = nop[o].ver
          /\ nop'[o].before = nop[o].before /\ nop'[o].target = nop[o].target
      BY <1>1, <1>3 DEF OpType
    <2>2. MayTakeEffect(o)' <=> MayTakeEffect(o)
      BY Zenon, <2>1 DEF MayTakeEffect, Unchanged
    <2>3. Request(o)' = Request(o) /\ Status(o) = "unfinished"
      BY Zenon, <1>3, <2>2 DEF Request, Status
    <2>4. CASE st \notin Terminal
      <3>1. Status(o)' = "unfinished"
        BY Zenon, <2>1, <2>4 DEF Status, Unfinished
      <3> QED
        BY Zenon, <2>3, <3>1, ContractSteps
    <2>5. CASE st \in Terminal
      <3>1. Status(o)' = st
        BY Zenon, <2>1, <2>5 DEF Status, Unfinished
      <3>2. ~MayTakeEffect(o)'
        <4>1. OpOK(o)'
          BY Zenon DEF IInv, Rows
        <4> QED
          BY Zenon, <2>1, <2>5, <4>1 DEF OpOK, MayTakeEffect, Passed
      <3>3. Request(o) # "live"
        BY <2>2, <3>2 DEF Request
      <3> QED
        BY Zenon, <2>3, <2>5, <3>1, <3>3, ContractSteps
    <2> QED
      BY Zenon, <2>4, <2>5
  <1> QED
    BY Zenon, <1>2, <1>3

LEMMA RecordsKeepContract ==
    ASSUME IInv, IInv', NEW x \in Sessions, MarkVerifying(x) \/ Complete(x) \/ ManualResolve(x), NEW o \in Rows
    PROVE  KeepsContract(o)
  <1> DEFINE p == sess[x].op
  <1>1. UNCHANGED <<node, wire>>
    BY Zenon DEF MarkVerifying, Complete, ManualResolve
  <1>2. p \in Rows /\ Unfinished(p)
    <2>1. CASE sess[x].pc \in Working
      BY Zenon, <2>1, WorkingRow
    <2>2. CASE ManualResolve(x)
      <3>1. RolesOK(x) /\ sess[x] \in SessType(Present, Rows, ServiceRows) /\ None \notin Rows /\ None \notin ServiceRows
        BY Zenon, Facts DEF Good
      <3>2. p \in Rows
        BY Zenon, <2>2, <3>1 DEF RolesOK, SessType, ManualResolve
      <3> QED
        BY Zenon, <2>2, <3>2 DEF ManualResolve, Unfinished, Terminal
    <2> QED
      BY Zenon, <2>1, <2>2 DEF MarkVerifying, Complete, Working
  <1>3. \E st, unseen : st # "none" /\ nop' = [nop EXCEPT ![p].st = st, ![p].unseen = unseen]
    <2>1. CASE MarkVerifying(x)
      BY Zenon, <1>2, <2>1 DEF MarkVerifying, Unfinished
    <2>2. CASE Complete(x)
      <3> DEFINE st == CASE sess[x].pc = "success" -> "SUCCESS" [] sess[x].pc = "fail" -> "FAILED"
                         [] OTHER -> "NEEDS_ATTENTION"
      <3>1. nop' = [nop EXCEPT ![p].st = st, ![p].unseen = (sess[x].pc = "unseen")]
        BY Zenon, <1>2, <2>2 DEF Complete, Unfinished
      <3>2. st # "none"
        BY Zenon
      <3> QED
        BY Zenon, <3>1, <3>2
    <2>3. CASE ManualResolve(x)
      BY Zenon, <2>3 DEF ManualResolve
    <2> QED
      BY Zenon, <2>1, <2>2, <2>3
  <1> HIDE DEF p
  <1> QED
    BY Zenon, <1>1, <1>2, <1>3, RecordKeepsContract

\* The request is sent by the session that holds the locks, or by its callback
\* when they were lost; then it is answered, heard or not.
LEMMA RequestKeepsContract ==
    ASSUME IInv, NEW x \in Sessions, Send(x) \/ Answered(x) \/ SessionLost(x), NEW o \in Rows
    PROVE  KeepsContract(o)
  <1>1. wire \in [Rows -> WireType] /\ UNCHANGED <<node, nop>> /\ NodesAdvance
    BY Zenon, Facts, NodesStay DEF Send, Answered, SessionLost, Types
  <1>2. CASE UNCHANGED wire
    BY Zenon, <1>1, <1>2, RowsStay
  <1>3. CASE sess[x].pc = "dispatch" /\ wire' = [wire EXCEPT ![sess[x].op] = "sent"]
    <2>1. Unfinished(sess[x].op) /\ wire[sess[x].op] = "none"
      BY Zenon, <1>3, WorkingRow, Facts DEF Working, Good, NodeOK
    <2>2. wire'[o] = wire[o] \/ (Unfinished(o) /\ wire[o] = "none" /\ wire'[o] # "none")
      BY <1>1, <1>3, <2>1
    <2> QED
      BY Zenon, <1>1, <2>2, RowsStay
  <1>4. CASE wire' = [wire EXCEPT ![sess[x].op] = IF @ \in {"ok", "rejected"} THEN "over" ELSE @]
    <2>1. wire'[o] = wire[o] \/ (wire[o] # "none" /\ wire'[o] \notin {"none", "sent", "checked"})
      BY <1>1, <1>4
    <2> QED
      BY Zenon, <1>1, <2>1, RowsStay
  <1> QED
    BY Zenon, <1>2, <1>3, <1>4 DEF Send, Answered, SessionLost

\* What Agents, Docker and other writers do to the nodes.
LEMMA AgentKeepsContract ==
    ASSUME IInv, NEW p \in Rows, AgentChecks(p) \/ NodeUpdate(p) \/ NotApplied(p), NEW o \in Rows
    PROVE  KeepsContract(o)
  <1>1. wire \in [Rows -> WireType] /\ nop' = nop /\ wire[p] \in {"sent", "checked"}
    BY Zenon, Facts DEF AgentChecks, NodeUpdate, NotApplied, Types
  <1>2. PICK w \in WireType \ {"none"} : wire' = [wire EXCEPT ![p] = w]
    BY Zenon DEF AgentChecks, NodeUpdate, NotApplied, Answer, WireType
  <1>3. NodesAdvance
    <2>1. CASE UNCHANGED node
      BY Zenon, <2>1, NodesStay
    <2>2. CASE NodeUpdate(p)
      <3>1. MayChange(nop[p].at) /\ node' = [node EXCEPT ![nop[p].at].ver = @ + 1, ![nop[p].at].spec = nop[p].target]
        BY Zenon, <2>2 DEF NodeUpdate
      <3>2. nop[p].at \in Nodes \cap Present /\ nop[p].target \in Specs
        BY Zenon, <1>1, Facts DEF OpOK
      <3> QED
        BY Zenon, <3>1, <3>2, NodeWritten
    <2> QED
      BY Zenon, <2>1, <2>2 DEF AgentChecks, NotApplied
  <1>4. wire'[o] = wire[o] \/ (wire[o] \in {"sent", "checked"} /\ wire'[o] # "none")
    BY Zenon, <1>1, <1>2
  <1> QED
    BY Zenon, <1>1, <1>3, <1>4, RowsStay

LEMMA NodeKeepsContract ==
    ASSUME IInv, NEW n \in Nodes \cap Present, ExternalUpdate(n) \/ (\E s \in Scheduled \cap Present : TasksMove(n, s)),
           NEW o \in Rows
    PROVE  KeepsContract(o)
  <1>1. nop' = nop /\ wire' = wire
    BY Zenon DEF ExternalUpdate, TasksMove
  <1>2. NodesAdvance
    <2>1. CASE ExternalUpdate(n)
      BY Zenon, <2>1, NodeWritten DEF ExternalUpdate
    <2>2. CASE \E s \in Scheduled \cap Present : TasksMove(n, s)
      <3>1. node \in [Nodes \cap Present -> NodeType(Present)] /\ node[n] \in NodeType(Present)
        BY Zenon, Facts DEF Types
      <3>2. PICK tasks \in SUBSET (Scheduled \cap Present) : node' = [node EXCEPT ![n].tasks = tasks]
        BY Zenon, <2>2, <3>1 DEF TasksMove, NodeType
      <3>3. node' \in [Nodes \cap Present -> NodeType(Present)]
        BY Zenon, <3>1, <3>2 DEF NodeType
      <3>4. \A m \in Nodes \cap Present : node'[m].ver = node[m].ver /\ node'[m].spec = node[m].spec /\ node[m].ver \in Nat
        BY <3>1, <3>2 DEF NodeType
      <3> QED
        BY <3>3, <3>4 DEF NodesAdvance
    <2> QED
      BY Zenon, <2>1, <2>2
  <1> QED
    BY Zenon, <1>1, <1>2, RowsStay

LEMMA NextKeepsContract ==
    ASSUME IInv, [Next]_vars, NEW o \in Rows
    PROVE  KeepsContract(o)
  <1>1. DOMAIN nop = Rows /\ DOMAIN node = Nodes \cap Present /\ IInv'
    BY Zenon, Facts, NextIInv DEF Rows, Types
  <1>2. CASE UNCHANGED <<node, nop, wire>>
    BY Zenon, <1>2, RowStays
  <1>3. ASSUME NEW x \in Sessions, PersistIntent(x) PROVE KeepsContract(o)
    BY Zenon, <1>3, IntentKeepsContract
  <1>4. ASSUME NEW x \in Sessions, MarkVerifying(x) \/ Complete(x) \/ ManualResolve(x) PROVE KeepsContract(o)
    BY Zenon, <1>1, <1>4, RecordsKeepContract
  <1>5. ASSUME NEW x \in Sessions, Send(x) \/ Answered(x) \/ SessionLost(x) PROVE KeepsContract(o)
    BY Zenon, <1>5, RequestKeepsContract
  <1>6. ASSUME NEW p \in Rows, AgentChecks(p) \/ NodeUpdate(p) \/ NotApplied(p) PROVE KeepsContract(o)
    BY Zenon, <1>6, AgentKeepsContract
  <1>7. ASSUME NEW n \in Nodes \cap Present, ExternalUpdate(n) \/ \E s \in Scheduled \cap Present : TasksMove(n, s)
        PROVE  KeepsContract(o)
    BY Zenon, <1>7, NodeKeepsContract
  <1>8. ASSUME NEW x \in Sessions,
               \/ \E p, n, label : Mutate(x, p, n, label)
               \/ \E v, s : MutateService(x, v, s)
               \/ \E p : Recover(x, p)
               \/ ReadPrior(x) \/ Acquire(x) \/ LockTimeout(x)
               \/ TakeUpExisting(x) \/ TakeUpPrior(x) \/ TakeUpRecovery(x)
        PROVE  UNCHANGED <<node, nop, wire>>
    BY Zenon, <1>8 DEF Mutate, MutateService, Recover, ReadPrior, Acquire, LockTimeout, TakeUpExisting, TakeUpPrior, TakeUpRecovery
  <1>9. ASSUME NEW x \in Sessions,
               \/ InspectLocked(x) \/ CheckConflicts(x) \/ Conflict(x) \/ InspectReconcile(x) \/ InspectVerify(x)
               \/ CheckService(x) \/ PersistServiceIntent(x) \/ EndService(x)
        PROVE  UNCHANGED <<node, nop, wire>>
    BY Zenon, <1>9 DEF InspectLocked, Inspected, CheckConflicts, Conflict, InspectReconcile, InspectVerify, CheckService,
       PersistServiceIntent, EndService
  <1>10. ASSUME (\E s : PlacementChanges(s)) \/ UNCHANGED vars PROVE UNCHANGED <<node, nop, wire>>
    BY Zenon, <1>10 DEF PlacementChanges, vars
  <1> QED
    BY Zenon, <1>1, <1>2, <1>3, <1>4, <1>5, <1>6, <1>7, <1>8, <1>9, <1>10 DEF Next

\* Every node operation keeps OperationContract, for any number of nodes,
\* operations and sessions: its row exists before its request, the request is
\* sent once, by whichever session, and the row ends once, when the request can
\* no longer change the node (mutate, reconcileLocked).
THEOREM NodeOperations == Spec => OperationsKeepContract
  <1>1. Init => \A o \in DOMAIN nop : Operation(o)!OperationInit
    <2> SUFFICES ASSUME Init, NEW o \in DOMAIN nop PROVE Operation(o)!OperationInit
      BY Zenon
    <2>1. nop[o] = NoOp /\ wire[o] = "none"
      BY Zenon DEF Init
    <2>2. Status(o) = "none" /\ Request(o) = "unsent"
      BY <2>1 DEF Status, Request, Unfinished, NoOp
    <2> QED
      BY Zenon, <2>2 DEF Operation!OperationInit
  <1>2. ASSUME IInv, [Next]_vars
        PROVE  \/ UNCHANGED <<node, nop, wire>>
               \/ \A o \in DOMAIN nop : UNCHANGED Operation(o)!operationVars \/ Operation(o)!OperationNext
    BY Zenon, <1>2, NextKeepsContract DEF KeepsContract, Rows
  <1> QED
    BY <1>1, <1>2, Inductive, PTL DEF Spec, OperationsKeepContract
=============================================================================
