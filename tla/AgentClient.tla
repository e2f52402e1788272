---------------------------- MODULE AgentClient ----------------------------
(***************************************************************************)
(* The client through which a Control Plane process reaches the manager    *)
(* Agents (agent/http-agent.client.ts): candidate order, cooldown and      *)
(* failover, the Swarm it is bound to, and the single send of a mutation,  *)
(* with the two checks of the Swarm that the Agent makes before a Docker   *)
(* update (cluster_precondition.go, mutation_cluster.go).  An endpoint may *)
(* fail, come back or join another Swarm between any two steps.            *)
(*                                                                         *)
(*   ep       the endpoints: reachable or not, and the Swarm they are in   *)
(*   expected the configured Swarm, None in insecure development           *)
(*   ref      referenceClusterId                                           *)
(*   active   activeId                                                     *)
(*   cool     the endpoints with an unexpired entry in unavailableUntil    *)
(*   call     the calls in progress, in one process                        *)
(*   req      the mutation request of a call, once it is sent              *)
(*                                                                         *)
(* moved is history: the endpoint has joined another Swarm since it gave   *)
(* its identity (to a read) or since the last check (of a mutation).  The  *)
(* maintenance barrier and the dispatch journal are MaintenanceFence's.    *)
(***************************************************************************)
EXTENDS Naturals

CONSTANTS N,             \* number of configured manager Agents
          Primary,       \* primaryId
          Swarms,
          Reads,         \* calls of the read and plan methods
          Mutations,     \* calls of the mutation methods
          Configured,    \* the values of DOCKLANE_EXPECTED_CLUSTER_ID, None if unset
          None

Agents == 1 .. N
Calls == Reads \cup Mutations

ASSUME ClientAssumption ==
    /\ N \in Nat /\ Primary \in Agents
    /\ None \notin Swarms /\ Configured \subseteq Swarms \cup {None}
    /\ Reads \cap Mutations = {}

VARIABLES ep, expected, ref, active, cool, call, req

client == <<expected, ref, active, cool>>
vars == <<ep, client, call, req>>

-----------------------------------------------------------------------------
(* health, identity and inspectCluster, and any other method, which returns *)
(* what the endpoint answers                                                *)
Kinds == {"health", "identity", "cluster", "read"}

\* at: the endpoint being tried; left: the candidates after it, in the order of
\* the configuration.
Idle == [pc |-> "idle", kind |-> None, at |-> None, left |-> {}, swarm |-> None, moved |-> FALSE]
NoReq == [st |-> "none", at |-> None, header |-> None, moved |-> FALSE, sends |-> 0]

TypeOK ==
    /\ ep \in [Agents -> [up : BOOLEAN, swarm : Swarms]]
    /\ expected \in Swarms \cup {None} /\ ref \in Swarms \cup {None}
    /\ active \in Agents /\ cool \subseteq Agents
    /\ call \in [Calls -> [pc : {"idle", "identity", "request", "send", "await", "ok", "failed"},
                           kind : Kinds \cup {"mutation", None}, at : Agents \cup {None},
                           left : SUBSET Agents, swarm : Swarms \cup {None}, moved : BOOLEAN]]
    /\ req \in [Mutations -> [st : {"none", "sent", "admitted", "checked", "applied", "refused"},
                              at : Agents \cup {None}, header : Swarms \cup {None}, moved : BOOLEAN,
                              sends : 0 .. 2]]

\* The configured order is the order of the numbers.
Init ==
    /\ ep \in [Agents -> [up : BOOLEAN, swarm : Swarms]]
    /\ expected \in Configured /\ ref = expected
    /\ active = Primary /\ cool = {}
    /\ call = [c \in Calls |-> Idle]
    /\ req = [m \in Mutations |-> NoReq]

-----------------------------------------------------------------------------
(* Candidates *)

First(S) == {a \in S : \A b \in S : a <= b}

\* Mutant: the active endpoint alone, while it is available.
ActiveOnly == IF active \in cool THEN Agents ELSE {active}

\* Endpoints in cooldown are left out unless all are; the active one is first.
candidateAgents == IF cool # Agents THEN Agents \ cool ELSE Agents

markActive(a) == active' = a /\ cool' = cool \ {a}

markUnavailable(a) == cool' = cool \cup {a} /\ UNCHANGED active

\* health asks for no identity.
Begin(c, kind) ==
    /\ call[c].pc = "idle"
    /\ \E a \in IF active \in candidateAgents THEN {active} ELSE First(candidateAgents) :
          call' = [call EXCEPT ![c] = [Idle EXCEPT !.pc = IF kind = "health" THEN "request" ELSE "identity",
                                                   !.kind = kind, !.at = a, !.left = candidateAgents \ {a}]]
    /\ UNCHANGED <<ep, client>>

BeginRead(c) == (\E kind \in Kinds : Begin(c, kind)) /\ UNCHANGED req

\* The next mutation under the name m, when nothing is left of the last one's
\* request.
BeginMutation(m) ==
    /\ req[m].st \in {"none", "applied", "refused"}
    /\ Begin(m, "mutation")
    /\ req' = [req EXCEPT ![m] = NoReq]

-----------------------------------------------------------------------------
(* Failover *)

\* On to the next candidate, or the last error is thrown.
NextCandidate(c) ==
    \/ /\ call[c].left = {}
       /\ call' = [call EXCEPT ![c] = [Idle EXCEPT !.pc = "failed", !.kind = call[c].kind]]
    \/ \E a \in First(call[c].left) :
          call' = [call EXCEPT ![c].at = a, ![c].left = @ \ {a}, ![c].moved = FALSE,
                               ![c].pc = IF call[c].kind = "health" THEN "request" ELSE "identity"]

\* An endpoint that cannot be reached or answers 5xx, or gives no identity.
Unreachable(c) ==
    /\ call[c].pc \in {"identity", "request"}
    /\ ~ep[call[c].at].up
    /\ markUnavailable(call[c].at)
    /\ NextCandidate(c)
    /\ UNCHANGED <<ep, expected, ref, req>>

Answered(c, swarm) == [call[c] EXCEPT !.pc = "ok", !.at = None, !.left = {}, !.swarm = swarm]

assertClusterIdentity(swarm) == ref \in {None, swarm}

\* Mutant: the reference is what the last identity said.
IdentityRepins(c) ==
    LET a == call[c].at  swarm == ep[a].swarm IN
    /\ call[c].pc = "identity" /\ ep[a].up
    /\ ref' = swarm
    /\ IF call[c].kind = "identity" \/ c \in Mutations THEN markActive(a) ELSE UNCHANGED <<active, cool>>
    /\ call' = [call EXCEPT ![c] = CASE c \in Mutations -> [@ EXCEPT !.pc = "send", !.left = {}]
                                     [] c \notin Mutations /\ call[c].kind = "identity" -> Answered(c, swarm)
                                     [] OTHER -> [@ EXCEPT !.pc = "request"]]
    /\ UNCHANGED <<ep, expected, req>>

\* readIdentity, anew for every candidate of every call: the reference is
\* learned from the first identity when none is configured, and the check and
\* the assignment are one step.  identity() returns it; selectMutationAgent has
\* found the Agent.
ReadIdentity(c) ==
    LET a == call[c].at  swarm == ep[a].swarm IN
    /\ call[c].pc = "identity" /\ ep[a].up
    /\ assertClusterIdentity(swarm)
    /\ ref' = swarm
    /\ IF call[c].kind = "identity" \/ c \in Mutations THEN markActive(a) ELSE UNCHANGED <<active, cool>>
    /\ call' = [call EXCEPT ![c] = CASE c \in Mutations -> [@ EXCEPT !.pc = "send", !.left = {}]
                                     [] c \notin Mutations /\ call[c].kind = "identity" -> Answered(c, swarm)
                                     [] OTHER -> [@ EXCEPT !.pc = "request"]]
    /\ UNCHANGED <<ep, expected, req>>

\* AgentIdentityError: an endpoint of another Swarm is passed over.
ForeignIdentity(c) ==
    /\ call[c].pc = "identity" /\ ep[call[c].at].up
    /\ ~assertClusterIdentity(ep[call[c].at].swarm)
    /\ markUnavailable(call[c].at)
    /\ NextCandidate(c)
    /\ UNCHANGED <<ep, expected, ref, req>>

\* The answer; inspectCluster checks the Swarm that it is about.
ReadAnswer(c) ==
    LET a == call[c].at IN
    /\ call[c].pc = "request" /\ ep[a].up
    /\ IF call[c].kind = "cluster" /\ ~assertClusterIdentity(ep[a].swarm)
       THEN markUnavailable(a) /\ NextCandidate(c)
       ELSE markActive(a) /\ call' = [call EXCEPT ![c] = Answered(c, ep[a].swarm)]
    /\ UNCHANGED <<ep, expected, ref, req>>

\* An error that is no reason to fail over (4xx) is thrown at once.
Rejected(c) ==
    /\ call[c].pc = "request" /\ ep[call[c].at].up
    /\ call' = [call EXCEPT ![c] = Idle]
    /\ UNCHANGED <<ep, client, req>>

\* The caller has its answer or its error.
Return(c) ==
    /\ call[c].pc \in {"ok", "failed"}
    /\ call' = [call EXCEPT ![c] = Idle]
    /\ UNCHANGED <<ep, client, req>>

-----------------------------------------------------------------------------
(* The one request of a mutation *)

\* mutationRequest: to the selected Agent, with the reference in the header.
Send(m) ==
    /\ call[m].pc = "send"
    /\ req' = [req EXCEPT ![m] = [NoReq EXCEPT !.st = "sent", !.at = call[m].at, !.header = ref,
                                               !.sends = req[m].sends + 1]]
    /\ call' = [call EXCEPT ![m].pc = "await"]
    /\ UNCHANGED <<ep, client>>

Over(m, st) == [NoReq EXCEPT !.st = st, !.sends = req[m].sends]

\* requireMutationCluster: a fresh identity of the manager.
Admit(m) ==
    /\ req[m].st = "sent" /\ ep[req[m].at].up
    /\ req' = [req EXCEPT ![m] = IF ep[@.at].swarm = @.header THEN [@ EXCEPT !.st = "admitted"]
                                 ELSE Over(m, "refused")]
    /\ UNCHANGED <<ep, client, call>>

\* Mutant: admission is check enough.
FinalCheckSkipped(m) ==
    /\ req[m].st = "admitted" /\ ep[req[m].at].up
    /\ req' = [req EXCEPT ![m].st = "checked"]
    /\ UNCHANGED <<ep, client, call>>

\* requireFinalMutationCluster, after the inspections of the handler.
FinalCheck(m) ==
    /\ req[m].st = "admitted" /\ ep[req[m].at].up
    /\ req' = [req EXCEPT ![m] = IF ep[@.at].swarm = @.header THEN [@ EXCEPT !.st = "checked"]
                                 ELSE Over(m, "refused")]
    /\ UNCHANGED <<ep, client, call>>

\* ServiceUpdate or NodeUpdate.
DockerUpdate(m) ==
    /\ req[m].st = "checked" /\ ep[req[m].at].up
    /\ req' = [req EXCEPT ![m] = Over(m, "applied")]
    /\ UNCHANGED <<ep, client, call>>

\* Lost on the way, or refused by another check of the handler.
Dropped(m) ==
    /\ req[m].st \in {"sent", "admitted", "checked"}
    /\ req' = [req EXCEPT ![m] = Over(m, "refused")]
    /\ UNCHANGED <<ep, client, call>>

\* Mutant: a retryable failure goes to another candidate, as a read does.
AwaitAndResend(m) ==
    LET a == call[m].at IN
    /\ call[m].pc = "await"
    /\ \/ req[m].st = "applied" /\ markActive(a) /\ call' = [call EXCEPT ![m].pc = "ok"] /\ UNCHANGED req
       \/ /\ markUnavailable(a) /\ req[m].sends < 2
          /\ \E b \in Agents \ {a} :
                /\ call' = [call EXCEPT ![m].at = b]
                /\ req' = [req EXCEPT ![m] = [NoReq EXCEPT !.st = "sent", !.at = b, !.header = ref,
                                                           !.sends = req[m].sends + 1]]
    /\ UNCHANGED <<ep, expected, ref>>

\* The outcome; a timeout or a lost answer may come while the request is still
\* under way.  Whatever it is, the request is not sent again.
AwaitMutation(m) ==
    /\ call[m].pc = "await"
    /\ \/ req[m].st = "applied" /\ markActive(call[m].at)
       \/ req[m].st = "refused" /\ UNCHANGED <<active, cool>>
       \/ markUnavailable(call[m].at)
    /\ call' = [call EXCEPT ![m] = Idle]
    /\ UNCHANGED <<ep, expected, ref, req>>

-----------------------------------------------------------------------------
(* Time, the endpoints, and the process *)

\* AGENT_FAILURE_COOLDOWN_MS after the last failure.
CooldownEnds(a) ==
    /\ a \in cool
    /\ cool' = cool \ {a}
    /\ UNCHANGED <<ep, expected, ref, active, call, req>>

Reach(a) ==
    /\ ep' = [ep EXCEPT ![a].up = ~@]
    /\ UNCHANGED <<client, call, req>>

\* Leave the Swarm and join another.
Rejoin(a) ==
    /\ \E swarm \in Swarms \ {ep[a].swarm} : ep' = [ep EXCEPT ![a].swarm = swarm]
    /\ call' = [c \in Calls |-> IF call[c].pc = "request" /\ call[c].kind = "read" /\ call[c].at = a
                            THEN [call[c] EXCEPT !.moved = TRUE] ELSE call[c]]
    /\ req' = [m \in Mutations |-> IF req[m].st = "checked" /\ req[m].at = a
                                   THEN [req[m] EXCEPT !.moved = TRUE] ELSE req[m]]
    /\ UNCHANGED client

\* A new process reads its configuration again; requests under way remain.
Restart ==
    /\ ref' = expected /\ active' = Primary /\ cool' = {}
    /\ call' = [c \in Calls |-> Idle]
    /\ UNCHANGED <<ep, expected, req>>

-----------------------------------------------------------------------------
Step(c) == Unreachable(c) \/ ReadIdentity(c) \/ ForeignIdentity(c) \/ ReadAnswer(c) \/ Rejected(c) \/ Return(c)

Next ==
    \/ \E c \in Reads : BeginRead(c)
    \/ \E c \in Calls : Step(c)
    \/ \E m \in Mutations :
          \/ BeginMutation(m) \/ Send(m) \/ AwaitMutation(m)
          \/ Admit(m) \/ FinalCheck(m) \/ DockerUpdate(m) \/ Dropped(m)
    \/ \E a \in Agents : CooldownEnds(a) \/ Reach(a) \/ Rejoin(a)
    \/ Restart

Spec == Init /\ [][Next]_vars

\* Every await of the client ends, by an answer or by a timeout of its own, and
\* time passes.  Endpoints, callers and restarts have no fairness.
Fairness ==
    /\ \A c \in Calls : WF_vars(Step(c))
    /\ \A m \in Mutations : WF_vars(Send(m)) /\ WF_vars(AwaitMutation(m))
    /\ \A a \in Agents : WF_vars(CooldownEnds(a))

FairSpec == Spec /\ Fairness

-----------------------------------------------------------------------------
\* A mutation is sent once and to one Agent, while its selection and all reads
\* fail over (mutationRequest: "Never downgrade or resend after this request").
SentOnce == \A m \in Mutations : req[m].sends <= 1

\* A Docker update happens in the Swarm the client is bound to, whenever the
\* endpoint joins another between identity, send, admission and the handler's
\* inspections.  The one gap is the documented one, between
\* requireFinalMutationCluster and the update.
UpdatedWhereMeant ==
    [][\A m \in Mutations : req[m].st = "checked" /\ req'[m].st = "applied"
                            => ep[req[m].at].swarm = req[m].header \/ req[m].moved]_vars

\* What a read returns is about the reference Swarm, however first contacts,
\* failovers and rejoins interleave; only an answer that states no Swarm can be
\* foreign, and only when the endpoint moved after its identity was read.
ReadsOfReference ==
    \A c \in Reads : call[c].pc = "ok" =>
        /\ call[c].kind \in {"identity", "cluster"} => call[c].swarm = ref
        /\ call[c].kind = "read" => call[c].swarm = ref \/ call[c].moved

(* What makes the three inductive. *)
CallOK(c) ==
    /\ call[c].pc \in {"identity", "request", "send", "await"} => call[c].at \in Agents
    /\ c \in Mutations /\ call[c].pc \in {"identity", "request", "send"} => req[c] = NoReq
    /\ c \in Reads /\ call[c].pc = "identity" => call[c].kind \in Kinds \ {"health"}
    /\ c \in Reads /\ call[c].pc = "request" =>
          /\ call[c].kind \in Kinds \ {"identity"}
          /\ call[c].kind # "health" => ref # None
          /\ call[c].kind = "read" => ep[call[c].at].swarm = ref \/ call[c].moved
    /\ c \in Reads /\ call[c].pc = "ok" =>
          /\ call[c].kind # "health" => ref # None
          /\ call[c].kind \in {"identity", "cluster"} => call[c].swarm = ref
          /\ call[c].kind = "read" => call[c].swarm = ref \/ call[c].moved

ReqOK(m) ==
    /\ req[m].sends <= 1
    /\ req[m].st = "none" => req[m] = NoReq
    /\ req[m].st \in {"sent", "admitted", "checked"} => req[m].at \in Agents
    /\ req[m].st = "checked" => ep[req[m].at].swarm = req[m].header \/ req[m].moved

IInv == TypeOK /\ (\A c \in Calls : CallOK(c)) /\ (\A m \in Mutations : ReqOK(m))

Good(a) == ep[a].up /\ ref \in {None, ep[a].swarm}

\* A timeout or a 5xx of a mutation at a, which leaves a in cooldown.
MutationFailsAt(a) ==
    \E m \in Mutations : call[m].pc = "await" /\ call[m].at = a /\ call'[m].pc = "idle" /\ a \in cool'

\* Failover does its work: once some Agent stays reachable in the reference
\* Swarm and mutations no longer fail at it, reads stop failing, whatever the
\* other endpoints do, however mutations fail there, and whatever cooldowns and
\* candidate lists are left from before (candidateAgents, safeRequest).  The
\* second premise is needed: each mutation that times out cools the Agent down
\* (mutationRequest), and until that ends reads are left with the others.
FailoverServes ==
    \A a \in Agents : <>[]Good(a) /\ <>[][~MutationFailsAt(a)]_vars => <>[](\A c \in Reads : call[c].pc # "failed")
=============================================================================
