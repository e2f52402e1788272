-------------------------- MODULE AgentClientProofs --------------------------
(***************************************************************************)
(* The safety of AgentClient for any number of Agents, Swarms and calls.   *)
(* IInv is inductive: the reference never moves once it is known, so what  *)
(* a call was told of it stays true, and an endpoint that moves is marked  *)
(* in the calls and requests that rely on it.                              *)
(***************************************************************************)
EXTENDS AgentClient, TLAPS

CallType == [pc : {"idle", "identity", "request", "send", "await", "ok", "failed"},
             kind : Kinds \cup {"mutation", None}, at : Agents \cup {None}, left : SUBSET Agents,
             swarm : Swarms \cup {None}, moved : BOOLEAN]
ReqType == [st : {"none", "sent", "admitted", "checked", "applied", "refused"}, at : Agents \cup {None},
            header : Swarms \cup {None}, moved : BOOLEAN, sends : 0 .. 2]

LEMMA ConstantTypes == Idle \in CallType /\ NoReq \in ReqType
  BY ClientAssumption DEF Idle, NoReq, CallType, ReqType, Agents

LEMMA InitIInv == Init => IInv
  <1> SUFFICES ASSUME Init PROVE IInv
    OBVIOUS
  <1>1. call \in [Calls -> CallType] /\ req \in [Mutations -> ReqType]
    BY ConstantTypes DEF Init
  <1>2. TypeOK
    BY <1>1, ClientAssumption, ConstantTypes DEF Init, TypeOK, CallType, ReqType
  <1>3. \A c \in Calls : CallOK(c)
    BY DEF Init, CallOK, Idle
  <1>4. \A m \in Mutations : ReqOK(m)
    BY DEF Init, ReqOK, NoReq
  <1> QED
    BY <1>2, <1>3, <1>4 DEF IInv

LEMMA Types ==
    ASSUME IInv
    PROVE  /\ call \in [Calls -> CallType] /\ req \in [Mutations -> ReqType]
           /\ ep \in [Agents -> [up : BOOLEAN, swarm : Swarms]]
           /\ expected \in Swarms \cup {None} /\ ref \in Swarms \cup {None}
           /\ active \in Agents /\ cool \subseteq Agents
           /\ \A c \in Calls : CallOK(c)
           /\ \A m \in Mutations : ReqOK(m) /\ m \in Calls
  BY DEF IInv, TypeOK, CallType, ReqType, Calls

\* The reference is set once.
RefKept == ref # None => ref' = ref

\* A step of one call that leaves the endpoints alone.
LEMMA CallStep ==
    ASSUME IInv, RefKept, NEW c \in Calls, NEW new \in CallType, call' = [call EXCEPT ![c] = new], ep' = ep,
           UNCHANGED <<expected, req>>, ref' \in Swarms \cup {None}, active' \in Agents, cool' \subseteq Agents,
           CallOK(c)'
    PROVE  IInv'
  <1>1. call' \in [Calls -> CallType] /\ \A d \in Calls \ {c} : call'[d] = call[d]
    BY Types
  <1>2. TypeOK'
    BY <1>1, Types DEF TypeOK, CallType, ReqType
  <1>3. ASSUME NEW d \in Calls \ {c} PROVE CallOK(d)'
    <2>1. CallOK(d) /\ call'[d] = call[d]
      BY <1>1, Types
    <2> QED
      BY <2>1 DEF CallOK, RefKept
  <1>4. \A m \in Mutations : ReqOK(m)'
    BY Types DEF ReqOK
  <1> QED
    BY <1>2, <1>3, <1>4 DEF IInv

\* A step of one request.
LEMMA ReqStep ==
    ASSUME IInv, NEW m \in Mutations, NEW new \in ReqType, req' = [req EXCEPT ![m] = new],
           call' \in [Calls -> CallType], UNCHANGED <<ep, client>>, \A d \in Calls \ {m} : call'[d] = call[d],
           CallOK(m)', ReqOK(m)'
    PROVE  IInv'
  <1>1. req' \in [Mutations -> ReqType] /\ \A n \in Mutations \ {m} : req'[n] = req[n]
    BY Types
  <1>2. TypeOK'
    BY <1>1, Types DEF TypeOK, CallType, ReqType, client
  <1>3. ASSUME NEW d \in Calls \ {m} PROVE CallOK(d)'
    <2>1. CallOK(d) /\ call'[d] = call[d] /\ (d \in Mutations => req'[d] = req[d])
      BY <1>1, Types
    <2> QED
      BY <2>1 DEF CallOK, client
  <1>4. ASSUME NEW n \in Mutations \ {m} PROVE ReqOK(n)'
    <2>1. ReqOK(n) /\ req'[n] = req[n]
      BY <1>1, Types
    <2> QED
      BY <2>1 DEF ReqOK
  <1> QED
    BY <1>2, <1>3, <1>4, Types DEF IInv

\* A call that begins, ends or fails has nothing to keep.
LEMMA BeginCall ==
    ASSUME IInv, NEW c \in Calls, NEW kind \in Kinds \cup {"mutation"}, Begin(c, kind),
           c \in Mutations => req'[c] = NoReq,
           c \in Reads => kind # "mutation" /\ c \notin Mutations
    PROVE  CallOK(c)' /\ \E new \in CallType : call' = [call EXCEPT ![c] = new]
  <1>1. PICK a \in Agents :
           call' = [call EXCEPT ![c] = [Idle EXCEPT !.pc = IF kind = "health" THEN "request" ELSE "identity",
                                                    !.kind = kind, !.at = a, !.left = candidateAgents \ {a}]]
    BY Zenon, Types DEF Begin, candidateAgents, First
  <1> DEFINE new == [Idle EXCEPT !.pc = IF kind = "health" THEN "request" ELSE "identity",
                                 !.kind = kind, !.at = a, !.left = candidateAgents \ {a}]
  <1>2. candidateAgents \ {a} \in SUBSET Agents
    BY DEF candidateAgents
  <1>3. /\ new \in CallType /\ new.at = a /\ new.kind = kind
        /\ new.pc \in {"identity", "request"} /\ (new.pc = "request" <=> kind = "health")
    BY Zenon, <1>2, ConstantTypes DEF CallType, Idle
  <1>4. call'[c] = new
    BY <1>1, Types
  <1>5. \E n \in CallType : call' = [call EXCEPT ![c] = n]
    BY Zenon, <1>1, <1>3
  <1> HIDE DEF new
  <1>6. CallOK(c)'
    BY <1>3, <1>4 DEF CallOK, Kinds
  <1> QED
    BY <1>5, <1>6

LEMMA BeginIInv ==
    ASSUME IInv, NEW c \in Reads, BeginRead(c)
    PROVE  IInv'
  <1>0. c \in Calls /\ c \notin Mutations
    BY ClientAssumption DEF Calls
  <1>1. PICK kind \in Kinds : Begin(c, kind)
    BY DEF BeginRead
  <1>2. kind # "mutation"
    BY DEF Kinds
  <1>3. CallOK(c)' /\ \E new \in CallType : call' = [call EXCEPT ![c] = new]
    BY Zenon, <1>0, <1>1, <1>2, BeginCall
  <1>4. PICK new \in CallType : call' = [call EXCEPT ![c] = new]
    BY <1>3
  <1>5. /\ ep' = ep /\ UNCHANGED <<expected, req>> /\ RefKept
        /\ ref' \in Swarms \cup {None} /\ active' \in Agents /\ cool' \subseteq Agents
    BY <1>1, Types DEF BeginRead, Begin, client, RefKept
  <1> QED
    BY Zenon, <1>0, <1>3, <1>4, <1>5, CallStep

\* A mutation begins with no request of its own.
LEMMA BeginMutationIInv ==
    ASSUME IInv, NEW m \in Mutations, BeginMutation(m)
    PROVE  IInv'
  <1>0. m \in Calls /\ m \notin Reads
    BY ClientAssumption DEF Calls
  <1>1. /\ Begin(m, "mutation") /\ req' = [req EXCEPT ![m] = NoReq] /\ req'[m] = NoReq
        /\ UNCHANGED <<ep, client>>
    BY Types DEF BeginMutation, Begin
  <1>2. CallOK(m)' /\ \E new \in CallType : call' = [call EXCEPT ![m] = new]
    BY Zenon, <1>0, <1>1, BeginCall
  <1>3. PICK new \in CallType : call' = [call EXCEPT ![m] = new]
    BY <1>2
  <1>4. call' \in [Calls -> CallType] /\ \A d \in Calls \ {m} : call'[d] = call[d]
    BY <1>3, Types
  <1>5. ReqOK(m)'
    BY <1>1 DEF ReqOK, NoReq
  <1> QED
    BY Zenon, <1>1, <1>2, <1>4, <1>5, ConstantTypes, ReqStep

LEMMA IdleIInv ==
    ASSUME IInv, NEW c \in Calls, call' = [call EXCEPT ![c] = Idle], UNCHANGED <<ep, expected, ref, req>>,
           active' \in Agents, cool' \subseteq Agents
    PROVE  IInv'
  <1>1. call'[c] = Idle /\ Idle.pc = "idle"
    BY Types DEF Idle
  <1>2. CallOK(c)'
    BY <1>1 DEF CallOK
  <1> QED
    BY Zenon, <1>2, ConstantTypes, Types, CallStep DEF RefKept

\* Failover, of a read or of the selection for a mutation.
LEMMA NextCandidateIInv ==
    ASSUME IInv, NEW c \in Calls, NextCandidate(c), call[c].pc \in {"identity", "request"},
           UNCHANGED <<ep, expected, ref, req>>, markUnavailable(call[c].at)
    PROVE  IInv'
  <1>0. call[c] \in CallType /\ CallOK(c) /\ call[c].at \in Agents
    BY Types DEF CallOK
  <1>1. active' \in Agents /\ cool' \subseteq Agents /\ RefKept /\ ref' \in Swarms \cup {None}
    BY <1>0, Types DEF markUnavailable, RefKept
  <1>2. CASE call' = [call EXCEPT ![c] = [Idle EXCEPT !.pc = "failed", !.kind = call[c].kind]]
    <2> DEFINE new == [Idle EXCEPT !.pc = "failed", !.kind = call[c].kind]
    <2>1. new \in CallType /\ new.pc = "failed"
      BY Zenon, <1>0, ConstantTypes DEF CallType, Idle
    <2>2. call'[c] = new
      BY <1>2, Types
    <2> HIDE DEF new
    <2>3. CallOK(c)'
      BY <2>1, <2>2 DEF CallOK
    <2> QED
      BY Zenon, <1>1, <1>2, <2>1, <2>3, CallStep DEF new
  <1>3. ASSUME NEW a \in First(call[c].left),
               call' = [call EXCEPT ![c].at = a, ![c].left = @ \ {a}, ![c].moved = FALSE,
                                    ![c].pc = IF call[c].kind = "health" THEN "request" ELSE "identity"]
        PROVE  IInv'
    <2> DEFINE new == [call[c] EXCEPT !.at = a, !.left = call[c].left \ {a}, !.moved = FALSE,
                                      !.pc = IF call[c].kind = "health" THEN "request" ELSE "identity"]
    <2>0. a \in Agents /\ call[c].left \ {a} \in SUBSET Agents
      BY <1>0 DEF First, CallType
    <2>1. /\ new \in CallType /\ new.at = a /\ new.kind = call[c].kind /\ new.pc \in {"identity", "request"}
          /\ (new.pc = "request" <=> new.kind = "health")
      BY Zenon, <1>0, <2>0 DEF CallType
    <2>2. call' = [call EXCEPT ![c] = new]
      BY Zenon, <1>0, <1>3, Types DEF CallType
    <2>3. call'[c] = new
      BY <2>2, Types
    <2> HIDE DEF new
    <2>4. (c \in Mutations => req'[c] = NoReq) /\ (c \in Reads => call[c].kind \in Kinds)
      BY <1>0 DEF CallOK, Kinds
    <2>5. CallOK(c)'
      BY <2>0, <2>1, <2>3, <2>4 DEF CallOK, Kinds
    <2> QED
      BY Zenon, <1>1, <2>1, <2>2, <2>5, CallStep
  <1> QED
    BY Zenon, <1>2, <1>3 DEF NextCandidate

\* The reference agrees with the identity, or becomes it.
LEMMA ReadIdentityIInv ==
    ASSUME IInv, NEW c \in Calls, ReadIdentity(c)
    PROVE  IInv'
  <1> DEFINE a == call[c].at
             swarm == ep[a].swarm
  <1>0. call[c] \in CallType /\ CallOK(c) /\ a \in Agents /\ call[c].pc = "identity"
    BY Types DEF CallOK, ReadIdentity
  <1>1. swarm \in Swarms /\ swarm # None /\ ref' = swarm /\ RefKept
    BY <1>0, Types, ClientAssumption DEF ReadIdentity, assertClusterIdentity, RefKept
  <1>2. active' \in Agents /\ cool' \subseteq Agents
    BY <1>0, Types DEF ReadIdentity, markActive
  <1>3. ep' = ep /\ UNCHANGED <<expected, req>>
    BY DEF ReadIdentity
  <1>4. CASE c \in Mutations
    <2> DEFINE mine == [call[c] EXCEPT !.pc = "send", !.left = {}]
    <2>1. mine \in CallType /\ mine.pc = "send" /\ mine.at = a
      BY Zenon, <1>0 DEF CallType
    <2>2. call' = [call EXCEPT ![c] = mine]
      BY Zenon, <1>4, ClientAssumption DEF ReadIdentity
    <2>3. call'[c] = mine
      BY <2>2, Types
    <2>4. req'[c] = NoReq /\ c \notin Reads
      BY <1>0, <1>3, <1>4, ClientAssumption DEF CallOK
    <2> HIDE DEF mine
    <2>5. CallOK(c)'
      BY <1>0, <2>1, <2>3, <2>4 DEF CallOK
    <2> QED
      BY Zenon, <1>1, <1>2, <1>3, <2>1, <2>2, <2>5, CallStep
  <1>5. CASE c \notin Mutations /\ call[c].kind = "identity"
    <2> DEFINE mine == Answered(c, swarm)
    <2>1. mine \in CallType /\ mine.pc = "ok" /\ mine.swarm = swarm /\ mine.kind = "identity"
      BY Zenon, <1>0, <1>1, <1>5 DEF CallType, Answered
    <2>2. call' = [call EXCEPT ![c] = mine]
      BY <1>5 DEF ReadIdentity
    <2>3. call'[c] = mine
      BY <2>2, Types
    <2> HIDE DEF mine, swarm, a
    <2>4. CallOK(c)'
      BY <1>1, <1>5, <2>1, <2>3 DEF CallOK
    <2> QED
      BY Zenon, <1>1, <1>2, <1>3, <2>1, <2>2, <2>4, CallStep
  <1>6. CASE c \notin Mutations /\ call[c].kind # "identity"
    <2> DEFINE mine == [call[c] EXCEPT !.pc = "request"]
    <2>1. mine \in CallType /\ mine.pc = "request" /\ mine.at = a /\ mine.kind = call[c].kind
      BY <1>0 DEF CallType
    <2>2. call' = [call EXCEPT ![c] = mine]
      BY <1>6 DEF ReadIdentity
    <2>3. call'[c] = mine
      BY <2>2, Types
    <2> HIDE DEF mine
    <2>4. CallOK(c)'
      BY <1>0, <1>1, <1>3, <1>6, <2>1, <2>3 DEF CallOK
    <2> QED
      BY Zenon, <1>1, <1>2, <1>3, <2>1, <2>2, <2>4, CallStep
  <1> QED
    BY <1>4, <1>5, <1>6

\* The answer of inspectCluster was compared with the reference; that of another
\* read is of the Swarm of the identity, or the endpoint moved.
LEMMA ReadAnswerIInv ==
    ASSUME IInv, NEW c \in Calls, ReadAnswer(c)
    PROVE  IInv'
  <1> DEFINE a == call[c].at
             mine == Answered(c, ep[a].swarm)
  <1>0. call[c] \in CallType /\ CallOK(c) /\ a \in Agents /\ call[c].pc = "request" /\ ep[a].swarm \in Swarms
    BY Types DEF CallOK, ReadAnswer
  <1>1. CASE markUnavailable(a) /\ NextCandidate(c)
    BY <1>0, <1>1, NextCandidateIInv DEF ReadAnswer
  <1>2. CASE /\ ~(call[c].kind = "cluster" /\ ~assertClusterIdentity(ep[a].swarm))
             /\ markActive(a) /\ call' = [call EXCEPT ![c] = mine]
    <2>1. /\ mine \in CallType /\ mine.pc = "ok" /\ mine.swarm = ep[a].swarm /\ mine.kind = call[c].kind
          /\ mine.moved = call[c].moved
      BY Zenon, <1>0 DEF CallType, Answered
    <2>2. active' \in Agents /\ cool' \subseteq Agents /\ RefKept /\ ref' \in Swarms \cup {None}
      BY <1>0, <1>2, Types DEF ReadAnswer, markActive, RefKept
    <2>3. call'[c] = mine /\ UNCHANGED <<ep, expected, ref, req>>
      BY <1>2, Types DEF ReadAnswer
    <2> HIDE DEF mine
    <2>4. CallOK(c)'
      BY <1>0, <1>2, <2>1, <2>3 DEF CallOK, assertClusterIdentity
    <2> QED
      BY Zenon, <1>2, <2>1, <2>2, <2>3, <2>4, CallStep
  <1> QED
    BY <1>1, <1>2 DEF ReadAnswer

\* The one send: the selection has left the request untouched.
LEMMA SendIInv ==
    ASSUME IInv, NEW m \in Mutations, Send(m)
    PROVE  IInv'
  <1> DEFINE new == [NoReq EXCEPT !.st = "sent", !.at = call[m].at, !.header = ref, !.sends = req[m].sends + 1]
             mine == [call[m] EXCEPT !.pc = "await"]
  <1>0. /\ call[m] \in CallType /\ call[m].pc = "send" /\ call[m].at \in Agents /\ req[m] = NoReq /\ m \notin Reads
        /\ m \in Calls
    BY Types, ClientAssumption DEF Send, CallOK
  <1>1. req[m].sends = 0
    BY <1>0 DEF NoReq
  <1>2. new \in ReqType /\ new.st = "sent" /\ new.at = call[m].at /\ new.sends = 1
    <2>1. req[m].sends + 1 = 1 /\ 1 \in 0 .. 2
      BY <1>1
    <2>2. new = [NoReq EXCEPT !.st = "sent", !.at = call[m].at, !.header = ref, !.sends = 1]
      BY Zenon, <2>1
    <2>3. ref \in Swarms \cup {None} /\ NoReq \in ReqType
      BY Types, ConstantTypes
    <2> HIDE DEF new
    <2> QED
      BY Zenon, <1>0, <2>1, <2>2, <2>3 DEF ReqType
  <1>3. mine \in CallType /\ mine.pc = "await" /\ mine.at = call[m].at
    BY <1>0 DEF CallType
  <1>4. /\ call' = [call EXCEPT ![m] = mine] /\ req' = [req EXCEPT ![m] = new] /\ UNCHANGED <<ep, client>>
    BY DEF Send
  <1>5. /\ call' \in [Calls -> CallType] /\ (\A d \in Calls \ {m} : call'[d] = call[d])
        /\ call'[m] = mine /\ req'[m] = new
    BY <1>0, <1>3, <1>4, Types
  <1> HIDE DEF new, mine
  <1>6. CallOK(m)' /\ ReqOK(m)'
    BY <1>0, <1>2, <1>3, <1>5 DEF CallOK, ReqOK
  <1> QED
    BY Zenon, <1>2, <1>4, <1>5, <1>6, ReqStep

\* Steps of the Agent on a request that was sent.
LEMMA AgentStep ==
    ASSUME IInv, NEW m \in Mutations, NEW new \in ReqType, req' = [req EXCEPT ![m] = new],
           UNCHANGED <<ep, client, call>>, req[m].st \in {"sent", "admitted", "checked"}, ReqOK(m)'
    PROVE  IInv'
  <1>1. call' = call /\ CallOK(m) /\ req[m] # NoReq
    BY Types DEF NoReq
  <1>2. CallOK(m)'
    BY <1>1 DEF CallOK, client
  <1> QED
    BY Zenon, <1>1, <1>2, Types, ReqStep

LEMMA OverFacts ==
    ASSUME IInv, NEW m \in Mutations, NEW st \in {"refused", "applied"}
    PROVE  Over(m, st) \in ReqType /\ Over(m, st).st = st /\ Over(m, st).sends = req[m].sends
  BY Zenon, Types, ConstantTypes DEF Over, ReqType, NoReq

LEMMA AgentIInv ==
    ASSUME IInv, NEW m \in Mutations, Admit(m) \/ FinalCheck(m) \/ DockerUpdate(m) \/ Dropped(m)
    PROVE  IInv'
  <1>0. req[m] \in ReqType /\ ReqOK(m) /\ req[m].st \in {"sent", "admitted", "checked"} /\ req[m].at \in Agents
    BY Types DEF ReqOK, Admit, FinalCheck, DockerUpdate, Dropped
  <1>1. ASSUME NEW st \in {"refused", "applied"}, req' = [req EXCEPT ![m] = Over(m, st)], UNCHANGED <<ep, client, call>>
        PROVE  IInv'
    <2>1. req'[m] = Over(m, st)
      BY <1>1, Types
    <2>2. ReqOK(m)'
      BY <1>0, <2>1, OverFacts DEF ReqOK
    <2> QED
      BY Zenon, <1>0, <1>1, <2>2, OverFacts, AgentStep
  <1>2. CASE Admit(m) /\ ep[req[m].at].swarm = req[m].header
    <2> DEFINE new == [req[m] EXCEPT !.st = "admitted"]
    <2>1. new \in ReqType /\ new.st = "admitted" /\ new.at = req[m].at /\ new.sends = req[m].sends
      BY <1>0 DEF ReqType
    <2>2. req' = [req EXCEPT ![m] = new] /\ UNCHANGED <<ep, client, call>>
      BY <1>2 DEF Admit
    <2>3. req'[m] = new
      BY <2>2, Types
    <2> HIDE DEF new
    <2>4. ReqOK(m)'
      BY <1>0, <2>1, <2>3 DEF ReqOK
    <2> QED
      BY Zenon, <1>0, <2>1, <2>2, <2>4, AgentStep
  <1>3. CASE FinalCheck(m) /\ ep[req[m].at].swarm = req[m].header
    <2> DEFINE new == [req[m] EXCEPT !.st = "checked"]
    <2>1. /\ new \in ReqType /\ new.st = "checked" /\ new.at = req[m].at /\ new.sends = req[m].sends
          /\ new.header = req[m].header
      BY <1>0 DEF ReqType
    <2>2. req' = [req EXCEPT ![m] = new] /\ UNCHANGED <<ep, client, call>>
      BY <1>3 DEF FinalCheck
    <2>3. req'[m] = new /\ ep' = ep
      BY <2>2, Types
    <2> HIDE DEF new
    <2>4. ReqOK(m)'
      BY <1>0, <1>3, <2>1, <2>3 DEF ReqOK
    <2> QED
      BY Zenon, <1>0, <2>1, <2>2, <2>4, AgentStep
  <1>4. CASE Admit(m) /\ ep[req[m].at].swarm # req[m].header
    BY <1>1, <1>4 DEF Admit
  <1>5. CASE FinalCheck(m) /\ ep[req[m].at].swarm # req[m].header
    BY <1>1, <1>5 DEF FinalCheck
  <1>6. CASE DockerUpdate(m) \/ Dropped(m)
    BY <1>1, <1>6 DEF DockerUpdate, Dropped
  <1> QED
    BY <1>2, <1>3, <1>4, <1>5, <1>6

\* The endpoints: up and down does not matter to the invariant, and who relies
\* on the Swarm of an endpoint that moves is marked.
LEMMA EndpointIInv ==
    ASSUME IInv, NEW a \in Agents, Reach(a) \/ Rejoin(a)
    PROVE  IInv'
  <1>1. /\ ep' \in [Agents -> [up : BOOLEAN, swarm : Swarms]]
        /\ \A b \in Agents \ {a} : ep'[b] = ep[b]
        /\ UNCHANGED client
    <2>1. ep \in [Agents -> [up : BOOLEAN, swarm : Swarms]]
      BY Types
    <2>2. CASE Reach(a)
      BY Zenon, <2>1, <2>2 DEF Reach
    <2>3. CASE Rejoin(a)
      BY <2>1, <2>3 DEF Rejoin
    <2> QED
      BY <2>2, <2>3
  <1>2. CASE Reach(a)
    <2>1. call' = call /\ req' = req /\ \A b \in Agents : ep'[b].swarm = ep[b].swarm
      BY <1>2, Types DEF Reach
    <2>2. TypeOK'
      BY <1>1, <2>1, Types DEF TypeOK, CallType, ReqType, client
    <2>3. \A c \in Calls : CallOK(c)'
      BY <1>1, <2>1, Types DEF CallOK, client
    <2>4. \A m \in Mutations : ReqOK(m)'
      BY <2>1, Types DEF ReqOK
    <2> QED
      BY <2>2, <2>3, <2>4 DEF IInv
  <1>3. CASE Rejoin(a)
    <2>1. ASSUME NEW c \in Calls
          PROVE  /\ call'[c] \in CallType
                 /\ call'[c].pc = call[c].pc /\ call'[c].kind = call[c].kind /\ call'[c].at = call[c].at
                 /\ call'[c].swarm = call[c].swarm /\ (call[c].moved => call'[c].moved)
                 /\ call[c].pc = "request" /\ call[c].kind = "read" /\ call[c].at = a => call'[c].moved
                 /\ call[c].pc # "request" => call'[c] = call[c]
      <3>1. call[c] \in CallType
        BY Types
      <3>2. call'[c] = IF call[c].pc = "request" /\ call[c].kind = "read" /\ call[c].at = a
                       THEN [call[c] EXCEPT !.moved = TRUE] ELSE call[c]
        BY <1>3 DEF Rejoin
      <3> QED
        BY Zenon, <3>1, <3>2 DEF CallType
    <2>2. ASSUME NEW m \in Mutations
          PROVE  /\ req'[m] \in ReqType
                 /\ req'[m].st = req[m].st /\ req'[m].at = req[m].at /\ req'[m].header = req[m].header
                 /\ req'[m].sends = req[m].sends /\ (req[m].moved => req'[m].moved)
                 /\ req[m].st = "checked" /\ req[m].at = a => req'[m].moved
                 /\ req[m].st # "checked" => req'[m] = req[m]
      <3>1. req[m] \in ReqType
        BY Types
      <3>2. req'[m] = IF req[m].st = "checked" /\ req[m].at = a
                      THEN [req[m] EXCEPT !.moved = TRUE] ELSE req[m]
        BY <1>3 DEF Rejoin
      <3> QED
        BY Zenon, <3>1, <3>2 DEF ReqType
    <2>3. call' \in [Calls -> CallType] /\ req' \in [Mutations -> ReqType]
      <3>1. call' = [c \in Calls |-> call'[c]] /\ req' = [m \in Mutations |-> req'[m]]
        BY <1>3 DEF Rejoin
      <3> QED
        BY <2>1, <2>2, <3>1
    <2>4. TypeOK'
      BY <1>1, <2>3, Types DEF TypeOK, CallType, ReqType, client
    <2>5. ASSUME NEW c \in Calls PROVE CallOK(c)'
      <3>1. CallOK(c) /\ (c \in Mutations /\ req[c] = NoReq => req'[c] = NoReq)
        BY <2>2, Types DEF NoReq
      <3>2. ref' = ref
        BY <1>1 DEF client
      <3> QED
        BY <1>1, <2>1, <3>1, <3>2 DEF CallOK
    <2>6. ASSUME NEW m \in Mutations PROVE ReqOK(m)'
      <3>1. ReqOK(m)
        BY Types
      <3> QED
        BY <1>1, <2>2, <3>1 DEF ReqOK
    <2> QED
      BY <2>4, <2>5, <2>6 DEF IInv
  <1> QED
    BY <1>2, <1>3

\* A cooldown ends, or a new process begins: requests under way remain.
LEMMA ProcessIInv ==
    ASSUME IInv, Restart \/ \E a \in Agents : CooldownEnds(a)
    PROVE  IInv'
  <1>1. CASE Restart
    <2>1. call' \in [Calls -> CallType] /\ \A c \in Calls : call'[c] = Idle
      BY <1>1, ConstantTypes DEF Restart
    <2>2. TypeOK'
      BY <1>1, <2>1, ClientAssumption, ConstantTypes, Types DEF Restart, TypeOK, CallType, ReqType
    <2>3. \A c \in Calls : CallOK(c)'
      BY <2>1 DEF CallOK, Idle
    <2>4. \A m \in Mutations : ReqOK(m)'
      BY <1>1, Types DEF Restart, ReqOK
    <2> QED
      BY <2>2, <2>3, <2>4 DEF IInv
  <1>2. CASE \E a \in Agents : CooldownEnds(a)
    <2>1. TypeOK'
      BY <1>2, Types DEF CooldownEnds, TypeOK, CallType, ReqType
    <2>2. (\A c \in Calls : CallOK(c)') /\ \A m \in Mutations : ReqOK(m)'
      BY <1>2, Types DEF CooldownEnds, CallOK, ReqOK
    <2> QED
      BY <2>1, <2>2 DEF IInv
  <1> QED
    BY <1>1, <1>2

LEMMA NextIInv == IInv /\ [Next]_vars => IInv'
  <1> SUFFICES ASSUME IInv, [Next]_vars PROVE IInv'
    OBVIOUS
  <1>1. CASE UNCHANGED vars
    BY <1>1 DEF vars, client, IInv, TypeOK, CallOK, ReqOK
  <1>2. ASSUME NEW c \in Reads, BeginRead(c) PROVE IInv'
    BY <1>2, BeginIInv
  <1>3. ASSUME NEW c \in Calls, Step(c) PROVE IInv'
    <2>1. CASE Unreachable(c) \/ ForeignIdentity(c)
      BY <2>1, NextCandidateIInv DEF Unreachable, ForeignIdentity
    <2>2. CASE Rejected(c) \/ Return(c)
      BY <2>2, IdleIInv, Types DEF Rejected, Return, client
    <2> QED
      BY <1>3, <2>1, <2>2, ReadIdentityIInv, ReadAnswerIInv DEF Step
  <1>4. ASSUME NEW m \in Mutations,
               \/ BeginMutation(m) \/ Send(m) \/ AwaitMutation(m)
               \/ Admit(m) \/ FinalCheck(m) \/ DockerUpdate(m) \/ Dropped(m)
        PROVE  IInv'
    <2>1. CASE BeginMutation(m)
      BY <2>1, BeginMutationIInv
    <2>2. CASE AwaitMutation(m)
      <3>1. m \in Calls /\ call[m].at \in Agents
        BY <2>2, Types DEF AwaitMutation, CallOK
      <3>2. active' \in Agents /\ cool' \subseteq Agents
        BY <2>2, <3>1, Types DEF AwaitMutation, markActive, markUnavailable
      <3> QED
        BY Zenon, <2>2, <3>1, <3>2, IdleIInv DEF AwaitMutation
    <2> QED
      BY <1>4, <2>1, <2>2, SendIInv, AgentIInv
  <1>5. ASSUME NEW a \in Agents, CooldownEnds(a) \/ Reach(a) \/ Rejoin(a) PROVE IInv'
    BY <1>5, EndpointIInv, ProcessIInv
  <1>6. CASE Restart
    BY <1>6, ProcessIInv
  <1> QED
    BY <1>1, <1>2, <1>3, <1>4, <1>5, <1>6 DEF Next

-----------------------------------------------------------------------------
\* The inductive invariant, for any number of Agents, Swarms and calls.
THEOREM Inductive == Spec => []IInv
  BY InitIInv, NextIInv, PTL DEF Spec

\* A mutation is sent at most once, to one Agent (mutationRequest).
THEOREM SentOnceTheorem == Spec => []SentOnce
  <1>1. IInv => SentOnce
    BY DEF IInv, ReqOK, SentOnce
  <1> QED
    BY <1>1, Inductive, PTL

\* What a read returns is about the reference Swarm (safeRequest,
\* identityWithFailover, assertClusterIdentity).
THEOREM ReadsTheorem == Spec => []ReadsOfReference
  <1>1. IInv => ReadsOfReference
    BY DEF IInv, CallOK, ReadsOfReference, Calls
  <1> QED
    BY <1>1, Inductive, PTL

\* A Docker update happens in the Swarm named in the request, save in the gap
\* after the final check (requireFinalMutationCluster).
THEOREM UpdatedTheorem == Spec => UpdatedWhereMeant
  <1>1. IInv => (\A m \in Mutations : req[m].st = "checked" => ep[req[m].at].swarm = req[m].header \/ req[m].moved)
    BY DEF IInv, ReqOK
  <1>2. IInv /\ [Next]_vars =>
           [\A m \in Mutations : req[m].st = "checked" /\ req'[m].st = "applied"
                                 => ep[req[m].at].swarm = req[m].header \/ req[m].moved]_vars
    BY <1>1
  <1> QED
    BY <1>2, Inductive, PTL DEF Spec, UpdatedWhereMeant
=============================================================================
