------------------------------ MODULE Bootstrap ------------------------------
(***************************************************************************)
(* How a node joins a registered cluster: the registration of the cluster, *)
(* the policy that admits requests by it, and the one-time bootstrap token *)
(* from its issue through claim and completion (bootstrap/, clusters/),    *)
(* with the LABELS operation that completion starts reduced to what        *)
(* NodeWorkflow shows of it.                                               *)
(*                                                                         *)
(*   reg     the row of the cluster in cluster_registrations, regAudits    *)
(*           its CLUSTER_REGISTERED events                                 *)
(*   tok     the bootstrap_tokens table                                    *)
(*   audits  the number of events of each kind recorded for a token        *)
(*   lop     the LABELS operation whose ID is the token's                  *)
(*   node    the Swarm nodes as an Agent inspects them                     *)
(*   sess    the requests being handled, by any Control Plane process      *)
(*                                                                         *)
(* History: told, the registrations confirmed to a caller; given, the      *)
(* claim IDs that were sent join credentials; done, the node that the      *)
(* COMPLETED event names; fit (of a request), whether its node has been in *)
(* scope and labelled at some moment since the request began.  An answer   *)
(* that is lost is a step after which the caller asks again.               *)
(*                                                                         *)
(* Every transaction on a token starts with SELECT ... FOR UPDATE of its   *)
(* row, so each is one step.                                               *)
(***************************************************************************)
EXTENDS Naturals, FiniteSets, Functions

CONSTANTS Tokens, ClaimIds, Nodes, Roles, Swarms, Names, Sessions, None,
          Taken,            \* Swarms registered under another logical cluster
          MaxChanges        \* bound on the changes of all nodes together

ASSUME BootstrapAssumption ==
    /\ None \notin Tokens \cup ClaimIds \cup Nodes \cup Roles \cup Swarms \cup Sessions
    /\ None \notin [swarm : Swarms, name : Names]
    /\ "away" \notin Roles
    /\ Taken \subseteq Swarms
    /\ MaxChanges \in Nat

VARIABLES reg, regAudits, tok, audits, lop, node, sess, told, given, done

registration == <<reg, regAudits, told>>
tokens == <<tok, audits, given, done>>
vars == <<registration, tokens, lop, node, sess>>

-----------------------------------------------------------------------------
Registrations == [swarm : Swarms, name : Names]

\* loadClusterBindingSettings: what a process was started with; enforcement
\* requires a fixed Swarm.
Settings == {s \in [mode : {"compat", "enforce"}, expected : Swarms \cup {None}] :
                s.mode = "enforce" => s.expected # None}

MaxVer == MaxChanges + 1
Spare == FoldFunction(LAMBDA n, v : n.ver + v, 0, node) < MaxChanges + Cardinality(Nodes)

Kinds == {"issue", "claim", "complete"}
Steps == {"free", "identity", "insert", "assert", "create", "consume", "inspect", "bind", "labels", "labelling",
          "verify", "record"}

Free == [pc |-> "free", kind |-> None, by |-> None, want |-> None, tok |-> None, claim |-> None, node |-> None,
         ver |-> 0, fit |-> FALSE]
NoToken == [st |-> "none", role |-> None, labels |-> FALSE, claim |-> None, node |-> None]
NoAudits == [ISSUED |-> 0, CLAIMED |-> 0, COMPLETED |-> 0]
NoLabelling == [st |-> "none", at |-> None, ver |-> 0]

TypeOK ==
    /\ reg \in Registrations \cup {None} /\ regAudits \in 0 .. 2
    /\ told \subseteq Registrations
    /\ tok \in [Tokens -> [st : {"none", "live", "expired"}, role : Roles \cup {None}, labels : BOOLEAN,
                           claim : ClaimIds \cup {None}, node : Nodes \cup {None}]]
    /\ audits \in [Tokens -> [ISSUED : 0 .. 2, CLAIMED : 0 .. 2, COMPLETED : 0 .. 2]]
    /\ given \in [Tokens -> SUBSET ClaimIds]
    /\ done \in [Tokens -> Nodes \cup {None}]
    /\ lop \in [Tokens -> [st : {"none", "open", "applied", "SUCCESS", "FAILED"}, at : Nodes \cup {None}, ver : 0 .. MaxVer]]
    /\ node \in [Nodes -> [ver : 1 .. MaxVer, role : Roles \cup {"away"}, label : BOOLEAN]]
    /\ sess \in [Sessions -> [pc : Steps, kind : Kinds \cup {None}, by : Swarms \cup {None},
                              want : Registrations \cup {None}, tok : Tokens \cup {None},
                              claim : ClaimIds \cup {None}, node : Nodes \cup {None}, ver : 0 .. MaxVer,
                              fit : BOOLEAN]]

Init ==
    /\ reg = None /\ regAudits = 0  /\ told = {}
    /\ tok = [t \in Tokens |-> NoToken]
    /\ audits = [t \in Tokens |-> NoAudits]
    /\ given = [t \in Tokens |-> {}]
    /\ done = [t \in Tokens |-> None]
    /\ lop = [t \in Tokens |-> NoLabelling]
    /\ node \in [Nodes -> [ver : {1}, role : Roles, label : {FALSE}]]
    /\ sess = [x \in Sessions |-> Free]

Go(x, pc) == sess' = [sess EXCEPT ![x].pc = pc]
Leave(x) == sess' = [sess EXCEPT ![x] = Free]

-----------------------------------------------------------------------------
(* Registration of the cluster *)

\* matchesRegistration: the caller gets the row when it is what was asked for.
Confirmed(row, want) == IF row = want THEN told \cup {row} ELSE told

\* register: only the Swarm that is configured; a committed registration is
\* replayed without asking an Agent, or refused when it differs.
Register(x, s, want) ==
    /\ sess[x].pc = "free"
    /\ want.swarm = s.expected
    /\ IF reg # None
       THEN told' = Confirmed(reg, want) /\ UNCHANGED sess
       ELSE UNCHANGED told
            /\ sess' = [sess EXCEPT ![x] = [Free EXCEPT !.pc = "identity", !.want = want]]
    /\ UNCHANGED <<reg, regAudits, tokens, lop, node>>

\* A manager Agent is in the expected Swarm; else Fail.
VerifyIdentity(x) ==
    /\ sess[x].pc = "identity"
    /\ Go(x, "insert")
    /\ UNCHANGED <<registration, tokens, lop, node>>

\* Mutant: the event is written in a transaction of its own, on any outcome.
InsertAuditApart(x) ==
    /\ sess[x].pc = "insert" /\ regAudits < 2
    /\ reg' = IF reg = None /\ sess[x].want.swarm \notin Taken THEN sess[x].want ELSE reg
    /\ regAudits' = regAudits + 1
    /\ told' = Confirmed(reg', sess[x].want)
    /\ Leave(x)
    /\ UNCHANGED <<tokens, lop, node>>

\* One transaction for row and event.  After a duplicate of either unique key,
\* and only then, the row is read again and must be what was asked for.
Insert(x) ==
    LET duplicate == reg # None \/ sess[x].want.swarm \in Taken IN
    /\ sess[x].pc = "insert"
    /\ IF duplicate THEN UNCHANGED <<reg, regAudits>>
       ELSE reg' = sess[x].want /\ regAudits' = regAudits + 1
    /\ told' = Confirmed(reg', sess[x].want)
    /\ Leave(x)
    /\ UNCHANGED <<tokens, lop, node>>

\* assertRegistered: read on every request, never cached.
Admits(swarm) == swarm = None \/ (reg # None /\ reg.swarm = swarm)

AssertRegistered(x) ==
    LET next == [issue |-> "create", claim |-> "consume", complete |-> "inspect"] IN
    /\ sess[x].pc = "assert"
    /\ Admits(sess[x].by)
    /\ Go(x, next[sess[x].kind])
    /\ UNCHANGED <<registration, tokens, lop, node>>

-----------------------------------------------------------------------------
(* Issue and claim *)

\* A process in compat mode asks for no Swarm.
Enforced(s) == IF s.mode = "enforce" THEN s.expected ELSE None

Start(x, s, kind, t, c, n) ==
    /\ sess[x].pc = "free"
    /\ sess' = [sess EXCEPT ![x] = [Free EXCEPT !.pc = "assert", !.kind = kind, !.by = Enforced(s), !.tok = t, !.claim = c,
                                                !.node = n]]
    /\ UNCHANGED <<registration, tokens, lop, node>>

\* Mutant: the event is written without a look at the ones there.
InsertAudit(t, event) == audits' = [audits EXCEPT ![t][event] = @ + 1]

insertAuditOnce(t, event) == audits' = [audits EXCEPT ![t][event] = IF @ = 0 THEN 1 ELSE @]

\* issue: the ID is fresh.
Issue(x, s, t) ==
    /\ tok[t].st = "none" /\ \A y \in Sessions : sess[y].tok # t
    /\ Start(x, s, "issue", t, None, None)

\* create, with the join credentials for the role at hand.
Create(x, role, labels) ==
    LET t == sess[x].tok IN
    /\ sess[x].pc = "create"
    /\ tok' = [tok EXCEPT ![t] = [NoToken EXCEPT !.st = "live", !.role = role, !.labels = labels]]
    /\ insertAuditOnce(t, "ISSUED")
    /\ Leave(x)
    /\ UNCHANGED <<registration, lop, node, given, done>>

findClaimableByHash(t, c) == tok[t].st = "live" /\ tok[t].claim \in {None, c}

Claim(x, s, t, c) ==
    /\ findClaimableByHash(t, c)
    /\ Start(x, s, "claim", t, c, None)

\* Mutant: what findClaimableByHash saw still holds.
ConsumeUnchecked(x) ==
    LET t == sess[x].tok  c == sess[x].claim IN
    /\ sess[x].pc = "consume" /\ tok[t].st = "live"
    /\ tok' = [tok EXCEPT ![t].claim = c]
    /\ insertAuditOnce(t, "CLAIMED")
    /\ given' = [given EXCEPT ![t] = @ \cup {c}]
    /\ Leave(x)
    /\ UNCHANGED <<registration, lop, node, done>>

\* consume: the first claim ID owns the token, and is answered again until
\* expiry.
Consume(x) ==
    LET t == sess[x].tok  c == sess[x].claim IN
    /\ sess[x].pc = "consume"
    /\ tok[t].st = "live" /\ tok[t].claim \in {None, c}
    /\ tok' = [tok EXCEPT ![t].claim = c]
    /\ insertAuditOnce(t, "CLAIMED")
    /\ given' = [given EXCEPT ![t] = @ \cup {c}]
    /\ Leave(x)
    /\ UNCHANGED <<registration, lop, node, done>>

-----------------------------------------------------------------------------
(* Completion *)

assertNodeMatchesBootstrapScope(t, n) == node[n].role = tok[t].role

\* What completion is to establish of node n, if w are the nodes.
InScope(t, n, w) == w[n].role = tok[t].role /\ (tok[t].labels => w[n].label)

Noted(n, w) ==
    sess' = [x \in Sessions |->
               IF sess[x].pc \in {"bind", "labels", "labelling", "verify"} /\ sess[x].node = n
               THEN [sess[x] EXCEPT !.fit = @ \/ InScope(sess[x].tok, n, w)] ELSE sess[x]]

CompleteRequest(x, s, t, c, n) ==
    /\ findClaimableByHash(t, c) /\ tok[t].claim = c
    /\ Start(x, s, "complete", t, c, n)

\* The node as an Agent reports it, with its version.
InspectNode(x) ==
    LET n == sess[x].node IN
    /\ sess[x].pc = "inspect"
    /\ assertNodeMatchesBootstrapScope(sess[x].tok, n)
    /\ sess' = [sess EXCEPT ![x].pc = "bind", ![x].ver = node[n].ver,
                            ![x].fit = InScope(sess[x].tok, n, node)]
    /\ UNCHANGED <<registration, tokens, lop, node>>

\* Mutant: the last reported node is kept.
BindLast(x) ==
    LET t == sess[x].tok IN
    /\ sess[x].pc = "bind"
    /\ tok[t].st = "live" /\ tok[t].claim = sess[x].claim
    /\ tok' = [tok EXCEPT ![t].node = sess[x].node]
    /\ sess' = [sess EXCEPT ![x].pc = IF tok[t].labels THEN "labels" ELSE "record", ![x].by = None]
    /\ UNCHANGED <<registration, audits, given, done, lop, node>>

\* bindCompletionNode: BOUND or REPLAY; INACTIVE and CONFLICT end the request.
\* Without labels there is nothing to apply.
bindCompletionNode(x) ==
    LET t == sess[x].tok IN
    /\ sess[x].pc = "bind"
    /\ tok[t].st = "live" /\ tok[t].claim = sess[x].claim
    /\ tok[t].node \in {None, sess[x].node}
    /\ tok' = [tok EXCEPT ![t].node = sess[x].node]
    /\ sess' = [sess EXCEPT ![x].pc = IF tok[t].labels THEN "labels" ELSE "record", ![x].by = None]
    /\ UNCHANGED <<registration, audits, given, done, lop, node>>

\* applyBootstrapLabels: a retry asks for what the first attempt asked for.
ReadLabelling(x) ==
    LET t == sess[x].tok IN
    /\ sess[x].pc = "labels"
    /\ sess' = [sess EXCEPT ![x].pc = "labelling", ![x].ver = IF lop[t].st = "none" THEN @ ELSE lop[t].ver]
    /\ UNCHANGED <<registration, tokens, lop, node>>

\* labels of NodeMutationService: the intent is of the node at the version asked
\* for; anything that is in its way ends the request.
LabelIntent(x) ==
    LET t == sess[x].tok  n == sess[x].node IN
    /\ sess[x].pc = "labelling" /\ lop[t].st = "none"
    /\ node[n].ver = sess[x].ver
    /\ lop' = [lop EXCEPT ![t] = [st |-> "open", at |-> n, ver |-> sess[x].ver]]
    /\ UNCHANGED <<registration, tokens, node, sess>>

\* The one request of the operation takes effect while it is unfinished.
NodeUpdate(t) ==
    LET n == lop[t].at
        after == [node EXCEPT ![n].ver = @ + 1, ![n].label = TRUE] IN
    /\ lop[t].st = "open" /\ node[n].ver = lop[t].ver /\ Spare
    /\ node' = after
    /\ Noted(n, after)
    /\ lop' = [lop EXCEPT ![t].st = "applied"]
    /\ UNCHANGED <<registration, tokens>>

\* A request or a recovery ends the operation: SUCCESS on observing the labels,
\* FAILED when its request was rejected.
LabelEnds(t) ==
    /\ \/ /\ lop[t].st \in {"open", "applied"} /\ node[lop[t].at].label
          /\ lop' = [lop EXCEPT ![t].st = "SUCCESS"]
       \/ lop[t].st = "open" /\ lop' = [lop EXCEPT ![t].st = "FAILED"]
    /\ UNCHANGED <<registration, tokens, node, sess>>

\* The operation found under the lock must be the one asked for
\* (assertIdempotent), and its status SUCCESS.
Labelled(x) ==
    LET t == sess[x].tok IN
    /\ sess[x].pc = "labelling"
    /\ lop[t].st = "SUCCESS" /\ lop[t].at = sess[x].node /\ lop[t].ver = sess[x].ver
    /\ sess' = [sess EXCEPT ![x].pc = "verify", ![x].ver = 0]
    /\ UNCHANGED <<registration, tokens, lop, node>>

\* Mutant: SUCCESS of the operation is taken for the state of the node.
TrustLabels(x) ==
    /\ sess[x].pc = "verify"
    /\ Go(x, "record")
    /\ UNCHANGED <<registration, tokens, lop, node>>

\* The node is inspected again: scope and labels.
VerifyLabels(x) ==
    LET t == sess[x].tok  n == sess[x].node IN
    /\ sess[x].pc = "verify"
    /\ assertNodeMatchesBootstrapScope(t, n) /\ node[n].label
    /\ sess' = [sess EXCEPT ![x].pc = "record", ![x].fit = TRUE]
    /\ UNCHANGED <<registration, tokens, lop, node>>

\* recordCompletionAudit: expiry is not asked for again.
recordCompletionAudit(x) ==
    LET t == sess[x].tok IN
    /\ sess[x].pc = "record"
    /\ tok[t].claim = sess[x].claim /\ tok[t].node = sess[x].node
    /\ insertAuditOnce(t, "COMPLETED")
    /\ done' = [done EXCEPT ![t] = IF audits[t].COMPLETED = 0 THEN sess[x].node ELSE @]
    /\ Leave(x)
    /\ UNCHANGED <<registration, tok, given, lop, node>>

\* A check fails, credentials are not configured, an Agent or the database does
\* not answer, or the process dies: nothing is written.
Fail(x) ==
    /\ sess[x].pc # "free"
    /\ Leave(x)
    /\ UNCHANGED <<registration, tokens, lop, node>>

-----------------------------------------------------------------------------
(* Time, and the Swarm *)

Expire(t) ==
    /\ tok[t].st = "live"
    /\ tok' = [tok EXCEPT ![t].st = "expired"]
    /\ UNCHANGED <<registration, audits, given, done, lop, node, sess>>

\* Anyone drains, demotes or relabels a node, or it is not ready.
NodeChanges(n) ==
    /\ Spare
    /\ \E spec \in {[role |-> r, label |-> node[n].label] : r \in Roles \cup {"away"}}
                   \cup {[role |-> node[n].role, label |-> b] : b \in BOOLEAN} :
          LET after == [node EXCEPT ![n] = [ver |-> @.ver + 1, role |-> spec.role, label |-> spec.label]] IN
          /\ node' = after
          /\ Noted(n, after)
    /\ UNCHANGED <<registration, tokens, lop>>

-----------------------------------------------------------------------------
Next ==
    \/ \E x \in Sessions :
          \/ \E s \in Settings :
                \/ \E want \in Registrations : Register(x, s, want)
                \/ \E t \in Tokens : Issue(x, s, t)
                \/ \E t \in Tokens, c \in ClaimIds : Claim(x, s, t, c)
                \/ \E t \in Tokens, c \in ClaimIds, n \in Nodes : CompleteRequest(x, s, t, c, n)
          \/ VerifyIdentity(x) \/ Insert(x) \/ AssertRegistered(x)
          \/ \E role \in Roles, labels \in BOOLEAN : Create(x, role, labels)
          \/ Consume(x) \/ InspectNode(x) \/ bindCompletionNode(x)
          \/ ReadLabelling(x) \/ LabelIntent(x) \/ Labelled(x) \/ VerifyLabels(x) \/ recordCompletionAudit(x)
          \/ Fail(x)
    \/ \E t \in Tokens : NodeUpdate(t) \/ LabelEnds(t) \/ Expire(t)
    \/ \E n \in Nodes : NodeChanges(n)

Spec == Init /\ [][Next]_vars

-----------------------------------------------------------------------------
\* What a caller was told is registered stays registered, whichever process
\* wins a race and whichever answers are lost, and the row has its one event
\* (ClusterRegistrationRepository.register); so a request that was admitted under
\* enforcement need not be checked again when its token is issued, claimed or
\* bound (assertRegistered).
RegistrationStands ==
    /\ told \subseteq {reg}
    /\ regAudits = IF reg = None THEN 0 ELSE 1
    /\ \A x \in Sessions : sess[x].pc \in {"create", "consume", "inspect", "bind"} => Admits(sess[x].by)

\* Join credentials go to one claim ID, the one the row names, however claims
\* of two clients interleave with lost answers and replays (consume).
OneClaimant ==
    \A t \in Tokens : given[t] \subseteq {tok[t].claim}

\* Retries, replays and races leave one event of each kind, and the events
\* follow the row: nothing is claimed that was not issued, nothing completed
\* that is not bound (insertAuditOnce under the row lock).
AuditsFollowRow ==
    \A t \in Tokens :
        /\ audits[t].ISSUED = IF tok[t].st = "none" THEN 0 ELSE 1
        /\ audits[t].CLAIMED = IF tok[t].claim = None THEN 0 ELSE 1
        /\ audits[t].COMPLETED = IF done[t] = None THEN 0 ELSE 1

\* Whatever two completion requests report, labels are applied to the bound node
\* only, and it is the one that the COMPLETED event names
\* (bindCompletionNode before applyBootstrapLabels).
CompletionAgrees ==
    \A t \in Tokens :
        /\ lop[t].st # "none" => lop[t].at = tok[t].node
        /\ done[t] # None => done[t] = tok[t].node /\ (tok[t].labels => lop[t].st = "SUCCESS")

\* Completion is not recorded when verification fails (docs/BOOTSTRAP.md:111): a
\* request records COMPLETED only if the node was in scope and carried the
\* labels, at one moment, while that request was being handled (complete).
CompletedWasFit ==
    [][\A t \in Tokens : done'[t] # done[t] =>
          \E x \in Sessions : sess[x].pc = "record" /\ sess[x].tok = t /\ sess[x].fit]_vars
=============================================================================
