--------------------------- MODULE BootstrapProofs ---------------------------
(***************************************************************************)
(* The theorems of Bootstrap, for any number of tokens, claim IDs, nodes,  *)
(* Swarms and requests at a time, and any number of changes of the nodes.  *)
(***************************************************************************)
EXTENDS Bootstrap, TLAPS

-----------------------------------------------------------------------------
(* The inductive invariant *)

TokType == [st : {"none", "live", "expired"}, role : Roles \cup {None}, labels : BOOLEAN,
            claim : ClaimIds \cup {None}, node : Nodes \cup {None}]
AuditType == [ISSUED : Nat, CLAIMED : Nat, COMPLETED : Nat]
LopType == [st : {"none", "open", "applied", "SUCCESS", "FAILED"}, at : Nodes \cup {None}, ver : Nat]
NodeType == [ver : Nat, role : Roles \cup {"away"}, label : BOOLEAN]
SessType == [pc : Steps, kind : Kinds \cup {None}, by : Swarms \cup {None}, want : Registrations \cup {None},
             tok : Tokens \cup {None}, claim : ClaimIds \cup {None}, node : Nodes \cup {None}, ver : Nat,
             fit : BOOLEAN]

TabsTyped ==
    /\ tok \in [Tokens -> TokType] /\ audits \in [Tokens -> AuditType] /\ lop \in [Tokens -> LopType]
    /\ given \in [Tokens -> SUBSET ClaimIds] /\ done \in [Tokens -> Nodes \cup {None}]
    /\ node \in [Nodes -> NodeType]

RegOK ==
    /\ reg \in Registrations \cup {None} /\ told \subseteq Registrations
    /\ told \subseteq {reg} /\ regAudits = IF reg = None THEN 0 ELSE 1

\* What is recorded of a token: nothing before its row, and labels and completion
\* only for the bound node.
TokOK(t) ==
    /\ given[t] \subseteq {tok[t].claim}
    /\ tok[t].st = "none" => tok[t].claim = None /\ tok[t].node = None
    /\ audits[t].ISSUED = IF tok[t].st = "none" THEN 0 ELSE 1
    /\ audits[t].CLAIMED = IF tok[t].claim = None THEN 0 ELSE 1
    /\ audits[t].COMPLETED = IF done[t] = None THEN 0 ELSE 1
    /\ lop[t].st # "none" => lop[t].at = tok[t].node /\ tok[t].node # None
    /\ done[t] # None => done[t] = tok[t].node /\ (tok[t].labels => lop[t].st = "SUCCESS")

\* The requests that issue, use or complete a token, and those that have bound
\* their node.
Bound == {"labels", "labelling", "verify", "record"}
Issuing(s) == s.pc = "create" \/ (s.pc = "assert" /\ s.kind = "issue")
Completing(s) == s.pc \in {"inspect", "bind"} \cup Bound \/ (s.pc = "assert" /\ s.kind = "complete")
Using(s) == Completing(s) \/ s.pc = "consume" \/ (s.pc = "assert" /\ s.kind = "claim")

\* What a request found out, and still is so.
RecOK(s) ==
    /\ s.pc \in {"identity", "insert"} => s.want \in Registrations
    /\ s.pc \in {"create", "consume", "inspect", "bind"} => Admits(s.by)
    /\ s.pc = "assert" => s.kind \in Kinds
    /\ Issuing(s) => s.tok \in Tokens /\ tok[s.tok].st = "none"
    /\ Using(s) => s.tok \in Tokens /\ s.claim \in ClaimIds /\ tok[s.tok].st # "none"
    /\ Completing(s) => s.node \in Nodes
    /\ s.pc = "bind" => tok[s.tok].labels \/ s.fit
    /\ s.pc \in Bound => tok[s.tok].node = s.node
    /\ s.pc = "verify" => lop[s.tok].st = "SUCCESS"
    /\ s.pc = "record" => s.fit /\ (tok[s.tok].labels => lop[s.tok].st = "SUCCESS")

SessOK(x) == \A s \in {sess[x]} : RecOK(s)

\* A token that is being issued is in the hands of one request.
Alone == \A x, y \in Sessions : x # y => \A s \in {sess[x]} : Issuing(s) => sess[y].tok # s.tok

IInv ==
    /\ TabsTyped /\ sess \in [Sessions -> SessType]
    /\ RegOK /\ Alone
    /\ \A t \in Tokens : TokOK(t)
    /\ \A x \in Sessions : SessOK(x)

-----------------------------------------------------------------------------
(* Facts about the invariant *)

LEMMA Facts ==
    ASSUME IInv
    PROVE  /\ tok \in [Tokens -> TokType] /\ audits \in [Tokens -> AuditType] /\ lop \in [Tokens -> LopType]
           /\ given \in [Tokens -> SUBSET ClaimIds] /\ done \in [Tokens -> Nodes \cup {None}]
           /\ node \in [Nodes -> NodeType] /\ TabsTyped
           /\ sess \in [Sessions -> SessType] /\ RegOK /\ Alone
           /\ (\A t \in Tokens : TokOK(t)) /\ (\A x \in Sessions : SessOK(x) /\ sess[x] \in SessType)
  BY Zenon DEF IInv, TabsTyped

LEMMA FreeType == Free \in SessType /\ Free.pc = "free" /\ Free.tok = None
  BY DEF Free, SessType, Steps

\* The rows only advance as far as a request in hand can tell.
Advance ==
    /\ \A w : Admits(w) => Admits(w)'
    /\ \A t \in Tokens : tok[t].st # "none" =>
          /\ tok'[t].st # "none" /\ tok'[t].labels = tok[t].labels
          /\ (tok[t].node # None => tok'[t].node = tok[t].node)
    /\ \A t \in Tokens : lop[t].st = "SUCCESS" => lop'[t].st = "SUCCESS"

LEMMA RecKept ==
    ASSUME NEW s, RecOK(s), Advance, Issuing(s) => tok'[s.tok].st = "none"
    PROVE  RecOK(s)'
  <1>1. s.pc \in Bound => Using(s) /\ Completing(s)
    BY Zenon DEF Using, Completing
  <1>2. s.pc \in {"bind", "verify", "record"} => Using(s)
    BY DEF Using, Completing, Bound
  <1>3. s.pc \in {"create", "consume", "inspect", "bind"} => Admits(s.by)'
    BY Zenon DEF RecOK, Advance
  <1>4. Using(s) => s.tok \in Tokens /\ s.claim \in ClaimIds /\ tok'[s.tok].st # "none" /\ tok'[s.tok].labels = tok[s.tok].labels
    BY Zenon DEF RecOK, Advance
  <1>5. s.pc \in Bound => tok'[s.tok].node = s.node
    <2>1. s.pc \in Bound => s.tok \in Tokens /\ tok[s.tok].st # "none" /\ tok[s.tok].node = s.node /\ s.node # None
      <3>1. s.pc \in Bound => s.node \in Nodes
        BY Zenon, <1>1 DEF RecOK
      <3>2. s.node \in Nodes => s.node # None
        BY BootstrapAssumption
      <3> QED
        BY Zenon, <1>1, <3>1, <3>2 DEF RecOK
    <2> QED
      BY Zenon, <2>1 DEF Advance
  <1>6. Using(s) /\ lop[s.tok].st = "SUCCESS" => lop'[s.tok].st = "SUCCESS"
    BY Zenon, <1>4 DEF Advance
  <1>7. s.pc = "bind" => tok'[s.tok].labels \/ s.fit
    BY Zenon, <1>2, <1>4 DEF RecOK
  <1>8. s.pc = "verify" => lop'[s.tok].st = "SUCCESS"
    BY Zenon, <1>2, <1>6 DEF RecOK
  <1>9. s.pc = "record" => s.fit /\ (tok'[s.tok].labels => lop'[s.tok].st = "SUCCESS")
    BY Zenon, <1>2, <1>4, <1>6 DEF RecOK
  <1>10. s.pc \in {"identity", "insert"} => s.want \in Registrations
    BY Zenon DEF RecOK
  <1>11. s.pc = "assert" => s.kind \in Kinds
    BY Zenon DEF RecOK
  <1>12. Issuing(s) => s.tok \in Tokens /\ tok'[s.tok].st = "none"
    BY Zenon DEF RecOK
  <1>13. Completing(s) => s.node \in Nodes
    BY Zenon DEF RecOK
  <1>14. Using(s) => s.tok \in Tokens /\ s.claim \in ClaimIds /\ tok'[s.tok].st # "none"
    BY Zenon, <1>4
  <1> QED
    BY Zenon, <1>3, <1>5, <1>7, <1>8, <1>9, <1>10, <1>11, <1>12, <1>13, <1>14 DEF RecOK

\* A step of request x to r, with what it writes.
LEMMA OneStep ==
    ASSUME IInv, NEW x \in Sessions, NEW r \in SessType, sess' = [sess EXCEPT ![x] = r], Advance, RecOK(r)',
           \A y \in Sessions : y # x /\ (Issuing(r) \/ Issuing(sess[y])) => sess[y].tok # r.tok,
           \A y \in Sessions : y # x /\ Issuing(sess[y]) => tok'[sess[y].tok].st = "none",
           TabsTyped', RegOK', \A t \in Tokens : TokOK(t)'
    PROVE  IInv'
  <1>1. sess \in [Sessions -> SessType]
    BY Zenon, Facts
  <1>2. sess' \in [Sessions -> SessType] /\ sess'[x] = r /\ (\A y \in Sessions : y # x => sess'[y] = sess[y])
    BY <1>1
  <1>3. ASSUME NEW y \in Sessions PROVE SessOK(y)'
    <2>1. CASE y = x
      BY Zenon, <2>1, <1>2 DEF SessOK
    <2>2. CASE y # x
      <3>1. PICK s : s = sess[y]
        OBVIOUS
      <3>2. RecOK(s) /\ sess'[y] = s
        BY Zenon, <2>2, <3>1, <1>2, Facts DEF SessOK
      <3>3. RecOK(s)'
        BY Zenon, <2>2, <3>1, <3>2, RecKept
      <3> QED
        BY Zenon, <3>2, <3>3 DEF SessOK
    <2> QED
      BY <2>1, <2>2
  <1>4. Alone'
    <2>1. ASSUME NEW y \in Sessions, NEW z \in Sessions, y # z, NEW s, s = sess'[y], Issuing(s) PROVE sess'[z].tok # s.tok
      <3>1. CASE y = x
        BY Zenon, <2>1, <3>1, <1>2
      <3>2. CASE z = x /\ y # x
        BY Zenon, <2>1, <3>2, <1>2
      <3>3. CASE z # x /\ y # x
        BY Zenon, <2>1, <3>3, <1>2, Facts DEF Alone
      <3> QED
        BY <3>1, <3>2, <3>3
    <2> QED
      BY SMT, <2>1 DEF Alone, Issuing
  <1> QED
    BY Zenon, <1>2, <1>3, <1>4 DEF IInv

\* The same when nothing but the request changes.
LEMMA SessStep ==
    ASSUME IInv, NEW x \in Sessions, NEW r \in SessType, sess' = [sess EXCEPT ![x] = r],
           UNCHANGED <<registration, tokens, lop, node>>, RecOK(r),
           \A y \in Sessions : y # x /\ (Issuing(r) \/ Issuing(sess[y])) => sess[y].tok # r.tok
    PROVE  IInv'
  <1>1. UNCHANGED <<reg, regAudits, told, tok, audits, given, done, lop, node>>
    BY Zenon DEF registration, tokens
  <1>2. Advance
    BY Zenon, <1>1 DEF Advance, Admits
  <1>3. RecOK(r)'
    <2>1. Issuing(r) => tok'[r.tok].st = "none"
      BY Zenon, <1>1 DEF RecOK
    <2> QED
      BY Zenon, <2>1, <1>2, RecKept
  <1>4. TabsTyped' /\ RegOK' /\ (\A t \in Tokens : TokOK(t)')
    BY Zenon, <1>1, Facts DEF TabsTyped, RegOK, TokOK
  <1>5. \A y \in Sessions : y # x /\ Issuing(sess[y]) => tok'[sess[y].tok].st = "none"
    BY Zenon, <1>1, Facts DEF SessOK, RecOK
  <1> QED
    BY Zenon, <1>2, <1>3, <1>4, <1>5, OneStep

\* A request that goes on with the token it has, or leaves, stays apart.
LEMMA StaysApart ==
    ASSUME IInv, NEW x \in Sessions, NEW r, (r.tok = sess[x].tok /\ (Issuing(r) => Issuing(sess[x]))) \/ (r.tok = None /\ ~Issuing(r))
    PROVE  \A y \in Sessions : y # x /\ (Issuing(r) \/ Issuing(sess[y])) => sess[y].tok # r.tok
  <1> TAKE y \in Sessions
  <1>1. Issuing(sess[y]) => sess[y].tok \in Tokens
    BY Zenon, Facts DEF SessOK, RecOK
  <1>2. sess[y].tok \in Tokens => sess[y].tok # None
    BY BootstrapAssumption
  <1>3. y # x /\ Issuing(sess[y]) => sess[x].tok # sess[y].tok
    BY Zenon, Facts DEF Alone
  <1>4. y # x /\ Issuing(sess[x]) => sess[y].tok # sess[x].tok
    BY Zenon, Facts DEF Alone
  <1> QED
    BY Zenon, <1>1, <1>2, <1>3, <1>4

LEMMA Rec ==
    ASSUME IInv, NEW x \in Sessions
    PROVE  sess[x] \in SessType /\ RecOK(sess[x])
  BY Zenon, Facts DEF SessOK

\* A request that ends.
LEMMA LeaveFacts ==
    ASSUME IInv, NEW x \in Sessions, Leave(x)
    PROVE  /\ sess' = [sess EXCEPT ![x] = Free] /\ Free \in SessType
           /\ \A y \in Sessions : y # x /\ (Issuing(Free) \/ Issuing(sess[y])) => sess[y].tok # Free.tok
  <1>1. ~Issuing(Free)
    BY FreeType DEF Issuing
  <1>2. \A y \in Sessions : y # x /\ (Issuing(Free) \/ Issuing(sess[y])) => sess[y].tok # Free.tok
    BY <1>1, FreeType, StaysApart
  <1> QED
    BY Zenon, <1>2, FreeType DEF Leave

\* A request that is over claims nothing.
LEMMA FreeRec == RecOK(Free)
  BY FreeType DEF RecOK, Issuing, Using, Completing, Bound

LEMMA FreeRecNext == RecOK(Free)'
  BY FreeType DEF RecOK, Issuing, Using, Completing, Bound

\* A request ends with what it writes.
LEMMA LeaveStep ==
    ASSUME IInv, NEW x \in Sessions, Leave(x), Advance, TabsTyped', RegOK', \A t \in Tokens : TokOK(t)',
           \A y \in Sessions : y # x /\ Issuing(sess[y]) => tok'[sess[y].tok].st = "none"
    PROVE  IInv'
  BY Zenon, LeaveFacts, FreeRecNext, OneStep

-----------------------------------------------------------------------------
(* Registration *)

LEMMA RegisterStep ==
    ASSUME IInv, NEW x \in Sessions, NEW st \in Settings, NEW want \in Registrations, Register(x, st, want)
    PROVE  IInv'
  <1>1. UNCHANGED <<reg, regAudits, tok, audits, given, done, lop, node>>
    BY Zenon DEF Register, tokens
  <1>2. CASE reg # None
    <2>1. told' = Confirmed(reg, want) /\ sess' = sess
      BY Zenon, <1>2 DEF Register
    <2>2. told' \subseteq Registrations /\ told' \subseteq {reg}
      BY <2>1, Facts DEF Confirmed, RegOK
    <2>3. RegOK'
      BY Zenon, <2>2, <1>1, Facts DEF RegOK
    <2>4. TabsTyped' /\ (\A t \in Tokens : TokOK(t)')
      BY Zenon, <1>1, Facts DEF TabsTyped, TokOK
    <2>6. Alone' /\ sess' \in [Sessions -> SessType]
      BY Zenon, <2>1, Facts DEF Alone
    <2>5. \A y \in Sessions : SessOK(y)'
      BY <2>1, <1>1, Facts DEF SessOK, RecOK, Admits
    <2> QED
      BY Zenon, <2>3, <2>4, <2>5, <2>6 DEF IInv
  <1>3. CASE reg = None
    <2>1. PICK r : r = [Free EXCEPT !.pc = "identity", !.want = want]
      OBVIOUS
    <2>2. sess' = [sess EXCEPT ![x] = r] /\ UNCHANGED <<registration, tokens, lop, node>>
      BY Zenon, <2>1, <1>3 DEF Register, registration
    <2>3. r \in SessType /\ r.pc = "identity" /\ r.want = want /\ r.tok = None
      <3>1. r = [pc |-> "identity", kind |-> None, by |-> None, want |-> want, tok |-> None, claim |-> None,
                 node |-> None, ver |-> 0, fit |-> FALSE]
        BY Zenon, <2>1 DEF Free
      <3>2. r \in SessType
        BY Zenon, <3>1 DEF SessType, Steps
      <3> QED
        BY <3>1, <3>2
    <2>4. RecOK(r) /\ ~Issuing(r)
      BY <2>3 DEF RecOK, Issuing, Using, Completing, Bound
    <2>5. \A y \in Sessions : y # x /\ (Issuing(r) \/ Issuing(sess[y])) => sess[y].tok # r.tok
      BY Zenon, <2>3, <2>4, StaysApart
    <2> QED
      BY Zenon, <2>2, <2>3, <2>4, <2>5, SessStep
  <1> QED
    BY <1>2, <1>3

LEMMA VerifyIdentityStep ==
    ASSUME IInv, NEW x \in Sessions, VerifyIdentity(x)
    PROVE  IInv'
  <1>1. sess[x] \in SessType /\ RecOK(sess[x]) /\ sess[x].pc = "identity"
    BY Zenon, Rec DEF VerifyIdentity
  <1>2. PICK r : r = [sess[x] EXCEPT !.pc = "insert"]
    BY Zenon
  <1>3. sess' = [sess EXCEPT ![x] = r] /\ UNCHANGED <<registration, tokens, lop, node>>
    BY Zenon, <1>2 DEF VerifyIdentity, Go
  <1>4. r \in SessType /\ r.pc = "insert" /\ r.want = sess[x].want /\ r.tok = sess[x].tok
    BY <1>1, <1>2 DEF SessType, Steps
  <1>5. r.want \in Registrations
    BY <1>1, <1>4 DEF RecOK
  <1>6. RecOK(r) /\ ~Issuing(r)
    BY <1>4, <1>5 DEF RecOK, Issuing, Using, Completing, Bound
  <1>7. \A y \in Sessions : y # x /\ (Issuing(r) \/ Issuing(sess[y])) => sess[y].tok # r.tok
    BY Zenon, <1>4, <1>6, StaysApart
  <1> QED
    BY Zenon, <1>3, <1>4, <1>6, <1>7, SessStep

LEMMA InsertStep ==
    ASSUME IInv, NEW x \in Sessions, Insert(x)
    PROVE  IInv'
  <1>1. PICK want : want = sess[x].want
    OBVIOUS
  <1>2. want \in Registrations
    BY Zenon, <1>1, Rec DEF RecOK, Insert
  <1>3. /\ \/ reg' = reg /\ regAudits' = regAudits
           \/ reg = None /\ reg' = want /\ regAudits' = regAudits + 1
        /\ told' = Confirmed(reg', want)
    BY Zenon, <1>1 DEF Insert
  <1>4. UNCHANGED <<tok, audits, given, done, lop, node>> /\ Leave(x)
    BY Zenon DEF Insert, tokens
  <1>5. reg \in Registrations \cup {None} /\ told \subseteq Registrations /\ told \subseteq {reg} /\ None \notin Registrations
    BY Facts, BootstrapAssumption DEF RegOK, Registrations
  <1>6. reg' \in Registrations \cup {None} /\ told' \subseteq Registrations /\ told' \subseteq {reg'}
    BY <1>2, <1>3, <1>5 DEF Confirmed
  <1>7. regAudits' = IF reg' = None THEN 0 ELSE 1
    <2>1. regAudits = IF reg = None THEN 0 ELSE 1
      BY Zenon, Facts DEF RegOK
    <2> QED
      BY <2>1, <1>2, <1>3, <1>5
  <1>8. RegOK'
    BY Zenon, <1>6, <1>7 DEF RegOK
  <1>9. TabsTyped' /\ (\A t \in Tokens : TokOK(t)')
    BY Zenon, <1>4, Facts DEF TabsTyped, TokOK
  <1>10. Advance
    <2>1. reg # None => reg' = reg
      BY <1>3
    <2> QED
      BY Zenon, <2>1, <1>4 DEF Advance, Admits
  <1>11. \A y \in Sessions : y # x /\ Issuing(sess[y]) => tok'[sess[y].tok].st = "none"
    BY Zenon, <1>4, Rec DEF RecOK
  <1> QED
    BY Zenon, <1>4, <1>8, <1>9, <1>10, <1>11, LeaveStep

LEMMA AssertRegisteredStep ==
    ASSUME IInv, NEW x \in Sessions, AssertRegistered(x)
    PROVE  IInv'
  <1>1. sess[x] \in SessType /\ RecOK(sess[x]) /\ sess[x].pc = "assert" /\ Admits(sess[x].by)
    BY Zenon, Rec DEF AssertRegistered
  <1>2. PICK pc : pc = [issue |-> "create", claim |-> "consume", complete |-> "inspect"][sess[x].kind]
    OBVIOUS
  <1>3. PICK r : r = [sess[x] EXCEPT !.pc = pc]
    BY Zenon
  <1>4. sess' = [sess EXCEPT ![x] = r] /\ UNCHANGED <<registration, tokens, lop, node>>
    BY Zenon, <1>2, <1>3 DEF AssertRegistered, Go
  <1>5. sess[x].kind \in {"issue", "claim", "complete"}
    BY Zenon, <1>1 DEF RecOK, Kinds
  <1>6. \/ sess[x].kind = "issue" /\ pc = "create"
        \/ sess[x].kind = "claim" /\ pc = "consume"
        \/ sess[x].kind = "complete" /\ pc = "inspect"
    BY <1>2, <1>5
  <1>7. /\ r \in SessType /\ r.pc = pc /\ r.by = sess[x].by /\ r.tok = sess[x].tok /\ r.claim = sess[x].claim
        /\ r.node = sess[x].node
    BY <1>1, <1>3, <1>6 DEF SessType, Steps
  <1>8. /\ (Issuing(r) <=> Issuing(sess[x])) /\ (Using(r) <=> Using(sess[x])) /\ (Completing(r) <=> Completing(sess[x]))
    BY <1>1, <1>6, <1>7 DEF Issuing, Using, Completing, Bound
  <1>9. r.pc \notin {"identity", "insert", "assert", "bind", "verify", "record"} \cup Bound
    BY <1>6, <1>7 DEF Bound
  <1>10. RecOK(r)
    BY Zenon, <1>1, <1>7, <1>8, <1>9 DEF RecOK
  <1>11. \A y \in Sessions : y # x /\ (Issuing(r) \/ Issuing(sess[y])) => sess[y].tok # r.tok
    BY Zenon, <1>7, <1>8, StaysApart
  <1> QED
    BY Zenon, <1>4, <1>7, <1>10, <1>11, SessStep

-----------------------------------------------------------------------------
(* Requests begin and fail *)

LEMMA StartStep ==
    ASSUME IInv, NEW x \in Sessions, NEW st \in Settings, NEW kind \in Kinds, NEW t \in Tokens,
           NEW c \in ClaimIds \cup {None}, NEW n \in Nodes \cup {None}, Start(x, st, kind, t, c, n),
           kind = "issue" => tok[t].st = "none" /\ \A y \in Sessions : sess[y].tok # t,
           kind # "issue" => tok[t].st # "none" /\ c \in ClaimIds,
           kind = "complete" => n \in Nodes
    PROVE  IInv'
  <1>1. PICK by : by = Enforced(st)
    OBVIOUS
  <1>2. by \in Swarms \cup {None}
    BY <1>1 DEF Enforced, Settings
  <1>3. PICK r : r = [Free EXCEPT !.pc = "assert", !.kind = kind, !.by = by, !.tok = t, !.claim = c, !.node = n]
    OBVIOUS
  <1>4. sess' = [sess EXCEPT ![x] = r] /\ UNCHANGED <<registration, tokens, lop, node>>
    BY Zenon, <1>1, <1>3 DEF Start
  <1>5. r \in SessType /\ r.pc = "assert" /\ r.kind = kind /\ r.tok = t /\ r.claim = c /\ r.node = n
    <2>1. r = [pc |-> "assert", kind |-> kind, by |-> by, want |-> None, tok |-> t, claim |-> c, node |-> n,
               ver |-> 0, fit |-> FALSE]
      BY Zenon, <1>3 DEF Free
    <2>2. r \in SessType
      BY Zenon, <2>1, <1>2 DEF SessType, Steps
    <2> QED
      BY <2>1, <2>2
  <1>6. (Issuing(r) <=> kind = "issue") /\ (Completing(r) <=> kind = "complete") /\ (Using(r) => kind # "issue")
    BY <1>5 DEF Issuing, Using, Completing, Bound
  <1>7. r.pc \notin {"identity", "insert", "create", "consume", "inspect", "bind", "verify", "record"} \cup Bound
    BY <1>5 DEF Bound
  <1>8. RecOK(r)
    BY Zenon, <1>5, <1>6, <1>7 DEF RecOK
  <1>9. \A y \in Sessions : y # x /\ (Issuing(r) \/ Issuing(sess[y])) => sess[y].tok # r.tok
    <2> TAKE y \in Sessions
    <2>1. Issuing(sess[y]) => tok[sess[y].tok].st = "none"
      BY Zenon, Rec DEF RecOK
    <2> QED
      BY Zenon, <2>1, <1>5, <1>6
  <1> QED
    BY Zenon, <1>4, <1>5, <1>8, <1>9, SessStep

LEMMA FailStep ==
    ASSUME IInv, NEW x \in Sessions, Fail(x)
    PROVE  IInv'
  BY Zenon, LeaveFacts, FreeRec, SessStep DEF Fail

-----------------------------------------------------------------------------
(* What is written *)

LEMMA IssuedOnce ==
    ASSUME IInv, NEW t \in Tokens, insertAuditOnce(t, "ISSUED")
    PROVE  /\ audits' \in [Tokens -> AuditType] /\ (\A u \in Tokens : u # t => audits'[u] = audits[u])
           /\ audits'[t].ISSUED = (IF audits[t].ISSUED = 0 THEN 1 ELSE audits[t].ISSUED)
           /\ audits'[t].CLAIMED = audits[t].CLAIMED /\ audits'[t].COMPLETED = audits[t].COMPLETED
  <1>1. PICK a : a = [audits[t] EXCEPT !.ISSUED = IF @ = 0 THEN 1 ELSE @]
    BY Zenon
  <1>2. audits' = [audits EXCEPT ![t] = a]
    BY Zenon, <1>1 DEF insertAuditOnce
  <1>3. audits[t] \in AuditType /\ audits \in [Tokens -> AuditType]
    BY Zenon, Facts
  <1>4. /\ a \in AuditType /\ a.ISSUED = (IF audits[t].ISSUED = 0 THEN 1 ELSE audits[t].ISSUED)
        /\ a.CLAIMED = audits[t].CLAIMED /\ a.COMPLETED = audits[t].COMPLETED
    BY <1>1, <1>3 DEF AuditType
  <1> QED
    BY <1>2, <1>3, <1>4

LEMMA ClaimedOnce ==
    ASSUME IInv, NEW t \in Tokens, insertAuditOnce(t, "CLAIMED")
    PROVE  /\ audits' \in [Tokens -> AuditType] /\ (\A u \in Tokens : u # t => audits'[u] = audits[u])
           /\ audits'[t].CLAIMED = (IF audits[t].CLAIMED = 0 THEN 1 ELSE audits[t].CLAIMED)
           /\ audits'[t].ISSUED = audits[t].ISSUED /\ audits'[t].COMPLETED = audits[t].COMPLETED
  <1>1. PICK a : a = [audits[t] EXCEPT !.CLAIMED = IF @ = 0 THEN 1 ELSE @]
    BY Zenon
  <1>2. audits' = [audits EXCEPT ![t] = a]
    BY Zenon, <1>1 DEF insertAuditOnce
  <1>3. audits[t] \in AuditType /\ audits \in [Tokens -> AuditType]
    BY Zenon, Facts
  <1>4. /\ a \in AuditType /\ a.CLAIMED = (IF audits[t].CLAIMED = 0 THEN 1 ELSE audits[t].CLAIMED)
        /\ a.ISSUED = audits[t].ISSUED /\ a.COMPLETED = audits[t].COMPLETED
    BY <1>1, <1>3 DEF AuditType
  <1> QED
    BY <1>2, <1>3, <1>4

LEMMA CompletedOnce ==
    ASSUME IInv, NEW t \in Tokens, insertAuditOnce(t, "COMPLETED")
    PROVE  /\ audits' \in [Tokens -> AuditType] /\ (\A u \in Tokens : u # t => audits'[u] = audits[u])
           /\ audits'[t].COMPLETED = (IF audits[t].COMPLETED = 0 THEN 1 ELSE audits[t].COMPLETED)
           /\ audits'[t].ISSUED = audits[t].ISSUED /\ audits'[t].CLAIMED = audits[t].CLAIMED
  <1>1. PICK a : a = [audits[t] EXCEPT !.COMPLETED = IF @ = 0 THEN 1 ELSE @]
    BY Zenon
  <1>2. audits' = [audits EXCEPT ![t] = a]
    BY Zenon, <1>1 DEF insertAuditOnce
  <1>3. audits[t] \in AuditType /\ audits \in [Tokens -> AuditType]
    BY Zenon, Facts
  <1>4. /\ a \in AuditType /\ a.COMPLETED = (IF audits[t].COMPLETED = 0 THEN 1 ELSE audits[t].COMPLETED)
        /\ a.ISSUED = audits[t].ISSUED /\ a.CLAIMED = audits[t].CLAIMED
    BY <1>1, <1>3 DEF AuditType
  <1> QED
    BY <1>2, <1>3, <1>4

\* A step that writes to the rows of one token only.
LEMMA OtherTokens ==
    ASSUME IInv, NEW u \in Tokens, tok'[u] = tok[u], audits'[u] = audits[u], lop'[u] = lop[u],
           given'[u] = given[u], done'[u] = done[u]
    PROVE  TokOK(u)'
  <1>1. TokOK(u)
    BY Zenon, Facts
  <1> QED
    BY Zenon, <1>1 DEF TokOK

\* The row of an issued token changes.
LEMMA RowStep ==
    ASSUME IInv, NEW t \in Tokens, NEW q \in TokType, tok' = [tok EXCEPT ![t] = q], tok[t].st # "none", q.st # "none",
           q.labels = tok[t].labels, tok[t].node # None => q.node = tok[t].node, reg' = reg, lop' = lop
    PROVE  /\ tok' \in [Tokens -> TokType] /\ tok'[t] = q /\ (\A u \in Tokens : u # t => tok'[u] = tok[u])
           /\ Advance /\ (\A y \in Sessions : Issuing(sess[y]) => tok'[sess[y].tok].st = "none")
  <1>1. tok \in [Tokens -> TokType]
    BY Zenon, Facts
  <1>2. tok' \in [Tokens -> TokType] /\ tok'[t] = q /\ (\A u \in Tokens : u # t => tok'[u] = tok[u])
    BY <1>1
  <1>3. Advance
    BY Zenon, <1>2 DEF Advance, Admits
  <1>4. ASSUME NEW y \in Sessions, Issuing(sess[y]) PROVE tok'[sess[y].tok].st = "none"
    <2>1. sess[y].tok \in Tokens /\ tok[sess[y].tok].st = "none"
      BY Zenon, <1>4, Rec DEF RecOK
    <2> QED
      BY Zenon, <2>1, <1>2
  <1> QED
    BY Zenon, <1>2, <1>3, <1>4

LEMMA RegKept ==
    ASSUME IInv, UNCHANGED <<reg, regAudits, told>>
    PROVE  RegOK'
  BY Zenon, Facts DEF RegOK

LEMMA CreateStep ==
    ASSUME IInv, NEW x \in Sessions, NEW role \in Roles, NEW labels \in BOOLEAN, Create(x, role, labels)
    PROVE  IInv'
  <1>1. PICK t : t = sess[x].tok
    OBVIOUS
  <1>2. Issuing(sess[x]) /\ RecOK(sess[x])
    BY Zenon, Rec DEF Create, Issuing
  <1>3. t \in Tokens /\ tok[t].st = "none"
    BY Zenon, <1>1, <1>2 DEF RecOK
  <1>4. PICK q : q = [NoToken EXCEPT !.st = "live", !.role = role, !.labels = labels]
    BY Zenon
  <1>5. /\ tok' = [tok EXCEPT ![t] = q] /\ insertAuditOnce(t, "ISSUED") /\ Leave(x)
        /\ UNCHANGED <<reg, regAudits, told, lop, node, given, done>>
    BY Zenon, <1>1, <1>4 DEF Create, registration
  <1>6. q = [st |-> "live", role |-> role, labels |-> labels, claim |-> None, node |-> None]
    BY Zenon, <1>4 DEF NoToken
  <1>7. q \in TokType
    BY Zenon, <1>6 DEF TokType
  <1>8. q.st = "live" /\ q.claim = None /\ q.node = None
    BY <1>6
  <1>9. tok \in [Tokens -> TokType]
    BY Zenon, Facts
  <1>10. tok' \in [Tokens -> TokType] /\ tok'[t] = q /\ (\A u \in Tokens : u # t => tok'[u] = tok[u])
    BY <1>3, <1>5, <1>7, <1>9
  <1>11. /\ audits' \in [Tokens -> AuditType] /\ (\A u \in Tokens : u # t => audits'[u] = audits[u])
         /\ audits'[t].ISSUED = (IF audits[t].ISSUED = 0 THEN 1 ELSE audits[t].ISSUED)
         /\ audits'[t].CLAIMED = audits[t].CLAIMED /\ audits'[t].COMPLETED = audits[t].COMPLETED
    BY Zenon, <1>3, <1>5, IssuedOnce
  <1>12. TabsTyped'
    BY Zenon, <1>5, <1>10, <1>11, Facts DEF TabsTyped
  <1>13. Advance
    BY Zenon, <1>3, <1>5, <1>10 DEF Advance, Admits
  <1>14. ASSUME NEW y \in Sessions, y # x, Issuing(sess[y]) PROVE tok'[sess[y].tok].st = "none"
    <2>1. sess[y].tok \in Tokens /\ tok[sess[y].tok].st = "none" /\ sess[y].tok # t
      BY Zenon, <1>1, <1>14, Rec, Facts DEF RecOK, Alone
    <2> QED
      BY Zenon, <2>1, <1>10
  <1>15. TokOK(t)'
    <2>1. TokOK(t)
      BY Zenon, <1>3, Facts
    <2>2. tok[t].claim = None /\ tok[t].node = None /\ lop[t].st = "none" /\ done[t] = None
      BY Zenon, <2>1, <1>3 DEF TokOK
    <2>3. audits[t].ISSUED = 0 /\ audits[t].CLAIMED = 0 /\ audits[t].COMPLETED = 0 /\ given[t] \subseteq {None}
      BY <2>1, <2>2, <1>3 DEF TokOK
    <2>4. /\ audits'[t].ISSUED = 1 /\ audits'[t].CLAIMED = 0 /\ audits'[t].COMPLETED = 0
          /\ tok'[t].st = "live" /\ tok'[t].claim = None /\ tok'[t].node = None
          /\ lop'[t].st = "none" /\ done'[t] = None /\ given'[t] \subseteq {None}
      BY <2>2, <2>3, <1>5, <1>8, <1>10, <1>11
    <2> QED
      BY <2>4 DEF TokOK
  <1>16. ASSUME NEW u \in Tokens PROVE TokOK(u)'
    <2>1. CASE u # t
      BY Zenon, <2>1, <1>5, <1>10, <1>11, OtherTokens
    <2> QED
      BY Zenon, <2>1, <1>15
  <1>17. RegOK'
    BY Zenon, <1>5, RegKept
  <1> QED
    BY Zenon, <1>5, <1>12, <1>13, <1>14, <1>16, <1>17, LeaveStep

LEMMA ConsumeStep ==
    ASSUME IInv, NEW x \in Sessions, Consume(x)
    PROVE  IInv'
  <1>1. PICK t, c : t = sess[x].tok /\ c = sess[x].claim
    OBVIOUS
  <1>2. Using(sess[x]) /\ RecOK(sess[x])
    BY Zenon, Rec DEF Consume, Using
  <1>3. t \in Tokens /\ c \in ClaimIds
    BY Zenon, <1>1, <1>2 DEF RecOK
  <1>4. PICK q : q = [tok[t] EXCEPT !.claim = c]
    BY Zenon
  <1>5. /\ tok' = [tok EXCEPT ![t] = q] /\ insertAuditOnce(t, "CLAIMED") /\ Leave(x)
        /\ UNCHANGED <<reg, regAudits, told, lop, node, done>>
    BY Zenon, <1>1, <1>4 DEF Consume, registration
  <1>6. tok[t].st = "live" /\ tok[t].claim \in {None, c} /\ given' = [given EXCEPT ![t] = @ \cup {c}]
    BY Zenon, <1>1 DEF Consume
  <1>7. tok[t] \in TokType /\ TokOK(t) /\ given \in [Tokens -> SUBSET ClaimIds]
    BY Zenon, <1>3, Facts
  <1>8. /\ q \in TokType /\ q.st = "live" /\ q.claim = c /\ q.node = tok[t].node /\ q.labels = tok[t].labels
    BY <1>3, <1>4, <1>6, <1>7 DEF TokType
  <1>9. tok[t].st # "none" /\ q.st # "none"
    BY <1>6, <1>8
  <1>10. /\ tok' \in [Tokens -> TokType] /\ tok'[t] = q /\ (\A u \in Tokens : u # t => tok'[u] = tok[u])
         /\ Advance /\ (\A y \in Sessions : Issuing(sess[y]) => tok'[sess[y].tok].st = "none")
    BY Zenon, <1>3, <1>5, <1>8, <1>9, RowStep
  <1>11. /\ audits' \in [Tokens -> AuditType] /\ (\A u \in Tokens : u # t => audits'[u] = audits[u])
         /\ audits'[t].CLAIMED = (IF audits[t].CLAIMED = 0 THEN 1 ELSE audits[t].CLAIMED)
         /\ audits'[t].ISSUED = audits[t].ISSUED /\ audits'[t].COMPLETED = audits[t].COMPLETED
    BY Zenon, <1>3, <1>5, ClaimedOnce
  <1>12. /\ given' \in [Tokens -> SUBSET ClaimIds] /\ given'[t] = given[t] \cup {c}
         /\ \A u \in Tokens : u # t => given'[u] = given[u]
    BY <1>3, <1>6, <1>7
  <1>13. TabsTyped'
    BY Zenon, <1>5, <1>10, <1>11, <1>12, Facts DEF TabsTyped
  <1>14. c # None /\ None \notin ClaimIds
    BY <1>3, BootstrapAssumption
  <1>15. TokOK(t)'
    <2>1. given'[t] \subseteq {c}
      <3>1. given[t] \subseteq {tok[t].claim} /\ given[t] \subseteq ClaimIds
        BY Zenon, <1>3, <1>7 DEF TokOK
      <3> QED
        BY <3>1, <1>6, <1>12, <1>14
    <2>2. audits'[t].CLAIMED = 1 /\ audits'[t].ISSUED = 1
      <3>1. /\ audits[t].CLAIMED = IF tok[t].claim = None THEN 0 ELSE 1
            /\ audits[t].ISSUED = IF tok[t].st = "none" THEN 0 ELSE 1
        BY Zenon, <1>7 DEF TokOK
      <3> QED
        BY <3>1, <1>9, <1>11
    <2>3. /\ tok'[t].st # "none" /\ tok'[t].claim = c /\ tok'[t].node = tok[t].node /\ tok'[t].labels = tok[t].labels
          /\ lop' = lop /\ done' = done /\ audits'[t].COMPLETED = audits[t].COMPLETED
      BY Zenon, <1>5, <1>8, <1>9, <1>10, <1>11
    <2> QED
      BY Zenon, <2>1, <2>2, <2>3, <1>7, <1>14 DEF TokOK
  <1>16. ASSUME NEW u \in Tokens PROVE TokOK(u)'
    <2>1. CASE u # t
      BY Zenon, <2>1, <1>5, <1>10, <1>11, <1>12, OtherTokens
    <2> QED
      BY Zenon, <2>1, <1>15
  <1>17. RegOK'
    BY Zenon, <1>5, RegKept
  <1> QED
    BY Zenon, <1>5, <1>10, <1>13, <1>16, <1>17, LeaveStep

LEMMA BindStep ==
    ASSUME IInv, NEW x \in Sessions, bindCompletionNode(x)
    PROVE  IInv'
  <1>1. PICK t, n : t = sess[x].tok /\ n = sess[x].node
    OBVIOUS
  <1>2. sess[x].pc = "bind" /\ RecOK(sess[x]) /\ sess[x] \in SessType
    BY Zenon, Rec DEF bindCompletionNode
  <1>3. Completing(sess[x]) /\ Using(sess[x])
    BY <1>2 DEF Completing, Using
  <1>4. t \in Tokens /\ n \in Nodes /\ sess[x].claim \in ClaimIds /\ (tok[t].labels \/ sess[x].fit)
    BY Zenon, <1>1, <1>2, <1>3 DEF RecOK
  <1>5. PICK q : q = [tok[t] EXCEPT !.node = n]
    BY Zenon
  <1>6. /\ tok' = [tok EXCEPT ![t] = q] /\ tok[t].st = "live" /\ tok[t].node \in {None, n}
        /\ UNCHANGED <<reg, regAudits, told, audits, given, done, lop, node>>
    BY Zenon, <1>1, <1>5 DEF bindCompletionNode, registration
  <1>7. PICK pc : pc = IF tok[t].labels THEN "labels" ELSE "record"
    OBVIOUS
  <1>8. PICK r : r = [sess[x] EXCEPT !.pc = pc, !.by = None]
    OBVIOUS
  <1>9. sess' = [sess EXCEPT ![x] = r]
    BY Zenon, <1>1, <1>7, <1>8 DEF bindCompletionNode
  <1>10. pc \in {"labels", "record"} /\ (pc = "record" => ~tok[t].labels)
    BY Zenon, <1>7
  <1>11. /\ r \in SessType /\ r.pc = pc /\ r.tok = t /\ r.node = n /\ r.claim = sess[x].claim
    BY Zenon, <1>1, <1>2, <1>8, <1>10 DEF SessType, Steps
  <1>12. r.fit = sess[x].fit
    BY Zenon, <1>2, <1>8 DEF SessType
  <1>13. tok[t] \in TokType /\ TokOK(t)
    BY Zenon, <1>4, Facts
  <1>14. q \in TokType /\ q.st = "live" /\ q.node = n /\ q.claim = tok[t].claim
    BY <1>4, <1>5, <1>6, <1>13 DEF TokType
  <1>15. q.labels = tok[t].labels
    BY Zenon, <1>5, <1>13 DEF TokType
  <1>16. tok[t].st # "none" /\ q.st # "none" /\ (tok[t].node # None => q.node = tok[t].node) /\ n # None
    BY <1>4, <1>6, <1>14, BootstrapAssumption
  <1>17. /\ tok' \in [Tokens -> TokType] /\ tok'[t] = q /\ (\A u \in Tokens : u # t => tok'[u] = tok[u])
         /\ Advance /\ (\A y \in Sessions : Issuing(sess[y]) => tok'[sess[y].tok].st = "none")
    BY Zenon, <1>4, <1>6, <1>14, <1>15, <1>16, RowStep
  <1>18. TabsTyped'
    BY Zenon, <1>6, <1>17, Facts DEF TabsTyped
  <1>19. TokOK(t)'
    <2>1. /\ tok'[t].st # "none" /\ tok'[t].claim = tok[t].claim /\ tok'[t].node = n /\ tok'[t].labels = tok[t].labels
      BY Zenon, <1>14, <1>15, <1>16, <1>17
    <2>2. (lop[t].st # "none" => lop[t].at = n) /\ (done[t] # None => done[t] = n)
      BY Zenon, <1>13, <1>14, <1>16 DEF TokOK
    <2> QED
      BY Zenon, <2>1, <2>2, <1>6, <1>13, <1>16 DEF TokOK
  <1>20. ASSUME NEW u \in Tokens PROVE TokOK(u)'
    <2>1. CASE u # t
      BY Zenon, <2>1, <1>6, <1>17, OtherTokens
    <2> QED
      BY Zenon, <2>1, <1>19
  <1>21. RecOK(r)' /\ ~Issuing(r)
    <2>1. r.pc \in Bound /\ r.pc \notin {"identity", "insert", "create", "consume", "inspect", "bind", "assert", "verify"}
      BY <1>10, <1>11 DEF Bound
    <2>2. ~Issuing(r)
      BY Zenon, <2>1 DEF Issuing
    <2>3. r.tok \in Tokens /\ r.claim \in ClaimIds /\ r.node \in Nodes /\ tok'[r.tok].st # "none" /\ tok'[r.tok].node = r.node
      BY Zenon, <1>4, <1>11, <1>14, <1>16, <1>17
    <2>4. r.pc = "record" => r.fit /\ ~tok'[r.tok].labels
      BY Zenon, <1>4, <1>10, <1>11, <1>12, <1>15, <1>17
    <2> QED
      BY Zenon, <2>1, <2>2, <2>3, <2>4 DEF RecOK
  <1>22. \A y \in Sessions : y # x /\ (Issuing(r) \/ Issuing(sess[y])) => sess[y].tok # r.tok
    BY Zenon, <1>1, <1>11, <1>21, StaysApart
  <1>23. RegOK'
    BY Zenon, <1>6, RegKept
  <1> QED
    BY Zenon, <1>9, <1>11, <1>17, <1>18, <1>20, <1>21, <1>22, <1>23, OneStep

\* A completion request that goes on to r, and writes nothing.
LEMMA GoOnStep ==
    ASSUME IInv, NEW x \in Sessions, NEW r \in SessType, sess' = [sess EXCEPT ![x] = r],
           UNCHANGED <<registration, tokens, lop, node>>, Completing(sess[x]),
           r.tok = sess[x].tok, r.claim = sess[x].claim, r.node = sess[x].node, r.pc \in {"bind"} \cup Bound,
           r.pc = "bind" => Admits(r.by) /\ (tok[r.tok].labels \/ r.fit),
           r.pc \in Bound => tok[r.tok].node = r.node,
           r.pc = "verify" => lop[r.tok].st = "SUCCESS",
           r.pc = "record" => r.fit /\ (tok[r.tok].labels => lop[r.tok].st = "SUCCESS")
    PROVE  IInv'
  <1>1. r.tok \in Tokens /\ r.claim \in ClaimIds /\ r.node \in Nodes /\ tok[r.tok].st # "none"
    BY Zenon, Rec DEF RecOK, Using
  <1>2. r.pc \notin {"identity", "insert", "assert", "create", "consume", "inspect"}
    BY DEF Bound
  <1>3. ~Issuing(r)
    BY Zenon, <1>2 DEF Issuing
  <1>4. RecOK(r)
    BY Zenon, <1>1, <1>2, <1>3 DEF RecOK
  <1>5. \A y \in Sessions : y # x /\ (Issuing(r) \/ Issuing(sess[y])) => sess[y].tok # r.tok
    BY Zenon, <1>3, StaysApart
  <1> QED
    BY Zenon, <1>4, <1>5, SessStep

LEMMA InspectNodeStep ==
    ASSUME IInv, NEW x \in Sessions, InspectNode(x)
    PROVE  IInv'
  <1>1. PICK t, n, v, f : t = sess[x].tok /\ n = sess[x].node /\ v = node[n].ver /\ f = InScope(t, n, node)
    OBVIOUS
  <1>2. sess[x].pc = "inspect" /\ RecOK(sess[x]) /\ sess[x] \in SessType
    BY Zenon, Rec DEF InspectNode
  <1>3. Completing(sess[x])
    BY <1>2 DEF Completing
  <1>4. t \in Tokens /\ n \in Nodes /\ Admits(sess[x].by)
    BY Zenon, <1>1, <1>2, <1>3 DEF RecOK, Using
  <1>5. node[n] \in NodeType
    BY Zenon, <1>4, Facts
  <1>6. v \in Nat /\ f \in BOOLEAN
    BY <1>1, <1>5 DEF NodeType, InScope
  <1>7. PICK r : r = [sess[x] EXCEPT !.pc = "bind", !.ver = v, !.fit = f]
    OBVIOUS
  <1>8. sess' = [sess EXCEPT ![x] = r] /\ UNCHANGED <<registration, tokens, lop, node>>
    BY Zenon, <1>1, <1>7 DEF InspectNode
  <1>9. /\ r \in SessType /\ r.pc = "bind" /\ r.fit = f /\ r.tok = t /\ r.node = n /\ r.claim = sess[x].claim
        /\ r.by = sess[x].by
    <2>1. "bind" \in Steps
      BY DEF Steps
    <2>2. r \in SessType
      BY Zenon, <2>1, <1>2, <1>6, <1>7 DEF SessType
    <2> QED
      BY Zenon, <2>2, <1>1, <1>2, <1>7 DEF SessType
  <1>10. tok[t].labels \/ f
    BY Zenon, <1>1 DEF InspectNode, assertNodeMatchesBootstrapScope, InScope
  <1>11. r.pc \notin Bound
    BY <1>9 DEF Bound
  <1>12. r.pc # "verify" /\ r.pc # "record" /\ r.pc \in {"bind"} \cup Bound
    BY <1>9
  <1> QED
    BY Zenon, <1>1, <1>3, <1>4, <1>8, <1>9, <1>10, <1>11, <1>12, GoOnStep

LEMMA ReadLabellingStep ==
    ASSUME IInv, NEW x \in Sessions, ReadLabelling(x)
    PROVE  IInv'
  <1>1. PICK t, v : t = sess[x].tok /\ v = IF lop[t].st = "none" THEN sess[x].ver ELSE lop[t].ver
    OBVIOUS
  <1>2. sess[x].pc = "labels" /\ RecOK(sess[x]) /\ sess[x] \in SessType
    BY Zenon, Rec DEF ReadLabelling
  <1>3. Completing(sess[x]) /\ sess[x].pc \in Bound
    BY <1>2 DEF Completing, Bound
  <1>4. t \in Tokens /\ tok[t].node = sess[x].node
    BY Zenon, <1>1, <1>2, <1>3 DEF RecOK, Using
  <1>5. lop[t] \in LopType
    BY Zenon, <1>4, Facts
  <1>6. v \in Nat
    BY <1>1, <1>2, <1>5 DEF LopType, SessType
  <1>7. PICK r : r = [sess[x] EXCEPT !.pc = "labelling", !.ver = v]
    OBVIOUS
  <1>8. sess' = [sess EXCEPT ![x] = r] /\ UNCHANGED <<registration, tokens, lop, node>>
    BY Zenon, <1>1, <1>7 DEF ReadLabelling
  <1>9. r \in SessType /\ r.pc = "labelling" /\ r.tok = t /\ r.node = sess[x].node /\ r.claim = sess[x].claim
    <2>1. "labelling" \in Steps
      BY DEF Steps
    <2>2. r \in SessType
      BY Zenon, <2>1, <1>2, <1>6, <1>7 DEF SessType
    <2> QED
      BY Zenon, <2>2, <1>1, <1>2, <1>7 DEF SessType
  <1>10. r.pc # "verify" /\ r.pc # "record" /\ r.pc # "bind" /\ r.pc \in {"bind"} \cup Bound
    BY <1>9 DEF Bound
  <1> QED
    BY Zenon, <1>1, <1>3, <1>4, <1>8, <1>9, <1>10, GoOnStep

LEMMA LabelledStep ==
    ASSUME IInv, NEW x \in Sessions, Labelled(x)
    PROVE  IInv'
  <1>1. PICK t : t = sess[x].tok
    OBVIOUS
  <1>2. sess[x].pc = "labelling" /\ RecOK(sess[x]) /\ sess[x] \in SessType /\ lop[t].st = "SUCCESS"
    BY Zenon, <1>1, Rec DEF Labelled
  <1>3. Completing(sess[x]) /\ sess[x].pc \in Bound
    BY <1>2 DEF Completing, Bound
  <1>4. tok[t].node = sess[x].node
    BY Zenon, <1>1, <1>2, <1>3 DEF RecOK
  <1>5. PICK r : r = [sess[x] EXCEPT !.pc = "verify", !.ver = 0]
    OBVIOUS
  <1>6. sess' = [sess EXCEPT ![x] = r] /\ UNCHANGED <<registration, tokens, lop, node>>
    BY Zenon, <1>5 DEF Labelled
  <1>7. r \in SessType /\ r.pc = "verify" /\ r.tok = t /\ r.node = sess[x].node /\ r.claim = sess[x].claim
    BY Zenon, <1>1, <1>2, <1>5 DEF SessType, Steps
  <1>8. r.pc # "record" /\ r.pc # "bind" /\ r.pc \in {"bind"} \cup Bound
    BY <1>7 DEF Bound
  <1> QED
    BY Zenon, <1>1, <1>2, <1>3, <1>4, <1>6, <1>7, <1>8, GoOnStep

LEMMA VerifyLabelsStep ==
    ASSUME IInv, NEW x \in Sessions, VerifyLabels(x)
    PROVE  IInv'
  <1>1. PICK t : t = sess[x].tok
    OBVIOUS
  <1>2. sess[x].pc = "verify" /\ RecOK(sess[x]) /\ sess[x] \in SessType
    BY Zenon, Rec DEF VerifyLabels
  <1>3. Completing(sess[x]) /\ sess[x].pc \in Bound
    BY <1>2 DEF Completing, Bound
  <1>4. tok[t].node = sess[x].node /\ lop[t].st = "SUCCESS"
    BY Zenon, <1>1, <1>2, <1>3 DEF RecOK
  <1>5. PICK r : r = [sess[x] EXCEPT !.pc = "record", !.fit = TRUE]
    OBVIOUS
  <1>6. sess' = [sess EXCEPT ![x] = r] /\ UNCHANGED <<registration, tokens, lop, node>>
    BY Zenon, <1>5 DEF VerifyLabels
  <1>7. /\ r \in SessType /\ r.pc = "record" /\ r.tok = t /\ r.node = sess[x].node /\ r.claim = sess[x].claim
        /\ r.fit = TRUE
    BY Zenon, <1>1, <1>2, <1>5 DEF SessType, Steps
  <1>8. r.pc # "verify" /\ r.pc # "bind" /\ r.pc \in {"bind"} \cup Bound
    BY <1>7 DEF Bound
  <1> QED
    BY Zenon, <1>1, <1>3, <1>4, <1>6, <1>7, <1>8, GoOnStep

LEMMA RecordStep ==
    ASSUME IInv, NEW x \in Sessions, recordCompletionAudit(x)
    PROVE  IInv'
  <1>1. PICK t, n : t = sess[x].tok /\ n = sess[x].node
    OBVIOUS
  <1>2. sess[x].pc = "record" /\ RecOK(sess[x])
    BY Zenon, Rec DEF recordCompletionAudit
  <1>3. Completing(sess[x])
    BY <1>2 DEF Completing, Bound
  <1>4. t \in Tokens /\ n \in Nodes /\ tok[t].st # "none" /\ (tok[t].labels => lop[t].st = "SUCCESS")
    BY Zenon, <1>1, <1>2, <1>3 DEF RecOK, Using
  <1>5. /\ insertAuditOnce(t, "COMPLETED") /\ Leave(x) /\ tok[t].node = n
        /\ UNCHANGED <<reg, regAudits, told, tok, given, lop, node>>
    BY Zenon, <1>1 DEF recordCompletionAudit, registration
  <1>6. PICK d : d = IF audits[t].COMPLETED = 0 THEN n ELSE done[t]
    OBVIOUS
  <1>7. done' = [done EXCEPT ![t] = d]
    BY <1>1, <1>6 DEF recordCompletionAudit
  <1>8. TokOK(t) /\ done \in [Tokens -> Nodes \cup {None}]
    BY Zenon, <1>4, Facts
  <1>9. n # None
    BY <1>4, BootstrapAssumption
  <1>10. d = n
    <2>1. audits[t].COMPLETED = IF done[t] = None THEN 0 ELSE 1
      BY Zenon, <1>8 DEF TokOK
    <2>2. done[t] # None => done[t] = n
      BY Zenon, <1>5, <1>8 DEF TokOK
    <2> QED
      BY <2>1, <2>2, <1>6
  <1>11. done' \in [Tokens -> Nodes \cup {None}] /\ done'[t] = n /\ (\A u \in Tokens : u # t => done'[u] = done[u])
    BY <1>4, <1>7, <1>8, <1>10
  <1>12. /\ audits' \in [Tokens -> AuditType] /\ (\A u \in Tokens : u # t => audits'[u] = audits[u])
         /\ audits'[t].COMPLETED = (IF audits[t].COMPLETED = 0 THEN 1 ELSE audits[t].COMPLETED)
         /\ audits'[t].ISSUED = audits[t].ISSUED /\ audits'[t].CLAIMED = audits[t].CLAIMED
    BY Zenon, <1>4, <1>5, CompletedOnce
  <1>13. TabsTyped'
    BY Zenon, <1>5, <1>11, <1>12, Facts DEF TabsTyped
  <1>14. TokOK(t)'
    <2>1. audits'[t].COMPLETED = 1
      <3>1. audits[t].COMPLETED = IF done[t] = None THEN 0 ELSE 1
        BY Zenon, <1>8 DEF TokOK
      <3> QED
        BY <3>1, <1>12
    <2> QED
      BY Zenon, <2>1, <1>4, <1>5, <1>8, <1>9, <1>11, <1>12 DEF TokOK
  <1>15. ASSUME NEW u \in Tokens PROVE TokOK(u)'
    <2>1. CASE u # t
      BY Zenon, <2>1, <1>5, <1>11, <1>12, OtherTokens
    <2> QED
      BY Zenon, <2>1, <1>14
  <1>16. RegOK'
    BY Zenon, <1>5, RegKept
  <1>17. Advance
    BY Zenon, <1>5 DEF Advance, Admits
  <1>18. \A y \in Sessions : y # x /\ Issuing(sess[y]) => tok'[sess[y].tok].st = "none"
    BY Zenon, <1>5, Rec DEF RecOK
  <1> QED
    BY Zenon, <1>5, <1>13, <1>15, <1>16, <1>17, <1>18, LeaveStep

-----------------------------------------------------------------------------
(* Steps beside the requests *)

\* All that a request may notice is that its node is fit.
LEMMA FitRec ==
    ASSUME NEW s \in SessType, NEW f \in BOOLEAN, s.fit => f, NEW r, r = [s EXCEPT !.fit = f], RecOK(s)
    PROVE  r \in SessType /\ r.tok = s.tok /\ (Issuing(r) <=> Issuing(s)) /\ RecOK(r)
  <1>1. /\ r \in SessType /\ r.pc = s.pc /\ r.kind = s.kind /\ r.by = s.by /\ r.want = s.want /\ r.tok = s.tok
        /\ r.claim = s.claim /\ r.node = s.node
    BY DEF SessType
  <1>2. s.fit => r.fit
    BY Zenon DEF SessType
  <1>3. (Issuing(r) <=> Issuing(s)) /\ (Using(r) <=> Using(s)) /\ (Completing(r) <=> Completing(s))
    BY Zenon, <1>1 DEF Issuing, Using, Completing
  <1> QED
    BY Zenon, <1>1, <1>2, <1>3 DEF RecOK

LEMMA FitStep ==
    ASSUME IInv, Advance, TabsTyped', RegOK', \A t \in Tokens : TokOK(t)', sess' \in [Sessions -> SessType],
           \A y \in Sessions : Issuing(sess[y]) => tok'[sess[y].tok].st = "none",
           \A y \in Sessions : \/ sess'[y] = sess[y]
                               \/ \E f \in BOOLEAN : (sess[y].fit => f) /\ sess'[y] = [sess[y] EXCEPT !.fit = f]
    PROVE  IInv'
  <1>1. ASSUME NEW y \in Sessions
        PROVE  /\ sess'[y] \in SessType /\ sess'[y].tok = sess[y].tok /\ (Issuing(sess'[y]) <=> Issuing(sess[y]))
               /\ RecOK(sess'[y])
    <2>1. sess[y] \in SessType /\ RecOK(sess[y])
      BY Zenon, Rec
    <2> QED
      BY Zenon, <2>1, FitRec
  <1>2. ASSUME NEW y \in Sessions PROVE SessOK(y)'
    <2>1. PICK s : s = sess'[y]
      OBVIOUS
    <2>2. RecOK(s) /\ (Issuing(s) => tok'[s.tok].st = "none")
      BY Zenon, <2>1, <1>1
    <2>3. RecOK(s)'
      BY Zenon, <2>2, RecKept
    <2> QED
      BY Zenon, <2>1, <2>3 DEF SessOK
  <1>4. Alone'
    <2>1. ASSUME NEW y \in Sessions, NEW z \in Sessions, y # z, NEW s, s = sess'[y], Issuing(s) PROVE sess'[z].tok # s.tok
      <3>1. Issuing(sess[y]) /\ s.tok = sess[y].tok /\ sess'[z].tok = sess[z].tok
        BY Zenon, <2>1, <1>1
      <3>2. sess[z].tok # sess[y].tok
        BY Zenon, <2>1, <3>1, Facts DEF Alone
      <3> QED
        BY Zenon, <3>1, <3>2
    <2> QED
      BY SMT, <2>1 DEF Alone, Issuing
  <1> QED
    BY Zenon, <1>2, <1>4 DEF IInv

\* The same when no request changes.
LEMMA StillStep ==
    ASSUME IInv, sess' = sess, Advance, TabsTyped', RegOK', \A t \in Tokens : TokOK(t)',
           \A y \in Sessions : Issuing(sess[y]) => tok'[sess[y].tok].st = "none"
    PROVE  IInv'
  <1>1. sess' \in [Sessions -> SessType]
    BY Zenon, Facts
  <1> QED
    BY Zenon, <1>1, FitStep

LEMMA ExpireStep ==
    ASSUME IInv, NEW t \in Tokens, Expire(t)
    PROVE  IInv'
  <1>1. PICK q : q = [tok[t] EXCEPT !.st = "expired"]
    BY Zenon
  <1>2. /\ tok' = [tok EXCEPT ![t] = q] /\ tok[t].st = "live"
        /\ UNCHANGED <<reg, regAudits, told, audits, given, done, lop, node, sess>>
    BY Zenon, <1>1 DEF Expire, registration
  <1>3. tok[t] \in TokType /\ TokOK(t)
    BY Zenon, Facts
  <1>4. q \in TokType /\ q.st = "expired" /\ q.claim = tok[t].claim /\ q.node = tok[t].node
    BY <1>1, <1>3 DEF TokType
  <1>5. q.labels = tok[t].labels
    BY Zenon, <1>1, <1>3 DEF TokType
  <1>6. tok[t].st # "none" /\ q.st # "none"
    BY <1>2, <1>4
  <1>7. /\ tok' \in [Tokens -> TokType] /\ tok'[t] = q /\ (\A u \in Tokens : u # t => tok'[u] = tok[u])
        /\ Advance /\ (\A y \in Sessions : Issuing(sess[y]) => tok'[sess[y].tok].st = "none")
    BY Zenon, <1>2, <1>4, <1>5, <1>6, RowStep
  <1>8. TabsTyped'
    BY Zenon, <1>2, <1>7, Facts DEF TabsTyped
  <1>9. TokOK(t)'
    BY Zenon, <1>2, <1>3, <1>4, <1>5, <1>6, <1>7 DEF TokOK
  <1>10. ASSUME NEW u \in Tokens PROVE TokOK(u)'
    <2>1. CASE u # t
      BY Zenon, <2>1, <1>2, <1>7, OtherTokens
    <2> QED
      BY Zenon, <2>1, <1>9
  <1>11. RegOK'
    BY Zenon, <1>2, RegKept
  <1> QED
    BY Zenon, <1>2, <1>7, <1>8, <1>10, <1>11, StillStep

\* The LABELS operation of a token changes.
LEMMA LopStep ==
    ASSUME IInv, NEW t \in Tokens, NEW l \in LopType, lop' = [lop EXCEPT ![t] = l],
           UNCHANGED <<registration, tokens>>, node' \in [Nodes -> NodeType],
           lop[t].st # "SUCCESS", l.at = tok[t].node, l.at # None
    PROVE  /\ Advance /\ TabsTyped' /\ RegOK' /\ (\A u \in Tokens : TokOK(u)')
           /\ \A y \in Sessions : Issuing(sess[y]) => tok'[sess[y].tok].st = "none"
  <1>1. UNCHANGED <<reg, regAudits, told, tok, audits, given, done>>
    BY Zenon DEF registration, tokens
  <1>2. lop \in [Tokens -> LopType] /\ TokOK(t)
    BY Zenon, Facts
  <1>3. lop' \in [Tokens -> LopType] /\ lop'[t] = l /\ (\A u \in Tokens : u # t => lop'[u] = lop[u])
    BY <1>2
  <1>4. Advance
    BY Zenon, <1>1, <1>3 DEF Advance, Admits
  <1>5. TabsTyped'
    BY Zenon, <1>1, <1>3, Facts DEF TabsTyped
  <1>6. TokOK(t)'
    BY Zenon, <1>1, <1>2, <1>3 DEF TokOK
  <1>7. ASSUME NEW u \in Tokens PROVE TokOK(u)'
    <2>1. CASE u # t
      BY Zenon, <2>1, <1>1, <1>3, OtherTokens
    <2> QED
      BY Zenon, <2>1, <1>6
  <1>8. RegOK'
    BY Zenon, <1>1, RegKept
  <1>9. \A y \in Sessions : Issuing(sess[y]) => tok'[sess[y].tok].st = "none"
    BY Zenon, <1>1, Rec DEF RecOK
  <1> QED
    BY Zenon, <1>4, <1>5, <1>7, <1>8, <1>9

LEMMA LabelIntentStep ==
    ASSUME IInv, NEW x \in Sessions, LabelIntent(x)
    PROVE  IInv'
  <1>1. PICK t, n, v : t = sess[x].tok /\ n = sess[x].node /\ v = sess[x].ver
    OBVIOUS
  <1>2. sess[x].pc = "labelling" /\ RecOK(sess[x]) /\ sess[x] \in SessType
    BY Zenon, Rec DEF LabelIntent
  <1>3. Completing(sess[x]) /\ sess[x].pc \in Bound
    BY <1>2 DEF Completing, Bound
  <1>4. t \in Tokens /\ n \in Nodes /\ tok[t].node = n
    BY Zenon, <1>1, <1>2, <1>3 DEF RecOK, Using
  <1>5. v \in Nat
    BY <1>1, <1>2 DEF SessType
  <1>6. PICK l : l = [st |-> "open", at |-> n, ver |-> v]
    BY Zenon
  <1>7. /\ lop' = [lop EXCEPT ![t] = l] /\ lop[t].st = "none" /\ node' = node /\ sess' = sess
        /\ UNCHANGED <<registration, tokens>>
    BY Zenon, <1>1, <1>6 DEF LabelIntent
  <1>8. l \in LopType /\ l.at = n
    BY <1>4, <1>5, <1>6 DEF LopType
  <1>9. n # None /\ lop[t].st # "SUCCESS"
    BY <1>4, <1>7, BootstrapAssumption
  <1>10. node' \in [Nodes -> NodeType]
    BY Zenon, <1>7, Facts
  <1> QED
    BY Zenon, <1>4, <1>7, <1>8, <1>9, <1>10, LopStep, StillStep

LEMMA LabelEndsStep ==
    ASSUME IInv, NEW t \in Tokens, LabelEnds(t)
    PROVE  IInv'
  <1>1. PICK st \in {"SUCCESS", "FAILED"} : lop' = [lop EXCEPT ![t].st = st] /\ lop[t].st \in {"open", "applied"}
    BY DEF LabelEnds
  <1>2. PICK l : l = [lop[t] EXCEPT !.st = st]
    BY Zenon
  <1>3. /\ lop' = [lop EXCEPT ![t] = l] /\ node' = node /\ sess' = sess /\ UNCHANGED <<registration, tokens>>
    BY Zenon, <1>1, <1>2 DEF LabelEnds
  <1>4. lop[t] \in LopType /\ TokOK(t)
    BY Zenon, Facts
  <1>5. l \in LopType /\ l.at = lop[t].at
    BY <1>1, <1>2, <1>4 DEF LopType
  <1>6. lop[t].st # "none" /\ lop[t].st # "SUCCESS"
    BY <1>1
  <1>7. l.at = tok[t].node /\ l.at # None
    BY Zenon, <1>4, <1>5, <1>6 DEF TokOK
  <1>8. node' \in [Nodes -> NodeType]
    BY Zenon, <1>3, Facts
  <1> QED
    BY Zenon, <1>3, <1>5, <1>6, <1>7, <1>8, LopStep, StillStep

\* A change of node n is noted by the requests that complete with it.
LEMMA NotedFacts ==
    ASSUME IInv, NEW n \in Nodes, NEW w \in [Nodes -> NodeType], Noted(n, w)
    PROVE  /\ sess' \in [Sessions -> SessType]
           /\ \A y \in Sessions : \/ sess'[y] = sess[y]
                                  \/ \E f \in BOOLEAN : (sess[y].fit => f) /\ sess'[y] = [sess[y] EXCEPT !.fit = f]
  <1>1. ASSUME NEW y \in Sessions
        PROVE  /\ sess'[y] \in SessType
               /\ \/ sess'[y] = sess[y]
                  \/ \E f \in BOOLEAN : (sess[y].fit => f) /\ sess'[y] = [sess[y] EXCEPT !.fit = f]
    <2>1. sess[y] \in SessType
      BY Zenon, Rec
    <2>2. PICK f : f = (sess[y].fit \/ InScope(sess[y].tok, n, w))
      OBVIOUS
    <2>3. f \in BOOLEAN /\ (sess[y].fit => f)
      BY Zenon, <2>2
    <2>4. sess'[y] = sess[y] \/ sess'[y] = [sess[y] EXCEPT !.fit = f]
      BY Zenon, <2>2 DEF Noted
    <2>5. [sess[y] EXCEPT !.fit = f] \in SessType
      BY <2>1, <2>3 DEF SessType
    <2> QED
      BY Zenon, <2>1, <2>3, <2>4, <2>5
  <1>2. sess' = [y \in Sessions |-> sess'[y]]
    BY Zenon DEF Noted
  <1>3. sess' \in [Sessions -> SessType]
    BY Zenon, <1>1, <1>2
  <1> QED
    BY Zenon, <1>1, <1>3

LEMMA NodeUpdateStep ==
    ASSUME IInv, NEW t \in Tokens, NodeUpdate(t)
    PROVE  IInv'
  <1>1. PICK n : n = lop[t].at
    OBVIOUS
  <1>2. lop[t] \in LopType /\ TokOK(t) /\ tok[t] \in TokType /\ node \in [Nodes -> NodeType]
    BY Zenon, Facts
  <1>3. lop[t].st = "open" /\ UNCHANGED <<registration, tokens>>
    BY Zenon DEF NodeUpdate
  <1>4. lop[t].st # "none" /\ lop[t].st # "SUCCESS"
    BY <1>3
  <1>5. n = tok[t].node /\ n # None
    BY Zenon, <1>1, <1>2, <1>4 DEF TokOK
  <1>6. n \in Nodes
    BY <1>2, <1>5 DEF TokType
  <1>7. PICK m : m = [node[n] EXCEPT !.ver = @ + 1, !.label = TRUE]
    OBVIOUS
  <1>8. node' = [node EXCEPT ![n] = m] /\ Noted(n, node')
    BY Zenon, <1>1, <1>2, <1>6, <1>7 DEF NodeUpdate, NodeType
  <1>9. node[n] \in NodeType
    BY Zenon, <1>2, <1>6
  <1>10. m \in NodeType
    <2>1. node[n].ver + 1 \in Nat
      BY <1>9 DEF NodeType
    <2>2. PICK v : v = node[n].ver + 1
      OBVIOUS
    <2>3. m = [node[n] EXCEPT !.ver = v, !.label = TRUE]
      BY Zenon, <1>7, <2>2
    <2> QED
      BY Zenon, <1>9, <2>1, <2>2, <2>3 DEF NodeType
  <1>11. node' \in [Nodes -> NodeType]
    BY Zenon, <1>2, <1>8, <1>10
  <1>12. PICK l : l = [lop[t] EXCEPT !.st = "applied"]
    BY Zenon
  <1>13. lop' = [lop EXCEPT ![t] = l]
    BY Zenon, <1>12 DEF NodeUpdate
  <1>14. l \in LopType /\ l.at = n
    BY <1>1, <1>2, <1>12 DEF LopType
  <1>15. /\ Advance /\ TabsTyped' /\ RegOK' /\ (\A u \in Tokens : TokOK(u)')
         /\ \A y \in Sessions : Issuing(sess[y]) => tok'[sess[y].tok].st = "none"
    BY Zenon, <1>3, <1>4, <1>5, <1>11, <1>13, <1>14, LopStep
  <1>16. /\ sess' \in [Sessions -> SessType]
         /\ \A y \in Sessions : \/ sess'[y] = sess[y]
                                \/ \E f \in BOOLEAN : (sess[y].fit => f) /\ sess'[y] = [sess[y] EXCEPT !.fit = f]
    BY Zenon, <1>6, <1>8, <1>11, NotedFacts
  <1> QED
    BY Zenon, <1>15, <1>16, FitStep

LEMMA NodeChangesStep ==
    ASSUME IInv, NEW n \in Nodes, NodeChanges(n)
    PROVE  IInv'
  <1>1. node \in [Nodes -> NodeType] /\ node[n] \in NodeType
    BY Zenon, Facts
  <1>2. UNCHANGED <<reg, regAudits, told, tok, audits, given, done, lop>>
    BY Zenon DEF NodeChanges, registration, tokens
  <1>3. PICK role \in Roles \cup {"away"}, label \in BOOLEAN :
           /\ node' = [node EXCEPT ![n] = [ver |-> @.ver + 1, role |-> role, label |-> label]]
           /\ Noted(n, node')
    <2>1. node[n].role \in Roles \cup {"away"} /\ node[n].label \in BOOLEAN
      BY Zenon, <1>1 DEF NodeType
    <2>2. PICK spec \in {[role |-> r, label |-> node[n].label] : r \in Roles \cup {"away"}}
                        \cup {[role |-> node[n].role, label |-> b] : b \in BOOLEAN} :
             /\ node' = [node EXCEPT ![n] = [ver |-> @.ver + 1, role |-> spec.role, label |-> spec.label]]
             /\ Noted(n, node')
      BY Zenon DEF NodeChanges
    <2>3. spec.role \in Roles \cup {"away"} /\ spec.label \in BOOLEAN
      BY <2>1, <2>2
    <2> QED
      BY Zenon, <2>2, <2>3
  <1>4. PICK m : m = [ver |-> node[n].ver + 1, role |-> role, label |-> label]
    BY Zenon
  <1>5. node' = [node EXCEPT ![n] = m]
    BY <1>3, <1>4
  <1>6. m \in NodeType
    BY <1>1, <1>3, <1>4 DEF NodeType
  <1>7. node' \in [Nodes -> NodeType]
    BY <1>1, <1>5, <1>6
  <1>8. Advance
    BY Zenon, <1>2 DEF Advance, Admits
  <1>9. TabsTyped'
    BY Zenon, <1>2, <1>7, Facts DEF TabsTyped
  <1>10. \A t \in Tokens : TokOK(t)'
    BY Zenon, <1>2, OtherTokens
  <1>11. RegOK'
    BY Zenon, <1>2, RegKept
  <1>12. \A y \in Sessions : Issuing(sess[y]) => tok'[sess[y].tok].st = "none"
    BY Zenon, <1>2, Rec DEF RecOK
  <1>13. /\ sess' \in [Sessions -> SessType]
         /\ \A y \in Sessions : \/ sess'[y] = sess[y]
                                \/ \E f \in BOOLEAN : (sess[y].fit => f) /\ sess'[y] = [sess[y] EXCEPT !.fit = f]
    BY Zenon, <1>3, <1>7, NotedFacts
  <1> QED
    BY Zenon, <1>8, <1>9, <1>10, <1>11, <1>12, <1>13, FitStep

-----------------------------------------------------------------------------
(* Induction *)

LEMMA InitIInv == Init => IInv
  <1> SUFFICES ASSUME Init PROVE IInv
    OBVIOUS
  <1>1. NoToken \in TokType /\ NoToken.st = "none" /\ NoToken.claim = None /\ NoToken.node = None
    BY Zenon DEF NoToken, TokType
  <1>2. NoAudits \in AuditType /\ NoAudits.ISSUED = 0 /\ NoAudits.CLAIMED = 0 /\ NoAudits.COMPLETED = 0
    BY DEF NoAudits, AuditType
  <1>3. NoLabelling \in LopType /\ NoLabelling.st = "none"
    BY DEF NoLabelling, LopType
  <1>4. [ver : {1}, role : Roles, label : {FALSE}] \subseteq NodeType
    <2>1. {1} \subseteq Nat /\ Roles \subseteq Roles \cup {"away"} /\ {FALSE} \subseteq BOOLEAN
      OBVIOUS
    <2> QED
      BY Zenon, <2>1 DEF NodeType
  <1>5. node \in [Nodes -> NodeType]
    BY Zenon, <1>4 DEF Init
  <1>6. TabsTyped
    <2>1. tok \in [Tokens -> TokType] /\ audits \in [Tokens -> AuditType] /\ lop \in [Tokens -> LopType]
      BY Zenon, <1>1, <1>2, <1>3 DEF Init
    <2>2. given \in [Tokens -> SUBSET ClaimIds] /\ done \in [Tokens -> Nodes \cup {None}]
      BY DEF Init
    <2> QED
      BY Zenon, <2>1, <2>2, <1>5 DEF TabsTyped
  <1>7. sess \in [Sessions -> SessType] /\ \A x \in Sessions : sess[x] = Free
    BY Zenon, FreeType DEF Init
  <1>8. RegOK
    BY DEF Init, RegOK
  <1>9. Alone
    BY <1>7, FreeType DEF Alone, Issuing
  <1>10. ASSUME NEW t \in Tokens PROVE TokOK(t)
    <2>1. tok[t] = NoToken /\ audits[t] = NoAudits /\ lop[t] = NoLabelling /\ given[t] = {} /\ done[t] = None
      BY Zenon DEF Init
    <2>2. tok[t].st = "none" /\ tok[t].claim = None /\ tok[t].node = None /\ lop[t].st = "none"
      BY Zenon, <2>1, <1>1, <1>3
    <2>3. audits[t].ISSUED = 0 /\ audits[t].CLAIMED = 0 /\ audits[t].COMPLETED = 0
      BY Zenon, <2>1, <1>2
    <2> QED
      BY <2>1, <2>2, <2>3 DEF TokOK
  <1>11. \A x \in Sessions : SessOK(x)
    BY Zenon, <1>7, FreeRec DEF SessOK
  <1> QED
    BY Zenon, <1>6, <1>7, <1>8, <1>9, <1>10, <1>11 DEF IInv

LEMMA RequestBegins ==
    ASSUME IInv, NEW x \in Sessions, NEW st \in Settings, NEW t \in Tokens,
           \/ Issue(x, st, t)
           \/ \E c \in ClaimIds : Claim(x, st, t, c)
           \/ \E c \in ClaimIds, n \in Nodes : CompleteRequest(x, st, t, c, n)
    PROVE  IInv'
  <1>1. CASE Issue(x, st, t)
    <2>1. tok[t].st = "none" /\ (\A y \in Sessions : sess[y].tok # t) /\ Start(x, st, "issue", t, None, None)
      BY Zenon, <1>1 DEF Issue
    <2>2. "issue" \in Kinds /\ "issue" # "complete" /\ None \in ClaimIds \cup {None} /\ None \in Nodes \cup {None}
      BY DEF Kinds
    <2> QED
      BY Zenon, <2>1, <2>2, StartStep
  <1>2. ASSUME NEW c \in ClaimIds, Claim(x, st, t, c) PROVE IInv'
    <2>1. tok[t].st = "live" /\ Start(x, st, "claim", t, c, None)
      BY Zenon, <1>2 DEF Claim, findClaimableByHash
    <2>2. /\ "claim" \in Kinds /\ "claim" # "complete" /\ "claim" # "issue" /\ c \in ClaimIds \cup {None}
          /\ None \in Nodes \cup {None} /\ tok[t].st # "none"
      BY <2>1 DEF Kinds
    <2> QED
      BY Zenon, <2>1, <2>2, StartStep
  <1>3. ASSUME NEW c \in ClaimIds, NEW n \in Nodes, CompleteRequest(x, st, t, c, n) PROVE IInv'
    <2>1. tok[t].st = "live" /\ Start(x, st, "complete", t, c, n)
      BY Zenon, <1>3 DEF CompleteRequest, findClaimableByHash
    <2>2. /\ "complete" \in Kinds /\ "complete" # "issue" /\ c \in ClaimIds \cup {None}
          /\ n \in Nodes \cup {None} /\ tok[t].st # "none"
      BY <2>1 DEF Kinds
    <2> QED
      BY Zenon, <2>1, <2>2, StartStep
  <1> QED
    BY Zenon, <1>1, <1>2, <1>3

\* Nothing happens.
LEMMA Stutter ==
    ASSUME IInv, UNCHANGED vars
    PROVE  IInv'
  <1>1. UNCHANGED <<reg, regAudits, told, tok, audits, given, done, lop, node, sess>>
    BY Zenon DEF vars, registration, tokens
  <1>2. Advance
    BY Zenon, <1>1 DEF Advance, Admits
  <1>3. TabsTyped'
    BY Zenon, <1>1, Facts DEF TabsTyped
  <1>4. (\A t \in Tokens : TokOK(t)') /\ RegOK'
    BY Zenon, <1>1, OtherTokens, RegKept
  <1>5. \A y \in Sessions : Issuing(sess[y]) => tok'[sess[y].tok].st = "none"
    BY Zenon, <1>1, Rec DEF RecOK
  <1> QED
    BY Zenon, <1>1, <1>2, <1>3, <1>4, <1>5, StillStep

LEMMA NextIInv ==
    ASSUME IInv, [Next]_vars
    PROVE  IInv'
  <1>1. ASSUME NEW x \in Sessions,
               \E st \in Settings :
                  \/ \E want \in Registrations : Register(x, st, want)
                  \/ \E t \in Tokens : Issue(x, st, t)
                  \/ \E t \in Tokens, c \in ClaimIds : Claim(x, st, t, c)
                  \/ \E t \in Tokens, c \in ClaimIds, n \in Nodes : CompleteRequest(x, st, t, c, n)
        PROVE  IInv'
    BY Zenon, <1>1, RegisterStep, RequestBegins
  <1>2. ASSUME NEW x \in Sessions,
               \/ VerifyIdentity(x) \/ Insert(x) \/ AssertRegistered(x)
               \/ \E role \in Roles, labels \in BOOLEAN : Create(x, role, labels)
               \/ Consume(x) \/ InspectNode(x) \/ bindCompletionNode(x)
        PROVE  IInv'
    BY Zenon, <1>2, VerifyIdentityStep, InsertStep, AssertRegisteredStep, CreateStep, ConsumeStep, InspectNodeStep, BindStep
  <1>3. ASSUME NEW x \in Sessions,
               \/ ReadLabelling(x) \/ LabelIntent(x) \/ Labelled(x) \/ VerifyLabels(x) \/ recordCompletionAudit(x)
               \/ Fail(x)
        PROVE  IInv'
    BY Zenon, <1>3, ReadLabellingStep, LabelIntentStep, LabelledStep, VerifyLabelsStep, RecordStep, FailStep
  <1>4. ASSUME NEW t \in Tokens, NodeUpdate(t) \/ LabelEnds(t) \/ Expire(t) PROVE IInv'
    BY Zenon, <1>4, NodeUpdateStep, LabelEndsStep, ExpireStep
  <1>5. ASSUME NEW n \in Nodes, NodeChanges(n) PROVE IInv'
    BY Zenon, <1>5, NodeChangesStep
  <1>6. CASE Next
    BY Zenon, <1>6, <1>1, <1>2, <1>3, <1>4, <1>5 DEF Next
  <1>7. CASE UNCHANGED vars
    BY Zenon, <1>7, Stutter
  <1> QED
    BY <1>6, <1>7

\* Every reachable state has the invariant, whatever the numbers of tokens,
\* claim IDs, nodes, Swarms and concurrent requests (the handlers of
\* BootstrapService and ClusterRegistrationService).
THEOREM Inductive == Spec => []IInv
  <1>1. Init => IInv
    BY InitIInv
  <1>2. IInv /\ [Next]_vars => IInv'
    BY NextIInv
  <1> QED
    BY <1>1, <1>2, PTL DEF Spec

\* A registration that was confirmed to a caller stands, with its one event, and
\* the requests that assertRegistered let through are still admitted by it.
THEOREM RegistrationStandsTheorem == Spec => []RegistrationStands
  <1>1. IInv => RegistrationStands
    <2> SUFFICES ASSUME IInv PROVE RegistrationStands
      OBVIOUS
    <2>1. told \subseteq {reg} /\ regAudits = IF reg = None THEN 0 ELSE 1
      BY Zenon, Facts DEF RegOK
    <2>2. \A x \in Sessions : sess[x].pc \in {"create", "consume", "inspect", "bind"} => Admits(sess[x].by)
      BY Zenon, Rec DEF RecOK
    <2> QED
      BY Zenon, <2>1, <2>2 DEF RegistrationStands
  <1> QED
    BY <1>1, Inductive, PTL

\* Join credentials go to one claim ID, for any number of clients that race for
\* the token (consume).
THEOREM OneClaimantTheorem == Spec => []OneClaimant
  <1>1. IInv => OneClaimant
    BY Zenon, Facts DEF OneClaimant, TokOK
  <1> QED
    BY <1>1, Inductive, PTL

\* One event of each kind, each with what it tells of (insertAuditOnce).
THEOREM AuditsFollowRowTheorem == Spec => []AuditsFollowRow
  <1>1. IInv => AuditsFollowRow
    BY Zenon, Facts DEF AuditsFollowRow, TokOK
  <1> QED
    BY <1>1, Inductive, PTL

\* The labels and the COMPLETED event are of the node that the token is bound to
\* (bindCompletionNode, applyBootstrapLabels, recordCompletionAudit).
THEOREM CompletionAgreesTheorem == Spec => []CompletionAgrees
  <1>1. IInv => CompletionAgrees
    BY Zenon, Facts DEF CompletionAgrees, TokOK
  <1> QED
    BY <1>1, Inductive, PTL

\* A completion is recorded only by a request during which its node was in scope
\* and labelled at one moment (complete).
THEOREM CompletedWasFitTheorem == Spec => CompletedWasFit
  <1>1. ASSUME IInv, [Next]_vars, NEW t \in Tokens, done'[t] # done[t]
        PROVE  \E x \in Sessions : sess[x].pc = "record" /\ sess[x].tok = t /\ sess[x].fit
    <2>1. PICK x \in Sessions : recordCompletionAudit(x)
      <3>1. done' # done
        BY Zenon, <1>1
      <3>2. ASSUME NEW x \in Sessions,
                   \E st \in Settings :
                      \/ \E want \in Registrations : Register(x, st, want)
                      \/ \E t1 \in Tokens : Issue(x, st, t1)
                      \/ \E t1 \in Tokens, c \in ClaimIds : Claim(x, st, t1, c)
                      \/ \E t1 \in Tokens, c \in ClaimIds, n \in Nodes : CompleteRequest(x, st, t1, c, n)
            PROVE  done' = done
        BY Zenon, <3>2 DEF Register, Issue, Claim, CompleteRequest, Start, tokens
      <3>3. ASSUME NEW x \in Sessions,
                   \/ VerifyIdentity(x) \/ Insert(x) \/ AssertRegistered(x)
                   \/ \E role \in Roles, labels \in BOOLEAN : Create(x, role, labels)
                   \/ Consume(x) \/ InspectNode(x) \/ bindCompletionNode(x)
                   \/ ReadLabelling(x) \/ LabelIntent(x) \/ Labelled(x) \/ VerifyLabels(x) \/ Fail(x)
            PROVE  done' = done
        BY Zenon, <3>3 DEF VerifyIdentity, Insert, AssertRegistered, Create, Consume, InspectNode, bindCompletionNode,
             ReadLabelling, LabelIntent, Labelled, VerifyLabels, Fail, tokens
      <3>4. ASSUME NEW t1 \in Tokens, NodeUpdate(t1) \/ LabelEnds(t1) \/ Expire(t1) PROVE done' = done
        BY Zenon, <3>4 DEF NodeUpdate, LabelEnds, Expire, tokens
      <3>5. ASSUME NEW n \in Nodes, NodeChanges(n) PROVE done' = done
        BY Zenon, <3>5 DEF NodeChanges, tokens
      <3>6. Next
        BY Zenon, <3>1, <1>1 DEF vars, tokens
      <3> QED
        BY Zenon, <3>1, <3>2, <3>3, <3>4, <3>5, <3>6 DEF Next
    <2>2. sess[x].pc = "record" /\ sess[x].fit
      BY Zenon, <2>1, <1>1, Rec DEF recordCompletionAudit, RecOK
    <2>3. sess[x].tok = t
      <3>1. done \in [Tokens -> Nodes \cup {None}]
        BY Zenon, <1>1, Facts
      <3>2. PICK d : done' = [done EXCEPT ![sess[x].tok] = d]
        BY Zenon, <2>1 DEF recordCompletionAudit
      <3> QED
        BY <3>1, <3>2, <1>1
    <2> QED
      BY Zenon, <2>2, <2>3
  <1>2. IInv /\ [Next]_vars =>
           [\A t \in Tokens : done'[t] # done[t] =>
               \E x \in Sessions : sess[x].pc = "record" /\ sess[x].tok = t /\ sess[x].fit]_vars
    BY Zenon, <1>1
  <1> QED
    BY <1>2, Inductive, PTL DEF Spec, CompletedWasFit
=============================================================================
