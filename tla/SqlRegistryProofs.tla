-------------------------- MODULE SqlRegistryProofs --------------------------
(***************************************************************************)
(* The SQL engines' invariants, for every number of panels, requests,      *)
(* tokens and nodes, and whatever way each statement ends; and that the    *)
(* engines keep the contract of EnrollContract while no token is disputed. *)
(***************************************************************************)
EXTENDS SqlRegistry, TLAPS

\* Request r is between the SELECT of its token and the INSERT of its node.
Holding(r) == req[r].pc \in {"checked", "accepted"}

\* A call at a point of a method carries the value that method works on.
CallsInv ==
  \A r \in Requests :
    /\ Holding(r) => req[r].token \in issued
    /\ req[r].pc = "checked" => req[r].token \in tokens \cup disputed
    /\ req[r].pc = "beating" => req[r].node \in Nodes

\* Only a token that reached the table can run out.
ExpiredIssued == expired \subseteq issued

\* A token is in the table, or in the hands of one request, or spent on one
\* node, and only a disputed one can be in two of these places.
TokensInv ==
  /\ tokens \subseteq issued
  /\ \A n \in Nodes : payer[n] # NoToken => payer[n] \in issued
  /\ \A r \in Requests : req[r].pc = "accepted" => req[r].token \notin tokens \ disputed
  /\ \A n \in Nodes : payer[n] \notin tokens \ disputed
  /\ \A r, s \in Requests :
       Holding(r) /\ Holding(s) /\ req[r].token = req[s].token => r = s \/ req[r].token \in disputed
  /\ \A r \in Requests, n \in Nodes :
       Holding(r) /\ payer[n] = req[r].token => payer[n] \in disputed

\* An identifier is drawn once, and its deletion is for good.
NodesInv == \A n \in nodes \cup revoked : payer[n] # NoToken

Inv ==
  /\ TypeOK
  /\ CallsInv
  /\ ExpiredIssued
  /\ TokensInv
  /\ NodesInv
  /\ SingleUseUnlessDisputed
  /\ RevokedStaysRevoked

USE SqlAssumption

LEMMA InitInv == Init => Inv
  BY DEF Init, Inv, TypeOK, CallsInv, Holding, TokensInv, NodesInv, SingleUseUnlessDisputed,
         RevokedStaysRevoked, ExpiredIssued, Idle, Calls, Points

LEMMA GenerateInv ==
  ASSUME Inv, NEW p \in Panels, NEW t \in Tokens, NEW outcome \in Outcomes,
         GenerateEnrollmentToken(p, t, outcome)
  PROVE Inv'
<1> USE DEF GenerateEnrollmentToken, Inv
<1>1. TypeOK' BY DEF TypeOK
<1>2. CallsInv' BY DEF CallsInv, Holding
<1>3. TokensInv' BY DEF TokensInv, CallsInv, Holding, TypeOK
<1>4. NodesInv' BY DEF NodesInv
<1>5. SingleUseUnlessDisputed' BY DEF SingleUseUnlessDisputed
<1>6. RevokedStaysRevoked' BY DEF RevokedStaysRevoked
<1>7. ExpiredIssued' BY DEF ExpiredIssued
<1> QED BY <1>1, <1>2, <1>3, <1>4, <1>5, <1>6, <1>7

LEMMA SelectTokenInv ==
  ASSUME Inv, NEW r \in Requests, NEW p \in Panels, NEW t \in Tokens, SelectToken(r, p, t)
  PROVE Inv'
<1> USE DEF SelectToken, Inv
<1>0. /\ req'[r] = [pc |-> "checked", panel |-> p, token |-> t, node |-> NoNode]
      /\ \A s \in Requests \ {r} : req'[s] = req[s]
  BY DEF Idle, TypeOK
<1>1. TypeOK'
  <2>1. [pc |-> "checked", panel |-> p, token |-> t, node |-> NoNode] \in Calls
    BY DEF Calls, Points
  <2>2. req' \in [Requests -> Calls] BY <1>0, <2>1 DEF TypeOK
  <2> QED BY <2>2 DEF TypeOK
<1>2. CallsInv'
  <2>1. t \in issued BY DEF TokensInv
  <2> QED BY <1>0, <2>1 DEF CallsInv, Holding
<1>3. TokensInv'
  <2>1. disputed \subseteq disputed' OBVIOUS
  <2>2. \A s \in Requests \ {r} : Holding(s) /\ req[s].token = t => t \in disputed'
    BY DEF TokensInv, Holding, Reading
  <2>3. \A n \in Nodes : payer[n] = t => t \in disputed
    BY DEF TokensInv
  <2> QED BY <1>0, <2>1, <2>2, <2>3 DEF TokensInv, Holding
<1>4. NodesInv' BY DEF NodesInv
<1>5. SingleUseUnlessDisputed' BY DEF SingleUseUnlessDisputed
<1>6. RevokedStaysRevoked' BY DEF RevokedStaysRevoked
<1>7. ExpiredIssued' BY DEF ExpiredIssued
<1> QED BY <1>1, <1>2, <1>3, <1>4, <1>5, <1>6, <1>7

LEMMA DeleteTokenInv ==
  ASSUME Inv, NEW r \in Requests, NEW outcome \in Outcomes, DeleteToken(r, outcome)
  PROVE Inv'
<1> USE DEF DeleteToken, Inv
<1> DEFINE t == req[r].token
<1>0. /\ req[r] \in Calls
      /\ req'[r] = Idle \/ req'[r] = [req[r] EXCEPT !.pc = "accepted"]
      /\ \A s \in Requests \ {r} : req'[s] = req[s]
  BY DEF TypeOK
<1>a. t \in issued /\ t \in Tokens BY DEF CallsInv, Holding, TypeOK
<1>b. tokens' \subseteq tokens /\ disputed \subseteq disputed' OBVIOUS
<1>c. t \notin tokens' \ disputed' OBVIOUS
<1>1. TypeOK'
  <2>1. req'[r] \in Calls BY <1>0 DEF Calls, Points, Idle
  <2>2. req' \in [Requests -> Calls] BY <2>1 DEF TypeOK
  <2> QED BY <2>2, <1>a DEF TypeOK
<1>d. /\ \A s \in Requests : Holding(s)' => Holding(s) /\ req'[s].token = req[s].token
      /\ \A s \in Requests \ {r} : req'[s].pc = req[s].pc
      /\ \A s \in Requests : req'[s].pc = "beating" => req[s].pc = "beating" /\ req'[s].node = req[s].node
  BY <1>0 DEF Holding, Idle, Calls
<1>2. CallsInv'
  <2>1. \A s \in Requests : req'[s].pc = "checked" => s # r /\ req'[s] = req[s]
    BY <1>0 DEF Idle, Calls
  <2>2. \A s \in Requests \ {r} :
          req[s].pc = "checked" => req[s].token # t \/ req[s].token \in disputed
    BY DEF TokensInv, Holding
  <2>3. \A s \in Requests :
          req'[s].pc = "checked" => req'[s].token \in tokens' \cup disputed'
    BY <1>b, <2>1, <2>2 DEF CallsInv
  <2> QED BY <1>d, <2>3 DEF CallsInv
<1>3. TokensInv'
  <2>1. \A s \in Requests : req'[s].pc = "accepted" => req'[s].token \notin tokens' \ disputed'
    <3>1. SUFFICES ASSUME NEW s \in Requests, req'[s].pc = "accepted"
                   PROVE req'[s].token \notin tokens' \ disputed'
      OBVIOUS
    <3>2. req'[s].token = req[s].token BY <1>d, <3>1 DEF Holding
    <3>3. CASE s = r BY <3>2, <3>3, <1>c
    <3>4. CASE s # r BY <3>1, <3>2, <3>4, <1>b, <1>d DEF TokensInv
    <3> QED BY <3>3, <3>4
  <2>2. \A n \in Nodes : payer'[n] \notin tokens' \ disputed' BY <1>b DEF TokensInv
  <2>3. \A q, s \in Requests :
          Holding(q)' /\ Holding(s)' /\ req'[q].token = req'[s].token => q = s \/ req'[q].token \in disputed'
    BY <1>b, <1>d DEF TokensInv
  <2>4. \A s \in Requests, n \in Nodes :
          Holding(s)' /\ payer'[n] = req'[s].token => payer'[n] \in disputed'
    BY <1>b, <1>d DEF TokensInv
  <2>5. /\ tokens' \subseteq issued'
        /\ \A n \in Nodes : payer'[n] # NoToken => payer'[n] \in issued'
    BY <1>b DEF TokensInv
  <2> QED BY <2>1, <2>2, <2>3, <2>4, <2>5 DEF TokensInv
<1>4. NodesInv' BY DEF NodesInv
<1>5. SingleUseUnlessDisputed' BY <1>b DEF SingleUseUnlessDisputed
<1>6. RevokedStaysRevoked' BY DEF RevokedStaysRevoked
<1>7. ExpiredIssued' BY DEF ExpiredIssued
<1> QED BY <1>1, <1>2, <1>3, <1>4, <1>5, <1>6, <1>7

LEMMA InsertNodeInv ==
  ASSUME Inv, NEW r \in Requests, NEW n \in Nodes, NEW outcome \in Outcomes, InsertNode(r, n, outcome)
  PROVE Inv'
<1> USE DEF InsertNode, Inv
<1> DEFINE t == req[r].token
<1>0. /\ req'[r] = Idle
      /\ \A s \in Requests \ {r} : req'[s] = req[s]
  BY DEF TypeOK
<1>a. t \in issued /\ t \in Tokens /\ t # NoToken BY DEF CallsInv, Holding, TypeOK
<1>b. \/ (nodes' = nodes /\ payer' = payer)
      \/ (nodes' = nodes \cup {n} /\ payer' = [payer EXCEPT ![n] = t])
  BY Zenon
<1>c. DOMAIN payer = Nodes BY DEF TypeOK
<1>d. \A m \in Nodes : payer'[m] = payer[m] \/ (m = n /\ payer'[m] = t)
  BY <1>b, <1>c
<1>e. \A m \in Nodes : payer[m] # NoToken => payer'[m] = payer[m]
  BY <1>b, <1>c
<1>f. \A m \in nodes' : m \in nodes \/ (m = n /\ payer'[m] = t)
  BY <1>b, <1>c
<1>g. \A s \in Requests : Holding(s)' => s # r /\ Holding(s) /\ req'[s] = req[s]
  BY <1>0 DEF Holding, Idle
<1>1. TypeOK'
  <2>1. req' \in [Requests -> Calls] BY DEF TypeOK, Idle, Calls, Points
  <2>2. payer' \in [Nodes -> Tokens \cup {NoToken}] BY <1>a DEF TypeOK
  <2> QED BY <2>1, <2>2 DEF TypeOK
<1>2. CallsInv' BY <1>0, <1>g DEF CallsInv, Idle
<1>3. TokensInv'
  <2>1. \A s \in Requests : req'[s].pc = "accepted" => req'[s].token \notin tokens' \ disputed'
    BY <1>0 DEF TokensInv, Idle
  <2>2. \A m \in Nodes : payer'[m] \notin tokens' \ disputed'
    BY <1>d DEF TokensInv
  <2>3. \A q, s \in Requests :
          Holding(q)' /\ Holding(s)' /\ req'[q].token = req'[s].token => q = s \/ req'[q].token \in disputed'
    BY <1>g DEF TokensInv
  <2>4. \A s \in Requests, m \in Nodes :
          Holding(s)' /\ payer'[m] = req'[s].token => payer'[m] \in disputed'
    BY <1>d, <1>g DEF TokensInv, Holding
  <2>5. /\ tokens' \subseteq issued'
        /\ \A m \in Nodes : payer'[m] # NoToken => payer'[m] \in issued'
    BY <1>a, <1>d DEF TokensInv
  <2> QED BY <2>1, <2>2, <2>3, <2>4, <2>5 DEF TokensInv
<1>4. NodesInv' BY <1>a, <1>e, <1>f DEF NodesInv, TypeOK
<1>5. SingleUseUnlessDisputed'
  <2>1. \A m \in Nodes : payer[m] = t => t \in disputed BY DEF TokensInv, Holding
  <2> QED BY <1>d, <2>1 DEF SingleUseUnlessDisputed
<1>6. RevokedStaysRevoked' BY <1>f DEF RevokedStaysRevoked, NodesInv
<1>7. ExpiredIssued' BY DEF ExpiredIssued
<1> QED BY <1>1, <1>2, <1>3, <1>4, <1>5, <1>6, <1>7

LEMMA SelectNodeInv ==
  ASSUME Inv, NEW r \in Requests, NEW p \in Panels, NEW n \in Nodes, SelectNode(r, p, n)
  PROVE Inv'
<1> USE DEF SelectNode, Inv
<1>0. /\ req'[r] = [pc |-> "beating", panel |-> p, token |-> NoToken, node |-> n]
      /\ \A s \in Requests \ {r} : req'[s] = req[s]
  BY DEF Idle, TypeOK
<1>1. TypeOK'
  <2>1. [pc |-> "beating", panel |-> p, token |-> NoToken, node |-> n] \in Calls
    BY DEF Calls, Points
  <2>2. req' \in [Requests -> Calls] BY <1>0, <2>1 DEF TypeOK
  <2> QED BY <2>2 DEF TypeOK
<1>2. CallsInv' BY <1>0 DEF CallsInv, Holding
<1>3. TokensInv' BY <1>0 DEF TokensInv, Holding
<1>4. NodesInv' BY DEF NodesInv
<1>5. SingleUseUnlessDisputed' BY DEF SingleUseUnlessDisputed
<1>6. RevokedStaysRevoked' BY DEF RevokedStaysRevoked
<1>7. ExpiredIssued' BY DEF ExpiredIssued
<1> QED BY <1>1, <1>2, <1>3, <1>4, <1>5, <1>6, <1>7

\* UPDATE and the death of a panel only end requests.
LEMMA EndInv ==
  ASSUME Inv, UNCHANGED <<tokens, nodes, expired, issued, disputed, payer, revoked>>,
         req' \in [Requests -> Calls],
         \A r \in Requests : req'[r] = req[r] \/ req'[r] = Idle
  PROVE Inv'
<1> USE DEF Inv
<1>0. \A r \in Requests : req'[r].pc # "idle" => req'[r] = req[r] BY DEF Idle
<1>1. TypeOK' BY DEF TypeOK
<1>2. CallsInv' BY <1>0 DEF CallsInv, Holding
<1>3. TokensInv' BY <1>0 DEF TokensInv, Holding
<1>4. NodesInv' BY DEF NodesInv
<1>5. SingleUseUnlessDisputed' BY DEF SingleUseUnlessDisputed
<1>6. RevokedStaysRevoked' BY DEF RevokedStaysRevoked
<1>7. ExpiredIssued' BY DEF ExpiredIssued
<1> QED BY <1>1, <1>2, <1>3, <1>4, <1>5, <1>6, <1>7

LEMMA DeleteNodeInv ==
  ASSUME Inv, NEW p \in Panels, NEW n \in Nodes, NEW outcome \in Outcomes, DeleteNode(p, n, outcome)
  PROVE Inv'
<1> USE DEF DeleteNode, Inv
<1>1. TypeOK' BY DEF TypeOK
<1>2. CallsInv' BY DEF CallsInv, Holding
<1>3. TokensInv' BY DEF TokensInv, Holding
<1>4. NodesInv' BY DEF NodesInv
<1>5. SingleUseUnlessDisputed' BY DEF SingleUseUnlessDisputed
<1>6. RevokedStaysRevoked' BY DEF RevokedStaysRevoked, Applied
<1>7. ExpiredIssued' BY DEF ExpiredIssued
<1> QED BY <1>1, <1>2, <1>3, <1>4, <1>5, <1>6, <1>7

LEMMA StepInv == Inv /\ [Next]_vars => Inv'
<1> SUFFICES ASSUME Inv, [Next]_vars PROVE Inv'
  OBVIOUS
<1>a. /\ Idle \in Calls
      /\ req \in [Requests -> Calls]
  BY DEF Idle, Calls, Points, Inv, TypeOK
<1>1. CASE \E outcome \in Outcomes : Write(outcome)
  <2>1. PICK outcome \in Outcomes : Write(outcome) BY <1>1
  <2>2. CASE \E p \in Panels, t \in Tokens : GenerateEnrollmentToken(p, t, outcome)
    BY <2>2, GenerateInv
  <2>3. CASE \E r \in Requests : DeleteToken(r, outcome)
    BY <2>3, DeleteTokenInv
  <2>4. CASE \E r \in Requests, n \in Nodes : InsertNode(r, n, outcome)
    BY <2>4, InsertNodeInv
  <2>5. CASE \E p \in Panels, n \in Nodes : DeleteNode(p, n, outcome)
    BY <2>5, DeleteNodeInv
  <2> QED BY <2>1, <2>2, <2>3, <2>4, <2>5 DEF Write
<1>2. CASE \E r \in Requests, p \in Panels, t \in Tokens : SelectToken(r, p, t)
  BY <1>2, SelectTokenInv
<1>3. CASE \E r \in Requests, p \in Panels, n \in Nodes : SelectNode(r, p, n)
  BY <1>3, SelectNodeInv
<1>4. CASE \E r \in Requests : UpdateNode(r)
  <2>1. PICK r \in Requests : UpdateNode(r) BY <1>4
  <2> QED BY <1>a, <2>1, EndInv DEF UpdateNode
<1>5. CASE \E p \in Panels : Crash(p)
  <2>1. PICK p \in Panels : Crash(p) BY <1>5
  <2> QED BY <1>a, <2>1, EndInv DEF Crash
<1>6. CASE \E t \in Tokens : Expire(t)
  BY <1>6 DEF Expire, Inv, TypeOK, CallsInv, Holding, ExpiredIssued, TokensInv, NodesInv,
              SingleUseUnlessDisputed, RevokedStaysRevoked
<1>7. CASE UNCHANGED vars
  BY <1>7 DEF vars, Inv, TypeOK, CallsInv, Holding, ExpiredIssued, TokensInv, NodesInv,
              SingleUseUnlessDisputed, RevokedStaysRevoked
<1> QED BY <1>1, <1>2, <1>3, <1>4, <1>5, <1>6, <1>7 DEF Next

LEMMA Invariance == Spec => []Inv
  BY InitInv, StepInv, PTL DEF Spec

\* Every method leaves the tables and its own progress well formed, whatever
\* statement of it fails or is cut off (storage.go, pgstore.go).
THEOREM SqlTypeCorrect == Spec => []TypeOK
<1>1. Inv => TypeOK BY DEF Inv
<1> QED BY Invariance, <1>1, PTL

\* ValidateAndConsumeToken lets a token enrol two nodes only if its DELETE
\* failed unnoticed or two panels had both read it before either deleted it.
THEOREM SqlSingleUse == Spec => []SingleUseUnlessDisputed
<1>1. Inv => SingleUseUnlessDisputed BY DEF Inv
<1> QED BY Invariance, <1>1, PTL

\* DeleteNode, once answered with success, is not undone by a heartbeat that
\* was between its SELECT and its UPDATE, on whatever panel.
THEOREM SqlRevoked == Spec => []RevokedStaysRevoked
<1>1. Inv => RevokedStaysRevoked BY DEF Inv
<1> QED BY Invariance, <1>1, PTL

------------------------------------------------------------------------------
(* The contract: every statement is a step of it, or none *)

\* Nothing that TokenState looks at changes for t.
LEMMA SameTokenState ==
  ASSUME NEW t \in Tokens,
         t \in issued' <=> t \in issued,
         t \in tokens' <=> t \in tokens,
         t \in expired' <=> t \in expired,
         Accepted(t)' <=> Accepted(t),
         Spent(t)' <=> Spent(t)
  PROVE  TokenState(t)' = TokenState(t)
BY DEF TokenState, Accepted, Spent

\* A step that leaves the tables and the accepted tokens alone stutters.
LEMMA ContractStutters ==
  ASSUME UNCHANGED <<tokens, nodes, expired, issued, payer>>,
         \A t \in Tokens : Accepted(t)' <=> Accepted(t)
  PROVE  UNCHANGED Contract!vars
<1>1. \A t \in Tokens : TokenState(t)' = TokenState(t)
  BY SameTokenState DEF Spent
<1>2. \A n \in Nodes : NodeState(n)' = NodeState(n)
  BY DEF NodeState
<1> QED BY <1>1, <1>2 DEF Contract!vars

\* While no token is disputed.
LEMMA ContractStep ==
  Inv /\ [Next]_vars /\ disputed' = {} => [Contract!Next]_(Contract!vars)
<1> SUFFICES ASSUME Inv, [Next]_vars, disputed' = {}
             PROVE  Contract!Next \/ UNCHANGED Contract!vars
  OBVIOUS
<1> DEFINE Simulated == Contract!Next \/ UNCHANGED Contract!vars
<1>1. ASSUME NEW p \in Panels, NEW t \in Tokens, NEW outcome \in Outcomes,
             GenerateEnrollmentToken(p, t, outcome)
      PROVE  Simulated
  <2>1. UNCHANGED <<nodes, req, expired, disputed, payer>> /\ t \notin issued
    BY <1>1 DEF GenerateEnrollmentToken
  <2>2. \A u \in Tokens : (Accepted(u)' <=> Accepted(u)) /\ (Spent(u)' <=> Spent(u))
    BY <2>1 DEF Accepted, Spent
  <2>3. \A n \in Nodes : NodeState(n)' = NodeState(n)
    BY <2>1 DEF NodeState
  <2>4. CASE UNCHANGED <<tokens, issued>>
    BY <2>1, <2>2, <2>4, ContractStutters
  <2>5. CASE tokens' = tokens \cup {t} /\ issued' = issued \cup {t}
    <3>1. t \notin expired /\ t \notin tokens
      BY <2>1 DEF Inv, ExpiredIssued, TokensInv
    <3>2. TokenState(t) = "unissued" /\ TokenState(t)' = "live"
      BY <2>1, <2>5, <3>1 DEF TokenState
    <3>3. \A u \in Tokens : u # t => TokenState(u)' = TokenState(u)
      BY <2>1, <2>2, <2>5, SameTokenState
    <3>4. Contract!Issue(t) BY <2>1, <2>3, <3>2, <3>3 DEF Contract!Issue
    <3> QED BY <3>4 DEF Contract!Next
  <2> QED BY <1>1, <2>4, <2>5 DEF GenerateEnrollmentToken
<1>2. ASSUME NEW r \in Requests, NEW outcome \in Outcomes, DeleteToken(r, outcome)
      PROVE  Simulated
  <2>0. PICK t \in Tokens : t = req[r].token
    BY <1>2 DEF DeleteToken, Inv, TypeOK, CallsInv, Holding
  <2>1. /\ req[r].pc = "checked" /\ tokens' = tokens \ {t}
        /\ disputed = {} /\ UNCHANGED <<nodes, expired, issued, payer>>
        /\ req' = [req EXCEPT ![r] = IF t \in expired THEN Idle ELSE [@ EXCEPT !.pc = "accepted"]]
    BY <1>2, <2>0 DEF DeleteToken
  <2>2. t \in issued /\ t \in tokens /\ t # NoToken
    BY <2>0, <2>1, SqlAssumption DEF Inv, CallsInv, Holding
  <2>3. /\ \A s \in Requests \ {r} : req'[s] = req[s]
        /\ req'[r] = IF t \in expired THEN Idle ELSE [req[r] EXCEPT !.pc = "accepted"]
        /\ req[r] \in Calls
    BY <2>1 DEF Inv, TypeOK
  <2>4. \A u \in Tokens : u # t => (Accepted(u)' <=> Accepted(u))
    BY <2>0, <2>1, <2>3 DEF Accepted, Idle, Calls
  <2>5. \A u \in Tokens : Spent(u)' <=> Spent(u)
    BY <2>1 DEF Spent
  <2>6. ~Accepted(t) /\ ~Spent(t)
    BY <2>0, <2>1, <2>2 DEF Inv, TokensInv, Holding, Accepted, Spent
  <2>7. \A u \in Tokens : u # t => TokenState(u)' = TokenState(u)
    BY <2>1, <2>4, <2>5, SameTokenState
  <2>8. \A n \in Nodes : NodeState(n)' = NodeState(n)
    BY <2>1 DEF NodeState
  <2>9. CASE t \in expired
    <3>1. ~Accepted(t)'
      BY <2>3, <2>6, <2>9 DEF Accepted, Idle
    <3>2. TokenState(t)' = TokenState(t)
      BY <2>1, <2>2, <2>5, <2>6, <2>9, <3>1 DEF TokenState
    <3> QED BY <2>1, <2>7, <2>8, <3>2 DEF Contract!vars
  <2>10. CASE t \notin expired
    <3>1. Accepted(t)'
      BY <2>0, <2>3, <2>10 DEF Accepted, Calls
    <3>2. TokenState(t) = "live" /\ TokenState(t)' = "claimed"
      BY <2>1, <2>2, <2>10, <3>1 DEF TokenState
    <3>3. Contract!Claim(t)
      BY <2>1, <2>2, <2>7, <2>8, <3>2 DEF Contract!Claim
    <3> QED BY <2>2, <3>3 DEF Contract!Next
  <2> QED BY <2>9, <2>10
<1>3. ASSUME NEW r \in Requests, NEW n \in Nodes, NEW outcome \in Outcomes,
             InsertNode(r, n, outcome)
      PROVE  Simulated
  <2>0. PICK t \in Tokens : t = req[r].token
    BY <1>3 DEF InsertNode, Inv, TypeOK, CallsInv, Holding
  <2>1. /\ req[r].pc = "accepted" /\ payer[n] = NoToken
        /\ req' = [req EXCEPT ![r] = Idle]
        /\ UNCHANGED <<tokens, expired, issued, disputed>>
    BY <1>3 DEF InsertNode
  <2>2. t \in issued /\ t \notin tokens /\ t # NoToken
    BY <2>0, <2>1, SqlAssumption DEF Inv, CallsInv, TokensInv, Holding
  <2>3. (\A s \in Requests \ {r} : req'[s] = req[s]) /\ req'[r].pc = "idle"
    BY <2>1 DEF Inv, TypeOK, Idle
  <2>4. \A s \in Requests \ {r} : req[s].pc = "accepted" => req[s].token # t
    BY <2>0, <2>1 DEF Inv, TokensInv, Holding
  <2>5. TokenState(t) = "claimed"
    BY <2>0, <2>1, <2>2 DEF TokenState, Accepted
  <2>6. ~Accepted(t)' /\ \A u \in Tokens : u # t => (Accepted(u)' <=> Accepted(u))
    BY <2>0, <2>1, <2>3, <2>4 DEF Accepted
  <2>7. CASE UNCHANGED <<nodes, payer>>
    <3>1. ~Spent(t)
      BY <2>0, <2>1 DEF Inv, TokensInv, Holding, Spent
    <3>2. TokenState(t)' = "void"
      BY <2>1, <2>2, <2>6, <2>7, <3>1 DEF TokenState, Spent
    <3>3. \A u \in Tokens : u # t => TokenState(u)' = TokenState(u)
      BY <2>1, <2>6, <2>7, SameTokenState DEF Spent
    <3>4. \A m \in Nodes : NodeState(m)' = NodeState(m)
      BY <2>7 DEF NodeState
    <3>5. Contract!Void({t})
      BY <2>2, <2>5, <2>7, <3>2, <3>3, <3>4 DEF Contract!Void
    <3> QED BY <2>2, <3>5 DEF Contract!Next
  <2>8. CASE nodes' = nodes \cup {n} /\ payer' = [payer EXCEPT ![n] = t]
    <3>1. payer'[n] = t /\ \A m \in Nodes \ {n} : payer'[m] = payer[m]
      BY <2>8 DEF Inv, TypeOK
    <3>2. TokenState(t)' = "paid"
      BY <2>1, <2>2, <2>6, <3>1 DEF TokenState, Spent
    <3>3. \A u \in Tokens : u # t => (Spent(u)' <=> Spent(u))
      BY <2>1, <3>1, SqlAssumption DEF Spent
    <3>4. \A u \in Tokens : u # t => TokenState(u)' = TokenState(u)
      BY <2>1, <2>6, <3>3, SameTokenState
    <3>5. n \notin nodes BY <2>1 DEF Inv, NodesInv
    <3>6. NodeState(n) = "absent" /\ NodeState(n)' = "member"
      BY <2>1, <2>8, <3>5 DEF NodeState
    <3>7. \A m \in Nodes : m # n => NodeState(m)' = NodeState(m)
      BY <2>8, <3>1 DEF NodeState
    <3>8. Contract!Enrol(n, t)
      BY <2>2, <2>5, <2>8, <3>2, <3>4, <3>6, <3>7 DEF Contract!Enrol
    <3> QED BY <2>2, <3>8 DEF Contract!Next
  <2> QED BY <1>3, <2>0, <2>7, <2>8 DEF InsertNode
<1>4. ASSUME NEW p \in Panels, NEW n \in Nodes, NEW outcome \in Outcomes,
             DeleteNode(p, n, outcome)
      PROVE  Simulated
  <2>1. UNCHANGED <<tokens, req, expired, issued, payer>> /\ n \in nodes
    BY <1>4 DEF DeleteNode
  <2>2. \A t \in Tokens : (Accepted(t)' <=> Accepted(t)) /\ (Spent(t)' <=> Spent(t))
    BY <2>1 DEF Accepted, Spent
  <2>3. \A t \in Tokens : TokenState(t)' = TokenState(t)
    BY <2>1, <2>2, SameTokenState
  <2>4. CASE nodes' = nodes
    BY <2>1, <2>2, <2>4, ContractStutters
  <2>5. CASE nodes' = nodes \ {n}
    <3>1. payer[n] # NoToken BY <2>1 DEF Inv, NodesInv
    <3>2. NodeState(n) = "member" /\ NodeState(n)' = "gone"
      BY <2>1, <2>5, <3>1 DEF NodeState
    <3>3. \A m \in Nodes : m # n => NodeState(m)' = NodeState(m)
      BY <2>1, <2>5 DEF NodeState
    <3>4. Contract!Remove(n)
      BY <2>1, <2>3, <3>2, <3>3 DEF Contract!Remove
    <3> QED BY <3>4 DEF Contract!Next
  <2> QED BY <1>4, <2>4, <2>5 DEF DeleteNode
<1>5. ASSUME NEW r \in Requests, NEW p \in Panels, NEW t \in Tokens, SelectToken(r, p, t)
      PROVE  Simulated
  <2>1. \A u \in Tokens : Accepted(u)' <=> Accepted(u)
    BY <1>5 DEF SelectToken, Accepted, Idle, Inv, TypeOK
  <2> QED BY <1>5, <2>1, ContractStutters DEF SelectToken
<1>6. ASSUME NEW r \in Requests, NEW p \in Panels, NEW n \in Nodes, SelectNode(r, p, n)
      PROVE  Simulated
  <2>1. \A u \in Tokens : Accepted(u)' <=> Accepted(u)
    BY <1>6 DEF SelectNode, Accepted, Idle, Inv, TypeOK
  <2> QED BY <1>6, <2>1, ContractStutters DEF SelectNode
<1>7. ASSUME NEW r \in Requests, UpdateNode(r) PROVE Simulated
  <2>1. \A u \in Tokens : Accepted(u)' <=> Accepted(u)
    BY <1>7 DEF UpdateNode, Accepted, Idle, Inv, TypeOK
  <2> QED BY <1>7, <2>1, ContractStutters DEF UpdateNode
<1>8. ASSUME NEW p \in Panels, Crash(p) PROVE Simulated
  <2> DEFINE lost == {t \in Tokens : Accepted(t) /\ ~Accepted(t)'}
  <2>1. /\ UNCHANGED <<tokens, nodes, expired, issued, disputed, payer>>
        /\ req' = [r \in Requests |-> IF req[r].panel = p THEN Idle ELSE req[r]]
    BY <1>8 DEF Crash
  <2>2. \A t \in Tokens : Spent(t)' <=> Spent(t)
    BY <2>1 DEF Spent
  <2>3. \A t \in Tokens : Accepted(t)' => Accepted(t)
    BY <2>1 DEF Accepted, Idle
  <2>4. \A t \in Tokens \ lost : TokenState(t)' = TokenState(t)
    BY <2>1, <2>2, <2>3, SameTokenState
  <2>5. \A t \in lost : t \in issued /\ t \notin tokens /\ ~Spent(t)
    BY <2>1 DEF Inv, CallsInv, TokensInv, Holding, Accepted, Spent
  <2>6. \A t \in lost : TokenState(t) = "claimed" /\ TokenState(t)' = "void"
    BY <2>1, <2>2, <2>5 DEF TokenState
  <2>7. \A n \in Nodes : NodeState(n)' = NodeState(n)
    BY <2>1 DEF NodeState
  <2>8. Contract!Void(lost)
    BY <2>1, <2>4, <2>6, <2>7 DEF Contract!Void
  <2> QED BY <2>8 DEF Contract!Next
<1>9. ASSUME NEW t \in Tokens, Expire(t) PROVE Simulated
  <2>1. /\ t \in issued /\ t \notin expired /\ expired' = expired \cup {t}
        /\ UNCHANGED <<tokens, nodes, req, issued, disputed, payer>>
    BY <1>9 DEF Expire
  <2>2. \A u \in Tokens : (Accepted(u)' <=> Accepted(u)) /\ (Spent(u)' <=> Spent(u))
    BY <2>1 DEF Accepted, Spent
  <2>3. \A u \in Tokens : u # t => TokenState(u)' = TokenState(u)
    BY <2>1, <2>2, SameTokenState
  <2>4. \A n \in Nodes : NodeState(n)' = NodeState(n)
    BY <2>1 DEF NodeState
  <2>5. CASE t \in tokens
    <3>1. TokenState(t) = "live" /\ TokenState(t)' = "void"
      BY <2>1, <2>5 DEF TokenState
    <3>2. Contract!Void({t})
      BY <2>1, <2>3, <2>4, <3>1 DEF Contract!Void
    <3> QED BY <3>2 DEF Contract!Next
  <2>6. CASE t \notin tokens
    <3>1. TokenState(t)' = TokenState(t)
      BY <2>1, <2>2, <2>6 DEF TokenState
    <3> QED BY <2>1, <2>3, <2>4, <3>1 DEF Contract!vars
  <2> QED BY <2>5, <2>6
<1>10. ASSUME UNCHANGED vars PROVE Simulated
  BY <1>10, ContractStutters DEF vars, Accepted
<1> QED BY <1>1, <1>2, <1>3, <1>4, <1>5, <1>6, <1>7, <1>8, <1>9, <1>10 DEF Next, Write

\* The SQL engines do what the contract of every engine allows, statement by
\* statement, until a DELETE fails unnoticed or two panels race for a token.
THEOREM SqlKeepsContract == Spec => KeepsContractUnlessDisputed
<1>1. Inv /\ [Next]_vars => [disputed' = {} => [Contract!Next]_(Contract!vars)]_vars
  BY ContractStep
<1> QED BY <1>1, Invariance, PTL DEF Spec, KeepsContractUnlessDisputed
==============================================================================
