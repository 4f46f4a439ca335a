--------------------------- MODULE EnrolmentProofs ---------------------------
(***************************************************************************)
(* Proofs about Enrolment, for every number of edges, tokens and nodes.    *)
(*                                                                         *)
(* The inductive invariant has three parts: the contract's own (a node's   *)
(* token is paid, no two nodes have one token, each request that is being  *)
(* served holds a claimed token of its own), the flow of messages (an      *)
(* answer travels only to a caller that waits, and only after its request  *)
(* is done with), and the identities (whoever holds a node is the one      *)
(* agent that asked for it).                                               *)
(***************************************************************************)
EXTENDS Enrolment, TLAPS

LEMMA ThreadsHaveAgents == \A r \in Threads : AgentOf(r) \in Agents
  BY EnrolmentAssumption DEF AgentOf

------------------------------------------------------------------------------
(* Type correctness *)

\* saveState puts well-formed states into memory and file.
LEMMA SaveStateTyped ==
  ASSUME AgentTypeOK, NEW a \in Agents, NEW s \in EdgeAgentState, saveState(a, s)
  PROVE  state' \in [Agents -> EdgeAgentState] /\ file' \in [Agents -> EdgeAgentState]
  BY DEF saveState, AgentTypeOK

LEMMA ReportTyped ==
  ASSUME AgentTypeOK, NEW r \in Threads, NEW failed \in BOOLEAN, Report(r, failed)
  PROVE  state' \in [Agents -> EdgeAgentState] /\ file' \in [Agents -> EdgeAgentState]
<1>1. AgentOf(r) \in Agents
  BY ThreadsHaveAgents
<1>2. [state[AgentOf(r)] EXCEPT !.error = failed] \in EdgeAgentState
  BY <1>1 DEF AgentTypeOK, EdgeAgentState
<1> QED BY <1>1, <1>2, SaveStateTyped DEF Report

\* The steps of one thread keep the types.
LEMMA ThreadTyped ==
  ASSUME AgentTypeOK, NEW r \in Threads, Thread(r) PROVE AgentTypeOK'
<1> USE EnrolmentAssumption
<1>0. AgentOf(r) \in Agents
  BY ThreadsHaveAgents
<1>1. ASSUME NEW t \in Tokens, Register(r, t) PROVE AgentTypeOK'
  BY <1>1 DEF AgentTypeOK, Register, masterVars, vars
<1>2. CASE LoopRegister(r)
  <2>1. FlagToken[AgentOf(r)] \in Tokens
    BY <1>0, <1>2 DEF LoopRegister
  <2> QED BY <1>1, <1>2, <2>1 DEF LoopRegister
<1>3. CASE LoopBeat(r)
  <2>1. state[AgentOf(r)].node \in Nodes
    BY <1>0, <1>3 DEF LoopBeat, AgentTypeOK, EdgeAgentState
  <2> QED BY <1>3, <2>1 DEF AgentTypeOK, LoopBeat, masterVars, vars
<1>4. CASE GiveUp(r)
  <2>1. state' \in [Agents -> EdgeAgentState] /\ file' \in [Agents -> EdgeAgentState]
    BY <1>4, ReportTyped DEF GiveUp
  <2> QED BY <1>4, <2>1 DEF AgentTypeOK, GiveUp, Dropped, masterVars, vars
<1>5. CASE HearRefusal(r)
  <2>1. state' \in [Agents -> EdgeAgentState] /\ file' \in [Agents -> EdgeAgentState]
    BY <1>5, ReportTyped DEF HearRefusal
  <2> QED BY <1>5, <2>1 DEF AgentTypeOK, HearRefusal, masterVars, vars
<1>6. CASE HearGarbled(r)
  BY <1>6 DEF AgentTypeOK, HearGarbled, masterVars, vars
<1>7. CASE Adopt(r)
  <2>1. [node |-> answer[r], error |-> FALSE] \in EdgeAgentState
    BY <1>7 DEF Adopt, EdgeAgentState
  <2>2. state' \in [Agents -> EdgeAgentState] /\ file' \in [Agents -> EdgeAgentState]
    BY <1>0, <1>7, <2>1, SaveStateTyped DEF Adopt
  <2>3. Replaced(AgentOf(r)) \subseteq Nodes
    BY <1>0 DEF Replaced, AgentTypeOK, EdgeAgentState
  <2> QED BY <1>7, <2>2, <2>3 DEF AgentTypeOK, Adopt, masterVars, vars
<1>8. CASE LoseBeat(r)
  <2>1. state' \in [Agents -> EdgeAgentState] /\ file' \in [Agents -> EdgeAgentState]
    BY <1>8, ReportTyped DEF LoseBeat
  <2> QED BY <1>8, <2>1 DEF AgentTypeOK, LoseBeat, masterVars, vars
<1>9. CASE DropPost(r)
  BY <1>9 DEF AgentTypeOK, DropPost, masterVars, vars
<1> QED BY <1>1, <1>2, <1>3, <1>4, <1>5, <1>6, <1>7, <1>8, <1>9 DEF Thread

\* The handlers of the master keep the types.
LEMMA HandlerTyped ==
  ASSUME AgentTypeOK, NEW r \in Threads, Handler(r) PROVE AgentTypeOK'
<1> USE EnrolmentAssumption
<1>1. CASE AcceptToken(r)
  <2>1. post[r] \in Tokens
    BY <1>1 DEF AcceptToken, AgentTypeOK
  <2> QED BY <1>1, <2>1 DEF AgentTypeOK, AcceptToken, Claim, TokenStates
<1>2. CASE RefuseToken(r)
  BY <1>2 DEF AgentTypeOK, RefuseToken, masterVars, vars
<1>3. ASSUME NEW n \in Nodes, EnrolNode(r, n) PROVE AgentTypeOK'
  <2>1. serving[r] \in Tokens
    BY <1>3 DEF EnrolNode, AgentTypeOK
  <2> QED BY <1>3, <2>1 DEF AgentTypeOK, EnrolNode, Enrol, TokenStates, NodeStates
<1>4. CASE ServeBeat(r)
  <2>1. state' \in [Agents -> EdgeAgentState] /\ file' \in [Agents -> EdgeAgentState]
    BY <1>4, ReportTyped DEF ServeBeat
  <2> QED BY <1>4, <2>1 DEF AgentTypeOK, ServeBeat, masterVars, vars
<1>5. CASE RefuseBeat(r)
  <2>1. state' \in [Agents -> EdgeAgentState] /\ file' \in [Agents -> EdgeAgentState]
    BY <1>5, ReportTyped DEF RefuseBeat
  <2> QED BY <1>5, <2>1 DEF AgentTypeOK, RefuseBeat, masterVars, vars
<1>6. CASE LookUpFails(r)
  BY <1>6 DEF AgentTypeOK, LookUpFails, masterVars, vars
<1>7. CASE EnrolFails(r)
  <2>1. serving[r] \in Tokens
    BY <1>7 DEF EnrolFails, AgentTypeOK
  <2>2. CASE Void({serving[r]}) /\ UNCHANGED stray
    BY <1>7, <2>1, <2>2 DEF AgentTypeOK, EnrolFails, Void, TokenStates
  <2>3. ASSUME NEW n \in Nodes, Enrol(n, serving[r]), stray' = stray \cup {n} PROVE AgentTypeOK'
    BY <1>7, <2>1, <2>3 DEF AgentTypeOK, EnrolFails, Enrol, TokenStates, NodeStates
  <2> QED BY <1>7, <2>2, <2>3 DEF EnrolFails
<1> QED BY <1>1, <1>2, <1>3, <1>4, <1>5, <1>6, <1>7 DEF Handler

\* So does every step.
LEMMA AgentTypeStep == AgentTypeOK /\ [AgentNext]_allVars => AgentTypeOK'
<1> SUFFICES ASSUME AgentTypeOK, [AgentNext]_allVars PROVE AgentTypeOK'
  OBVIOUS
<1> USE EnrolmentAssumption
<1>1. ASSUME NEW a \in Agents, initEdgeAgent(a) PROVE AgentTypeOK'
  <2>1. UNION {Dropped(r) : r \in Of(a)} \subseteq Nodes
    BY DEF Dropped
  <2> QED BY <1>1, <2>1 DEF AgentTypeOK, initEdgeAgent, masterVars, vars
<1>2. ASSUME NEW t \in Tokens, MakeToken(t) \/ Expire(t) PROVE AgentTypeOK'
  BY <1>2 DEF AgentTypeOK, MakeToken, Issue, Expire, Void, TokenStates, agentVars
<1>3. ASSUME NEW n \in Nodes, DeleteNode(n) PROVE AgentTypeOK'
  BY <1>3 DEF AgentTypeOK, DeleteNode, Remove, NodeStates, agentVars
<1>4. CASE MasterRestart
  BY <1>4 DEF AgentTypeOK, MasterRestart, Void, TokenStates, agentVars
<1>5. CASE UNCHANGED allVars
  BY <1>5 DEF AgentTypeOK, allVars, masterVars, vars, agentVars
<1> QED BY <1>1, <1>2, <1>3, <1>4, <1>5, ThreadTyped, HandlerTyped DEF AgentNext

\* Agents, messages and the master keep their types.
THEOREM AgentTypeCorrect == AgentSpec => []AgentTypeOK
<1>1. AgentInit => AgentTypeOK
  BY EnrolmentAssumption
  DEF AgentInit, Init, AgentTypeOK, TokenStates, NodeStates, EdgeAgentState, Blank
<1> QED BY <1>1, AgentTypeStep, PTL DEF AgentSpec

------------------------------------------------------------------------------
(* The agents use the master as the contract says *)

LEMMA ContractKept == AgentTypeOK /\ [AgentNext]_allVars => [Next]_vars
<1> SUFFICES ASSUME AgentTypeOK, [AgentNext]_allVars PROVE [Next]_vars
  OBVIOUS
<1>1. ASSUME NEW r \in Threads, Thread(r) PROVE UNCHANGED vars
  BY <1>1 DEF Thread, LoopRegister, Register, LoopBeat, GiveUp, HearRefusal, HearGarbled, Adopt,
     LoseBeat, DropPost, masterVars
<1>2. ASSUME NEW r \in Threads, AcceptToken(r) PROVE Next
  BY <1>2 DEF AcceptToken, AgentTypeOK, Next
<1>3. ASSUME NEW r \in Threads, NEW n \in Nodes, EnrolNode(r, n) PROVE Next
  BY <1>3 DEF EnrolNode, AgentTypeOK, Next
<1>4. ASSUME NEW r \in Threads,
             RefuseToken(r) \/ LookUpFails(r) \/ ServeBeat(r) \/ RefuseBeat(r)
      PROVE  UNCHANGED vars
  BY <1>4 DEF RefuseToken, LookUpFails, ServeBeat, RefuseBeat, masterVars
<1>11. ASSUME NEW r \in Threads, EnrolFails(r) PROVE Next
  <2>1. serving[r] \in Tokens /\ {serving[r]} \in SUBSET Tokens
    BY <1>11 DEF EnrolFails, AgentTypeOK
  <2> QED BY <1>11, <2>1 DEF EnrolFails, Next
<1>5. ASSUME NEW a \in Agents, initEdgeAgent(a) PROVE UNCHANGED vars
  BY <1>5 DEF initEdgeAgent, masterVars
<1>6. ASSUME NEW t \in Tokens, MakeToken(t) PROVE Next
  BY <1>6 DEF MakeToken, Next
<1>7. ASSUME NEW t \in Tokens, Expire(t) PROVE Next
  <2>1. {t} \in SUBSET Tokens
    OBVIOUS
  <2> QED BY <1>7, <2>1 DEF Expire, Next
<1>8. ASSUME NEW n \in Nodes, DeleteNode(n) PROVE Next
  BY <1>8 DEF DeleteNode, Next
<1>9. CASE MasterRestart
  <2>1. {t \in Tokens : token[t] = "claimed"} \in SUBSET Tokens
    OBVIOUS
  <2> QED BY <1>9, <2>1 DEF MasterRestart, Next
<1>10. CASE UNCHANGED allVars
  BY <1>10 DEF allVars, masterVars
<1> QED BY <1>1, <1>2, <1>3, <1>4, <1>5, <1>6, <1>7, <1>8, <1>9, <1>10, <1>11
        DEF AgentNext, Handler

\* Agents, network and crashes together stay within the contract: whatever holds
\* of EnrollContract holds of the system.
THEOREM AgentsKeepContract == AgentSpec => Spec
<1>1. AgentInit => Init
  BY DEF AgentInit
<1> QED BY <1>1, ContractKept, AgentTypeCorrect, PTL DEF AgentSpec, Spec

------------------------------------------------------------------------------
(* The contract's own invariant, with the requests being served *)

\* A node was paid for by one token, which is spent and paid for nothing else.
PaysOnce ==
  /\ \A n \in Nodes : payer[n] # NoToken => token[payer[n]] = "paid"
  /\ \A n \in Nodes : payer[n] = NoToken <=> node[n] = "absent"
  /\ \A m, n \in Nodes : payer[m] = payer[n] /\ payer[m] # NoToken => m = n

\* What the methods of ClusterStorage promise together: by whichever engine and with
\* whatever requests between the two halves of RegisterNode, a node in the registry was
\* enrolled by one token, and a token enrols one node at most, for good.
THEOREM ContractPaysOnce == Spec => []PaysOnce
<1> DEFINE Kinds == /\ token \in [Tokens -> TokenStates]
                    /\ node \in [Nodes -> NodeStates]
                    /\ payer \in [Nodes -> Tokens \cup {NoToken}]
<1>1. Init => Kinds /\ PaysOnce
  BY DEF Init, PaysOnce, TokenStates, NodeStates
<1>2. Kinds /\ PaysOnce /\ [Next]_vars => Kinds' /\ PaysOnce'
  <2> SUFFICES ASSUME Kinds, PaysOnce, [Next]_vars PROVE Kinds' /\ PaysOnce'
    OBVIOUS
  <2>1. ASSUME NEW t \in Tokens, Issue(t) \/ Claim(t) PROVE Kinds' /\ PaysOnce'
    BY <2>1 DEF Issue, Claim, PaysOnce, TokenStates
  <2>2. ASSUME NEW n \in Nodes, NEW t \in Tokens, Enrol(n, t) PROVE Kinds' /\ PaysOnce'
    <3>1. /\ token[t] = "claimed" /\ node[n] = "absent"
          /\ token' = [token EXCEPT ![t] = "paid"]
          /\ node' = [node EXCEPT ![n] = "member"]
          /\ payer' = [payer EXCEPT ![n] = t]
      BY <2>2 DEF Enrol
    <3>2. Kinds'
      BY <3>1 DEF TokenStates, NodeStates
    <3>3. \A m \in Nodes : payer[m] # t
      BY <3>1, EnrolmentAssumption DEF PaysOnce
    <3>4. \A m \in Nodes : payer'[m] # NoToken => token'[payer'[m]] = "paid"
      BY <3>1 DEF PaysOnce
    <3>5. \A m \in Nodes : payer'[m] = NoToken <=> node'[m] = "absent"
      BY <3>1, EnrolmentAssumption DEF PaysOnce
    <3>6. \A m, k \in Nodes : payer'[m] = payer'[k] /\ payer'[m] # NoToken => m = k
      BY <3>1, <3>3 DEF PaysOnce
    <3> QED BY <3>2, <3>4, <3>5, <3>6 DEF PaysOnce
  <2>3. ASSUME NEW lost \in SUBSET Tokens, Void(lost) PROVE Kinds' /\ PaysOnce'
    <3>1. \A t \in Tokens : token'[t] = IF t \in lost THEN "void" ELSE token[t]
      BY <2>3 DEF Void
    <3>2. Kinds'
      BY <2>3, <3>1 DEF Void, TokenStates
    <3>3. \A t \in Tokens : token[t] = "paid" => token'[t] = "paid"
      BY <2>3, <3>1 DEF Void
    <3> QED BY <2>3, <3>2, <3>3 DEF Void, PaysOnce
  <2>4. ASSUME NEW n \in Nodes, Remove(n) PROVE Kinds' /\ PaysOnce'
    BY <2>4 DEF Remove, PaysOnce, NodeStates
  <2>5. CASE UNCHANGED vars
    BY <2>5 DEF vars, PaysOnce
  <2> QED BY <2>1, <2>2, <2>3, <2>4, <2>5 DEF Next
<1> QED BY <1>1, <1>2, PTL DEF Spec

TokensInv ==
  /\ PaysOnce
  /\ \A r \in Threads : serving[r] # NoToken => token[serving[r]] = "claimed"
  /\ \A r, s \in Threads : serving[r] = serving[s] /\ serving[r] # NoToken => r = s

\* Whatever voids tokens that are live, or all that are claimed, leaves the
\* tokens of nodes as they are.
LEMMA VoidKeepsPaid ==
  ASSUME AgentTypeOK, TokensInv, NEW lost \in SUBSET Tokens, Void(lost)
  PROVE  /\ UNCHANGED <<node, payer>>
         /\ \A n \in Nodes : payer[n] # NoToken => token'[payer[n]] = "paid"
  BY DEF Void, TokensInv, PaysOnce, AgentTypeOK

LEMMA TokensStep == AgentTypeOK /\ TokensInv /\ [AgentNext]_allVars => TokensInv'
<1> SUFFICES ASSUME AgentTypeOK, TokensInv, [AgentNext]_allVars PROVE TokensInv'
  OBVIOUS
<1> DEFINE Paid(r, n) == /\ serving[r] # NoToken
                         /\ Enrol(n, serving[r])
                         /\ serving' = [serving EXCEPT ![r] = NoToken]
<1> USE EnrolmentAssumption
<1>1. ASSUME NEW r \in Threads, Thread(r) PROVE UNCHANGED masterVars
  BY <1>1 DEF Thread, LoopRegister, Register, LoopBeat, GiveUp, HearRefusal, HearGarbled, Adopt,
     LoseBeat, DropPost
<1>2. ASSUME UNCHANGED masterVars PROVE TokensInv'
  BY <1>2 DEF TokensInv, PaysOnce, masterVars, vars
<1>3. ASSUME NEW r \in Threads, AcceptToken(r) PROVE TokensInv'
  <2>1. post[r] \in Tokens /\ token[post[r]] = "live"
    BY <1>3 DEF AcceptToken, AgentTypeOK, Claim
  <2> QED BY <1>3, <2>1 DEF TokensInv, PaysOnce, AcceptToken, Claim, AgentTypeOK
<1>4. ASSUME NEW r \in Threads, NEW n \in Nodes, Paid(r, n) PROVE TokensInv'
  <2>1. serving[r] \in Tokens /\ token[serving[r]] = "claimed" /\ payer[n] = NoToken
    BY <1>4 DEF Paid, AgentTypeOK, Enrol, TokensInv, PaysOnce
  <2>2. \A m \in Nodes : payer[m] # serving[r]
    BY <2>1 DEF TokensInv, PaysOnce
  <2>3. /\ token' = [token EXCEPT ![serving[r]] = "paid"]
        /\ node' = [node EXCEPT ![n] = "member"]
        /\ payer' = [payer EXCEPT ![n] = serving[r]]
        /\ serving' = [serving EXCEPT ![r] = NoToken]
    BY <1>4 DEF Paid, Enrol
  <2>4. \A m \in Nodes : payer'[m] # NoToken => token'[payer'[m]] = "paid"
    BY <2>1, <2>3 DEF TokensInv, PaysOnce, AgentTypeOK
  <2>5. \A m \in Nodes : payer'[m] = NoToken <=> node'[m] = "absent"
    BY <2>1, <2>3 DEF TokensInv, PaysOnce, AgentTypeOK
  <2>6. \A m, k \in Nodes : payer'[m] = payer'[k] /\ payer'[m] # NoToken => m = k
    BY <2>1, <2>2, <2>3 DEF TokensInv, PaysOnce, AgentTypeOK
  <2>7. \A s \in Threads : serving'[s] # NoToken => token'[serving'[s]] = "claimed"
    BY <2>1, <2>3 DEF TokensInv, PaysOnce, AgentTypeOK
  <2>8. \A p, s \in Threads : serving'[p] = serving'[s] /\ serving'[p] # NoToken => p = s
    BY <2>3 DEF TokensInv, PaysOnce, AgentTypeOK
  <2> QED BY <2>4, <2>5, <2>6, <2>7, <2>8 DEF TokensInv, PaysOnce
<1>5. ASSUME NEW r \in Threads,
             RefuseToken(r) \/ LookUpFails(r) \/ ServeBeat(r) \/ RefuseBeat(r)
      PROVE  UNCHANGED masterVars
  BY <1>5 DEF RefuseToken, LookUpFails, ServeBeat, RefuseBeat
<1>12. ASSUME NEW r \in Threads, EnrolFails(r) PROVE TokensInv'
  <2>1. ASSUME NEW n \in Nodes, Enrol(n, serving[r]) PROVE TokensInv'
    BY <1>4, <1>12, <2>1 DEF EnrolFails, Paid
  <2>2. CASE Void({serving[r]})
    <3>1. serving[r] \in Tokens /\ serving' = [serving EXCEPT ![r] = NoToken]
      BY <1>12 DEF EnrolFails, AgentTypeOK
    <3>2. \A u \in Tokens : token'[u] = IF u = serving[r] THEN "void" ELSE token[u]
      BY <2>2 DEF Void, AgentTypeOK
    <3> QED BY <2>2, <3>1, <3>2, VoidKeepsPaid DEF TokensInv, PaysOnce, AgentTypeOK
  <2> QED BY <1>12, <2>1, <2>2 DEF EnrolFails
<1>13. ASSUME NEW r \in Threads, NEW n \in Nodes, EnrolNode(r, n) PROVE TokensInv'
  BY <1>4, <1>13 DEF EnrolNode, Paid
<1>6. ASSUME NEW a \in Agents, initEdgeAgent(a) PROVE UNCHANGED masterVars
  BY <1>6 DEF initEdgeAgent
<1>7. ASSUME NEW t \in Tokens, MakeToken(t) PROVE TokensInv'
  BY <1>7 DEF MakeToken, Issue, TokensInv, PaysOnce, AgentTypeOK
<1>8. ASSUME NEW t \in Tokens, Expire(t) PROVE TokensInv'
  <2>1. \A u \in Tokens : token'[u] = IF u = t THEN "void" ELSE token[u]
    BY <1>8 DEF Expire, Void, AgentTypeOK
  <2>2. \A r \in Threads : serving[r] # t
    BY <1>8 DEF Expire, TokensInv, PaysOnce
  <2> QED BY <1>8, <2>1, <2>2, VoidKeepsPaid DEF Expire, TokensInv, PaysOnce, AgentTypeOK
<1>9. ASSUME NEW n \in Nodes, DeleteNode(n) PROVE TokensInv'
  BY <1>9 DEF DeleteNode, Remove, TokensInv, PaysOnce, AgentTypeOK
<1>10. CASE MasterRestart
  <2>1. {t \in Tokens : token[t] = "claimed"} \in SUBSET Tokens
    OBVIOUS
  <2> QED BY <1>10, <2>1, VoidKeepsPaid DEF MasterRestart, TokensInv, PaysOnce
<1>11. CASE UNCHANGED allVars
  BY <1>2, <1>11 DEF allVars
<1> QED BY <1>1, <1>2, <1>3, <1>4, <1>5, <1>6, <1>7, <1>8, <1>9, <1>10, <1>11,
           <1>12, <1>13
        DEF AgentNext, Handler

------------------------------------------------------------------------------
(* The flow of the messages *)

\* An answer travels only to a thread that waits, whose request is done with;
\* a request is on its way or being served, never both.
FlowInv ==
  \A r \in Threads :
    /\ answer[r] # NoNode => waiting[r] /\ post[r] = NoToken /\ serving[r] = NoToken
    /\ post[r] # NoToken => serving[r] = NoToken

LEMMA FlowStep == AgentTypeOK /\ FlowInv /\ [AgentNext]_allVars => FlowInv'
<1> SUFFICES ASSUME AgentTypeOK, FlowInv, [AgentNext]_allVars PROVE FlowInv'
  OBVIOUS
<1> USE EnrolmentAssumption
<1>1. ASSUME NEW r \in Threads, NEW t \in Tokens, Register(r, t) PROVE FlowInv'
  BY <1>1 DEF Register, Idle, FlowInv, AgentTypeOK, masterVars
<1>2. ASSUME NEW r \in Threads, LoopRegister(r) PROVE FlowInv'
  <2>1. FlagToken[AgentOf(r)] \in Tokens
    BY <1>2, ThreadsHaveAgents DEF LoopRegister
  <2> QED BY <1>1, <1>2, <2>1 DEF LoopRegister
<1>3. ASSUME NEW r \in Threads, LoopBeat(r) \/ LoseBeat(r) \/ ServeBeat(r) \/ RefuseBeat(r)
      PROVE  FlowInv'
  BY <1>3 DEF LoopBeat, LoseBeat, ServeBeat, RefuseBeat, FlowInv, masterVars
<1>4. ASSUME NEW r \in Threads, GiveUp(r) \/ HearRefusal(r) \/ HearGarbled(r) \/ Adopt(r)
      PROVE  FlowInv'
  <2>1. /\ waiting' = [waiting EXCEPT ![r] = FALSE]
        /\ answer' = [answer EXCEPT ![r] = NoNode]
        /\ UNCHANGED <<post, serving>>
    BY <1>4 DEF GiveUp, HearRefusal, HearGarbled, Adopt, masterVars
  <2> QED BY <2>1 DEF FlowInv, AgentTypeOK
<1>5. ASSUME NEW r \in Threads, DropPost(r) PROVE FlowInv'
  BY <1>5 DEF DropPost, FlowInv, AgentTypeOK, masterVars
<1>6. ASSUME NEW r \in Threads, AcceptToken(r) PROVE FlowInv'
  BY <1>6 DEF AcceptToken, FlowInv, AgentTypeOK
<1>7. ASSUME NEW r \in Threads, RefuseToken(r) \/ LookUpFails(r) PROVE FlowInv'
  BY <1>7 DEF RefuseToken, LookUpFails, FlowInv, AgentTypeOK, masterVars
<1>8. ASSUME NEW r \in Threads, (\E n \in Nodes : EnrolNode(r, n)) \/ EnrolFails(r)
      PROVE  FlowInv'
  BY <1>8 DEF EnrolNode, EnrolFails, FlowInv, AgentTypeOK
<1>9. ASSUME NEW a \in Agents, initEdgeAgent(a) PROVE FlowInv'
  BY <1>9 DEF initEdgeAgent, FlowInv, AgentTypeOK, masterVars
<1>10. ASSUME NEW t \in Tokens, MakeToken(t) \/ Expire(t) PROVE FlowInv'
  BY <1>10 DEF MakeToken, Expire, FlowInv, agentVars
<1>11. ASSUME NEW n \in Nodes, DeleteNode(n) PROVE FlowInv'
  BY <1>11 DEF DeleteNode, FlowInv, agentVars
<1>12. CASE MasterRestart
  BY <1>12 DEF MasterRestart, FlowInv, agentVars
<1>13. CASE UNCHANGED allVars
  BY <1>13 DEF FlowInv, allVars, masterVars, agentVars
<1> QED BY <1>1, <1>2, <1>3, <1>4, <1>5, <1>6, <1>7, <1>8, <1>9, <1>10, <1>11, <1>12, <1>13
        DEF AgentNext, Thread, Handler

------------------------------------------------------------------------------
(* The identities *)

IdentityInv ==
  /\ \A a \in Agents : \A n \in Identities(a) : payer[n] # NoToken
  /\ \A a, b \in Agents : \A n \in Identities(a) \cap Identities(b) : a = b

\* LastError aside, Report puts into the file what is in memory.
LEMMA ReportKeepsNodes ==
  ASSUME AgentTypeOK, NEW r \in Threads, NEW failed \in BOOLEAN, Report(r, failed)
  PROVE  \A a \in Agents : /\ state'[a].node = state[a].node
                          /\ file'[a].node \in {state[a].node, file[a].node}
<1>1. AgentOf(r) \in Agents
  BY ThreadsHaveAgents
<1>2. [state[AgentOf(r)] EXCEPT !.error = failed].node = state[AgentOf(r)].node
  BY <1>1 DEF AgentTypeOK, EdgeAgentState
<1> QED BY <1>1, <1>2 DEF Report, saveState, AgentTypeOK

\* Where the nodes in memory and file come from the same agent, and answers are
\* only dropped, nobody gains an identity.
LEMMA NothingGained ==
  ASSUME AgentTypeOK,
         \A a \in Agents : /\ state'[a].node \in {state[a].node, file[a].node}
                          /\ file'[a].node \in {state[a].node, file[a].node},
         \A r \in Threads : answer'[r] = answer[r] \/ answer'[r] \notin Nodes
  PROVE  \A a \in Agents : Identities(a)' \subseteq Identities(a)
  BY DEF Identities, Of, AgentOf

\* What a failing registration enrols has a token and is nobody's.
LEMMA FailedEnrolment ==
  ASSUME AgentTypeOK, TokensInv, IdentityInv, NEW r \in Threads, EnrolFails(r)
  PROVE  IdentityInv'
<1> USE EnrolmentAssumption
<1>1. UNCHANGED <<state, file>> /\ \A s \in Threads : answer'[s] = answer[s] \/ answer'[s] \notin Nodes
  BY DEF EnrolFails, AgentTypeOK
<1>2. \A a \in Agents : Identities(a)' \subseteq Identities(a)
  BY <1>1, NothingGained
<1>3. \A n \in Nodes : payer[n] # NoToken => payer'[n] # NoToken
  <2>1. CASE Void({serving[r]})
    BY <2>1 DEF Void
  <2>2. ASSUME NEW n \in Nodes, Enrol(n, serving[r])
        PROVE  \A m \in Nodes : payer[m] # NoToken => payer'[m] # NoToken
    BY <2>2 DEF Enrol, EnrolFails, AgentTypeOK
  <2> QED BY <2>1, <2>2 DEF EnrolFails
<1>4. \A a \in Agents : Identities(a) \subseteq Nodes
  BY DEF Identities
<1> QED BY <1>2, <1>3, <1>4 DEF IdentityInv

\* Only EnrolNode gives an agent a node that it had not before.
LEMMA IdentitiesShrink ==
  ASSUME AgentTypeOK, [AgentNext]_allVars,
         ~ \E r \in Threads : (\E n \in Nodes : EnrolNode(r, n)) \/ EnrolFails(r)
  PROVE  /\ \A a \in Agents : Identities(a)' \subseteq Identities(a)
         /\ payer' = payer
<1> USE EnrolmentAssumption
<1> DEFINE Same == UNCHANGED <<state, file, payer>>
           Calm == \A r \in Threads : answer'[r] = answer[r] \/ answer'[r] \notin Nodes
<1>1. ASSUME Same, Calm
      PROVE  (\A a \in Agents : Identities(a)' \subseteq Identities(a)) /\ payer' = payer
  BY <1>1, NothingGained
<1>2. ASSUME NEW r \in Threads, NEW failed \in BOOLEAN, Report(r, failed), payer' = payer, Calm
      PROVE  (\A a \in Agents : Identities(a)' \subseteq Identities(a)) /\ payer' = payer
  BY <1>2, ReportKeepsNodes, NothingGained
<1>3. ASSUME NEW r \in Threads,
             \/ \E t \in Tokens : Register(r, t)
             \/ LoopRegister(r) \/ LoopBeat(r) \/ HearGarbled(r) \/ DropPost(r)
             \/ AcceptToken(r) \/ RefuseToken(r) \/ LookUpFails(r)
      PROVE  Same /\ Calm
  BY <1>3 DEF Register, LoopRegister, LoopBeat, HearGarbled, DropPost, AcceptToken, RefuseToken,
     LookUpFails, Claim, masterVars, vars, AgentTypeOK
<1>4. ASSUME NEW r \in Threads,
             GiveUp(r) \/ HearRefusal(r) \/ LoseBeat(r) \/ ServeBeat(r) \/ RefuseBeat(r)
      PROVE  payer' = payer /\ Calm /\ \E failed \in BOOLEAN : Report(r, failed)
  BY <1>4 DEF GiveUp, HearRefusal, LoseBeat, ServeBeat, RefuseBeat, masterVars, vars, AgentTypeOK
<1>5. ASSUME NEW r \in Threads, Adopt(r)
      PROVE  (\A a \in Agents : Identities(a)' \subseteq Identities(a)) /\ payer' = payer
  <2>1. AgentOf(r) \in Agents /\ r \in Of(AgentOf(r)) /\ answer[r] \in Nodes /\ payer' = payer
    BY <1>5, ThreadsHaveAgents DEF Adopt, Of, masterVars, vars
  <2>2. \A s \in Threads : answer'[s] = answer[s] \/ answer'[s] \notin Nodes
    BY <1>5 DEF Adopt, AgentTypeOK
  <2>3. \A a \in Agents :
          /\ state'[a].node \in {state[a].node, file[a].node} \/ (a = AgentOf(r) /\ state'[a].node = answer[r])
          /\ file'[a].node \in {state[a].node, file[a].node} \/ (a = AgentOf(r) /\ file'[a].node = answer[r])
    BY <1>5, <2>1 DEF Adopt, saveState, AgentTypeOK, EdgeAgentState
  <2>4. \A a \in Agents : Identities(a)' \subseteq Identities(a)
    BY <2>1, <2>2, <2>3 DEF Identities, Of, AgentOf
  <2> QED BY <2>1, <2>4
<1>6. ASSUME NEW a \in Agents, initEdgeAgent(a)
      PROVE  (\A b \in Agents : Identities(b)' \subseteq Identities(b)) /\ payer' = payer
  <2>1. Calm /\ payer' = payer
    BY <1>6 DEF initEdgeAgent, AgentTypeOK, masterVars, vars
  <2>2. \A b \in Agents : /\ state'[b].node \in {state[b].node, file[b].node}
                         /\ file'[b].node \in {state[b].node, file[b].node}
    BY <1>6 DEF initEdgeAgent, AgentTypeOK
  <2> QED BY <2>1, <2>2, NothingGained
<1>7. ASSUME NEW t \in Tokens, MakeToken(t) \/ Expire(t) PROVE Same /\ Calm
  BY <1>7 DEF MakeToken, Issue, Expire, Void, agentVars
<1>8. ASSUME NEW n \in Nodes, DeleteNode(n) PROVE Same /\ Calm
  BY <1>8 DEF DeleteNode, Remove, agentVars
<1>9. CASE MasterRestart \/ UNCHANGED allVars
  <2>1. Same /\ Calm
    BY <1>9 DEF MasterRestart, Void, agentVars, allVars, masterVars, vars
  <2> QED BY <1>1, <2>1
<1>10. ASSUME NEW r \in Threads, Thread(r) \/ Handler(r)
       PROVE  (\A a \in Agents : Identities(a)' \subseteq Identities(a)) /\ payer' = payer
  BY <1>1, <1>2, <1>3, <1>4, <1>5, <1>10 DEF Thread, Handler
<1> QED BY <1>1, <1>6, <1>7, <1>8, <1>9, <1>10 DEF AgentNext

LEMMA IdentityStep ==
  AgentTypeOK /\ TokensInv /\ IdentityInv /\ [AgentNext]_allVars => IdentityInv'
<1> SUFFICES ASSUME AgentTypeOK, TokensInv, IdentityInv, [AgentNext]_allVars PROVE IdentityInv'
  OBVIOUS
<1>1. CASE ~ \E r \in Threads : (\E n \in Nodes : EnrolNode(r, n)) \/ EnrolFails(r)
  BY <1>1, IdentitiesShrink DEF IdentityInv
<1>2. ASSUME NEW r \in Threads, NEW n \in Nodes, EnrolNode(r, n) PROVE IdentityInv'
  <2>1. payer[n] = NoToken /\ serving[r] # NoToken /\ payer' = [payer EXCEPT ![n] = serving[r]]
    BY <1>2 DEF EnrolNode, Enrol, TokensInv, PaysOnce
  <2>2. \A a \in Agents : n \notin Identities(a)
    BY <2>1 DEF IdentityInv
  <2>3. \A s \in Threads : answer'[s] = answer[s] \/ answer'[s] \notin Nodes \/ (s = r /\ answer'[s] = n)
    BY <1>2, EnrolmentAssumption DEF EnrolNode, AgentTypeOK
  <2>4. UNCHANGED <<state, file>>
    BY <1>2 DEF EnrolNode
  <2>5. \A a \in Agents : Identities(a)' \subseteq Identities(a) \cup (IF a = AgentOf(r) THEN {n} ELSE {})
    BY <2>3, <2>4 DEF Identities, Of
  <2>6. \A m \in Nodes : m # n => payer'[m] = payer[m]
    BY <2>1 DEF AgentTypeOK
  <2>7. payer'[n] # NoToken
    BY <2>1 DEF AgentTypeOK
  <2>8. \A a \in Agents : \A m \in Identities(a)' : payer'[m] # NoToken
    BY <2>5, <2>6, <2>7 DEF IdentityInv, Identities
  <2>9. \A a, b \in Agents : \A m \in Identities(a)' \cap Identities(b)' : a = b
    BY <2>2, <2>5 DEF IdentityInv
  <2> QED BY <2>8, <2>9 DEF IdentityInv
<1> QED BY <1>1, <1>2, FailedEnrolment

\* Nodes are held by the agents that asked for them, and no two nodes have one
\* token: so one token serves one agent.
LEMMA OneAgentPerToken ==
  AgentTypeOK /\ TokensInv /\ IdentityInv => TokenServesOneAgent
  BY DEF TokensInv, PaysOnce, IdentityInv, TokenServesOneAgent, Identities

LEMMA EnrolmentInitially ==
  AgentInit => AgentTypeOK /\ TokensInv /\ FlowInv /\ IdentityInv
  BY EnrolmentAssumption
  DEF AgentInit, Init, AgentTypeOK, TokenStates, NodeStates, EdgeAgentState, Blank, TokensInv, PaysOnce,
      FlowInv, IdentityInv, Identities, Of

\* One token gives an identity to one agent only, however requests, answers and
\* crashes interleave, and whether or not the agents' saves succeed.
THEOREM OneTokenOneAgent == AgentSpec => []TokenServesOneAgent
  BY EnrolmentInitially, AgentTypeStep, TokensStep, IdentityStep, OneAgentPerToken, PTL
  DEF AgentSpec

------------------------------------------------------------------------------
(* No ghosts *)

\* The agents' saves succeed.
ReliableAgents == AgentSaves = {TRUE}

MembersInv ==
  /\ \A a \in Agents : state[a] = file[a]
  /\ MembersAccountedFor

\* With saves that succeed memory and file stay equal.
LEMMA SaveIsExact ==
  ASSUME ReliableAgents, AgentTypeOK, \A a \in Agents : state[a] = file[a],
         NEW b \in Agents, NEW s, saveState(b, s)
  PROVE  (\A a \in Agents : state'[a] = file'[a]) /\ state'[b] = s
         /\ \A a \in Agents : a # b => state'[a] = state[a]
  BY DEF ReliableAgents, saveState, AgentTypeOK

LEMMA ReportIsExact ==
  ASSUME ReliableAgents, AgentTypeOK, \A a \in Agents : state[a] = file[a],
         NEW r \in Threads, NEW failed \in BOOLEAN, Report(r, failed)
  PROVE  \A a \in Agents : state'[a] = file'[a] /\ file'[a].node = file[a].node
  BY SaveIsExact, ReportKeepsNodes, ThreadsHaveAgents DEF Report

\* Where no node joins, no file forgets a node and every answer that is dropped
\* is counted, all members stay accounted for.
LEMMA StillAccounted ==
  ASSUME AgentTypeOK, MembersAccountedFor,
         \A n \in Nodes : node'[n] = "member" => node[n] = "member",
         stray \subseteq stray',
         \A a \in Agents : file[a].node \in Nodes => file'[a].node = file[a].node \/ file[a].node \in stray',
         \A r \in Threads : answer[r] \in Nodes =>
           \/ answer'[r] = answer[r]
           \/ answer[r] \in stray'
           \/ \E a \in Agents : file'[a].node = answer[r]
  PROVE  MembersAccountedFor'
  BY DEF MembersAccountedFor, AgentTypeOK, EdgeAgentState

LEMMA MembersStep ==
  ASSUME ReliableAgents, AgentTypeOK, FlowInv, MembersInv, [AgentNext]_allVars
  PROVE  MembersInv'
<1> USE EnrolmentAssumption
<1>0. (\A a \in Agents : state[a] = file[a]) /\ MembersAccountedFor
  BY DEF MembersInv
<1>1. ASSUME NEW r \in Threads,
             \/ \E t \in Tokens : Register(r, t)
             \/ LoopRegister(r) \/ LoopBeat(r) \/ DropPost(r) \/ AcceptToken(r)
      PROVE  MembersInv'
  <2>1. UNCHANGED <<state, file, answer, stray, node>>
    BY <1>1 DEF Register, LoopRegister, LoopBeat, DropPost, AcceptToken, Claim, masterVars, vars
  <2> QED BY <1>0, <2>1 DEF MembersInv, MembersAccountedFor
<1>2. ASSUME NEW r \in Threads, GiveUp(r) \/ HearRefusal(r) PROVE MembersInv'
  <2>1. \A a \in Agents : state'[a] = file'[a] /\ file'[a].node = file[a].node
    BY <1>0, <1>2, ReportIsExact DEF GiveUp, HearRefusal
  <2>2. stray \subseteq stray' /\ node' = node
    BY <1>2 DEF GiveUp, HearRefusal, masterVars, vars
  <2>3. \A s \in Threads : answer[s] \in Nodes => answer'[s] = answer[s] \/ answer[s] \in stray'
    BY <1>2 DEF GiveUp, HearRefusal, Dropped, AgentTypeOK
  <2> QED BY <1>0, <2>1, <2>2, <2>3, StillAccounted DEF MembersInv
<1>3. ASSUME NEW r \in Threads, LoseBeat(r) \/ ServeBeat(r) \/ RefuseBeat(r) PROVE MembersInv'
  <2>1. \A a \in Agents : state'[a] = file'[a] /\ file'[a].node = file[a].node
    BY <1>0, <1>3, ReportIsExact DEF LoseBeat, ServeBeat, RefuseBeat
  <2>2. UNCHANGED <<stray, node, answer>>
    BY <1>3 DEF LoseBeat, ServeBeat, RefuseBeat, masterVars, vars
  <2> QED BY <1>0, <2>1, <2>2, StillAccounted DEF MembersInv
<1>4. ASSUME NEW r \in Threads, HearGarbled(r) PROVE MembersInv'
  <2>1. UNCHANGED <<state, file, node>> /\ stray' = stray \cup {answer[r]}
    BY <1>4 DEF HearGarbled, masterVars, vars
  <2>2. \A s \in Threads : answer[s] \in Nodes => answer'[s] = answer[s] \/ answer[s] \in stray'
    BY <1>4, <2>1 DEF HearGarbled, AgentTypeOK
  <2> QED BY <1>0, <2>1, <2>2, StillAccounted DEF MembersInv
<1>5. ASSUME NEW r \in Threads, Adopt(r) PROVE MembersInv'
  <2>1. AgentOf(r) \in Agents
    BY ThreadsHaveAgents
  <2>2. /\ \A a \in Agents : state'[a] = file'[a]
        /\ state'[AgentOf(r)] = [node |-> answer[r], error |-> FALSE]
        /\ \A a \in Agents : a # AgentOf(r) => state'[a] = state[a]
    BY <1>0, <1>5, <2>1, SaveIsExact DEF Adopt
  <2>3. node' = node /\ stray' = stray \cup Replaced(AgentOf(r))
    BY <1>5 DEF Adopt, masterVars, vars
  <2>4. \A a \in Agents : file[a].node \in Nodes => file'[a].node = file[a].node \/ file[a].node \in stray'
    BY <1>0, <2>1, <2>2, <2>3 DEF Replaced
  <2>5. \A s \in Threads : answer[s] \in Nodes =>
          answer'[s] = answer[s] \/ \E a \in Agents : file'[a].node = answer[s]
    BY <1>5, <2>1, <2>2 DEF Adopt, AgentTypeOK
  <2> QED BY <1>0, <2>2, <2>3, <2>4, <2>5, StillAccounted DEF MembersInv
<1>6. ASSUME NEW r \in Threads, RefuseToken(r) \/ LookUpFails(r) PROVE MembersInv'
  <2>1. UNCHANGED <<state, file, node, stray>>
    BY <1>6 DEF RefuseToken, LookUpFails, masterVars, vars
  <2>2. \A s \in Threads : answer[s] \in Nodes => answer'[s] = answer[s]
    BY <1>6 DEF RefuseToken, LookUpFails, FlowInv, AgentTypeOK
  <2> QED BY <1>0, <2>1, <2>2, StillAccounted DEF MembersInv
<1>7. ASSUME NEW r \in Threads, NEW n \in Nodes, EnrolNode(r, n) PROVE MembersInv'
  <2>1. UNCHANGED <<state, file>> /\ node' = [node EXCEPT ![n] = "member"]
    BY <1>7 DEF EnrolNode, Enrol
  <2>2. \A s \in Threads : answer[s] \in Nodes => answer'[s] = answer[s]
    BY <1>7 DEF EnrolNode, FlowInv, AgentTypeOK
  <2>3. (n \in stray' \/ answer'[r] = n) /\ stray \subseteq stray'
    BY <1>7 DEF EnrolNode, AgentTypeOK
  <2>4. \A m \in Nodes : m # n => (node'[m] = "member" => node[m] = "member")
    BY <2>1 DEF AgentTypeOK
  <2> QED BY <1>0, <2>1, <2>2, <2>3, <2>4 DEF MembersInv, MembersAccountedFor
<1>13. ASSUME NEW r \in Threads, EnrolFails(r) PROVE MembersInv'
  <2>1. UNCHANGED <<state, file>>
    BY <1>13 DEF EnrolFails
  <2>2. \A s \in Threads : answer[s] \in Nodes => answer'[s] = answer[s]
    BY <1>13 DEF EnrolFails, FlowInv, AgentTypeOK
  <2>3. stray \subseteq stray' /\ \A m \in Nodes \ stray' : node'[m] = node[m]
    BY <1>13 DEF EnrolFails, Void, Enrol, AgentTypeOK
  <2> QED BY <1>0, <2>1, <2>2, <2>3 DEF MembersInv, MembersAccountedFor
<1>8. ASSUME NEW a \in Agents, initEdgeAgent(a) PROVE MembersInv'
  <2>1. UNCHANGED <<file, node>> /\ stray \subseteq stray' /\ state' = [state EXCEPT ![a] = file[a]]
    BY <1>8 DEF initEdgeAgent, masterVars, vars
  <2>2. \A s \in Threads : answer[s] \in Nodes => answer'[s] = answer[s] \/ answer[s] \in stray'
    BY <1>8 DEF initEdgeAgent, Dropped
  <2>3. \A b \in Agents : state'[b] = file'[b]
    BY <1>0, <2>1 DEF AgentTypeOK
  <2> QED BY <1>0, <2>1, <2>2, <2>3, StillAccounted DEF MembersInv
<1>9. ASSUME NEW t \in Tokens, MakeToken(t) \/ Expire(t) PROVE MembersInv'
  BY <1>0, <1>9 DEF MembersInv, MembersAccountedFor, MakeToken, Issue, Expire, Void, agentVars
<1>10. ASSUME NEW n \in Nodes, DeleteNode(n) PROVE MembersInv'
  <2>1. UNCHANGED <<state, file, answer, stray>> /\ node' = [node EXCEPT ![n] = "gone"]
    BY <1>10 DEF DeleteNode, Remove, agentVars
  <2>2. \A m \in Nodes : node'[m] = "member" => node[m] = "member"
    BY <2>1 DEF AgentTypeOK
  <2> QED BY <1>0, <2>1, <2>2, StillAccounted DEF MembersInv
<1>11. CASE MasterRestart
  BY <1>0, <1>11 DEF MembersInv, MembersAccountedFor, MasterRestart, Void, agentVars
<1>12. CASE UNCHANGED allVars
  BY <1>0, <1>12 DEF MembersInv, MembersAccountedFor, allVars, masterVars, vars, agentVars
<1> QED BY <1>1, <1>2, <1>3, <1>4, <1>5, <1>6, <1>7, <1>8, <1>9, <1>10, <1>11, <1>12,
           <1>13
        DEF AgentNext, Thread, Handler

\* Where the agents' saves succeed, every node the master lists is some agent's,
\* is on its way to one, or was lost with an answer, replaced on the page or taken
\* for a failure by the master itself.
THEOREM NoOtherGhosts == ReliableAgents => (AgentSpec => []MembersAccountedFor)
<1> SUFFICES ASSUME ReliableAgents PROVE AgentSpec => []MembersAccountedFor
  OBVIOUS
<1>1. AgentInit => MembersInv
  BY DEF AgentInit, Init, MembersInv, MembersAccountedFor
<1>2. AgentTypeOK /\ FlowInv /\ MembersInv /\ [AgentNext]_allVars => MembersInv'
  BY MembersStep
<1>3. MembersInv => MembersAccountedFor
  BY DEF MembersInv
<1> QED BY <1>1, <1>2, <1>3, EnrolmentInitially, AgentTypeStep, FlowStep, PTL DEF AgentSpec
==============================================================================
