------------------------------ MODULE Enrolment ------------------------------
(***************************************************************************)
(* The edge agents (panel/cluster.go, type EdgeClusterAgent) enrolling     *)
(* with, and reporting to, a master.  Of the master this module takes what *)
(* EnrollContract promises, so that it holds for every storage engine that *)
(* keeps the promise; ClusterRegistry is shown to.                         *)
(*                                                                         *)
(* An agent has a loop, which registers with the token it was installed    *)
(* with until it has an identity and sends heartbeats from then on, and a  *)
(* page on which an operator connects it with any token; both run at once. *)
(* Requests and answers travel over a network that loses them, a caller    *)
(* gives up after ten seconds while the master goes on, answers are cut    *)
(* short, and agents as well as the master crash between any two steps.    *)
(***************************************************************************)
EXTENDS EnrollContract

CONSTANTS
  Agents,      \* edge servers
  Threads,     \* who may call Register: pairs of an agent and "loop" or "page"
  FlagToken,   \* FlagToken[a]: the token a was installed with, or NoToken
  NoNode,      \* "no node": outside Nodes
  Refused,     \* the answer to a registration the master refuses
  AgentSaves   \* how saveState may end: a subset of BOOLEAN, FALSE is a failure

ASSUME EnrolmentAssumption ==
  /\ NoToken \notin Tokens
  /\ Threads \subseteq Agents \X {"loop", "page"}
  /\ FlagToken \in [Agents -> Tokens \cup {NoToken}]
  /\ NoNode \notin Nodes
  /\ Refused \notin Nodes \cup {NoNode}
  /\ AgentSaves \subseteq BOOLEAN

VARIABLES
  serving,   \* serving[r]: the token that r's request has consumed there
  state,     \* state[a]: its EdgeAgentState: node id (with key), LastError
  file,      \* file[a]: the same in its state file
  waiting,   \* waiting[r]: thread r is inside Register, waiting for the answer
  post,      \* post[r]: the token in r's request on its way, or NoToken
  answer,    \* answer[r]: what travels back to r: a node, Refused or NoNode
  beat,      \* beat[r]: the node for which r is sending a heartbeat, or NoNode
  stray      \* history: nodes whose identity no agent received or kept, or
             \* whose enrolment the master itself took for a failure

masterVars == <<vars, serving>>
agentVars == <<state, file, waiting, post, answer, beat, stray>>
allVars == <<masterVars, agentVars>>

AgentOf(r) == r[1]
Of(a) == {r \in Threads : AgentOf(r) = a}
IsLoop(r) == r[2] = "loop"

EdgeAgentState == [node : Nodes \cup {NoNode}, error : BOOLEAN]
Blank == [node |-> NoNode, error |-> FALSE]

\* Thread r is not inside a call, and nothing is left of its last one: of the
\* requests of one thread only one is under way (two threads overlap freely).
Idle(r) ==
  /\ ~waiting[r]
  /\ beat[r] = NoNode
  /\ post[r] = NoToken
  /\ serving[r] = NoToken

------------------------------------------------------------------------------
(* The agent *)

\* saveState after the assignment of s; its error is dropped.
saveState(a, s) ==
  /\ state' = [state EXCEPT ![a] = s]
  /\ \E saved \in AgentSaves : file' = IF saved THEN [file EXCEPT ![a] = s] ELSE file

\* LastError of r's agent, saved: set after a failed call, cleared after a good one.
Report(r, failed) == saveState(AgentOf(r), [state[AgentOf(r)] EXCEPT !.error = failed])

AgentInit ==
  /\ Init
  /\ serving = [r \in Threads |-> NoToken]
  /\ state = [a \in Agents |-> Blank]
  /\ file = [a \in Agents |-> Blank]
  /\ waiting = [r \in Threads |-> FALSE]
  /\ post = [r \in Threads |-> NoToken]
  /\ answer = [r \in Threads |-> NoNode]
  /\ beat = [r \in Threads |-> NoNode]
  /\ stray = {}

\* Register up to httpClient.Post.
Register(r, t) ==
  /\ Idle(r)
  /\ waiting' = [waiting EXCEPT ![r] = TRUE]
  /\ post' = [post EXCEPT ![r] = t]
  /\ UNCHANGED <<masterVars, state, file, answer, beat, stray>>

MutRetryOnce(r) ==
  /\ state[AgentOf(r)] = Blank
  /\ FlagToken[AgentOf(r)] # NoToken
  /\ Register(r, FlagToken[AgentOf(r)])

\* run, at its start and at each tick of an agent without an identity.
LoopRegister(r) ==
  /\ state[AgentOf(r)].node = NoNode
  /\ FlagToken[AgentOf(r)] # NoToken
  /\ Register(r, FlagToken[AgentOf(r)])

\* run, at its start and at each tick of an agent that has one: sendHeartbeat
\* up to httpClient.Post.
LoopBeat(r) ==
  /\ Idle(r)
  /\ state[AgentOf(r)].node # NoNode
  /\ beat' = [beat EXCEPT ![r] = state[AgentOf(r)].node]
  /\ UNCHANGED <<masterVars, state, file, waiting, post, answer, stray>>

\* The node of an answer nobody will read.
Dropped(r) == IF answer[r] \in Nodes THEN {answer[r]} ELSE {}

\* Register after an error of the connection or after ten seconds: whatever is
\* on its way stays there, an answer that arrives later is dropped.
GiveUp(r) ==
  /\ waiting[r]
  /\ waiting' = [waiting EXCEPT ![r] = FALSE]
  /\ answer' = [answer EXCEPT ![r] = NoNode]
  /\ stray' = stray \cup Dropped(r)
  /\ Report(r, TRUE)
  /\ UNCHANGED <<masterVars, post, beat>>

\* Register after status 401.
HearRefusal(r) ==
  /\ waiting[r]
  /\ answer[r] = Refused
  /\ waiting' = [waiting EXCEPT ![r] = FALSE]
  /\ answer' = [answer EXCEPT ![r] = NoNode]
  /\ Report(r, TRUE)
  /\ UNCHANGED <<masterVars, post, beat, stray>>

\* Register after status 200 with a body that was cut short: no word of it in
\* LastError, and nothing is saved.
HearGarbled(r) ==
  /\ waiting[r]
  /\ answer[r] \in Nodes
  /\ waiting' = [waiting EXCEPT ![r] = FALSE]
  /\ answer' = [answer EXCEPT ![r] = NoNode]
  /\ stray' = stray \cup {answer[r]}
  /\ UNCHANGED <<masterVars, state, file, post, beat>>

\* The node that a registration of agent a replaces.
Replaced(a) == {state[a].node} \ {NoNode}

MutAdoptAnyStatus(r) ==
  /\ waiting[r]
  /\ answer[r] # NoNode
  /\ waiting' = [waiting EXCEPT ![r] = FALSE]
  /\ answer' = [answer EXCEPT ![r] = NoNode]
  /\ stray' = stray \cup Replaced(AgentOf(r))
  /\ saveState(AgentOf(r), [node |-> answer[r], error |-> FALSE])
  /\ beat' = [beat EXCEPT ![r] = answer[r]]
  /\ UNCHANGED <<masterVars, post>>

MutSaveBeforeAssign(r) ==
  /\ waiting[r]
  /\ answer[r] \in Nodes
  /\ waiting' = [waiting EXCEPT ![r] = FALSE]
  /\ answer' = [answer EXCEPT ![r] = NoNode]
  /\ stray' = stray \cup Replaced(AgentOf(r))
  /\ file' = [file EXCEPT ![AgentOf(r)] = state[AgentOf(r)]]
  /\ state' = [state EXCEPT ![AgentOf(r)] = [node |-> answer[r], error |-> FALSE]]
  /\ beat' = [beat EXCEPT ![r] = answer[r]]
  /\ UNCHANGED <<masterVars, post>>

\* Register after status 200: the identity is taken over and saved, whatever
\* another thread put there meanwhile, and the first heartbeat follows.
Adopt(r) ==
  /\ waiting[r]
  /\ answer[r] \in Nodes
  /\ waiting' = [waiting EXCEPT ![r] = FALSE]
  /\ answer' = [answer EXCEPT ![r] = NoNode]
  /\ stray' = stray \cup Replaced(AgentOf(r))
  /\ saveState(AgentOf(r), [node |-> answer[r], error |-> FALSE])
  /\ beat' = [beat EXCEPT ![r] = answer[r]]
  /\ UNCHANGED <<masterVars, post>>

\* sendHeartbeat when the master cannot be reached or is not heard.
LoseBeat(r) ==
  /\ beat[r] # NoNode
  /\ beat' = [beat EXCEPT ![r] = NoNode]
  /\ Report(r, TRUE)
  /\ UNCHANGED <<masterVars, waiting, post, answer, stray>>

\* The panel of edge a dies, with what its threads were waiting for, and starts
\* again: initEdgeAgent, loadState.
initEdgeAgent(a) ==
  /\ state' = [state EXCEPT ![a] = file[a]]
  /\ waiting' = [r \in Threads |-> waiting[r] /\ r \notin Of(a)]
  /\ answer' = [r \in Threads |-> IF r \in Of(a) THEN NoNode ELSE answer[r]]
  /\ beat' = [r \in Threads |-> IF r \in Of(a) THEN NoNode ELSE beat[r]]
  /\ stray' = stray \cup UNION {Dropped(r) : r \in Of(a)}
  /\ UNCHANGED <<masterVars, file, post>>

\* The network loses a request whose sender no longer waits for it.
DropPost(r) ==
  /\ post[r] # NoToken
  /\ ~waiting[r]
  /\ post' = [post EXCEPT ![r] = NoToken]
  /\ UNCHANGED <<masterVars, state, file, waiting, answer, beat, stray>>

------------------------------------------------------------------------------
(* The handlers of the master *)

\* handleClusterRegister: the first half of RegisterNode takes the token ...
AcceptToken(r) ==
  /\ post[r] # NoToken
  /\ serving[r] = NoToken
  /\ Claim(post[r])
  /\ serving' = [serving EXCEPT ![r] = post[r]]
  /\ post' = [post EXCEPT ![r] = NoToken]
  /\ UNCHANGED <<state, file, waiting, answer, beat, stray>>

MutAnswerAgain(r) ==
  /\ post[r] # NoToken
  /\ token[post[r]] # "live"
  /\ post' = [post EXCEPT ![r] = NoToken]
  /\ answer' = [answer EXCEPT ![r] =
       CASE ~waiting[r] -> NoNode
         [] waiting[r] /\ (\E n \in Nodes : payer[n] = post[r]) -> CHOOSE n \in Nodes : payer[n] = post[r]
         [] OTHER -> Refused]
  /\ UNCHANGED <<masterVars, state, file, waiting, beat, stray>>

\* ... or refuses it: unknown, used before, or over.
RefuseToken(r) ==
  /\ post[r] # NoToken
  /\ token[post[r]] # "live"
  /\ post' = [post EXCEPT ![r] = NoToken]
  /\ answer' = [answer EXCEPT ![r] = IF waiting[r] THEN Refused ELSE NoNode]
  /\ UNCHANGED <<masterVars, state, file, waiting, beat, stray>>

\* On the SQL engines it also refuses a token it could not look up.
LookUpFails(r) ==
  /\ post[r] # NoToken
  /\ post' = [post EXCEPT ![r] = NoToken]
  /\ answer' = [answer EXCEPT ![r] = IF waiting[r] THEN Refused ELSE NoNode]
  /\ UNCHANGED <<masterVars, state, file, waiting, beat, stray>>

\* Its second half, then the answer, if somebody still waits for it.
EnrolNode(r, n) ==
  /\ serving[r] # NoToken
  /\ Enrol(n, serving[r])
  /\ serving' = [serving EXCEPT ![r] = NoToken]
  /\ answer' = [answer EXCEPT ![r] = IF waiting[r] THEN n ELSE NoNode]
  /\ stray' = IF waiting[r] THEN stray ELSE stray \cup {n}
  /\ UNCHANGED <<state, file, waiting, post, beat>>

\* The same on the SQL engines when the INSERT of the node fails, the token being
\* consumed: no node is there, or it is and the answer of the database was lost.
EnrolFails(r) ==
  /\ serving[r] # NoToken
  /\ \/ Void({serving[r]}) /\ UNCHANGED stray
     \/ \E n \in Nodes : Enrol(n, serving[r]) /\ stray' = stray \cup {n}
  /\ serving' = [serving EXCEPT ![r] = NoToken]
  /\ answer' = [answer EXCEPT ![r] = IF waiting[r] THEN Refused ELSE NoNode]
  /\ UNCHANGED <<state, file, waiting, post, beat>>

\* handleClusterHeartbeat; the answer may be lost.
ServeBeat(r) ==
  /\ beat[r] # NoNode
  /\ node[beat[r]] = "member"
  /\ beat' = [beat EXCEPT ![r] = NoNode]
  /\ \E lost \in BOOLEAN : Report(r, lost)
  /\ UNCHANGED <<masterVars, waiting, post, answer, stray>>

MutRefusalOnlyLogged(r) ==
  /\ beat[r] # NoNode
  /\ node[beat[r]] # "member"
  /\ beat' = [beat EXCEPT ![r] = NoNode]
  /\ Report(r, FALSE)
  /\ UNCHANGED <<masterVars, waiting, post, answer, stray>>

\* The same for a node the registry does not know any more: status 401, and
\* the agent keeps its identity.
RefuseBeat(r) ==
  /\ beat[r] # NoNode
  /\ node[beat[r]] # "member"
  /\ beat' = [beat EXCEPT ![r] = NoNode]
  /\ Report(r, TRUE)
  /\ UNCHANGED <<masterVars, waiting, post, answer, stray>>

\* handleClusterToken.
MakeToken(t) == Issue(t) /\ UNCHANGED <<serving, agentVars>>

\* handleClusterNodes, DELETE.
DeleteNode(n) == Remove(n) /\ UNCHANGED <<serving, agentVars>>

\* The life of a token ends.
Expire(t) ==
  /\ token[t] = "live"
  /\ Void({t})
  /\ UNCHANGED <<serving, agentVars>>

\* The master's panel dies with the requests it was serving, and starts again.
MasterRestart ==
  /\ Void({t \in Tokens : token[t] = "claimed"})
  /\ serving' = [r \in Threads |-> NoToken]
  /\ UNCHANGED agentVars

------------------------------------------------------------------------------

Thread(r) ==
  \/ IsLoop(r) /\ LoopRegister(r)
  \/ IsLoop(r) /\ LoopBeat(r)
  \/ ~IsLoop(r) /\ \E t \in Tokens : Register(r, t)
  \/ GiveUp(r)
  \/ HearRefusal(r)
  \/ HearGarbled(r)
  \/ Adopt(r)
  \/ LoseBeat(r)
  \/ DropPost(r)

Handler(r) ==
  \/ AcceptToken(r)
  \/ RefuseToken(r)
  \/ LookUpFails(r)
  \/ \E n \in Nodes : EnrolNode(r, n)
  \/ EnrolFails(r)
  \/ ServeBeat(r)
  \/ RefuseBeat(r)

AgentNext ==
  \/ \E r \in Threads : Thread(r) \/ Handler(r)
  \/ \E a \in Agents : initEdgeAgent(a)
  \/ \E t \in Tokens : MakeToken(t) \/ Expire(t)
  \/ \E n \in Nodes : DeleteNode(n)
  \/ MasterRestart

AgentSpec == AgentInit /\ [][AgentNext]_allVars

\* A handler of the master goes on, a caller does not wait for ever, the ticker
\* of run goes on, and a request that is repeated for ever gets through again and
\* again, to a registry that can look up its token, whatever crashes in between.
AgentLiveSpec ==
  /\ AgentSpec
  /\ \A r \in Threads : IsLoop(r) =>
       /\ WF_allVars((\E n \in Nodes : EnrolNode(r, n)) \/ EnrolFails(r))
       /\ WF_allVars(GiveUp(r))
       /\ SF_allVars(AcceptToken(r) \/ RefuseToken(r))
       /\ SF_allVars(ServeBeat(r) \/ RefuseBeat(r))
       /\ SF_allVars(LoopRegister(r) \/ LoopBeat(r))

------------------------------------------------------------------------------
(* Properties *)

AgentTypeOK ==
  /\ token \in [Tokens -> TokenStates]
  /\ node \in [Nodes -> NodeStates]
  /\ payer \in [Nodes -> Tokens \cup {NoToken}]
  /\ serving \in [Threads -> Tokens \cup {NoToken}]
  /\ state \in [Agents -> EdgeAgentState]
  /\ file \in [Agents -> EdgeAgentState]
  /\ waiting \in [Threads -> BOOLEAN]
  /\ post \in [Threads -> Tokens \cup {NoToken}]
  /\ answer \in [Threads -> Nodes \cup {NoNode, Refused}]
  /\ beat \in [Threads -> Nodes \cup {NoNode}]
  /\ stray \subseteq Nodes

\* The identities agent a has in memory or in its file, or is being sent.
Identities(a) ==
  Nodes \cap ({state[a].node, file[a].node} \cup {answer[r] : r \in Of(a)})

\* An identity is a node the registry enrolled, and one token gives an
\* identity to one agent only, even when two were installed with it.
TokenServesOneAgent ==
  /\ \A a \in Agents : \A n \in Identities(a) : payer[n] # NoToken
  /\ \A a, b \in Agents : \A m \in Identities(a), n \in Identities(b) :
       payer[m] = payer[n] => a = b

\* A node the master lists is in the state file of an agent, or on its way to
\* one, or its answer was lost or replaced by a later registration, or the master
\* took its enrolment for a failure: a crash of the agent right after Register
\* does not leave a ghost behind.
MembersAccountedFor ==
  \A n \in Nodes \ stray :
    node[n] = "member" =>
      \/ \E a \in Agents : file[a].node = n
      \/ \E r \in Threads : answer[r] = n

\* An agent installed with a valid token gets an identity, or the token is
\* spent or over: run tries again after every failure.
TokenGetsUsed ==
  \A a \in Agents : \A t \in Tokens \cap {FlagToken[a]} :
    (token[t] = "live" /\ file[a].node = NoNode)
      ~> (token[t] # "live" \/ file[a].node # NoNode)

\* An agent whose node was deleted ends up showing an error for good, until it
\* is connected anew: a heartbeat for an earlier node that is answered late may
\* clear the error for a while, and nothing clears it for ever.
DeletionIsShown ==
  \A a \in Agents, n \in Nodes :
    (file[a].node = n /\ node[n] = "gone")
      ~> [](file[a].error \/ file[a].node # n)
==============================================================================
