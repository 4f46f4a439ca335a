----------------------------- MODULE SqlRegistry -----------------------------
(***************************************************************************)
(* The SQL engines of the cluster registry (panel/storage.go for SQLite,   *)
(* panel/pgstore.go for PostgreSQL; the two run the same statements in the *)
(* same order).  The state is in the database; each panel process takes    *)
(* its own mutex around a method, the methods run one statement at a time, *)
(* no transaction binds the statements of a method, and some of their      *)
(* errors are dropped.  A PostgreSQL database may serve several panels.    *)
(***************************************************************************)
CONSTANTS
  Panels,        \* panel processes on the same database (SQLite: one)
  Tokens, Nodes, \* what randHex may draw
  Requests,      \* requests the panels can be serving at once
  NoToken, NoPanel, NoNode,
  Outcomes       \* how a writing statement may end: a subset of AllOutcomes

\* "unanswered": the database applied it, the panel got an error (a timeout).
AllOutcomes == {"done", "failed", "unanswered"}

ASSUME SqlAssumption ==
  /\ NoToken \notin Tokens
  /\ NoPanel \notin Panels
  /\ NoNode \notin Nodes
  /\ Outcomes \subseteq AllOutcomes

VARIABLES
  tokens,    \* table cluster_tokens
  nodes,     \* table cluster_nodes: the identifiers of its rows
  req,       \* req[r]: the call request r is in the middle of
  expired,   \* tokens whose time is over
  issued,    \* history: tokens that reached the table
  disputed,  \* history: tokens whose DELETE failed, or that two panels read at once
  payer,     \* history: payer[n] is the token that paid for row n
  revoked    \* history: nodes whose deletion was answered with success

vars == <<tokens, nodes, req, expired, issued, disputed, payer, revoked>>

Idle == [pc |-> "idle", panel |-> NoPanel, token |-> NoToken, node |-> NoNode]

\* The points where a method has run a statement and has another one to run.
\* "accepted" holds no mutex: it lies between the two halves of RegisterNode.
Points == {"idle", "checked", "accepted", "beating"}

Calls == [pc : Points, panel : Panels \cup {NoPanel},
          token : Tokens \cup {NoToken}, node : Nodes \cup {NoNode}]

Locked(p) == \E r \in Requests : req[r].panel = p /\ req[r].pc \in {"checked", "beating"}

Reading(t) == \E r \in Requests : req[r].pc = "checked" /\ req[r].token = t

Applied(outcome) == outcome \in {"done", "unanswered"}

Init ==
  /\ tokens = {}
  /\ nodes = {}
  /\ req = [r \in Requests |-> Idle]
  /\ expired = {}
  /\ issued = {}
  /\ disputed = {}
  /\ payer = [n \in Nodes |-> NoToken]
  /\ revoked = {}

\* The error of the INSERT is dropped: a token the table does not have is
\* printed like any other, and is refused like one that nobody ever drew.
GenerateEnrollmentToken(p, t, outcome) ==
  /\ ~Locked(p)
  /\ t \notin issued
  /\ IF Applied(outcome)
     THEN /\ tokens' = tokens \cup {t}
          /\ issued' = issued \cup {t}
     ELSE UNCHANGED <<tokens, issued>>
  /\ UNCHANGED <<nodes, req, expired, disputed, payer, revoked>>

\* ValidateAndConsumeToken: SELECT expires_at.
SelectToken(r, p, t) ==
  /\ req[r] = Idle
  /\ ~Locked(p)
  /\ t \in tokens
  /\ req' = [req EXCEPT ![r] = [Idle EXCEPT !.pc = "checked", !.panel = p, !.token = t]]
  /\ disputed' = IF Reading(t) THEN disputed \cup {t} ELSE disputed
  /\ UNCHANGED <<tokens, nodes, expired, issued, payer, revoked>>

MutNoDelete(r, outcome) ==
  LET t == req[r].token IN
  /\ req[r].pc = "checked"
  /\ tokens' = tokens
  /\ req' = [req EXCEPT ![r] = IF t \in expired THEN Idle ELSE [@ EXCEPT !.pc = "accepted"]]
  /\ UNCHANGED <<nodes, expired, issued, disputed, payer, revoked>>

MutDeleteNotReleased(r, outcome) ==
  LET t == req[r].token IN
  /\ req[r].pc = "checked"
  /\ tokens' = IF Applied(outcome) THEN tokens \ {t} ELSE tokens
  /\ req' = [req EXCEPT ![r].pc = IF t \in expired THEN "expired" ELSE "accepted"]
  /\ UNCHANGED <<nodes, expired, issued, disputed, payer, revoked>>

MutAcceptExpired(r, outcome) ==
  LET t == req[r].token IN
  /\ req[r].pc = "checked"
  /\ tokens' = IF Applied(outcome) THEN tokens \ {t} ELSE tokens
  /\ req' = [req EXCEPT ![r].pc = "accepted"]
  /\ disputed' = IF Applied(outcome) THEN disputed ELSE disputed \cup {t}
  /\ UNCHANGED <<nodes, expired, issued, payer, revoked>>

\* ValidateAndConsumeToken: DELETE, its error dropped, then the clock is read.
DeleteToken(r, outcome) ==
  LET t == req[r].token IN
  /\ req[r].pc = "checked"
  /\ tokens' = IF Applied(outcome) THEN tokens \ {t} ELSE tokens
  /\ req' = [req EXCEPT ![r] = IF t \in expired THEN Idle ELSE [@ EXCEPT !.pc = "accepted"]]
  /\ disputed' = IF Applied(outcome) THEN disputed ELSE disputed \cup {t}
  /\ UNCHANGED <<nodes, expired, issued, payer, revoked>>

\* Second half of RegisterNode: INSERT of a random identifier.
InsertNode(r, n, outcome) ==
  /\ req[r].pc = "accepted"
  /\ ~Locked(req[r].panel)
  /\ payer[n] = NoToken
  /\ IF Applied(outcome)
     THEN /\ nodes' = nodes \cup {n}
          /\ payer' = [payer EXCEPT ![n] = req[r].token]
     ELSE UNCHANGED <<nodes, payer>>
  /\ req' = [req EXCEPT ![r] = Idle]
  /\ UNCHANGED <<tokens, expired, issued, disputed, revoked>>

\* ProcessHeartbeat: SELECT node_key.
SelectNode(r, p, n) ==
  /\ req[r] = Idle
  /\ ~Locked(p)
  /\ n \in nodes
  /\ req' = [req EXCEPT ![r] = [Idle EXCEPT !.pc = "beating", !.panel = p, !.node = n]]
  /\ UNCHANGED <<tokens, nodes, expired, issued, disputed, payer, revoked>>

MutUpsertNode(r) ==
  /\ req[r].pc = "beating"
  /\ nodes' = nodes \cup {req[r].node}
  /\ req' = [req EXCEPT ![r] = Idle]
  /\ UNCHANGED <<tokens, expired, issued, disputed, payer, revoked>>

\* ProcessHeartbeat: UPDATE ... WHERE id, which touches no row if the node is gone.
UpdateNode(r) ==
  /\ req[r].pc = "beating"
  /\ req' = [req EXCEPT ![r] = Idle]
  /\ UNCHANGED <<tokens, nodes, expired, issued, disputed, payer, revoked>>

\* DeleteNode: success is answered only if a row was deleted and reported.
DeleteNode(p, n, outcome) ==
  /\ ~Locked(p)
  /\ n \in nodes
  /\ nodes' = IF Applied(outcome) THEN nodes \ {n} ELSE nodes
  /\ revoked' = IF outcome = "done" THEN revoked \cup {n} ELSE revoked
  /\ UNCHANGED <<tokens, req, expired, issued, disputed, payer>>

\* A panel process dies: its requests end where they are.
Crash(p) ==
  /\ \E r \in Requests : req[r].panel = p
  /\ req' = [r \in Requests |-> IF req[r].panel = p THEN Idle ELSE req[r]]
  /\ UNCHANGED <<tokens, nodes, expired, issued, disputed, payer, revoked>>

Expire(t) ==
  /\ t \in issued \ expired
  /\ expired' = expired \cup {t}
  /\ UNCHANGED <<tokens, nodes, req, issued, disputed, payer, revoked>>

Write(outcome) ==
  \/ \E p \in Panels, t \in Tokens : GenerateEnrollmentToken(p, t, outcome)
  \/ \E r \in Requests : DeleteToken(r, outcome)
  \/ \E r \in Requests, n \in Nodes : InsertNode(r, n, outcome)
  \/ \E p \in Panels, n \in Nodes : DeleteNode(p, n, outcome)

Next ==
  \/ \E outcome \in Outcomes : Write(outcome)
  \/ \E r \in Requests, p \in Panels, t \in Tokens : SelectToken(r, p, t)
  \/ \E r \in Requests, p \in Panels, n \in Nodes : SelectNode(r, p, n)
  \/ \E r \in Requests : UpdateNode(r)
  \/ \E p \in Panels : Crash(p)
  \/ \E t \in Tokens : Expire(t)

Spec == Init /\ [][Next]_vars

------------------------------------------------------------------------------
TypeOK ==
  /\ tokens \subseteq Tokens
  /\ nodes \subseteq Nodes
  /\ req \in [Requests -> Calls]
  /\ expired \subseteq Tokens
  /\ issued \subseteq Tokens
  /\ disputed \subseteq Tokens
  /\ payer \in [Nodes -> Tokens \cup {NoToken}]
  /\ revoked \subseteq Nodes

\* A token enrols at most one node ("One-time use: delete regardless of
\* expiry", ValidateAndConsumeToken), unless its DELETE failed, the error being
\* dropped, or two panels were between their SELECT and DELETE at one time.
SingleUseUnlessDisputed ==
  \A m, n \in Nodes :
    payer[m] = payer[n] /\ payer[m] \notin disputed \cup {NoToken} => m = n

\* A node whose deletion was acknowledged stays deleted, whatever heartbeats
\* are between their two statements, on this panel or another (DeleteNode).
RevokedStaysRevoked == revoked \cap nodes = {}

------------------------------------------------------------------------------
(* Refinement: the contract of EnrollContract *)

Spent(t) == \E n \in Nodes : payer[n] = t
Accepted(t) == \E r \in Requests : req[r].pc = "accepted" /\ req[r].token = t

TokenState(t) ==
  CASE t \notin issued -> "unissued"
    [] t \in tokens \ expired -> "live"
    [] t \in issued \ tokens /\ Accepted(t) -> "claimed"
    [] t \in issued \ tokens /\ ~Accepted(t) /\ Spent(t) -> "paid"
    [] OTHER -> "void"

NodeState(n) ==
  CASE n \in nodes -> "member"
    [] n \notin nodes /\ payer[n] = NoToken -> "absent"
    [] OTHER -> "gone"

Contract == INSTANCE EnrollContract WITH
  token <- [t \in Tokens |-> TokenState(t)],
  node <- [n \in Nodes |-> NodeState(n)]

\* As long as no token is disputed, every statement of every panel is a step of
\* the contract the engines share, whatever INSERT or deletion of a node fails
\* or loses its answer and whichever panel dies.
KeepsContractUnlessDisputed == [][disputed' = {} => [Contract!Next]_(Contract!vars)]_vars
==============================================================================
