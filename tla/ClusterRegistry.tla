--------------------------- MODULE ClusterRegistry ---------------------------
(***************************************************************************)
(* The JSON engine of the cluster registry (panel/cluster.go, type         *)
(* ClusterStore): enrolment tokens and nodes in memory under one mutex,    *)
(* written to one file after each change.  RegisterNode takes the mutex    *)
(* twice, so other requests run between its two halves; the error of a     *)
(* save is dropped; the panel may crash between any two steps; and the     *)
(* command `dnsdist-panel -enrollment-token` is a second process that      *)
(* loads and rewrites the same file.                                       *)
(***************************************************************************)
EXTENDS Naturals

CONSTANTS
  Tokens,        \* what randHex may draw for tokens
  Nodes,         \* what randHex may draw for node identifiers
  Requests,      \* registration requests the panel can be serving at once
  NoToken,       \* "no token": outside Tokens
  SaveOutcomes,  \* how a save may end: a subset of BOOLEAN, FALSE is a failure
  CliRuns        \* how many times the command line tool may be started

ASSUME RegistryAssumption ==
  /\ NoToken \notin Tokens
  /\ SaveOutcomes \subseteq BOOLEAN
  /\ CliRuns \in Nat

VARIABLES
  up,        \* the panel process runs
  mem,       \* its tokens and nodes maps
  disk,      \* the same two maps in the file
  claim,     \* claim[r]: the token request r has consumed and not yet used
  cli,       \* the command line tool: whether it runs, and the maps it loaded
  cliLeft,   \* how many more times it may be started
  expired,   \* tokens whose time is over
  issued,    \* history: tokens handed to an operator
  consumed,  \* history: tokens accepted by ValidateAndConsumeToken
  spent,     \* history: those accepted since the panel started
  payer,     \* history: payer[n] is the token that enrolled n, or NoToken
  removed,   \* history: nodes DeleteNode took out of the map
  revoked    \* history: those whose deletion was answered with success

vars == <<up, mem, disk, claim, cli, cliLeft, expired,
          issued, consumed, spent, payer, removed, revoked>>
history == <<issued, consumed, spent, payer, removed, revoked>>

------------------------------------------------------------------------------
(* Records *)

Statuses == {"none", "online", "degraded", "offline"}

\* A NodeRecord, as far as its status goes: seen is whether the last heartbeat
\* is at most 3 minutes old, running is DnsdistRunning.  "none": not in the map.
NodeRecord == [status : Statuses, seen : BOOLEAN, running : BOOLEAN]
Absent == [status |-> "none", seen |-> FALSE, running |-> FALSE]

Store == [tokens : SUBSET Tokens, nodes : [Nodes -> NodeRecord]]
EmptyStore == [tokens |-> {}, nodes |-> [n \in Nodes |-> Absent]]

Has(store, n) == store.nodes[n].status # "none"

\* What operators of a running panel, or of one about to start, will see.
Current == IF up THEN mem ELSE disk

------------------------------------------------------------------------------
(* Operations *)

MutRefreshForgetsSilence(rec) ==
  IF rec.status = "none" THEN rec
  ELSE [rec EXCEPT !.status = IF rec.running THEN "online" ELSE "degraded"]

MutRefreshNewStatus(rec) ==
  CASE rec.status = "none" -> rec
    [] rec.status # "none" /\ ~rec.seen -> [rec EXCEPT !.status = "stale"]
    [] OTHER -> [rec EXCEPT !.status = "online"]

refreshNodeStatus(rec) ==
  CASE rec.status = "none" -> rec
    [] rec.status # "none" /\ ~rec.seen -> [rec EXCEPT !.status = "offline"]
    [] rec.status # "none" /\ rec.seen /\ ~rec.running -> [rec EXCEPT !.status = "degraded"]
    [] OTHER -> [rec EXCEPT !.status = "online"]

Refreshed(store) == [store EXCEPT !.nodes = [n \in Nodes |-> refreshNodeStatus(store.nodes[n])]]

load(file) == Refreshed([file EXCEPT !.tokens = @ \ expired])

\* The maps become `store` and are saved; a failed save leaves the old file.
save(store, ok) ==
  /\ mem' = store
  /\ disk' = IF ok THEN store ELSE disk

Init ==
  /\ up = TRUE
  /\ mem = EmptyStore
  /\ disk = EmptyStore
  /\ claim = [r \in Requests |-> NoToken]
  /\ cli = [running |-> FALSE, copy |-> EmptyStore]
  /\ cliLeft = CliRuns
  /\ expired = {}
  /\ issued = {}
  /\ consumed = {}
  /\ spent = {}
  /\ payer = [n \in Nodes |-> NoToken]
  /\ removed = {}
  /\ revoked = {}

MutGenerateUnsaved(t, ok) ==
  /\ up
  /\ t \notin issued
  /\ issued' = issued \cup {t}
  /\ mem' = [mem EXCEPT !.tokens = @ \cup {t}]
  /\ UNCHANGED <<up, disk, claim, cli, cliLeft, expired, consumed, spent, payer, removed, revoked>>

GenerateEnrollmentToken(t, ok) ==
  /\ up
  /\ t \notin issued
  /\ issued' = issued \cup {t}
  /\ save([mem EXCEPT !.tokens = @ \cup {t}], ok)
  /\ UNCHANGED <<up, claim, cli, cliLeft, expired, consumed, spent, payer, removed, revoked>>

MutConsumeKeepsToken(r, t, ok) ==
  /\ up
  /\ claim[r] = NoToken
  /\ t \in mem.tokens \ expired
  /\ claim' = [claim EXCEPT ![r] = t]
  /\ consumed' = consumed \cup {t}
  /\ spent' = spent \cup {t}
  /\ save(mem, ok)
  /\ UNCHANGED <<up, cli, cliLeft, expired, issued, payer, removed, revoked>>

MutConsumeUnsaved(r, t, ok) ==
  /\ up
  /\ claim[r] = NoToken
  /\ t \in mem.tokens \ expired
  /\ claim' = [claim EXCEPT ![r] = t]
  /\ consumed' = consumed \cup {t}
  /\ spent' = spent \cup {t}
  /\ mem' = [mem EXCEPT !.tokens = @ \ {t}]
  /\ UNCHANGED <<up, disk, cli, cliLeft, expired, issued, payer, removed, revoked>>

\* First half of RegisterNode: the token is valid, removed and saved.
ValidateAndConsumeToken(r, t, ok) ==
  /\ up
  /\ claim[r] = NoToken
  /\ t \in mem.tokens \ expired
  /\ claim' = [claim EXCEPT ![r] = t]
  /\ consumed' = consumed \cup {t}
  /\ spent' = spent \cup {t}
  /\ save([mem EXCEPT !.tokens = @ \ {t}], ok)
  /\ UNCHANGED <<up, cli, cliLeft, expired, issued, payer, removed, revoked>>

\* The same call on a token that is over: removed from the map, not saved.
RejectExpiredToken(t) ==
  /\ up
  /\ t \in mem.tokens \cap expired
  /\ mem' = [mem EXCEPT !.tokens = @ \ {t}]
  /\ UNCHANGED <<up, disk, claim, cli, cliLeft, expired, history>>

MutRegisterUnsaved(r, n, ok) ==
  /\ up
  /\ claim[r] # NoToken
  /\ payer[n] = NoToken
  /\ mem' = [mem EXCEPT !.nodes[n] = [status |-> "online", seen |-> TRUE, running |-> FALSE]]
  /\ payer' = [payer EXCEPT ![n] = claim[r]]
  /\ claim' = [claim EXCEPT ![r] = NoToken]
  /\ UNCHANGED <<up, disk, cli, cliLeft, expired, issued, consumed, spent, removed, revoked>>

\* Second half of RegisterNode: a random identifier, drawn by nobody before.
RegisterNode(r, n, ok) ==
  /\ up
  /\ claim[r] # NoToken
  /\ payer[n] = NoToken
  /\ save([mem EXCEPT !.nodes[n] = [status |-> "online", seen |-> TRUE, running |-> FALSE]], ok)
  /\ payer' = [payer EXCEPT ![n] = claim[r]]
  /\ claim' = [claim EXCEPT ![r] = NoToken]
  /\ UNCHANGED <<up, cli, cliLeft, expired, issued, consumed, spent, removed, revoked>>

ProcessHeartbeat(n, running, ok) ==
  /\ up
  /\ Has(mem, n)
  /\ save([mem EXCEPT !.nodes[n] =
             refreshNodeStatus([status |-> "online", seen |-> TRUE, running |-> running])], ok)
  /\ UNCHANGED <<up, claim, cli, cliLeft, expired, history>>

\* ListNodes and the 30 s ticker recompute every status; neither saves.
RefreshAll ==
  /\ up
  /\ mem' = Refreshed(mem)
  /\ UNCHANGED <<up, disk, claim, cli, cliLeft, expired, history>>

MutDeleteAlwaysOk(n, ok) ==
  /\ up
  /\ Has(mem, n)
  /\ save([mem EXCEPT !.nodes[n] = Absent], ok)
  /\ removed' = removed \cup {n}
  /\ revoked' = revoked \cup {n}
  /\ UNCHANGED <<up, claim, cli, cliLeft, expired, issued, consumed, spent, payer>>

\* DeleteNode answers with the error of its save.
DeleteNode(n, ok) ==
  /\ up
  /\ Has(mem, n)
  /\ save([mem EXCEPT !.nodes[n] = Absent], ok)
  /\ removed' = removed \cup {n}
  /\ revoked' = IF ok THEN revoked \cup {n} ELSE revoked
  /\ UNCHANGED <<up, claim, cli, cliLeft, expired, issued, consumed, spent, payer>>

Crash ==
  /\ up
  /\ up' = FALSE
  /\ mem' = EmptyStore
  /\ claim' = [r \in Requests |-> NoToken]
  /\ spent' = {}
  /\ UNCHANGED <<disk, cli, cliLeft, expired, issued, consumed, payer, removed, revoked>>

newClusterStore ==
  /\ ~up
  /\ up' = TRUE
  /\ mem' = load(disk)
  /\ UNCHANGED <<disk, claim, cli, cliLeft, expired, history>>

\* `dnsdist-panel -enrollment-token` loads the file, then adds one token to
\* what it loaded, writes the file and prints the token.
CliLoad ==
  /\ cliLeft > 0
  /\ ~cli.running
  /\ cliLeft' = cliLeft - 1
  /\ cli' = [running |-> TRUE, copy |-> load(disk)]
  /\ UNCHANGED <<up, mem, disk, claim, expired, history>>

CliGenerate(t, ok) ==
  /\ cli.running
  /\ t \notin issued
  /\ cli' = [running |-> FALSE, copy |-> EmptyStore]
  /\ disk' = IF ok THEN [cli.copy EXCEPT !.tokens = @ \cup {t}] ELSE disk
  /\ issued' = issued \cup {t}
  /\ UNCHANGED <<up, mem, claim, cliLeft, expired, consumed, spent, payer, removed, revoked>>

\* The 3 minutes after n's last heartbeat pass, for every copy of its record (an
\* older copy, left by a failed save, would be silent earlier).
GoSilent(n) ==
  /\ Has(mem, n) \/ Has(disk, n)
  /\ mem' = [mem EXCEPT !.nodes[n].seen = FALSE]
  /\ disk' = [disk EXCEPT !.nodes[n].seen = FALSE]
  /\ cli' = [cli EXCEPT !.copy.nodes[n].seen = FALSE]
  /\ UNCHANGED <<up, claim, cliLeft, expired, history>>

Expire(t) ==
  /\ t \in issued \ expired
  /\ expired' = expired \cup {t}
  /\ UNCHANGED <<up, mem, disk, claim, cli, cliLeft, history>>

Serve(ok) ==
  \/ \E t \in Tokens : GenerateEnrollmentToken(t, ok)
  \/ \E r \in Requests, t \in Tokens : ValidateAndConsumeToken(r, t, ok)
  \/ \E r \in Requests, n \in Nodes : RegisterNode(r, n, ok)
  \/ \E n \in Nodes, running \in BOOLEAN : ProcessHeartbeat(n, running, ok)
  \/ \E n \in Nodes : DeleteNode(n, ok)
  \/ \E t \in Tokens : CliGenerate(t, ok)

Next ==
  \/ \E ok \in SaveOutcomes : Serve(ok)
  \/ \E t \in Tokens : RejectExpiredToken(t) \/ Expire(t)
  \/ \E n \in Nodes : GoSilent(n)
  \/ RefreshAll
  \/ Crash
  \/ newClusterStore
  \/ CliLoad

Spec == Init /\ [][Next]_vars

\* The ticker goroutine of initClusterStore runs every 30 s while the panel is
\* up, and systemd restarts a panel that died.
LiveSpec == Spec /\ WF_vars(RefreshAll) /\ WF_vars(newClusterStore)

------------------------------------------------------------------------------
(* Properties *)

TypeOK ==
  /\ up \in BOOLEAN
  /\ mem \in Store
  /\ disk \in Store
  /\ claim \in [Requests -> Tokens \cup {NoToken}]
  /\ cli \in [running : BOOLEAN, copy : Store]
  /\ cliLeft \in Nat
  /\ expired \subseteq Tokens
  /\ issued \subseteq Tokens
  /\ consumed \subseteq Tokens
  /\ spent \subseteq Tokens
  /\ payer \in [Nodes -> Tokens \cup {NoToken}]
  /\ removed \subseteq Nodes
  /\ revoked \subseteq Nodes

\* A token enrols at most one node, ever: through concurrent registrations,
\* crashes and restarts (ValidateAndConsumeToken, "one-time use").
SingleUse ==
  \A m, n \in Nodes : payer[m] = payer[n] /\ payer[m] # NoToken => m = n

\* While one panel process lives, a token it accepted is not accepted again,
\* even when every save fails: the map in memory is what requests check.
NoReuseInOneLifetime ==
  [][\A r \in Requests : claim'[r] # claim[r] => claim'[r] \notin spent]_vars

\* A token the operator was given, that is neither used nor over, is accepted
\* by the running panel, also after restarts (the printed "berlaku 24 jam").
IssuedTokenHonoured ==
  up => issued \ (consumed \cup expired) \subseteq mem.tokens

\* A node that was enrolled and never deleted is known to the panel, so that
\* its heartbeats are accepted, also after a crash right after registration.
EnrolledNodeKept ==
  \A n \in Nodes : payer[n] # NoToken /\ n \notin removed => Has(Current, n)

\* A node whose deletion was acknowledged has lost its key for good: neither a
\* late save nor a restart brings it back (DeleteNode), as long as the command
\* line tool, which may write back what it loaded earlier, has not been used.
RevokedStaysRevoked ==
  cliLeft = CliRuns => \A n \in revoked : ~Has(mem, n) /\ ~Has(disk, n)

\* A node that stays silent is shown offline, unless it speaks again or is
\* deleted (the ticker of initClusterStore).
SilentGoesOffline ==
  \A n \in Nodes :
    (Has(Current, n) /\ ~Current.nodes[n].seen)
      ~> (~Has(Current, n) \/ Current.nodes[n].seen \/ (up /\ mem.nodes[n].status = "offline"))

------------------------------------------------------------------------------
(* Refinement: what the engine promises *)

TokenState(t) ==
  CASE t \notin issued -> "unissued"
    [] t \in issued /\ \E r \in Requests : claim[r] = t -> "claimed"
    [] t \in issued /\ (\A r \in Requests : claim[r] # t) /\ (\E n \in Nodes : payer[n] = t) -> "paid"
    [] t \in issued \ (consumed \cup expired) -> "live"
    [] OTHER -> "void"

NodeState(n) ==
  CASE payer[n] = NoToken -> "absent"
    [] payer[n] # NoToken /\ Has(Current, n) -> "member"
    [] OTHER -> "gone"

Contract == INSTANCE EnrollContract WITH
  token <- [t \in Tokens |-> TokenState(t)],
  node <- [n \in Nodes |-> NodeState(n)]

\* With saves that succeed and no second writer the engine implements the
\* contract every storage engine is documented to share.
ImplementsContract == Contract!Spec
==============================================================================
