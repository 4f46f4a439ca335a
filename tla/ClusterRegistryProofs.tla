------------------------ MODULE ClusterRegistryProofs ------------------------
(***************************************************************************)
(* Theorems about ClusterRegistry, for any number of tokens, nodes and     *)
(* requests.  The first ones hold in every environment; those under        *)
(* Reliable hold when saves succeed and no second process writes the file. *)
(***************************************************************************)
EXTENDS ClusterRegistry, TLAPS

Reliable == SaveOutcomes \subseteq {TRUE} /\ CliRuns = 0

------------------------------------------------------------------------------
(* Stores *)

\* Recomputing a status neither adds nor removes a record.
LEMMA RefreshRecord ==
  ASSUME NEW rec \in NodeRecord
  PROVE  /\ refreshNodeStatus(rec) \in NodeRecord
         /\ refreshNodeStatus(rec).status = "none" <=> rec.status = "none"
BY DEF refreshNodeStatus, NodeRecord, Statuses

\* The same for all the records of a store; the tokens stay.
LEMMA RefreshStore ==
  ASSUME NEW store \in Store
  PROVE  /\ Refreshed(store) \in Store
         /\ Refreshed(store).tokens = store.tokens
         /\ \A n \in Nodes : Has(Refreshed(store), n) <=> Has(store, n)
<1>1. \A n \in Nodes : store.nodes[n] \in NodeRecord
  BY DEF Store
<1>2. Refreshed(store) = [tokens |-> store.tokens,
                          nodes |-> [n \in Nodes |-> refreshNodeStatus(store.nodes[n])]]
  BY DEF Refreshed, Store
<1>3. \A n \in Nodes : /\ refreshNodeStatus(store.nodes[n]) \in NodeRecord
                       /\ refreshNodeStatus(store.nodes[n]).status = "none"
                            <=> store.nodes[n].status = "none"
  BY <1>1, RefreshRecord
<1>4. Refreshed(store).nodes \in [Nodes -> NodeRecord]
  BY <1>2, <1>3
<1>5. Refreshed(store) \in Store
  BY <1>2, <1>4 DEF Store
<1>6. \A n \in Nodes : Refreshed(store).nodes[n] = refreshNodeStatus(store.nodes[n])
  BY <1>2
<1> QED BY <1>2, <1>3, <1>5, <1>6 DEF Has

\* load keeps the nodes of the file and drops the expired tokens.
LEMMA LoadStore ==
  ASSUME NEW file \in Store
  PROVE  /\ load(file) \in Store
         /\ load(file).tokens = file.tokens \ expired
         /\ \A n \in Nodes : Has(load(file), n) <=> Has(file, n)
<1> DEFINE kept == [file EXCEPT !.tokens = @ \ expired]
<1>1. kept \in Store /\ kept.tokens = file.tokens \ expired /\ kept.nodes = file.nodes
  BY DEF Store
<1>2. \A n \in Nodes : Has(kept, n) <=> Has(file, n)
  BY <1>1 DEF Has
<1> QED BY <1>1, <1>2, RefreshStore DEF load

\* Writing one record of a store.
LEMMA PutRecord ==
  ASSUME NEW store \in Store, NEW n \in Nodes, NEW rec \in NodeRecord
  PROVE  LET new == [store EXCEPT !.nodes[n] = rec]
         IN  /\ new \in Store
             /\ new.tokens = store.tokens
             /\ \A m \in Nodes : Has(new, m) <=> IF m = n THEN rec.status # "none" ELSE Has(store, m)
<1> DEFINE new == [store EXCEPT !.nodes[n] = rec]
<1>1. new.nodes = [store.nodes EXCEPT ![n] = rec] /\ new.tokens = store.tokens
  BY DEF Store
<1>2. new \in Store
  BY DEF Store
<1>3. \A m \in Nodes : new.nodes[m] = IF m = n THEN rec ELSE store.nodes[m]
  BY <1>1 DEF Store
<1> QED BY <1>1, <1>2, <1>3 DEF Has

\* The 3 minutes of n pass: no record comes or goes.
LEMMA SilenceRecord ==
  ASSUME NEW store \in Store, NEW n \in Nodes
  PROVE  LET new == [store EXCEPT !.nodes[n].seen = FALSE]
         IN  /\ new \in Store
             /\ new.tokens = store.tokens
             /\ \A m \in Nodes : Has(new, m) <=> Has(store, m)
<1> DEFINE rec == [store.nodes[n] EXCEPT !.seen = FALSE]
           new == [store EXCEPT !.nodes[n].seen = FALSE]
<1>1. store.nodes[n] \in NodeRecord
  BY DEF Store
<1>2. rec \in NodeRecord /\ rec.status = store.nodes[n].status
  BY <1>1 DEF NodeRecord
<1>3. new = [store EXCEPT !.nodes[n] = rec]
  BY DEF Store
<1>4. /\ new \in Store
      /\ new.tokens = store.tokens
      /\ \A m \in Nodes : Has(new, m) <=> IF m = n THEN rec.status # "none" ELSE Has(store, m)
  BY <1>2, <1>3, PutRecord
<1> QED BY <1>2, <1>4 DEF Has

\* Adding and removing tokens leaves the nodes alone.
LEMMA PutTokens ==
  ASSUME NEW store \in Store, NEW toks \in SUBSET Tokens
  PROVE  LET new == [store EXCEPT !.tokens = toks]
         IN  /\ new \in Store
             /\ new.tokens = toks
             /\ \A m \in Nodes : Has(new, m) <=> Has(store, m)
BY DEF Store, Has

\* The maps of a new panel hold nothing; Absent is what a deletion leaves.
LEMMA EmptyStoreIsStore ==
  /\ EmptyStore \in Store
  /\ EmptyStore.tokens = {}
  /\ \A n \in Nodes : ~Has(EmptyStore, n)
  /\ Absent \in NodeRecord
  /\ Absent.status = "none"
BY DEF EmptyStore, Store, Has, Absent, NodeRecord, Statuses

\* The records that registration and a heartbeat write.
LEMMA NewRecords ==
  ASSUME NEW running \in BOOLEAN
  PROVE  LET joined == [status |-> "online", seen |-> TRUE, running |-> running]
         IN  /\ joined \in NodeRecord
             /\ joined.status # "none"
             /\ refreshNodeStatus(joined) \in NodeRecord
             /\ refreshNodeStatus(joined).status # "none"
<1> DEFINE joined == [status |-> "online", seen |-> TRUE, running |-> running]
<1>1. joined \in NodeRecord /\ joined.status # "none"
  BY DEF NodeRecord, Statuses
<1> QED BY <1>1, RefreshRecord

------------------------------------------------------------------------------
(* Type correctness *)

\* Every step keeps the maps, on both sides of the file, well formed.
LEMMA TypeStep == TypeOK /\ [Next]_vars => TypeOK'
<1> SUFFICES ASSUME TypeOK, [Next]_vars PROVE TypeOK'
  OBVIOUS
<1> USE RegistryAssumption
<1>1. ASSUME NEW t \in Tokens, NEW ok \in SaveOutcomes, GenerateEnrollmentToken(t, ok)
      PROVE  TypeOK'
  <2>1. [mem EXCEPT !.tokens = @ \cup {t}] \in Store
    BY DEF TypeOK, Store
  <2> QED BY <1>1, <2>1 DEF TypeOK, GenerateEnrollmentToken, save
<1>2. ASSUME NEW r \in Requests, NEW t \in Tokens, NEW ok \in SaveOutcomes,
             ValidateAndConsumeToken(r, t, ok)
      PROVE  TypeOK'
  <2>1. [mem EXCEPT !.tokens = @ \ {t}] \in Store
    BY DEF TypeOK, Store
  <2> QED BY <1>2, <2>1 DEF TypeOK, ValidateAndConsumeToken, save
<1>3. ASSUME NEW r \in Requests, NEW n \in Nodes, NEW ok \in SaveOutcomes,
             RegisterNode(r, n, ok)
      PROVE  TypeOK'
  <2>1. [mem EXCEPT !.nodes[n] = [status |-> "online", seen |-> TRUE, running |-> FALSE]] \in Store
    BY NewRecords, PutRecord DEF TypeOK
  <2> QED BY <1>3, <2>1 DEF TypeOK, RegisterNode, save
<1>4. ASSUME NEW n \in Nodes, NEW running \in BOOLEAN, NEW ok \in SaveOutcomes,
             ProcessHeartbeat(n, running, ok)
      PROVE  TypeOK'
  <2>1. [mem EXCEPT !.nodes[n] = refreshNodeStatus(
           [status |-> "online", seen |-> TRUE, running |-> running])] \in Store
    BY NewRecords, PutRecord DEF TypeOK
  <2> QED BY <1>4, <2>1 DEF TypeOK, ProcessHeartbeat, save, history
<1>5. ASSUME NEW n \in Nodes, NEW ok \in SaveOutcomes, DeleteNode(n, ok)
      PROVE  TypeOK'
  <2>1. [mem EXCEPT !.nodes[n] = Absent] \in Store
    BY EmptyStoreIsStore, PutRecord DEF TypeOK
  <2> QED BY <1>5, <2>1 DEF TypeOK, DeleteNode, save
<1>6. ASSUME NEW t \in Tokens, NEW ok \in SaveOutcomes, CliGenerate(t, ok)
      PROVE  TypeOK'
  <2>1. [cli.copy EXCEPT !.tokens = @ \cup {t}] \in Store
    BY DEF TypeOK, Store
  <2> QED BY <1>6, <2>1, EmptyStoreIsStore DEF TypeOK, CliGenerate
<1>7. ASSUME NEW t \in Tokens, RejectExpiredToken(t)
      PROVE  TypeOK'
  <2>1. [mem EXCEPT !.tokens = @ \ {t}] \in Store
    BY DEF TypeOK, Store
  <2> QED BY <1>7, <2>1 DEF TypeOK, RejectExpiredToken, history
<1>8. ASSUME NEW t \in Tokens, Expire(t) PROVE TypeOK'
  BY <1>8 DEF TypeOK, Expire, history
<1>9. ASSUME NEW n \in Nodes, GoSilent(n) PROVE TypeOK'
  BY <1>9, SilenceRecord DEF TypeOK, GoSilent, history
<1>10. ASSUME RefreshAll PROVE TypeOK'
  BY <1>10, RefreshStore DEF TypeOK, RefreshAll, history
<1>11. ASSUME Crash PROVE TypeOK'
  BY <1>11, EmptyStoreIsStore DEF TypeOK, Crash
<1>12. ASSUME newClusterStore PROVE TypeOK'
  BY <1>12, LoadStore DEF TypeOK, newClusterStore, history
<1>13. ASSUME CliLoad PROVE TypeOK'
  BY <1>13, LoadStore DEF TypeOK, CliLoad, history
<1>14. ASSUME UNCHANGED vars PROVE TypeOK'
  BY <1>14 DEF TypeOK, vars
<1> QED BY <1>1, <1>2, <1>3, <1>4, <1>5, <1>6, <1>7, <1>8, <1>9, <1>10, <1>11, <1>12,
           <1>13, <1>14 DEF Next, Serve

\* The registry keeps its types in every environment.
THEOREM TypeCorrect == Spec => []TypeOK
<1>1. Init => TypeOK
  BY RegistryAssumption, EmptyStoreIsStore DEF Init, TypeOK
<1> QED BY <1>1, TypeStep, PTL DEF Spec

------------------------------------------------------------------------------
(* What holds in every environment *)

\* What every process believes was once issued, and what this panel accepted
\* since it started is no longer in its map.
SpentIsGone ==
  /\ mem.tokens \cup disk.tokens \cup cli.copy.tokens \subseteq issued
  /\ spent \subseteq issued
  /\ spent \cap mem.tokens = {}
  /\ ~up => spent = {}

\* Every step, in every environment, keeps it.
LEMMA SpentStep == TypeOK /\ SpentIsGone /\ [Next]_vars => SpentIsGone'
<1> SUFFICES ASSUME TypeOK, SpentIsGone, [Next]_vars PROVE SpentIsGone'
  OBVIOUS
<1>1. ASSUME NEW t \in Tokens, NEW ok \in SaveOutcomes, GenerateEnrollmentToken(t, ok)
      PROVE  SpentIsGone'
  <2>1. [mem EXCEPT !.tokens = @ \cup {t}].tokens = mem.tokens \cup {t}
    BY DEF TypeOK, Store
  <2> QED BY <1>1, <2>1 DEF SpentIsGone, GenerateEnrollmentToken, save
<1>2. ASSUME NEW r \in Requests, NEW t \in Tokens, NEW ok \in SaveOutcomes,
             ValidateAndConsumeToken(r, t, ok)
      PROVE  SpentIsGone'
  <2>1. [mem EXCEPT !.tokens = @ \ {t}].tokens = mem.tokens \ {t}
    BY DEF TypeOK, Store
  <2> QED BY <1>2, <2>1 DEF SpentIsGone, ValidateAndConsumeToken, save
<1>3. ASSUME NEW r \in Requests, NEW n \in Nodes, NEW ok \in SaveOutcomes,
             RegisterNode(r, n, ok)
      PROVE  SpentIsGone'
  BY <1>3, NewRecords, PutRecord DEF SpentIsGone, TypeOK, RegisterNode, save
<1>4. ASSUME NEW n \in Nodes, NEW running \in BOOLEAN, NEW ok \in SaveOutcomes,
             ProcessHeartbeat(n, running, ok)
      PROVE  SpentIsGone'
  BY <1>4, NewRecords, PutRecord DEF SpentIsGone, TypeOK, ProcessHeartbeat, save, history
<1>5. ASSUME NEW n \in Nodes, NEW ok \in SaveOutcomes, DeleteNode(n, ok)
      PROVE  SpentIsGone'
  BY <1>5, EmptyStoreIsStore, PutRecord DEF SpentIsGone, TypeOK, DeleteNode, save
<1>6. ASSUME NEW t \in Tokens, NEW ok \in SaveOutcomes, CliGenerate(t, ok)
      PROVE  SpentIsGone'
  <2>1. [cli.copy EXCEPT !.tokens = @ \cup {t}].tokens = cli.copy.tokens \cup {t}
    BY DEF TypeOK, Store
  <2> QED BY <1>6, <2>1, EmptyStoreIsStore DEF SpentIsGone, CliGenerate
<1>7. ASSUME NEW t \in Tokens, RejectExpiredToken(t)
      PROVE  SpentIsGone'
  <2>1. [mem EXCEPT !.tokens = @ \ {t}].tokens = mem.tokens \ {t}
    BY DEF TypeOK, Store
  <2> QED BY <1>7, <2>1 DEF SpentIsGone, RejectExpiredToken, history
<1>8. ASSUME NEW t \in Tokens, Expire(t) PROVE SpentIsGone'
  BY <1>8 DEF SpentIsGone, Expire, history
<1>9. ASSUME NEW n \in Nodes, GoSilent(n) PROVE SpentIsGone'
  BY <1>9, SilenceRecord DEF SpentIsGone, TypeOK, GoSilent, history
<1>10. ASSUME RefreshAll PROVE SpentIsGone'
  BY <1>10, RefreshStore DEF SpentIsGone, TypeOK, RefreshAll, history
<1>11. ASSUME Crash PROVE SpentIsGone'
  BY <1>11, EmptyStoreIsStore DEF SpentIsGone, Crash
<1>12. ASSUME newClusterStore PROVE SpentIsGone'
  <2>1. ~up /\ spent' = spent /\ disk' = disk /\ cli' = cli /\ issued' = issued
    BY <1>12 DEF newClusterStore, history
  <2> QED BY <1>12, <2>1, LoadStore DEF SpentIsGone, TypeOK, newClusterStore
<1>13. ASSUME CliLoad PROVE SpentIsGone'
  BY <1>13, LoadStore DEF SpentIsGone, TypeOK, CliLoad, history
<1>14. ASSUME UNCHANGED vars PROVE SpentIsGone'
  BY <1>14 DEF SpentIsGone, vars
<1> QED BY <1>1, <1>2, <1>3, <1>4, <1>5, <1>6, <1>7, <1>8, <1>9, <1>10, <1>11, <1>12,
           <1>13, <1>14 DEF Next, Serve

\* A panel never accepts a token twice in one lifetime, whatever the saves do
\* and whoever else writes the file (ValidateAndConsumeToken).
THEOREM NoReuse == Spec => NoReuseInOneLifetime
<1> DEFINE OneStep == \A r \in Requests : claim'[r] # claim[r] => claim'[r] \notin spent
<1>1. Init => SpentIsGone
  BY EmptyStoreIsStore DEF Init, SpentIsGone
<1>2. TypeOK /\ SpentIsGone /\ [Next]_vars => [OneStep]_vars
  <2> SUFFICES ASSUME TypeOK, SpentIsGone, Next, NEW r \in Requests, claim'[r] # claim[r]
               PROVE  claim'[r] \notin spent
    OBVIOUS
  <2>1. CASE \E q \in Requests, t \in Tokens, ok \in SaveOutcomes :
               ValidateAndConsumeToken(q, t, ok)
    <3>1. PICK q \in Requests, t \in Tokens, ok \in SaveOutcomes :
                ValidateAndConsumeToken(q, t, ok)
      BY <2>1
    <3>2. claim' = [claim EXCEPT ![q] = t] /\ t \in mem.tokens
      BY <3>1 DEF ValidateAndConsumeToken
    <3>3. claim'[r] = t
      BY <3>2 DEF TypeOK
    <3> QED BY <3>2, <3>3 DEF SpentIsGone
  <2>2. CASE \E q \in Requests, n \in Nodes, ok \in SaveOutcomes : RegisterNode(q, n, ok)
    <3>1. PICK q \in Requests : claim' = [claim EXCEPT ![q] = NoToken]
      BY <2>2 DEF RegisterNode
    <3>2. claim'[r] = NoToken
      BY <3>1 DEF TypeOK
    <3> QED BY <3>2, RegistryAssumption DEF TypeOK
  <2>3. CASE Crash
    BY <2>3, RegistryAssumption DEF Crash, TypeOK
  <2>4. CASE UNCHANGED claim
    BY <2>4
  <2>5. \/ UNCHANGED claim
        \/ Crash
        \/ \E q \in Requests, t \in Tokens, ok \in SaveOutcomes :
             ValidateAndConsumeToken(q, t, ok)
        \/ \E q \in Requests, n \in Nodes, ok \in SaveOutcomes : RegisterNode(q, n, ok)
    BY DEF Next, Serve, GenerateEnrollmentToken, ProcessHeartbeat, DeleteNode, CliGenerate,
           RejectExpiredToken, Expire, GoSilent, RefreshAll, newClusterStore, CliLoad
  <2> QED BY <2>1, <2>2, <2>3, <2>4, <2>5
<1> QED BY <1>1, <1>2, TypeCorrect, SpentStep, PTL DEF Spec, NoReuseInOneLifetime

------------------------------------------------------------------------------
(* What holds until a second process writes the file *)

\* Records only exist for identifiers that were drawn, and none for those whose
\* deletion was acknowledged, on either side of the file.
NodesKnown ==
  /\ ~cli.running
  /\ cliLeft = CliRuns
  /\ \A n \in Nodes : Has(mem, n) \/ Has(disk, n) => payer[n] # NoToken
  /\ \A n \in revoked : payer[n] # NoToken /\ ~Has(mem, n) /\ ~Has(disk, n)

\* Every step but a start of the tool keeps it.
LEMMA NodesKnownStep ==
  TypeOK /\ NodesKnown /\ [Next]_vars /\ ~CliLoad => NodesKnown'
<1> SUFFICES ASSUME TypeOK, NodesKnown, [Next]_vars, ~CliLoad PROVE NodesKnown'
  OBVIOUS
<1> USE RegistryAssumption
<1>1. ASSUME NEW t \in Tokens, NEW ok \in SaveOutcomes, GenerateEnrollmentToken(t, ok)
      PROVE  NodesKnown'
  <2>1. \A n \in Nodes : Has(mem', n) <=> Has(mem, n)
    BY <1>1 DEF GenerateEnrollmentToken, save, Has, TypeOK, Store
  <2> QED BY <1>1, <2>1 DEF NodesKnown, TypeOK, GenerateEnrollmentToken, save, Has
<1>2. ASSUME NEW r \in Requests, NEW t \in Tokens, NEW ok \in SaveOutcomes,
             ValidateAndConsumeToken(r, t, ok)
      PROVE  NodesKnown'
  <2>1. \A n \in Nodes : Has(mem', n) <=> Has(mem, n)
    BY <1>2 DEF ValidateAndConsumeToken, save, Has, TypeOK, Store
  <2> QED BY <1>2, <2>1 DEF NodesKnown, TypeOK, ValidateAndConsumeToken, save, Has
<1>3. ASSUME NEW r \in Requests, NEW n \in Nodes, NEW ok \in SaveOutcomes,
             RegisterNode(r, n, ok)
      PROVE  NodesKnown'
  <2>1. \A m \in Nodes : Has(mem', m) <=> (m = n \/ Has(mem, m))
    BY <1>3, NewRecords, PutRecord DEF RegisterNode, save, TypeOK
  <2>2. payer' = [payer EXCEPT ![n] = claim[r]] /\ payer[n] = NoToken /\ claim[r] # NoToken
    BY <1>3 DEF RegisterNode
  <2>3. \A m \in Nodes : payer'[m] = IF m = n THEN claim[r] ELSE payer[m]
    BY <2>2 DEF TypeOK
  <2>4. disk' = mem' \/ disk' = disk
    BY <1>3 DEF RegisterNode, save
  <2>5. UNCHANGED <<cli, cliLeft, revoked>>
    BY <1>3 DEF RegisterNode
  <2>6. \A m \in Nodes : Has(disk', m) => (m = n \/ Has(mem, m) \/ Has(disk, m))
    BY <2>1, <2>4
  <2> QED BY <2>1, <2>2, <2>3, <2>5, <2>6 DEF NodesKnown, TypeOK
<1>4. ASSUME NEW n \in Nodes, NEW running \in BOOLEAN, NEW ok \in SaveOutcomes,
             ProcessHeartbeat(n, running, ok)
      PROVE  NodesKnown'
  <2>1. \A m \in Nodes : Has(mem', m) <=> Has(mem, m)
    BY <1>4, NewRecords, PutRecord DEF ProcessHeartbeat, save, TypeOK
  <2>2. disk' = mem' \/ disk' = disk
    BY <1>4 DEF ProcessHeartbeat, save
  <2>3. UNCHANGED <<cli, cliLeft, revoked, payer>>
    BY <1>4 DEF ProcessHeartbeat, history
  <2>4. \A m \in Nodes : Has(disk', m) => Has(mem, m) \/ Has(disk, m)
    BY <2>1, <2>2
  <2> QED BY <2>1, <2>3, <2>4, <2>2 DEF NodesKnown, TypeOK
<1>5. ASSUME NEW n \in Nodes, NEW ok \in SaveOutcomes, DeleteNode(n, ok)
      PROVE  NodesKnown'
  <2>1. \A m \in Nodes : Has(mem', m) <=> (m # n /\ Has(mem, m))
    BY <1>5, EmptyStoreIsStore, PutRecord DEF DeleteNode, save, TypeOK
  <2>2. disk' = IF ok THEN mem' ELSE disk
    BY <1>5 DEF DeleteNode, save
  <2>3. UNCHANGED <<cli, cliLeft, payer>> /\ revoked' = IF ok THEN revoked \cup {n} ELSE revoked
    BY <1>5 DEF DeleteNode
  <2>4. Has(mem, n)
    BY <1>5 DEF DeleteNode
  <2>5. \A m \in Nodes : Has(disk', m) => Has(mem, m) \/ Has(disk, m)
    BY <2>1, <2>2
  <2>6. \A m \in revoked' : m # n => m \in revoked /\ ~Has(mem', m) /\ ~Has(disk', m)
    BY <2>1, <2>2, <2>3 DEF NodesKnown, TypeOK
  <2>7. n \in revoked' => ~Has(mem', n) /\ ~Has(disk', n)
    BY <2>1, <2>2, <2>3, <2>4 DEF NodesKnown, TypeOK
  <2> QED BY <2>1, <2>3, <2>4, <2>5, <2>6, <2>7 DEF NodesKnown, TypeOK
<1>6. ASSUME NEW t \in Tokens, NEW ok \in SaveOutcomes, CliGenerate(t, ok)
      PROVE  NodesKnown'
  BY <1>6 DEF NodesKnown, CliGenerate
<1>7. ASSUME NEW t \in Tokens, RejectExpiredToken(t)
      PROVE  NodesKnown'
  <2>1. \A n \in Nodes : Has(mem', n) <=> Has(mem, n)
    BY <1>7 DEF RejectExpiredToken, Has, TypeOK, Store
  <2> QED BY <1>7, <2>1 DEF NodesKnown, TypeOK, RejectExpiredToken, history, Has
<1>8. ASSUME NEW t \in Tokens, Expire(t) PROVE NodesKnown'
  BY <1>8 DEF NodesKnown, Expire, history, Has
<1>9. ASSUME NEW n \in Nodes, GoSilent(n) PROVE NodesKnown'
  <2>1. \A m \in Nodes : (Has(mem', m) <=> Has(mem, m)) /\ (Has(disk', m) <=> Has(disk, m))
    BY <1>9, SilenceRecord DEF TypeOK, GoSilent
  <2> QED BY <1>9, <2>1 DEF NodesKnown, TypeOK, GoSilent, history
<1>10. ASSUME RefreshAll PROVE NodesKnown'
  <2>1. \A m \in Nodes : Has(mem', m) <=> Has(mem, m)
    BY <1>10, RefreshStore DEF TypeOK, RefreshAll
  <2> QED BY <1>10, <2>1 DEF NodesKnown, TypeOK, RefreshAll, history, Has
<1>11. ASSUME Crash PROVE NodesKnown'
  <2>1. \A m \in Nodes : ~Has(mem', m)
    BY <1>11, EmptyStoreIsStore DEF Crash
  <2> QED BY <1>11, <2>1 DEF NodesKnown, TypeOK, Crash, Has
<1>12. ASSUME newClusterStore PROVE NodesKnown'
  <2>1. \A m \in Nodes : Has(mem', m) <=> Has(disk, m)
    BY <1>12, LoadStore DEF TypeOK, newClusterStore
  <2> QED BY <1>12, <2>1 DEF NodesKnown, TypeOK, newClusterStore, history, Has
<1>14. ASSUME UNCHANGED vars PROVE NodesKnown'
  BY <1>14 DEF NodesKnown, vars, Has
<1> QED BY <1>1, <1>2, <1>3, <1>4, <1>5, <1>6, <1>7, <1>8, <1>9, <1>10, <1>11, <1>12,
           <1>14 DEF Next, Serve

\* The tool is started only when it may be, and nothing gives a start back.
UntilToolRuns == cliLeft <= CliRuns /\ (cliLeft = CliRuns => NodesKnown)

\* A start of the tool makes the second part of it void; no other step harms it.
LEMMA UntilToolRunsStep ==
  TypeOK /\ UntilToolRuns /\ [Next]_vars => UntilToolRuns'
<1> SUFFICES ASSUME TypeOK, UntilToolRuns, [Next]_vars PROVE UntilToolRuns'
  OBVIOUS
<1>1. CASE CliLoad
  BY <1>1, RegistryAssumption DEF CliLoad, UntilToolRuns, TypeOK
<1>2. CASE ~CliLoad
  <2>1. cliLeft' = cliLeft
    BY <1>2 DEF Next, Serve, GenerateEnrollmentToken, ValidateAndConsumeToken, RegisterNode,
                ProcessHeartbeat, DeleteNode, CliGenerate, RejectExpiredToken, Expire,
                GoSilent, RefreshAll, Crash, newClusterStore, vars
  <2> QED BY <1>2, <2>1, NodesKnownStep DEF UntilToolRuns
<1> QED BY <1>1, <1>2

\* Until the command line tool is used an acknowledged deletion is final, even
\* though saves may fail and the panel may crash (DeleteNode).
THEOREM DeletionIsFinal == Spec => []RevokedStaysRevoked
<1>1. Init => UntilToolRuns
  BY EmptyStoreIsStore, RegistryAssumption DEF Init, UntilToolRuns, NodesKnown
<1>2. UntilToolRuns => RevokedStaysRevoked
  BY DEF UntilToolRuns, NodesKnown, RevokedStaysRevoked
<1> QED BY <1>1, <1>2, TypeCorrect, UntilToolRunsStep, PTL DEF Spec

------------------------------------------------------------------------------
(* What holds when saves succeed as well *)

\* Both sides of the file hold exactly the tokens that are still good, save for
\* expired ones: those leave the map without a save.
TokensKnown ==
  /\ consumed \cup expired \subseteq issued
  /\ mem.tokens \cup disk.tokens \subseteq issued \ consumed
  /\ issued \ (consumed \cup expired) \subseteq disk.tokens
  /\ up => issued \ (consumed \cup expired) \subseteq mem.tokens

\* The token a request holds is consumed, held by no other, and paid for nothing.
ClaimsKnown ==
  /\ \A r \in Requests : claim[r] # NoToken =>
       up /\ claim[r] \in consumed /\ \A n \in Nodes : payer[n] # claim[r]
  /\ \A q, r \in Requests : claim[q] = claim[r] /\ claim[q] # NoToken => q = r

PayersKnown ==
  /\ \A n \in Nodes : payer[n] # NoToken => payer[n] \in consumed
  /\ SingleUse

NodesKept ==
  /\ up => \A n \in Nodes : Has(mem, n) <=> Has(disk, n)
  /\ \A n \in Nodes : payer[n] # NoToken /\ n \notin removed => Has(disk, n)

ReliableInv == NodesKnown /\ TokensKnown /\ ClaimsKnown /\ PayersKnown /\ NodesKept

\* The invariant is inductive: one step per action.
LEMMA ReliableStep ==
  Reliable /\ TypeOK /\ ReliableInv /\ [Next]_vars => ReliableInv'
<1> SUFFICES ASSUME Reliable, TypeOK, ReliableInv, [Next]_vars PROVE ReliableInv'
  OBVIOUS
<1> USE RegistryAssumption
<1>0. NodesKnown'
  BY NodesKnownStep DEF ReliableInv, NodesKnown, Reliable, CliLoad
<1> DEFINE Rest == TokensKnown /\ ClaimsKnown /\ PayersKnown /\ NodesKept
<1>1. ASSUME NEW t \in Tokens, NEW ok \in SaveOutcomes, GenerateEnrollmentToken(t, ok)
      PROVE  Rest'
  <2>1. mem'.tokens = mem.tokens \cup {t} /\ disk' = mem'
    BY <1>1 DEF GenerateEnrollmentToken, save, Reliable, TypeOK, Store
  <2>2. \A n \in Nodes : Has(mem', n) <=> Has(mem, n)
    BY <1>1 DEF GenerateEnrollmentToken, save, Has, TypeOK, Store
  <2>3. /\ up /\ t \notin issued /\ issued' = issued \cup {t}
        /\ UNCHANGED <<up, claim, expired, consumed, payer, removed>>
    BY <1>1 DEF GenerateEnrollmentToken
  <2>4. TokensKnown'
    BY <2>1, <2>3 DEF ReliableInv, TokensKnown, TypeOK
  <2> QED BY <2>1, <2>2, <2>3, <2>4 DEF ReliableInv, ClaimsKnown, PayersKnown, SingleUse, NodesKept
<1>2. ASSUME NEW r \in Requests, NEW t \in Tokens, NEW ok \in SaveOutcomes,
             ValidateAndConsumeToken(r, t, ok)
      PROVE  Rest'
  <2>1. mem'.tokens = mem.tokens \ {t} /\ disk' = mem'
    BY <1>2 DEF ValidateAndConsumeToken, save, Reliable, TypeOK, Store
  <2>2. \A n \in Nodes : Has(mem', n) <=> Has(mem, n)
    BY <1>2 DEF ValidateAndConsumeToken, save, Has, TypeOK, Store
  <2>3. /\ up /\ claim[r] = NoToken /\ t \in mem.tokens
        /\ claim' = [claim EXCEPT ![r] = t] /\ consumed' = consumed \cup {t}
        /\ UNCHANGED <<up, expired, issued, payer, removed>>
    BY <1>2 DEF ValidateAndConsumeToken
  <2>4. \A q \in Requests : claim'[q] = IF q = r THEN t ELSE claim[q]
    BY <2>3 DEF TypeOK
  <2>5. t \in issued /\ t \notin consumed
    BY <2>3 DEF ReliableInv, TokensKnown
  <2>6. (\A q \in Requests : claim[q] # t) /\ (\A n \in Nodes : payer[n] # t)
    BY <2>5 DEF ReliableInv, ClaimsKnown, PayersKnown
  <2>7. TokensKnown'
    BY <2>1, <2>3, <2>5 DEF ReliableInv, TokensKnown, TypeOK
  <2>8. ClaimsKnown'
    BY <2>3, <2>4, <2>6 DEF ReliableInv, ClaimsKnown
  <2> QED BY <2>1, <2>2, <2>3, <2>7, <2>8 DEF ReliableInv, PayersKnown, SingleUse, NodesKept
<1>3. ASSUME NEW r \in Requests, NEW n \in Nodes, NEW ok \in SaveOutcomes,
             RegisterNode(r, n, ok)
      PROVE  Rest'
  <2>1. /\ mem'.tokens = mem.tokens /\ disk' = mem'
        /\ \A m \in Nodes : Has(mem', m) <=> (m = n \/ Has(mem, m))
    BY <1>3, NewRecords, PutRecord DEF RegisterNode, save, TypeOK, Reliable
  <2>2. /\ up /\ claim[r] # NoToken /\ payer[n] = NoToken
        /\ claim' = [claim EXCEPT ![r] = NoToken] /\ payer' = [payer EXCEPT ![n] = claim[r]]
        /\ UNCHANGED <<up, expired, issued, consumed, removed>>
    BY <1>3 DEF RegisterNode
  <2>3. /\ \A q \in Requests : claim'[q] = IF q = r THEN NoToken ELSE claim[q]
        /\ \A m \in Nodes : payer'[m] = IF m = n THEN claim[r] ELSE payer[m]
    BY <2>2 DEF TypeOK
  <2>4. TokensKnown'
    BY <2>1, <2>2 DEF ReliableInv, TokensKnown
  <2>5. ClaimsKnown'
    BY <2>2, <2>3 DEF ReliableInv, ClaimsKnown
  <2>6. PayersKnown'
    BY <2>2, <2>3 DEF ReliableInv, ClaimsKnown, PayersKnown, SingleUse
  <2>7. NodesKept'
    BY <2>1, <2>2, <2>3 DEF ReliableInv, NodesKept
  <2> QED BY <2>4, <2>5, <2>6, <2>7
<1>4. ASSUME NEW n \in Nodes, NEW running \in BOOLEAN, NEW ok \in SaveOutcomes,
             ProcessHeartbeat(n, running, ok)
      PROVE  Rest'
  <2> DEFINE rec == refreshNodeStatus([status |-> "online", seen |-> TRUE, running |-> running])
  <2>1. rec \in NodeRecord /\ rec.status # "none"
    BY NewRecords
  <2> HIDE DEF rec
  <2>2. mem' = [mem EXCEPT !.nodes[n] = rec] /\ (ok => disk' = mem') /\ Has(mem, n)
    BY <1>4, Zenon DEF ProcessHeartbeat, save, rec
  <2>3. ok = TRUE
    BY DEF Reliable
  <2>4. /\ mem'.tokens = mem.tokens /\ disk' = mem'
        /\ \A m \in Nodes : Has(mem', m) <=> Has(mem, m)
    BY <2>1, <2>2, <2>3, PutRecord DEF TypeOK
  <2>5. up /\ UNCHANGED <<up, claim, expired, issued, consumed, payer, removed>>
    BY <1>4 DEF ProcessHeartbeat, history
  <2> QED BY <2>4, <2>5 DEF ReliableInv, TokensKnown, ClaimsKnown, PayersKnown, SingleUse, NodesKept
<1>5. ASSUME NEW n \in Nodes, NEW ok \in SaveOutcomes, DeleteNode(n, ok)
      PROVE  Rest'
  <2>1. /\ mem'.tokens = mem.tokens /\ disk' = mem'
        /\ \A m \in Nodes : Has(mem', m) <=> (m # n /\ Has(mem, m))
    BY <1>5, EmptyStoreIsStore, PutRecord DEF DeleteNode, save, TypeOK, Reliable
  <2>2. /\ up /\ removed' = removed \cup {n}
        /\ UNCHANGED <<up, claim, expired, issued, consumed, payer>>
    BY <1>5 DEF DeleteNode
  <2> QED BY <2>1, <2>2 DEF ReliableInv, TokensKnown, ClaimsKnown, PayersKnown, SingleUse, NodesKept
<1>6. ASSUME NEW t \in Tokens, NEW ok \in SaveOutcomes, CliGenerate(t, ok)
      PROVE  Rest'
  BY <1>6 DEF ReliableInv, NodesKnown, CliGenerate
<1>7. ASSUME NEW t \in Tokens, RejectExpiredToken(t)
      PROVE  Rest'
  <2>1. mem'.tokens = mem.tokens \ {t} /\ t \in expired
    BY <1>7 DEF RejectExpiredToken, TypeOK, Store
  <2>2. \A n \in Nodes : Has(mem', n) <=> Has(mem, n)
    BY <1>7 DEF RejectExpiredToken, Has, TypeOK, Store
  <2>3. up /\ UNCHANGED <<up, disk, claim, expired, issued, consumed, payer, removed>>
    BY <1>7 DEF RejectExpiredToken, history
  <2>4. \A n \in Nodes : Has(disk', n) <=> Has(disk, n)
    BY <2>3 DEF Has
  <2>5. TokensKnown'
    BY <2>1, <2>3 DEF ReliableInv, TokensKnown
  <2> QED BY <2>2, <2>3, <2>4, <2>5 DEF ReliableInv, ClaimsKnown, PayersKnown, SingleUse, NodesKept
<1>8. ASSUME NEW t \in Tokens, Expire(t) PROVE Rest'
  <2>1. /\ t \in issued /\ expired' = expired \cup {t}
        /\ UNCHANGED <<up, mem, disk, claim, issued, consumed, payer, removed>>
    BY <1>8 DEF Expire, history
  <2> QED BY <2>1 DEF ReliableInv, TokensKnown, ClaimsKnown, PayersKnown, SingleUse, NodesKept, Has
<1>9. ASSUME NEW n \in Nodes, GoSilent(n) PROVE Rest'
  <2>1. /\ \A m \in Nodes : (Has(mem', m) <=> Has(mem, m)) /\ (Has(disk', m) <=> Has(disk, m))
        /\ mem'.tokens = mem.tokens /\ disk'.tokens = disk.tokens
    BY <1>9, SilenceRecord DEF TypeOK, GoSilent
  <2>2. UNCHANGED <<up, claim, expired, issued, consumed, payer, removed>>
    BY <1>9 DEF GoSilent, history
  <2> QED BY <2>1, <2>2 DEF ReliableInv, TokensKnown, ClaimsKnown, PayersKnown, SingleUse, NodesKept
<1>10. ASSUME RefreshAll PROVE Rest'
  <2>1. mem'.tokens = mem.tokens /\ \A m \in Nodes : Has(mem', m) <=> Has(mem, m)
    BY <1>10, RefreshStore DEF TypeOK, RefreshAll
  <2>2. UNCHANGED <<up, disk, claim, expired, issued, consumed, payer, removed>>
    BY <1>10 DEF RefreshAll, history
  <2>3. \A n \in Nodes : Has(disk', n) <=> Has(disk, n)
    BY <2>2 DEF Has
  <2> QED BY <2>1, <2>2, <2>3 DEF ReliableInv, TokensKnown, ClaimsKnown, PayersKnown, SingleUse, NodesKept
<1>11. ASSUME Crash PROVE Rest'
  <2>1. mem'.tokens = {} /\ ~up' /\ UNCHANGED <<disk, expired, issued, consumed, payer, removed>>
    BY <1>11, EmptyStoreIsStore DEF Crash
  <2>2. \A r \in Requests : claim'[r] = NoToken
    BY <1>11 DEF Crash
  <2>3. \A n \in Nodes : Has(disk', n) <=> Has(disk, n)
    BY <2>1 DEF Has
  <2> QED BY <2>1, <2>2, <2>3 DEF ReliableInv, TokensKnown, ClaimsKnown, PayersKnown, SingleUse, NodesKept
<1>12. ASSUME newClusterStore PROVE Rest'
  <2>1. /\ mem'.tokens = disk.tokens \ expired
        /\ \A m \in Nodes : Has(mem', m) <=> Has(disk, m)
    BY <1>12, LoadStore DEF TypeOK, newClusterStore
  <2>2. ~up /\ UNCHANGED <<disk, claim, expired, issued, consumed, payer, removed>>
    BY <1>12 DEF newClusterStore, history
  <2>3. \A n \in Nodes : Has(disk', n) <=> Has(disk, n)
    BY <2>2 DEF Has
  <2> QED BY <2>1, <2>2, <2>3 DEF ReliableInv, TokensKnown, ClaimsKnown, PayersKnown, SingleUse, NodesKept
<1>13. ASSUME CliLoad PROVE Rest'
  BY <1>13 DEF ReliableInv, NodesKnown, Reliable, CliLoad, TypeOK
<1>14. ASSUME UNCHANGED vars PROVE Rest'
  BY <1>14 DEF ReliableInv, TokensKnown, ClaimsKnown, PayersKnown, SingleUse, NodesKept, vars, Has
<1>15. Rest'
  BY <1>1, <1>2, <1>3, <1>4, <1>5, <1>6, <1>7, <1>8, <1>9, <1>10, <1>11, <1>12, <1>13, <1>14
     DEF Next, Serve
<1> QED BY <1>0, <1>15 DEF ReliableInv

\* It holds when the panel starts for the first time.
LEMMA ReliableInitially == Reliable /\ Init => ReliableInv
BY RegistryAssumption, EmptyStoreIsStore
   DEF Reliable, Init, ReliableInv, NodesKnown, TokensKnown, ClaimsKnown, PayersKnown,
       SingleUse, NodesKept

\* With saves that succeed and one process the file and the map never disagree on
\* what is unused, and each token has at most one use (save, load).
THEOREM ReliableInvariant == Reliable => (Spec => []ReliableInv)
<1> SUFFICES ASSUME Reliable PROVE Spec => []ReliableInv
  OBVIOUS
<1>1. Init => ReliableInv
  BY ReliableInitially
<1>2. TypeOK /\ ReliableInv /\ [Next]_vars => ReliableInv'
  BY ReliableStep
<1> QED BY <1>1, <1>2, TypeCorrect, PTL DEF Spec

\* With saves that succeed and one process a token enrols at most one node,
\* through every interleaving of registrations and every crash.
THEOREM TokenEnrolsOneNode == Reliable => (Spec => []SingleUse)
<1> SUFFICES ASSUME Reliable PROVE Spec => []SingleUse
  OBVIOUS
<1>1. ReliableInv => SingleUse
  BY DEF ReliableInv, PayersKnown
<1> QED BY <1>1, ReliableInvariant, PTL

\* A token that was handed out and is neither used nor over is accepted.
THEOREM TokenIsHonoured == Reliable => (Spec => []IssuedTokenHonoured)
<1> SUFFICES ASSUME Reliable PROVE Spec => []IssuedTokenHonoured
  OBVIOUS
<1>1. ReliableInv => IssuedTokenHonoured
  BY DEF ReliableInv, TokensKnown, IssuedTokenHonoured
<1> QED BY <1>1, ReliableInvariant, PTL

\* An enrolled node is never forgotten.
THEOREM NodeIsKept == Reliable => (Spec => []EnrolledNodeKept)
<1> SUFFICES ASSUME Reliable PROVE Spec => []EnrolledNodeKept
  OBVIOUS
<1>1. ReliableInv => EnrolledNodeKept
  BY DEF ReliableInv, NodesKept, EnrolledNodeKept, Current
<1> QED BY <1>1, ReliableInvariant, PTL

------------------------------------------------------------------------------
(* Refinement: every step of the engine is a step of the contract, or none *)

Claimed(t) == \E r \in Requests : claim[r] = t
Paid(t) == \E n \in Nodes : payer[n] = t

\* Nothing that TokenState looks at changes for t.
LEMMA SameTokenState ==
  ASSUME NEW t \in Tokens,
         t \in issued' <=> t \in issued,
         Claimed(t)' <=> Claimed(t),
         Paid(t)' <=> Paid(t),
         t \in (consumed \cup expired)' <=> t \in consumed \cup expired
  PROVE  TokenState(t)' = TokenState(t)
BY DEF TokenState, Claimed, Paid

\* Nothing that NodeState looks at changes for n.
LEMMA SameNodeState ==
  ASSUME NEW n \in Nodes,
         payer'[n] = payer[n],
         Has(Current, n)' <=> Has(Current, n)
  PROVE  NodeState(n)' = NodeState(n)
BY DEF NodeState

\* A step that leaves the histories of tokens alone, and the nodes each side of
\* the file knows, is a stuttering step of the contract.
LEMMA ContractStutters ==
  ASSUME ReliableInv, UNCHANGED <<claim, expired, issued, consumed, payer>>,
         \A n \in Nodes : Has(Current, n)' <=> Has(Current, n)
  PROVE  UNCHANGED Contract!vars
<1>1. \A t \in Tokens : TokenState(t)' = TokenState(t)
  BY SameTokenState DEF Claimed, Paid
<1>2. \A n \in Nodes : NodeState(n)' = NodeState(n)
  BY SameNodeState
<1> QED BY <1>1, <1>2 DEF Contract!vars

\* An empty registry is an initial state of the contract.
LEMMA ContractInitially == Reliable /\ Init => Contract!Init
<1> SUFFICES ASSUME Reliable, Init PROVE Contract!Init
  OBVIOUS
<1>1. \A t \in Tokens : TokenState(t) = "unissued"
  BY DEF Init, TokenState
<1>2. \A n \in Nodes : NodeState(n) = "absent"
  BY DEF Init, NodeState
<1> QED BY <1>1, <1>2 DEF Contract!Init, Init

\* Each operation of the engine is the operation of the contract, or invisible.
LEMMA ContractStep ==
  Reliable /\ TypeOK /\ ReliableInv /\ ReliableInv' /\ [Next]_vars
    => [Contract!Next]_(Contract!vars)
<1> SUFFICES ASSUME Reliable, TypeOK, ReliableInv, ReliableInv', [Next]_vars
             PROVE  Contract!Next \/ UNCHANGED Contract!vars
  OBVIOUS
<1> USE RegistryAssumption
<1> DEFINE Simulated == Contract!Next \/ UNCHANGED Contract!vars
           SameNodes == \A n \in Nodes : Has(Current, n)' <=> Has(Current, n)
<1>1. ASSUME NEW t \in Tokens, NEW ok \in SaveOutcomes, GenerateEnrollmentToken(t, ok)
      PROVE  Simulated
  <2>1. /\ up /\ up' /\ t \notin issued /\ issued' = issued \cup {t}
        /\ UNCHANGED <<claim, expired, consumed, payer>>
    BY <1>1 DEF GenerateEnrollmentToken
  <2>2. \A n \in Nodes : Has(mem', n) <=> Has(mem, n)
    BY <1>1 DEF GenerateEnrollmentToken, save, Has, TypeOK, Store
  <2>3. SameNodes
    BY <2>1, <2>2 DEF Current
  <2>4. TokenState(t) = "unissued"
    BY <2>1 DEF TokenState
  <2>5. t \notin consumed \cup expired /\ ~Claimed(t)' /\ ~Paid(t)'
    BY <2>1 DEF ReliableInv, TokensKnown, ClaimsKnown, PayersKnown, Claimed, Paid, TypeOK
  <2>6. TokenState(t)' = "live"
    BY <2>1, <2>5 DEF TokenState, Claimed, Paid
  <2>7. \A u \in Tokens : u # t => TokenState(u)' = TokenState(u)
    BY <2>1, SameTokenState DEF Claimed, Paid
  <2>8. \A n \in Nodes : NodeState(n)' = NodeState(n)
    BY <2>1, <2>3, SameNodeState
  <2>9. Contract!Issue(t)
    BY <2>1, <2>4, <2>6, <2>7, <2>8 DEF Contract!Issue
  <2> QED BY <2>9 DEF Contract!Next
<1>2. ASSUME NEW r \in Requests, NEW t \in Tokens, NEW ok \in SaveOutcomes,
             ValidateAndConsumeToken(r, t, ok)
      PROVE  Simulated
  <2>1. /\ up /\ up' /\ t \in mem.tokens \ expired /\ claim[r] = NoToken
        /\ claim' = [claim EXCEPT ![r] = t] /\ consumed' = consumed \cup {t}
        /\ UNCHANGED <<expired, issued, payer>>
    BY <1>2 DEF ValidateAndConsumeToken
  <2>2. \A n \in Nodes : Has(mem', n) <=> Has(mem, n)
    BY <1>2 DEF ValidateAndConsumeToken, save, Has, TypeOK, Store
  <2>3. SameNodes
    BY <2>1, <2>2 DEF Current
  <2>4. t \in issued /\ t \notin consumed \cup expired
    BY <2>1 DEF ReliableInv, TokensKnown
  <2>5. ~Claimed(t) /\ ~Paid(t)
    BY <2>1, <2>4 DEF ReliableInv, ClaimsKnown, PayersKnown, Claimed, Paid, TypeOK
  <2>6. TokenState(t) = "live"
    BY <2>4, <2>5 DEF TokenState, Claimed, Paid
  <2>7. \A q \in Requests : claim'[q] = IF q = r THEN t ELSE claim[q]
    BY <2>1 DEF TypeOK
  <2>8. TokenState(t)' = "claimed"
    BY <2>1, <2>4, <2>7 DEF TokenState
  <2>9. \A u \in Tokens : u # t => (Claimed(u)' <=> Claimed(u))
    BY <2>1, <2>7 DEF Claimed
  <2>10. \A u \in Tokens : u # t => TokenState(u)' = TokenState(u)
    BY <2>1, <2>9, SameTokenState DEF Paid
  <2>11. \A n \in Nodes : NodeState(n)' = NodeState(n)
    BY <2>1, <2>3, SameNodeState
  <2>12. Contract!Claim(t)
    BY <2>1, <2>6, <2>8, <2>10, <2>11 DEF Contract!Claim
  <2> QED BY <2>12 DEF Contract!Next
<1>3. ASSUME NEW r \in Requests, NEW n \in Nodes, NEW ok \in SaveOutcomes,
             RegisterNode(r, n, ok)
      PROVE  Simulated
  <2>1. PICK t \in Tokens :
              /\ up /\ up' /\ claim[r] = t /\ payer[n] = NoToken
              /\ claim' = [claim EXCEPT ![r] = NoToken] /\ payer' = [payer EXCEPT ![n] = t]
              /\ UNCHANGED <<expired, issued, consumed>>
    BY <1>3 DEF RegisterNode, TypeOK
  <2>2. t \in consumed /\ t \in issued /\ t # NoToken
    BY <2>1 DEF ReliableInv, ClaimsKnown, TokensKnown
  <2>3. \A m \in Nodes : Has(mem', m) <=> (m = n \/ Has(mem, m))
    BY <1>3, NewRecords, PutRecord DEF RegisterNode, save, TypeOK
  <2>4. /\ \A q \in Requests : claim'[q] = IF q = r THEN NoToken ELSE claim[q]
        /\ \A m \in Nodes : payer'[m] = IF m = n THEN t ELSE payer[m]
    BY <2>1 DEF TypeOK
  <2>5. \A q \in Requests : q # r => claim[q] # t
    BY <2>1, <2>2 DEF ReliableInv, ClaimsKnown
  <2>6. TokenState(t) = "claimed"
    BY <2>1, <2>2 DEF TokenState
  <2>7. \A q \in Requests : claim'[q] # t
    BY <2>2, <2>4, <2>5
  <2>8. TokenState(t)' = "paid"
    BY <2>1, <2>2, <2>4, <2>7 DEF TokenState
  <2>9. \A u \in Tokens : u # t => (Claimed(u)' <=> Claimed(u)) /\ (Paid(u)' <=> Paid(u))
    BY <2>1, <2>2, <2>4 DEF Claimed, Paid
  <2>10. \A u \in Tokens : u # t => TokenState(u)' = TokenState(u)
    BY <2>1, <2>9, SameTokenState
  <2>11. NodeState(n) = "absent" /\ NodeState(n)' = "member"
    BY <2>1, <2>2, <2>3, <2>4 DEF NodeState, Current
  <2>12. \A m \in Nodes : m # n => NodeState(m)' = NodeState(m)
    <3> SUFFICES ASSUME NEW m \in Nodes, m # n PROVE NodeState(m)' = NodeState(m)
      OBVIOUS
    <3>1. Has(Current, m)' <=> Has(Current, m)
      BY <2>1, <2>3 DEF Current
    <3> QED BY <2>4, <3>1, SameNodeState
  <2>13. Contract!Enrol(n, t)
    BY <2>1, <2>6, <2>8, <2>10, <2>11, <2>12 DEF Contract!Enrol
  <2> QED BY <2>13 DEF Contract!Next
<1>4. ASSUME NEW n \in Nodes, NEW running \in BOOLEAN, NEW ok \in SaveOutcomes,
             ProcessHeartbeat(n, running, ok)
      PROVE  Simulated
  <2> DEFINE rec == refreshNodeStatus([status |-> "online", seen |-> TRUE, running |-> running])
  <2>1. rec \in NodeRecord /\ rec.status # "none"
    BY NewRecords
  <2> HIDE DEF rec
  <2>2. mem' = [mem EXCEPT !.nodes[n] = rec] /\ Has(mem, n)
    BY <1>4, Zenon DEF ProcessHeartbeat, save, rec
  <2>3. \A m \in Nodes : Has(mem', m) <=> Has(mem, m)
    BY <2>1, <2>2, PutRecord DEF TypeOK
  <2>4. up /\ up' /\ UNCHANGED <<claim, expired, issued, consumed, payer>>
    BY <1>4 DEF ProcessHeartbeat, history
  <2>5. SameNodes
    BY <2>3, <2>4 DEF Current
  <2> QED BY <2>4, <2>5, ContractStutters
<1>5. ASSUME NEW n \in Nodes, NEW ok \in SaveOutcomes, DeleteNode(n, ok)
      PROVE  Simulated
  <2>1. \A m \in Nodes : Has(mem', m) <=> (m # n /\ Has(mem, m))
    BY <1>5, EmptyStoreIsStore, PutRecord DEF DeleteNode, save, TypeOK
  <2>2. up /\ up' /\ Has(mem, n) /\ UNCHANGED <<claim, expired, issued, consumed, payer>>
    BY <1>5 DEF DeleteNode
  <2>3. payer[n] # NoToken
    BY <2>2 DEF ReliableInv, NodesKnown
  <2>4. NodeState(n) = "member" /\ NodeState(n)' = "gone"
    BY <2>1, <2>2, <2>3 DEF NodeState, Current
  <2>5. \A m \in Nodes : m # n => NodeState(m)' = NodeState(m)
    BY <2>1, <2>2, SameNodeState DEF Current
  <2>6. \A t \in Tokens : TokenState(t)' = TokenState(t)
    BY <2>2, SameTokenState DEF Claimed, Paid
  <2>7. Contract!Remove(n)
    BY <2>2, <2>4, <2>5, <2>6 DEF Contract!Remove
  <2> QED BY <2>7 DEF Contract!Next
<1>6. ASSUME NEW t \in Tokens, NEW ok \in SaveOutcomes, CliGenerate(t, ok)
      PROVE  Simulated
  BY <1>6 DEF ReliableInv, NodesKnown, CliGenerate
<1>7. ASSUME NEW t \in Tokens, RejectExpiredToken(t)
      PROVE  Simulated
  <2>1. \A n \in Nodes : Has(mem', n) <=> Has(mem, n)
    BY <1>7 DEF RejectExpiredToken, Has, TypeOK, Store
  <2>2. up /\ up' /\ UNCHANGED <<claim, expired, issued, consumed, payer>>
    BY <1>7 DEF RejectExpiredToken, history
  <2>3. SameNodes
    BY <2>1, <2>2 DEF Current
  <2> QED BY <2>2, <2>3, ContractStutters
<1>8. ASSUME NEW t \in Tokens, Expire(t) PROVE Simulated
  <2>1. /\ t \in issued /\ t \notin expired /\ expired' = expired \cup {t}
        /\ UNCHANGED <<up, mem, disk, claim, issued, consumed, payer>>
    BY <1>8 DEF Expire, history
  <2>2. \A u \in Tokens : u # t => TokenState(u)' = TokenState(u)
    BY <2>1, SameTokenState DEF Claimed, Paid
  <2>3. SameNodes
    BY <2>1 DEF Current, Has
  <2>4. \A n \in Nodes : NodeState(n)' = NodeState(n)
    BY <2>1, <2>3, SameNodeState
  <2>5. CASE Claimed(t) \/ Paid(t) \/ t \in consumed
    <3>1. TokenState(t)' = TokenState(t)
      BY <2>1, <2>5 DEF TokenState, Claimed, Paid
    <3> QED BY <2>1, <2>2, <2>4, <3>1 DEF Contract!vars
  <2>6. CASE ~Claimed(t) /\ ~Paid(t) /\ t \notin consumed
    <3>1. TokenState(t) = "live" /\ TokenState(t)' = "void"
      BY <2>1, <2>6 DEF TokenState, Claimed, Paid
    <3>2. Contract!Void({t})
      BY <2>1, <2>2, <2>4, <3>1 DEF Contract!Void
    <3> QED BY <3>2 DEF Contract!Next
  <2> QED BY <2>5, <2>6
<1>9. ASSUME NEW n \in Nodes, GoSilent(n) PROVE Simulated
  <2>1. \A m \in Nodes : (Has(mem', m) <=> Has(mem, m)) /\ (Has(disk', m) <=> Has(disk, m))
    BY <1>9, SilenceRecord DEF TypeOK, GoSilent
  <2>2. UNCHANGED <<up, claim, expired, issued, consumed, payer>>
    BY <1>9 DEF GoSilent, history
  <2>3. SameNodes
    BY <2>1, <2>2 DEF Current
  <2> QED BY <2>2, <2>3, ContractStutters
<1>10. ASSUME RefreshAll PROVE Simulated
  <2>1. \A m \in Nodes : Has(mem', m) <=> Has(mem, m)
    BY <1>10, RefreshStore DEF TypeOK, RefreshAll
  <2>2. up /\ up' /\ UNCHANGED <<claim, expired, issued, consumed, payer>>
    BY <1>10 DEF RefreshAll, history
  <2>3. SameNodes
    BY <2>1, <2>2 DEF Current
  <2> QED BY <2>2, <2>3, ContractStutters
<1>11. ASSUME Crash PROVE Simulated
  <2> DEFINE lost == {t \in Tokens : Claimed(t)}
  <2>1. /\ up /\ ~up' /\ UNCHANGED <<disk, expired, issued, consumed, payer>>
        /\ \A r \in Requests : claim'[r] = NoToken
    BY <1>11 DEF Crash
  <2>2. SameNodes
    BY <2>1 DEF Current, Has, ReliableInv, NodesKept
  <2>3. \A n \in Nodes : NodeState(n)' = NodeState(n)
    BY <2>1, <2>2, SameNodeState
  <2>4. \A t \in Tokens : ~Claimed(t)'
    BY <2>1 DEF Claimed
  <2>5. \A t \in lost : t \in consumed /\ t \in issued /\ ~Paid(t)
    BY DEF Claimed, Paid, ReliableInv, ClaimsKnown, TokensKnown
  <2>6. \A t \in lost : TokenState(t) = "claimed" /\ TokenState(t)' = "void"
    BY <2>1, <2>4, <2>5 DEF TokenState, Claimed, Paid
  <2>7. \A t \in Tokens \ lost : TokenState(t)' = TokenState(t)
    BY <2>1, <2>4, SameTokenState DEF Paid
  <2>8. Contract!Void(lost)
    BY <2>1, <2>3, <2>6, <2>7 DEF Contract!Void
  <2> QED BY <2>8 DEF Contract!Next
<1>12. ASSUME newClusterStore PROVE Simulated
  <2>1. \A m \in Nodes : Has(mem', m) <=> Has(disk, m)
    BY <1>12, LoadStore DEF TypeOK, newClusterStore
  <2>2. ~up /\ up' /\ UNCHANGED <<claim, expired, issued, consumed, payer>>
    BY <1>12 DEF newClusterStore, history
  <2>3. SameNodes
    BY <2>1, <2>2 DEF Current
  <2> QED BY <2>2, <2>3, ContractStutters
<1>13. ASSUME CliLoad PROVE Simulated
  BY <1>13 DEF ReliableInv, NodesKnown, Reliable, CliLoad, TypeOK
<1>14. ASSUME UNCHANGED vars PROVE Simulated
  <2>1. SameNodes /\ UNCHANGED <<claim, expired, issued, consumed, payer>>
    BY <1>14 DEF vars, Current, Has
  <2> QED BY <2>1, ContractStutters
<1> QED BY <1>1, <1>2, <1>3, <1>4, <1>5, <1>6, <1>7, <1>8, <1>9, <1>10, <1>11, <1>12,
           <1>13, <1>14 DEF Next, Serve

\* The JSON engine implements the contract that all storage engines share, as
\* long as saves succeed and no second process writes the file.
THEOREM EngineImplementsContract == Reliable => (Spec => ImplementsContract)
<1> SUFFICES ASSUME Reliable PROVE Spec => ImplementsContract
  OBVIOUS
<1>1. Init => Contract!Init
  BY ContractInitially
<1>2. TypeOK /\ ReliableInv /\ ReliableInv' /\ [Next]_vars => [Contract!Next]_(Contract!vars)
  BY ContractStep
<1> QED BY <1>1, <1>2, TypeCorrect, ReliableInvariant, PTL
        DEF Spec, ImplementsContract, Contract!Spec
==============================================================================
