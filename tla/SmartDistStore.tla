--------------------------- MODULE SmartDistStore ---------------------------
(***************************************************************************)
(* The master's store of edge profiles (panel/smartdist_profile.go, type   *)
(* SmartDistProfileStore): profiles, the profile assigned to each node and *)
(* a bounded history of assignments, in memory under one mutex and in one  *)
(* file.  A change is rolled back in memory when its save fails.           *)
(* AssignMany saves twice under the mutex, first the assignment and then   *)
(* the history, and the panel may crash in between; the handler that calls *)
(* it looks the nodes up in the cluster registry before taking the mutex.  *)
(***************************************************************************)
EXTENDS Naturals, Sequences, FiniteSets

CONSTANTS
  Nodes,        \* node identifiers
  Profiles,     \* profile identifiers
  Bodies,       \* canonical profile documents
  NoProfile,    \* the empty profile identifier
  NoBody,       \* "no such profile"
  Requests,     \* assignment requests the panel can be serving at once
  IdLists,      \* the lists of node identifiers requests may carry
  MaxHistory,   \* maxHistory, 50 in the code
  SaveOutcomes  \* how a save may end: a subset of BOOLEAN, FALSE is a failure

ASSUME StoreAssumption ==
  /\ NoProfile \notin Profiles
  /\ NoBody \notin Bodies
  /\ IdLists \subseteq Seq(Nodes)
  /\ MaxHistory \in Nat \ {0}
  /\ SaveOutcomes \subseteq BOOLEAN

VARIABLES
  up,       \* the panel process runs
  mem,      \* its maps: profiles, assign and history
  disk,     \* the same three maps in the file
  member,   \* where each node is in its life in the cluster registry
  call,     \* call[r]: the assignment request r is in the middle of
  granted,  \* history: the assignments whose save succeeded
  crashed   \* history: the panel process has died before

vars == <<up, mem, disk, member, call, granted, crashed>>

------------------------------------------------------------------------------
(* Records *)

Event == [from : Profiles \cup {NoProfile}, to : Profiles \cup {NoProfile}]

Store == [profiles : [Profiles -> Bodies \cup {NoBody}],
          assign : [Nodes -> Profiles \cup {NoProfile}],
          history : [Nodes -> Seq(Event)]]

EmptyStore == [profiles |-> [p \in Profiles |-> NoBody],
               assign |-> [n \in Nodes |-> NoProfile],
               history |-> [n \in Nodes |-> <<>>]]

Has(store, p) == p \in Profiles /\ store.profiles[p] # NoBody

InUse(store, p) == \E n \in Nodes : store.assign[n] = p

\* "saved": the assignment is in the file, the history not yet; the mutex is held.
Idle == [pc |-> "idle", ids |-> <<>>, profile |-> NoProfile]
Calls == [pc : {"idle", "checked", "saved"}, ids : IdLists \cup {<<>>},
          profile : Profiles \cup {NoProfile}]

Locked == \E r \in Requests : call[r].pc = "saved"

Listed(ids) == {ids[i] : i \in DOMAIN ids}
Times(ids, n) == Cardinality({i \in DOMAIN ids : ids[i] = n})

------------------------------------------------------------------------------
(* Operations *)

MutOldest(h) == IF Len(h) > MaxHistory THEN SubSeq(h, 1, MaxHistory) ELSE h

\* The newest entries.
Newest(h) ==
  IF Len(h) > MaxHistory THEN SubSeq(h, Len(h) - MaxHistory + 1, Len(h)) ELSE h

MutRecordUntrimmed(h, from, to, k) ==
  IF from = to THEN h ELSE h \o [i \in 1..k |-> [from |-> from, to |-> to]]

\* recordLocked, called k times for one node: nothing if the value is the same.
recordLocked(h, from, to, k) ==
  IF from = to THEN h ELSE Newest(h \o [i \in 1..k |-> [from |-> from, to |-> to]])

\* Assignments to profiles the file does not hold are dropped.
load(file) ==
  [file EXCEPT !.assign =
     [n \in Nodes |-> IF Has(file, file.assign[n]) THEN file.assign[n] ELSE NoProfile]]

MutSaveNoRollback(store, ok) ==
  /\ mem' = store
  /\ disk' = IF ok THEN store ELSE disk

\* The change and its save, taken back in memory if the save fails.
saveLocked(store, ok) ==
  /\ mem' = IF ok THEN store ELSE mem
  /\ disk' = IF ok THEN store ELSE disk

Init ==
  /\ up = TRUE
  /\ mem = EmptyStore
  /\ disk = EmptyStore
  /\ member = [n \in Nodes |-> "new"]
  /\ call = [r \in Requests |-> Idle]
  /\ granted = EmptyStore.assign
  /\ crashed = FALSE

Put(p, body, ok) ==
  /\ up
  /\ ~Locked
  /\ saveLocked([mem EXCEPT !.profiles[p] = body], ok)
  /\ UNCHANGED <<up, member, call, granted, crashed>>

MutDeleteUnchecked(p, ok) ==
  /\ up
  /\ ~Locked
  /\ Has(mem, p)
  /\ saveLocked([mem EXCEPT !.profiles[p] = NoBody], ok)
  /\ UNCHANGED <<up, member, call, granted, crashed>>

Delete(p, ok) ==
  /\ up
  /\ ~Locked
  /\ Has(mem, p)
  /\ ~InUse(mem, p)
  /\ saveLocked([mem EXCEPT !.profiles[p] = NoBody], ok)
  /\ UNCHANGED <<up, member, call, granted, crashed>>

\* handleSmartDistAssign: every node of the request is registered now.
CheckNodes(r, ids, p) ==
  /\ up
  /\ call[r] = Idle
  /\ ids # <<>>
  /\ \A n \in Listed(ids) : member[n] = "member"
  /\ call' = [call EXCEPT ![r] = [pc |-> "checked", ids |-> ids, profile |-> p]]
  /\ UNCHANGED <<up, mem, disk, member, granted, crashed>>

\* AssignMany on a profile that does not exist: the request is refused.
RefuseProfile(r) ==
  /\ up
  /\ ~Locked
  /\ call[r].pc = "checked"
  /\ ~Has(mem, call[r].profile)
  /\ call' = [call EXCEPT ![r] = Idle]
  /\ UNCHANGED <<up, mem, disk, member, granted, crashed>>

\* AssignMany up to its first save.
AssignMany(r, ok) ==
  LET new == [n \in Nodes |-> IF n \in Listed(call[r].ids) THEN call[r].profile ELSE mem.assign[n]]
  IN
  /\ up
  /\ ~Locked
  /\ call[r].pc = "checked"
  /\ Has(mem, call[r].profile)
  /\ IF ok
     THEN /\ mem' = [mem EXCEPT !.assign = new,
                                !.history = [n \in Nodes |->
                                   recordLocked(mem.history[n], mem.assign[n], new[n],
                                                Times(call[r].ids, n))]]
          /\ disk' = [mem EXCEPT !.assign = new]
          /\ granted' = new
          /\ call' = [call EXCEPT ![r].pc = "saved"]
     ELSE /\ call' = [call EXCEPT ![r] = Idle]
          /\ UNCHANGED <<mem, disk, granted>>
  /\ UNCHANGED <<up, member, crashed>>

\* AssignMany's second save: its failure is only logged.
persistHistoryLocked(r, ok) ==
  /\ up
  /\ call[r].pc = "saved"
  /\ disk' = IF ok THEN mem ELSE disk
  /\ call' = [call EXCEPT ![r] = Idle]
  /\ UNCHANGED <<up, mem, member, granted, crashed>>

\* The cluster registry (another file, another mutex); identifiers are random
\* and never drawn twice.
RegisterNode(n) ==
  /\ up
  /\ member[n] = "new"
  /\ member' = [member EXCEPT ![n] = "member"]
  /\ UNCHANGED <<up, mem, disk, call, granted, crashed>>

DeleteNode(n) ==
  /\ up
  /\ member[n] = "member"
  /\ member' = [member EXCEPT ![n] = "gone"]
  /\ UNCHANGED <<up, mem, disk, call, granted, crashed>>

Crash ==
  /\ up
  /\ up' = FALSE
  /\ mem' = EmptyStore
  /\ call' = [r \in Requests |-> Idle]
  /\ crashed' = TRUE
  /\ UNCHANGED <<disk, member, granted>>

newSmartDistProfileStore ==
  /\ ~up
  /\ up' = TRUE
  /\ mem' = load(disk)
  /\ UNCHANGED <<disk, member, call, granted, crashed>>

Write(ok) ==
  \/ \E p \in Profiles, body \in Bodies : Put(p, body, ok)
  \/ \E p \in Profiles : Delete(p, ok)
  \/ \E r \in Requests : AssignMany(r, ok) \/ persistHistoryLocked(r, ok)

Next ==
  \/ \E ok \in SaveOutcomes : Write(ok)
  \/ \E r \in Requests, ids \in IdLists, p \in Profiles \cup {NoProfile} : CheckNodes(r, ids, p)
  \/ \E r \in Requests : RefuseProfile(r)
  \/ \E n \in Nodes : RegisterNode(n) \/ DeleteNode(n)
  \/ Crash
  \/ newSmartDistProfileStore

Spec == Init /\ [][Next]_vars

------------------------------------------------------------------------------
(* Properties *)

\* Types; and a history, in memory or in the file, never exceeds its bound.
TypeOK ==
  /\ up \in BOOLEAN
  /\ mem \in Store
  /\ disk \in Store
  /\ member \in [Nodes -> {"new", "member", "gone"}]
  /\ call \in [Requests -> Calls]
  /\ granted \in [Nodes -> Profiles \cup {NoProfile}]
  /\ crashed \in BOOLEAN
  /\ \A n \in Nodes : Len(mem.history[n]) <= MaxHistory /\ Len(disk.history[n]) <= MaxHistory

\* An assigned profile exists, in memory and in the file, whatever deletions,
\* failed saves and crashes came between (Delete, AssignMany).
AssignedExist(store) == \A n \in Nodes : store.assign[n] # NoProfile => Has(store, store.assign[n])
ReferentialIntegrity == AssignedExist(mem) /\ AssignedExist(disk)

\* What a failed save takes back and a restart reloads is exactly the set of
\* assignments whose save succeeded: the running panel, the file and the
\* operators agree (the rollbacks of Put, Delete and AssignMany, load).
GrantedAssignmentsKept ==
  /\ disk.assign = granted
  /\ up => mem.assign = granted /\ mem.profiles = disk.profiles

\* Until the panel dies the history of a node is a chain that ends in its
\* assignment: no change is missing, repeated or out of order, whatever saves
\* fail (recordLocked, "one entry if the value really changed").  A crash
\* between the two saves of AssignMany may lose an entry.
HistoryIsChain ==
  ~crashed =>
    \A n \in Nodes :
      LET h == mem.history[n] IN
      /\ \A i \in 1..Len(h) - 1 : h[i + 1].from = h[i].to
      /\ h # <<>> => h[Len(h)].to = mem.assign[n]
=============================================================================
