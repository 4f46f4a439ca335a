------------------------- MODULE SmartDistStoreProofs -------------------------
(***************************************************************************)
(* Theorems about SmartDistStore, for any number of nodes, profiles and    *)
(* requests and any bound on the history.                                  *)
(***************************************************************************)
EXTENDS SmartDistStore, FiniteSetTheorems, SequenceTheorems, TLAPS

ProfileId == Profiles \cup {NoProfile}

------------------------------------------------------------------------------
(* History *)

\* How often a list names a node is a number; once, for a listed node, when no
\* node is repeated.
LEMMA TimesOfList ==
  ASSUME NEW ids \in Seq(Nodes), NEW n \in Nodes
  PROVE  /\ Times(ids, n) \in Nat
         /\ /\ \A i, j \in DOMAIN ids : ids[i] = ids[j] => i = j
            /\ n \in Listed(ids)
            => Times(ids, n) = 1
<1> DEFINE at == {i \in DOMAIN ids : ids[i] = n}
<1>1. IsFiniteSet(1..Len(ids))
  BY FS_Interval
<1>2. at \in SUBSET (1..Len(ids))
  OBVIOUS
<1>3. IsFiniteSet(at)
  BY <1>1, <1>2, FS_Subset
<1>4. Times(ids, n) \in Nat
  BY <1>3, FS_CardinalityType DEF Times
<1>5. ASSUME \A i, j \in DOMAIN ids : ids[i] = ids[j] => i = j, n \in Listed(ids)
      PROVE  Times(ids, n) = 1
  <2>1. PICK i \in DOMAIN ids : ids[i] = n
    BY <1>5 DEF Listed
  <2>2. at = {i}
    BY <1>5, <2>1
  <2> QED BY <2>2, FS_Singleton DEF Times
<1> QED BY <1>4, <1>5

\* Newest keeps a suffix: its length, its last entry, and what follows what.
LEMMA NewestOfHistory ==
  ASSUME NEW h \in Seq(Event)
  PROVE  /\ Newest(h) \in Seq(Event)
         /\ Len(Newest(h)) <= MaxHistory
         /\ \E d \in Nat : \A i \in 1..Len(Newest(h)) : i + d \in 1..Len(h) /\ Newest(h)[i] = h[i + d]
         /\ h # <<>> => Newest(h) # <<>> /\ Newest(h)[Len(Newest(h))] = h[Len(h)]
<1> USE StoreAssumption
<1>1. CASE Len(h) > MaxHistory
  <2> DEFINE d == Len(h) - MaxHistory
             s == SubSeq(h, d + 1, Len(h))
  <2>1. d \in Nat /\ d + 1 \in 1..Len(h) /\ Len(h) - (d + 1) + 1 = MaxHistory
    BY <1>1
  <2>2. /\ s \in Seq(Event)
        /\ Len(s) = MaxHistory
        /\ \A i \in 1..MaxHistory : s[i] = h[d + 1 + i - 1]
    BY <2>1, SubSeqProperties
  <2>3. Newest(h) = s
    BY <1>1 DEF Newest
  <2> HIDE DEF s
  <2>4. \A i \in 1..MaxHistory : i + d \in 1..Len(h) /\ s[i] = h[i + d]
    <3> SUFFICES ASSUME NEW i \in 1..MaxHistory PROVE i + d \in 1..Len(h) /\ s[i] = h[i + d]
      OBVIOUS
    <3>1. d + 1 + i - 1 = i + d /\ i + d \in 1..Len(h)
      BY <2>1
    <3> QED BY <2>2, <3>1
  <2>5. s # <<>> /\ s[Len(s)] = h[Len(h)]
    BY <2>1, <2>2, <2>4
  <2>6. \A i \in 1..Len(Newest(h)) : i + d \in 1..Len(h) /\ Newest(h)[i] = h[i + d]
    BY <2>2, <2>3, <2>4
  <2>7. d \in Nat
    BY <2>1
  <2> HIDE DEF d
  <2>8. \E e \in Nat : \A i \in 1..Len(Newest(h)) : i + e \in 1..Len(h) /\ Newest(h)[i] = h[i + e]
    BY <2>6, <2>7, Zenon
  <2>9. /\ Newest(h) \in Seq(Event)
        /\ Len(Newest(h)) <= MaxHistory
        /\ h # <<>> => Newest(h) # <<>> /\ Newest(h)[Len(Newest(h))] = h[Len(h)]
    BY <2>2, <2>3, <2>5
  <2> QED BY <2>8, <2>9, Zenon
<1>2. CASE ~(Len(h) > MaxHistory)
  <2>1. Newest(h) = h
    BY <1>2 DEF Newest
  <2>2. Len(h) \in Nat /\ Len(h) <= MaxHistory
    BY <1>2
  <2>3. \A i \in 1..Len(h) : i + 0 \in 1..Len(h) /\ h[i] = h[i + 0]
    OBVIOUS
  <2> QED BY <2>1, <2>2, <2>3
<1> QED BY <1>1, <1>2

\* Each entry starts where the one before it ends, and the last ends at `to`.
ChainTo(h, to) ==
  /\ \A i \in 1..Len(h) - 1 : h[i + 1].from = h[i].to
  /\ h # <<>> => h[Len(h)].to = to

\* recordLocked keeps a history within its bound and, called once, keeps it a chain.
LEMMA RecordHistory ==
  ASSUME NEW h \in Seq(Event), Len(h) <= MaxHistory,
         NEW from \in ProfileId, NEW to \in ProfileId, NEW k \in Nat
  PROVE  /\ recordLocked(h, from, to, k) \in Seq(Event)
         /\ Len(recordLocked(h, from, to, k)) <= MaxHistory
         /\ k = 1 /\ ChainTo(h, from) => ChainTo(recordLocked(h, from, to, k), to)
<1> DEFINE new == [i \in 1..k |-> [from |-> from, to |-> to]]
           all == h \o new
<1>1. new \in Seq(Event) /\ Len(new) = k /\ \A i \in 1..k : new[i] = [from |-> from, to |-> to]
  BY DEF Event, ProfileId
<1> HIDE DEF new
<1>2. /\ all \in Seq(Event)
      /\ Len(all) = Len(h) + k
      /\ \A i \in 1..Len(all) : all[i] = IF i <= Len(h) THEN h[i] ELSE new[i - Len(h)]
  BY <1>1, ConcatProperties
<1>3. CASE from = to
  BY <1>3 DEF recordLocked
<1>4. CASE from # to
  <2>1. recordLocked(h, from, to, k) = Newest(all)
    BY <1>4 DEF recordLocked, new
  <2>2. ASSUME k = 1, ChainTo(h, from) PROVE ChainTo(Newest(all), to)
    <3>1. all[Len(all)] = [from |-> from, to |-> to] /\ all # <<>>
      BY <1>1, <1>2, <2>2
    <3>2. \A i \in 1..Len(all) - 1 : all[i + 1].from = all[i].to
      <4> SUFFICES ASSUME NEW i \in 1..Len(all) - 1 PROVE all[i + 1].from = all[i].to
        OBVIOUS
      <4>1. CASE i = Len(h)
        <5>1. all[i + 1] = [from |-> from, to |-> to] /\ all[i] = h[Len(h)] /\ h # <<>>
          BY <1>1, <1>2, <2>2, <4>1
        <5> QED BY <2>2, <5>1 DEF ChainTo
      <4>2. CASE i # Len(h)
        <5>1. i \in 1..Len(h) - 1 /\ i + 1 \in 1..Len(all) /\ i \in 1..Len(all)
          BY <1>2, <2>2, <4>2
        <5>2. all[i + 1] = h[i + 1] /\ all[i] = h[i]
          BY <1>2, <5>1
        <5> QED BY <2>2, <5>1, <5>2 DEF ChainTo
      <4> QED BY <4>1, <4>2
    <3> HIDE DEF all
    <3>3. PICK d \in Nat : \A i \in 1..Len(Newest(all)) :
            i + d \in 1..Len(all) /\ Newest(all)[i] = all[i + d]
      BY <1>2, NewestOfHistory
    <3>4. Newest(all) \in Seq(Event)
      BY <1>2, NewestOfHistory
    <3>5. ASSUME NEW i \in 1..Len(Newest(all)) - 1
          PROVE  Newest(all)[i + 1].from = Newest(all)[i].to
      <4>1. i \in 1..Len(Newest(all)) /\ i + 1 \in 1..Len(Newest(all))
        BY <3>4
      <4>2. /\ Newest(all)[i] = all[i + d] /\ i + d \in 1..Len(all)
            /\ Newest(all)[i + 1] = all[(i + 1) + d] /\ (i + 1) + d \in 1..Len(all)
        BY <3>3, <4>1
      <4>3. (i + 1) + d = (i + d) + 1 /\ i + d \in 1..Len(all) - 1
        BY <1>2, <4>2
      <4> QED BY <3>2, <4>2, <4>3
    <3>6. Newest(all)[Len(Newest(all))] = all[Len(all)]
      BY <1>2, <3>1, NewestOfHistory
    <3>7. Newest(all)[Len(Newest(all))].to = to
      BY <3>1, <3>6
    <3> QED BY <3>5, <3>7 DEF ChainTo
  <2> HIDE DEF all
  <2> QED BY <1>2, <2>1, <2>2, NewestOfHistory
<1> QED BY <1>3, <1>4

------------------------------------------------------------------------------
(* Stores *)

\* Writing or removing one document.
LEMMA PutProfile ==
  ASSUME NEW store \in Store, NEW p \in Profiles, NEW body \in Bodies \cup {NoBody}
  PROVE  LET new == [store EXCEPT !.profiles[p] = body]
         IN  /\ new \in Store
             /\ new.assign = store.assign
             /\ new.history = store.history
             /\ \A q \in Profiles : new.profiles[q] = IF q = p THEN body ELSE store.profiles[q]
BY DEF Store

\* A restart keeps the documents and the history; it drops only assignments to
\* documents that do not exist.
LEMMA LoadFile ==
  ASSUME NEW file \in Store
  PROVE  /\ load(file) \in Store
         /\ load(file).profiles = file.profiles
         /\ load(file).history = file.history
         /\ AssignedExist(load(file))
         /\ AssignedExist(file) => load(file).assign = file.assign
<1> DEFINE kept == [n \in Nodes |-> IF Has(file, file.assign[n]) THEN file.assign[n] ELSE NoProfile]
<1>1. /\ load(file) = [file EXCEPT !.assign = kept]
      /\ file.assign \in [Nodes -> ProfileId]
  BY DEF load, Store, ProfileId
<1>2. kept \in [Nodes -> ProfileId]
  BY <1>1 DEF ProfileId
<1>3. AssignedExist(file) => kept = file.assign
  BY <1>1, StoreAssumption DEF AssignedExist, Has, ProfileId
<1>4. \A n \in Nodes : kept[n] # NoProfile => Has(file, kept[n])
  OBVIOUS
<1> HIDE DEF kept
<1>5. /\ load(file) \in Store
      /\ load(file).profiles = file.profiles
      /\ load(file).history = file.history
      /\ load(file).assign = kept
  BY <1>1, <1>2 DEF Store, ProfileId
<1>6. AssignedExist(load(file))
  BY <1>4, <1>5 DEF AssignedExist, Has
<1> QED BY <1>3, <1>5, <1>6

\* What AssignMany writes, on behalf of request r.
NewAssign(r) ==
  [n \in Nodes |-> IF n \in Listed(call[r].ids) THEN call[r].profile ELSE mem.assign[n]]
NewHistory(r) ==
  [n \in Nodes |-> recordLocked(mem.history[n], mem.assign[n], NewAssign(r)[n],
                                Times(call[r].ids, n))]

LEMMA EmptyStoreIsStore ==
  /\ EmptyStore \in Store
  /\ AssignedExist(EmptyStore)
  /\ EmptyStore.assign \in [Nodes -> ProfileId]
  /\ \A n \in Nodes : EmptyStore.history[n] = <<>> /\ EmptyStore.assign[n] = NoProfile
BY DEF EmptyStore, Store, AssignedExist, ProfileId

\* AssignMany writes assignments and histories of the right kind, and keeps the
\* bound on each history.
LEMMA AssignManyWrites ==
  ASSUME TypeOK, NEW r \in Requests, Has(mem, call[r].profile)
  PROVE  /\ NewAssign(r) \in [Nodes -> ProfileId]
         /\ NewHistory(r) \in [Nodes -> Seq(Event)]
         /\ \A n \in Nodes : Len(NewHistory(r)[n]) <= MaxHistory
         /\ [mem EXCEPT !.assign = NewAssign(r)] \in Store
         /\ [mem EXCEPT !.assign = NewAssign(r), !.history = NewHistory(r)] \in Store
<1>1. /\ mem.assign \in [Nodes -> ProfileId]
      /\ mem.history \in [Nodes -> Seq(Event)]
      /\ call[r].ids \in Seq(Nodes)
      /\ call[r].profile \in ProfileId
  <2>1. call[r] \in Calls
    BY DEF TypeOK
  <2>2. call[r].ids \in Seq(Nodes) /\ call[r].profile \in ProfileId
    BY <2>1, StoreAssumption, EmptySeq DEF Calls, ProfileId
  <2> QED BY <2>2 DEF TypeOK, Store, ProfileId
<1>2. NewAssign(r) \in [Nodes -> ProfileId]
  BY <1>1 DEF NewAssign
<1>3. ASSUME NEW n \in Nodes
      PROVE  LET h == recordLocked(mem.history[n], mem.assign[n], NewAssign(r)[n], Times(call[r].ids, n))
             IN  h \in Seq(Event) /\ Len(h) <= MaxHistory
  <2>1. Times(call[r].ids, n) \in Nat
    BY <1>1, TimesOfList
  <2>2. Len(mem.history[n]) <= MaxHistory
    BY DEF TypeOK
  <2> QED BY <1>1, <1>2, <2>1, <2>2, RecordHistory
<1>4. /\ NewHistory(r) \in [Nodes -> Seq(Event)]
      /\ \A n \in Nodes : Len(NewHistory(r)[n]) <= MaxHistory
  BY <1>3 DEF NewHistory
<1>5. /\ [mem EXCEPT !.assign = NewAssign(r)] \in Store
      /\ [mem EXCEPT !.assign = NewAssign(r), !.history = NewHistory(r)] \in Store
  BY <1>2, <1>4 DEF TypeOK, Store, ProfileId
<1> QED BY <1>2, <1>4, <1>5

\* AssignMany in these terms.
LEMMA AssignManyEffect ==
  ASSUME NEW r \in Requests, NEW ok \in BOOLEAN, AssignMany(r, ok)
  PROVE  /\ up /\ up' = up /\ member' = member /\ crashed' = crashed
         /\ Has(mem, call[r].profile)
         /\ \/ /\ mem' = [mem EXCEPT !.assign = NewAssign(r), !.history = NewHistory(r)]
               /\ disk' = [mem EXCEPT !.assign = NewAssign(r)]
               /\ granted' = NewAssign(r)
               /\ call' = [call EXCEPT ![r].pc = "saved"]
            \/ UNCHANGED <<mem, disk, granted>> /\ call' = [call EXCEPT ![r] = Idle]
BY DEF AssignMany, NewAssign, NewHistory

------------------------------------------------------------------------------
(* Type correctness *)

\* Every step keeps the maps well formed and the histories within their bound.
LEMMA TypeStep == TypeOK /\ [Next]_vars => TypeOK'
<1> SUFFICES ASSUME TypeOK, [Next]_vars PROVE TypeOK'
  OBVIOUS
<1> USE StoreAssumption
<1>1. ASSUME NEW p \in Profiles, NEW body \in Bodies, NEW ok \in SaveOutcomes, Put(p, body, ok)
      PROVE  TypeOK'
  <2>1. /\ [mem EXCEPT !.profiles[p] = body] \in Store
        /\ [mem EXCEPT !.profiles[p] = body].history = mem.history
    BY PutProfile DEF TypeOK
  <2> QED BY <1>1, <2>1 DEF TypeOK, Put, saveLocked
<1>2. ASSUME NEW p \in Profiles, NEW ok \in SaveOutcomes, Delete(p, ok)
      PROVE  TypeOK'
  <2>1. /\ [mem EXCEPT !.profiles[p] = NoBody] \in Store
        /\ [mem EXCEPT !.profiles[p] = NoBody].history = mem.history
    BY PutProfile DEF TypeOK
  <2> QED BY <1>2, <2>1 DEF TypeOK, Delete, saveLocked
<1>3. ASSUME NEW r \in Requests, NEW ok \in SaveOutcomes, AssignMany(r, ok)
      PROVE  TypeOK'
  <2>1. Has(mem, call[r].profile)
    BY <1>3 DEF AssignMany
  <2>2. [call EXCEPT ![r] = Idle] \in [Requests -> Calls]
    BY DEF TypeOK, Calls, Idle
  <2>3. [call EXCEPT ![r].pc = "saved"] \in [Requests -> Calls]
    BY DEF TypeOK, Calls
  <2>4. CASE UNCHANGED <<mem, disk, granted>> /\ call' = [call EXCEPT ![r] = Idle]
    BY <1>3, <2>2, <2>4, AssignManyEffect DEF TypeOK
  <2>5. CASE /\ mem' = [mem EXCEPT !.assign = NewAssign(r), !.history = NewHistory(r)]
             /\ disk' = [mem EXCEPT !.assign = NewAssign(r)]
             /\ granted' = NewAssign(r)
             /\ call' = [call EXCEPT ![r].pc = "saved"]
    <3>1. mem' \in Store /\ disk' \in Store /\ granted' \in [Nodes -> ProfileId]
      BY <2>1, <2>5, AssignManyWrites
    <3>2. mem'.history = NewHistory(r)
      BY <2>5 DEF TypeOK, Store
    <3>3. \A n \in Nodes : Len(mem'.history[n]) <= MaxHistory
      BY <2>1, <3>2, AssignManyWrites
    <3>5. disk'.history = mem.history
      BY <2>5 DEF TypeOK, Store
    <3>4. up' \in BOOLEAN /\ crashed' \in BOOLEAN /\ member' \in [Nodes -> {"new", "member", "gone"}]
      BY <1>3, AssignManyEffect DEF TypeOK
    <3> QED BY <2>3, <2>5, <3>1, <3>3, <3>4, <3>5 DEF TypeOK, ProfileId
  <2> QED BY <1>3, <2>4, <2>5, AssignManyEffect
<1>4. ASSUME NEW r \in Requests, NEW ok \in SaveOutcomes, persistHistoryLocked(r, ok)
      PROVE  TypeOK'
  BY <1>4 DEF TypeOK, persistHistoryLocked, Calls, Idle
<1>5. ASSUME NEW r \in Requests, NEW ids \in IdLists, NEW p \in Profiles \cup {NoProfile},
             CheckNodes(r, ids, p)
      PROVE  TypeOK'
  BY <1>5 DEF TypeOK, CheckNodes, Calls
<1>6. ASSUME NEW r \in Requests, RefuseProfile(r) PROVE TypeOK'
  BY <1>6 DEF TypeOK, RefuseProfile, Calls, Idle
<1>7. ASSUME NEW n \in Nodes, RegisterNode(n) \/ DeleteNode(n) PROVE TypeOK'
  BY <1>7 DEF TypeOK, RegisterNode, DeleteNode
<1>8. CASE Crash
  <2>1. \A n \in Nodes : Len(EmptyStore.history[n]) <= MaxHistory
    BY EmptyStoreIsStore
  <2> QED BY <1>8, <2>1, EmptyStoreIsStore DEF TypeOK, Crash, Calls, Idle
<1>9. CASE newSmartDistProfileStore
  <2>1. load(disk) \in Store /\ load(disk).history = disk.history
    BY LoadFile DEF TypeOK
  <2> QED BY <1>9, <2>1 DEF TypeOK, newSmartDistProfileStore
<1>10. CASE UNCHANGED vars
  BY <1>10 DEF TypeOK, vars
<1> QED BY <1>1, <1>2, <1>3, <1>4, <1>5, <1>6, <1>7, <1>8, <1>9, <1>10 DEF Next, Write

\* The maps, the calls in progress and the bound on each history (recordLocked).
THEOREM StoreTypeCorrect == Spec => []TypeOK
<1>1. Init => TypeOK
  <2>1. \A n \in Nodes : Len(EmptyStore.history[n]) <= MaxHistory
    BY EmptyStoreIsStore, StoreAssumption
  <2>2. Idle \in Calls
    BY DEF Calls, Idle
  <2>3. ASSUME Init PROVE call \in [Requests -> Calls] /\ member \in [Nodes -> {"new", "member", "gone"}]
    BY <2>2, <2>3 DEF Init
  <2>4. ASSUME Init PROVE mem \in Store /\ disk \in Store /\ granted \in [Nodes -> ProfileId]
    BY <2>4, EmptyStoreIsStore DEF Init
  <2>5. ASSUME Init PROVE \A n \in Nodes : Len(mem.history[n]) <= MaxHistory /\ Len(disk.history[n]) <= MaxHistory
    BY <2>1, <2>5 DEF Init
  <2>6. Init => up \in BOOLEAN /\ crashed \in BOOLEAN
    BY DEF Init
  <2> QED BY <2>3, <2>4, <2>5, <2>6 DEF TypeOK, ProfileId
<1> QED BY <1>1, TypeStep, PTL DEF Spec

------------------------------------------------------------------------------
(* Assignments *)

\* An assigned document exists and stays: Delete refuses it, AssignMany checks
\* for it, a failed save takes the change back, load drops what is left.
LEMMA IntegrityStep == TypeOK /\ ReferentialIntegrity /\ [Next]_vars => ReferentialIntegrity'
<1> SUFFICES ASSUME TypeOK, ReferentialIntegrity, [Next]_vars PROVE ReferentialIntegrity'
  OBVIOUS
<1> USE StoreAssumption
<1>1. ASSUME NEW p \in Profiles, NEW body \in Bodies, NEW ok \in SaveOutcomes, Put(p, body, ok)
      PROVE  ReferentialIntegrity'
  <2>1. AssignedExist([mem EXCEPT !.profiles[p] = body])
    BY PutProfile DEF TypeOK, ReferentialIntegrity, AssignedExist, Has
  <2> QED BY <1>1, <2>1 DEF ReferentialIntegrity, AssignedExist, Has, Put, saveLocked
<1>2. ASSUME NEW p \in Profiles, NEW ok \in SaveOutcomes, Delete(p, ok)
      PROVE  ReferentialIntegrity'
  <2>1. \A n \in Nodes : mem.assign[n] # p
    BY <1>2 DEF Delete, InUse
  <2>2. AssignedExist([mem EXCEPT !.profiles[p] = NoBody])
    BY <2>1, PutProfile DEF TypeOK, ReferentialIntegrity, AssignedExist, Has
  <2> QED BY <1>2, <2>2 DEF ReferentialIntegrity, AssignedExist, Has, Delete, saveLocked
<1>3. ASSUME NEW r \in Requests, NEW ok \in SaveOutcomes, AssignMany(r, ok)
      PROVE  ReferentialIntegrity'
  <2>1. Has(mem, call[r].profile)
    BY <1>3 DEF AssignMany
  <2>2. \A n \in Nodes : NewAssign(r)[n] # NoProfile => Has(mem, NewAssign(r)[n])
    BY <2>1 DEF NewAssign, ReferentialIntegrity, AssignedExist
  <2>3. CASE UNCHANGED <<mem, disk>>
    BY <2>3 DEF ReferentialIntegrity, AssignedExist, Has
  <2>4. CASE /\ mem' = [mem EXCEPT !.assign = NewAssign(r), !.history = NewHistory(r)]
             /\ disk' = [mem EXCEPT !.assign = NewAssign(r)]
    <3>1. /\ mem'.assign = NewAssign(r) /\ mem'.profiles = mem.profiles
          /\ disk'.assign = NewAssign(r) /\ disk'.profiles = mem.profiles
      BY <2>4 DEF TypeOK, Store
    <3> QED BY <2>2, <3>1 DEF ReferentialIntegrity, AssignedExist, Has
  <2> QED BY <1>3, <2>3, <2>4, AssignManyEffect
<1>4. ASSUME NEW r \in Requests, NEW ok \in SaveOutcomes, persistHistoryLocked(r, ok)
      PROVE  ReferentialIntegrity'
  BY <1>4 DEF ReferentialIntegrity, AssignedExist, Has, persistHistoryLocked
<1>5. CASE Crash
  BY <1>5, EmptyStoreIsStore DEF ReferentialIntegrity, AssignedExist, Has, Crash
<1>6. CASE newSmartDistProfileStore
  <2>1. AssignedExist(load(disk))
    BY LoadFile DEF TypeOK
  <2> QED BY <1>6, <2>1 DEF ReferentialIntegrity, AssignedExist, Has, newSmartDistProfileStore
<1>7. CASE UNCHANGED <<mem, disk>>
  BY <1>7 DEF ReferentialIntegrity, AssignedExist, Has
<1> QED BY <1>1, <1>2, <1>3, <1>4, <1>5, <1>6, <1>7
     DEF Next, Write, CheckNodes, RefuseProfile, RegisterNode, DeleteNode, vars

\* No assignment names a document that does not exist, in memory or in the file,
\* whatever saves fail and whenever the panel dies (Delete, AssignMany, load).
THEOREM AssignedProfilesExist == Spec => []ReferentialIntegrity
<1>1. Init => ReferentialIntegrity
  BY EmptyStoreIsStore DEF Init, ReferentialIntegrity
<1> QED BY <1>1, StoreTypeCorrect, IntegrityStep, PTL DEF Spec

\* A change that is acknowledged is in both places, one that is not in neither.
LEMMA GrantedStep ==
  TypeOK /\ ReferentialIntegrity /\ GrantedAssignmentsKept /\ [Next]_vars
    => GrantedAssignmentsKept'
<1> SUFFICES ASSUME TypeOK, ReferentialIntegrity, GrantedAssignmentsKept, [Next]_vars
             PROVE  GrantedAssignmentsKept'
  OBVIOUS
<1> USE StoreAssumption
<1>1. ASSUME NEW p \in Profiles, NEW body \in Bodies, NEW ok \in SaveOutcomes, Put(p, body, ok)
      PROVE  GrantedAssignmentsKept'
  <2>1. [mem EXCEPT !.profiles[p] = body].assign = mem.assign
    BY PutProfile DEF TypeOK
  <2> QED BY <1>1, <2>1 DEF GrantedAssignmentsKept, Put, saveLocked
<1>2. ASSUME NEW p \in Profiles, NEW ok \in SaveOutcomes, Delete(p, ok)
      PROVE  GrantedAssignmentsKept'
  <2>1. [mem EXCEPT !.profiles[p] = NoBody].assign = mem.assign
    BY PutProfile DEF TypeOK
  <2> QED BY <1>2, <2>1 DEF GrantedAssignmentsKept, Delete, saveLocked
<1>3. ASSUME NEW r \in Requests, NEW ok \in SaveOutcomes, AssignMany(r, ok)
      PROVE  GrantedAssignmentsKept'
  <2>1. CASE UNCHANGED <<mem, disk, granted>>
    BY <1>3, <2>1, AssignManyEffect DEF GrantedAssignmentsKept
  <2>2. CASE /\ mem' = [mem EXCEPT !.assign = NewAssign(r), !.history = NewHistory(r)]
             /\ disk' = [mem EXCEPT !.assign = NewAssign(r)]
             /\ granted' = NewAssign(r)
    <3>1. /\ mem'.assign = NewAssign(r) /\ mem'.profiles = mem.profiles
          /\ disk'.assign = NewAssign(r) /\ disk'.profiles = mem.profiles
      BY <2>2 DEF TypeOK, Store
    <3> QED BY <2>2, <3>1 DEF GrantedAssignmentsKept
  <2> QED BY <1>3, <2>1, <2>2, AssignManyEffect
<1>4. ASSUME NEW r \in Requests, NEW ok \in SaveOutcomes, persistHistoryLocked(r, ok)
      PROVE  GrantedAssignmentsKept'
  BY <1>4 DEF GrantedAssignmentsKept, persistHistoryLocked
<1>5. CASE Crash
  BY <1>5 DEF GrantedAssignmentsKept, Crash
<1>6. CASE newSmartDistProfileStore
  <2>1. load(disk).assign = disk.assign /\ load(disk).profiles = disk.profiles
    BY LoadFile DEF TypeOK, ReferentialIntegrity
  <2> QED BY <1>6, <2>1 DEF GrantedAssignmentsKept, newSmartDistProfileStore
<1>7. CASE UNCHANGED <<up, mem, disk, granted>>
  BY <1>7 DEF GrantedAssignmentsKept
<1> QED BY <1>1, <1>2, <1>3, <1>4, <1>5, <1>6, <1>7
     DEF Next, Write, CheckNodes, RefuseProfile, RegisterNode, DeleteNode, vars

\* The panel, its file and its operators agree about every assignment (saveLocked
\* and its rollbacks, persistHistoryLocked, load).
THEOREM PanelAndFileAgree == Spec => []GrantedAssignmentsKept
<1>1. Init => GrantedAssignmentsKept
  BY DEF Init, GrantedAssignmentsKept
<1> QED BY <1>1, StoreTypeCorrect, AssignedProfilesExist, GrantedStep, PTL DEF Spec

\* A node that has a profile in the file keeps one, and the profile is there with it.
NeverReleased ==
  \A n \in Nodes :
    disk.assign[n] # NoProfile => disk'.assign[n] # NoProfile /\ Has(disk', disk'.assign[n])

\* No request releases a node: AssignMany refuses the empty profile, and load drops no
\* assignment.  A node deleted from the registry while the handler was between its
\* look-up and AssignMany therefore stays assigned for good, and Delete refuses the
\* profile that it has.
THEOREM AssignmentIsNeverReleased == Spec => [][NeverReleased]_vars
<1>1. TypeOK /\ GrantedAssignmentsKept /\ GrantedAssignmentsKept' /\ ReferentialIntegrity' /\ [Next]_vars
        => [NeverReleased]_vars
  <2> SUFFICES ASSUME TypeOK, GrantedAssignmentsKept, GrantedAssignmentsKept', ReferentialIntegrity',
                      Next, NEW n \in Nodes, granted[n] # NoProfile
               PROVE  granted'[n] # NoProfile
    BY DEF GrantedAssignmentsKept, ReferentialIntegrity, AssignedExist, NeverReleased
  <2>1. ASSUME NEW r \in Requests, NEW ok \in SaveOutcomes, AssignMany(r, ok)
        PROVE  granted'[n] # NoProfile
    <3>1. mem.assign = granted /\ call[r].profile # NoProfile
      BY <2>1, StoreAssumption DEF AssignMany, Has, GrantedAssignmentsKept
    <3> QED BY <2>1, <3>1, StoreAssumption, AssignManyEffect DEF NewAssign
  <2>2. granted' = granted \/ \E r \in Requests, ok \in SaveOutcomes : AssignMany(r, ok)
    BY DEF Next, Write, Put, Delete, persistHistoryLocked, CheckNodes, RefuseProfile, RegisterNode,
       DeleteNode, Crash, newSmartDistProfileStore
  <2> QED BY <2>1, <2>2
<1> QED BY <1>1, StoreTypeCorrect, PanelAndFileAgree, AssignedProfilesExist, PTL DEF Spec

------------------------------------------------------------------------------
(* History of assignments *)

\* No request names a node twice: it would be recorded twice.
NoRepeats == \A ids \in IdLists : \A i, j \in DOMAIN ids : ids[i] = ids[j] => i = j

\* What is claimed of the history, until the panel dies.
Chained ==
  ~crashed => up /\ \A n \in Nodes : ChainTo(mem.history[n], mem.assign[n])

\* AssignMany adds the change of each listed node, and nothing to the others.
LEMMA AssignManyChains ==
  ASSUME NoRepeats, TypeOK, NEW r \in Requests, call[r].pc = "checked",
         Has(mem, call[r].profile),
         \A n \in Nodes : ChainTo(mem.history[n], mem.assign[n])
  PROVE  \A n \in Nodes : ChainTo(NewHistory(r)[n], NewAssign(r)[n])
<1> SUFFICES ASSUME NEW n \in Nodes PROVE ChainTo(NewHistory(r)[n], NewAssign(r)[n])
  OBVIOUS
<1> DEFINE k == Times(call[r].ids, n)
<1>1. /\ call[r].ids \in Seq(Nodes)
      /\ \A i, j \in DOMAIN call[r].ids : call[r].ids[i] = call[r].ids[j] => i = j
  <2>1. call[r].ids \in IdLists \cup {<<>>}
    BY DEF TypeOK, Calls
  <2>2. <<>> \in Seq(Nodes) /\ DOMAIN <<>> = {}
    BY EmptySeq
  <2> QED BY <2>1, <2>2, StoreAssumption DEF NoRepeats
<1>2. k \in Nat /\ (n \in Listed(call[r].ids) => k = 1)
  BY <1>1, TimesOfList
<1>3. /\ NewAssign(r) \in [Nodes -> ProfileId]
      /\ mem.assign \in [Nodes -> ProfileId]
      /\ mem.history[n] \in Seq(Event)
      /\ Len(mem.history[n]) <= MaxHistory
  BY AssignManyWrites DEF TypeOK, Store, ProfileId
<1>4. NewHistory(r)[n] = recordLocked(mem.history[n], mem.assign[n], NewAssign(r)[n], k)
  BY DEF NewHistory
<1> HIDE DEF k
<1>5. CASE n \in Listed(call[r].ids)
  BY <1>2, <1>3, <1>4, <1>5, RecordHistory
<1>6. CASE n \notin Listed(call[r].ids)
  <2>1. NewAssign(r)[n] = mem.assign[n]
    BY <1>6 DEF NewAssign
  <2> QED BY <1>4, <2>1 DEF recordLocked
<1> QED BY <1>5, <1>6

\* Only AssignMany touches the history of a panel that has not died.
LEMMA ChainedStep == NoRepeats /\ TypeOK /\ Chained /\ [Next]_vars => Chained'
<1> SUFFICES ASSUME NoRepeats, TypeOK, Chained, [Next]_vars, ~crashed' PROVE Chained'
  BY DEF Chained
<1>1. ~crashed
  BY DEF Next, Write, Put, Delete, AssignMany, persistHistoryLocked, CheckNodes, RefuseProfile,
         RegisterNode, DeleteNode, Crash, newSmartDistProfileStore, vars
<1>2. ASSUME NEW p \in Profiles, NEW body \in Bodies \cup {NoBody}, NEW ok \in SaveOutcomes,
             saveLocked([mem EXCEPT !.profiles[p] = body], ok), up' = up
      PROVE  Chained'
  <2>1. /\ [mem EXCEPT !.profiles[p] = body].assign = mem.assign
        /\ [mem EXCEPT !.profiles[p] = body].history = mem.history
    BY PutProfile DEF TypeOK
  <2> QED BY <1>1, <1>2, <2>1 DEF Chained, ChainTo, saveLocked
<1>3. ASSUME NEW r \in Requests, NEW ok \in SaveOutcomes, AssignMany(r, ok)
      PROVE  Chained'
  <2>1. call[r].pc = "checked" /\ Has(mem, call[r].profile) /\ up' = up
    BY <1>3 DEF AssignMany
  <2>2. CASE UNCHANGED mem
    BY <1>1, <2>1, <2>2 DEF Chained, ChainTo
  <2>3. CASE mem' = [mem EXCEPT !.assign = NewAssign(r), !.history = NewHistory(r)]
    <3>1. mem'.assign = NewAssign(r) /\ mem'.history = NewHistory(r)
      BY <2>3 DEF TypeOK, Store
    <3>2. \A n \in Nodes : ChainTo(NewHistory(r)[n], NewAssign(r)[n])
      BY <1>1, <2>1, AssignManyChains DEF Chained
    <3> QED BY <1>1, <2>1, <3>1, <3>2 DEF Chained, ChainTo
  <2> QED BY <1>3, <2>2, <2>3, StoreAssumption, AssignManyEffect
<1>4. CASE newSmartDistProfileStore
  BY <1>1, <1>4 DEF Chained, newSmartDistProfileStore
<1>5. CASE UNCHANGED <<up, mem>>
  BY <1>1, <1>5 DEF Chained, ChainTo
<1>6. ~Crash
  BY DEF Crash
<1> QED BY <1>2, <1>3, <1>4, <1>5, <1>6
     DEF Next, Write, Put, Delete, persistHistoryLocked, CheckNodes, RefuseProfile,
         RegisterNode, DeleteNode, vars

\* Until the panel dies the history of each node is complete and in order, within
\* its bound, whatever saves fail, if no request names a node twice (AssignMany,
\* recordLocked).
THEOREM HistoryIsComplete == NoRepeats => (Spec => []HistoryIsChain)
<1> SUFFICES ASSUME NoRepeats PROVE Spec => []HistoryIsChain
  OBVIOUS
<1>1. Init => Chained
  <2>1. \A n \in Nodes : ChainTo(EmptyStore.history[n], EmptyStore.assign[n])
    BY EmptyStoreIsStore, EmptySeq DEF ChainTo
  <2> QED BY <2>1 DEF Init, Chained
<1>2. TypeOK /\ Chained /\ [Next]_vars => Chained'
  BY ChainedStep
<1>3. Chained => HistoryIsChain
  BY DEF Chained, ChainTo, HistoryIsChain
<1> QED BY <1>1, <1>2, <1>3, StoreTypeCorrect, PTL DEF Spec
===============================================================================
