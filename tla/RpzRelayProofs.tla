---------------------------- MODULE RpzRelayProofs ----------------------------
(***************************************************************************)
(* Theorems about RpzRelay, for any zone, serials, bounds and number of    *)
(* failures, as long as no relay starts with a serial, without its raw     *)
(* file and with a bootstrap URL: that start mixes versions.               *)
(***************************************************************************)
EXTENDS RpzRelay, SequenceTheorems, TLAPS

SafeStarts == \A start \in Starts : ~(start.disk = "rawless" /\ start.url)

-----------------------------------------------------------------------------
(* Serials and deltas                                                      *)

\* RFC 1982: no serial is newer than itself, and of two serials at most one is newer.
THEOREM SerialOrder ==
  ASSUME NEW s \in Serials, NEW t \in Serials
  PROVE  /\ ~serialGreater(s, s)
         /\ ~(serialGreater(s, t) /\ serialGreater(t, s))
BY ModulusAssumption DEF serialGreater, Minus, Serials

\* Serials of the versions up to c.
Past(c) == {SerialOf[v] : v \in 0 .. c}

\* A published serial names its version.
LEMMA VersionOfSerial ==
  /\ \A v \in Versions : VersionOf(SerialOf[v]) = v
  /\ \A c \in Versions : \A s \in Past(c) :
       VersionOf(s) \in 0 .. c /\ VersionOf(s) \in Versions /\ SerialOf[VersionOf(s)] = s
<1>1. ASSUME NEW v \in Versions PROVE VersionOf(SerialOf[v]) = v
  <2>1. VersionOf(SerialOf[v]) \in Versions /\ SerialOf[VersionOf(SerialOf[v])] = SerialOf[v]
    BY DEF VersionOf
  <2> QED BY <2>1, RelayAssumption
<1>2. ASSUME NEW c \in Versions, NEW s \in Past(c)
      PROVE  VersionOf(s) \in 0 .. c /\ VersionOf(s) \in Versions /\ SerialOf[VersionOf(s)] = s
  <2>1. PICK v \in 0 .. c : s = SerialOf[v]
    BY <1>2 DEF Past
  <2>2. v \in Versions
    BY RelayAssumption DEF Versions
  <2> QED BY <2>1, <2>2, <1>1
<1> QED BY <1>1, <1>2

\* An IXFR delta leads from its first version, and from every version on the
\* way, exactly to its last.
LEMMA DeltaIsExact ==
  ASSUME NEW snap \in Serials, NEW v \in Versions, NEW w \in Versions,
         VersionOf(snap) \in Versions, VersionOf(snap) <= v, v <= w
  PROVE  ApplyDelta(Zone[v], parseTransferRecords(snap, w)) = Zone[w]
<1> DEFINE touched == Touched(VersionOf(snap), w)
           delta == parseTransferRecords(snap, w)
<1>1. delta.added = touched \cap Zone[w] /\ delta.deleted = touched \ Zone[w]
  BY DEF parseTransferRecords
<1>2. v \in VersionOf(snap) .. w
  BY RelayAssumption DEF Versions
<1>3. Zone[v] \in SUBSET Domains /\ Zone[w] \in SUBSET Domains
  BY RelayAssumption
<1>4. \A d \in Domains : d \notin touched => (d \in Zone[v] <=> d \in Zone[w])
  BY <1>2 DEF Touched
<1>5. touched \in SUBSET Domains
  BY DEF Touched
<1> HIDE DEF touched, delta
<1>6. ApplyDelta(Zone[v], delta) = Zone[w]
  BY <1>1, <1>3, <1>4, <1>5 DEF ApplyDelta
<1> QED BY <1>6 DEF delta

\* The deltas that are kept are the newest, at most MaxDeltas of them.
LEMMA KeptDeltas ==
  ASSUME NEW D, NEW deltas \in Seq(D), Len(deltas) <= MaxDeltas,
         ~sync.full => parseTransferRecords(sync.snap, sync.to) \in D
  PROVE  KeepDelta(deltas) \in Seq(D) /\ Len(KeepDelta(deltas)) <= MaxDeltas
<1> DEFINE all == Append(deltas, parseTransferRecords(sync.snap, sync.to))
<1>1. CASE sync.full
  BY <1>1 DEF KeepDelta
<1>2. CASE ~sync.full
  <2>1. all \in Seq(D) /\ Len(all) = Len(deltas) + 1
    BY <1>2
  <2>2. KeepDelta(deltas) = IF Len(all) > MaxDeltas THEN SubSeq(all, Len(all) - MaxDeltas + 1, Len(all)) ELSE all
    BY <1>2 DEF KeepDelta
  <2> HIDE DEF all
  <2>3. CASE Len(all) > MaxDeltas
    <3>1. Len(all) - MaxDeltas + 1 \in 1 .. Len(all) + 1
      BY <2>1, <2>3, RelayAssumption
    <3>2. SubSeq(all, Len(all) - MaxDeltas + 1, Len(all)) \in Seq(D)
      <4>1. \A i \in (Len(all) - MaxDeltas + 1) .. Len(all) : all[i] \in D
        BY <2>1, <3>1
      <4> QED BY <2>1, <3>1, <4>1, SubSeqProperties
    <3>3. Len(SubSeq(all, Len(all) - MaxDeltas + 1, Len(all))) = MaxDeltas
      BY <2>1, <3>1, SubSeqProperties, RelayAssumption
    <3> QED BY <2>2, <2>3, <3>2, <3>3, RelayAssumption
  <2>4. CASE ~(Len(all) > MaxDeltas)
    BY <2>1, <2>2, <2>4, RelayAssumption
  <2> QED BY <2>3, <2>4
<1> QED BY <1>1, <1>2

-----------------------------------------------------------------------------
(* Types                                                                   *)

\* A parsed delta and the list it leads to have their types.
LEMMA DeltaTypes ==
  /\ \A snap \in Serials : \A to \in Versions : parseTransferRecords(snap, to) \in Deltas
  /\ \A list \in Lists : \A delta \in Deltas : ApplyDelta(list, delta) \in Lists
BY RelayAssumption DEF parseTransferRecords, Touched, Deltas, Lists, ApplyDelta

\* Constants, idle values and the helpers of Sync are of their types.
LEMMA ConstantTypes ==
  /\ Unknown \in Serials
  /\ 0 \in Versions
  /\ \A v \in Versions : SerialOf[v] \in Serials /\ Zone[v] \in Lists /\ Zone[v] \in Files
  /\ BootList \in Files
  /\ NoFile \in Files
  /\ NoVersion \in Versions \cup {NoVersion}
  /\ \A f \in Files : f # NoFile => f \in Lists
  /\ Empty \in States
  /\ Kept \in States
  /\ Lists \subseteq Files
<1>1. /\ Unknown \in Serials
      /\ 0 \in Versions
      /\ \A v \in Versions : SerialOf[v] \in Serials /\ Zone[v] \in Lists /\ Zone[v] \in Files
      /\ BootList \in Files /\ NoFile \in Files
      /\ \A f \in Files : f # NoFile => f \in Lists
      /\ Lists \subseteq Files
  BY ModulusAssumption, RelayAssumption DEF Unknown, Serials, Versions, Files, Lists
<1>2. <<>> \in Seq(Deltas) /\ Len(<<>>) = 0
  OBVIOUS
<1>3. Empty \in States /\ Kept \in States
  BY <1>1, <1>2, RelayAssumption DEF Empty, Kept, States
<1> QED BY <1>1, <1>3

\* The new state has the type of a state.
LEMMA NewStateType ==
  ASSUME TypeOK PROVE NewState \in States
<1>1. ~sync.full => parseTransferRecords(sync.snap, sync.to) \in Deltas
  BY DeltaTypes DEF TypeOK
<1>2. mem.deltas \in Seq(Deltas) /\ Len(mem.deltas) <= MaxDeltas
  BY DEF TypeOK, States
<1>3. KeepDelta(mem.deltas) \in Seq(Deltas) /\ Len(KeepDelta(mem.deltas)) <= MaxDeltas
  BY <1>1, <1>2, KeptDeltas
<1> QED BY <1>3 DEF NewState, States, TypeOK

\* What the relay and its secondary hold stays of its type.
LEMMA TypeKept ==
  ASSUME TypeOK, raw = NoFile /\ sync.pc = "raw" => sync.full, [Next]_vars PROVE TypeOK'
<1> USE ConstantTypes DEF TypeOK
<1>1. CASE Publish
  BY <1>1, RelayAssumption DEF Publish, Versions, files, state
<1>2. CASE Start
  BY <1>2 DEF Start, upstream, files
<1>3. CASE Crash
  BY <1>3, RelayAssumption DEF Crash, Fault, Tears, Idle, Clients, upstream, files, state
<1>4. CASE DownloadBootstrap
  BY <1>4 DEF DownloadBootstrap, upstream, state
<1>5. CASE CompileBootstrap
  <2>1. [mem EXCEPT !.sha = raw] \in States
    BY DEF States
  <2> QED BY <1>5, <2>1 DEF CompileBootstrap, upstream
<1>6. CASE BootFails
  <2>1. cdb' \in Files /\ torn' \in BOOLEAN
    BY <1>6 DEF BootFails
  <2>2. faults' \in 0 .. MaxFaults
    BY <1>6, RelayAssumption DEF BootFails, Fault
  <2> QED BY <1>6, <2>1, <2>2 DEF BootFails, upstream, state
<1>7. CASE QuerySOA
  <2>1. LocalSerial \in Serials /\ SerialOf[cur] \in Serials
    BY DEF LocalSerial, States
  <2>2. sync' \in [pc : {"idle", "transfer", "raw", "cdb", "save"}, snap : Serials, soa : Serials,
                   to : Versions, full : BOOLEAN]
    <3>1. CASE sync' = Idle
      BY <3>1 DEF Idle
    <3>2. CASE sync' = [Idle EXCEPT !.pc = "transfer", !.snap = LocalSerial, !.soa = SerialOf[cur]]
      BY <2>1, <3>2 DEF Idle
    <3> QED BY <1>7, <3>1, <3>2 DEF QuerySOA, SyncDone
  <2>3. up' \in {"down", "sync", "boot", "serving"}
    BY <1>7 DEF QuerySOA, SyncDone
  <2> QED BY <1>7, <2>2, <2>3 DEF QuerySOA, upstream, files, state
<1>8. CASE Transfer
  <2>1. sync' \in [pc : {"idle", "transfer", "raw", "cdb", "save"}, snap : Serials, soa : Serials,
                   to : Versions, full : BOOLEAN]
    <3>1. CASE AsAnnounced(SerialOf[cur], sync.soa)
      <4>1. PICK full \in BOOLEAN : sync' = [sync EXCEPT !.pc = "raw", !.to = cur, !.full = full]
        BY <1>8, <3>1 DEF Transfer
      <4> QED BY <4>1
    <3>2. CASE ~AsAnnounced(SerialOf[cur], sync.soa)
      <4>1. sync' = Idle
        BY <1>8, <3>2 DEF Transfer, SyncFailed
      <4> QED BY <4>1 DEF Idle
    <3> QED BY <3>1, <3>2
  <2>2. up' \in {"down", "sync", "boot", "serving"}
    BY <1>8 DEF Transfer, SyncFailed
  <2> QED BY <1>8, <2>1, <2>2 DEF Transfer, upstream, files, state
<1>9. CASE PublishRaw
  <2>1. raw' \in Files
    <3>1. CASE sync.full
      BY <1>9, <3>1 DEF PublishRaw
    <3>2. CASE ~sync.full
      <4>1. raw \in Lists
        BY <1>9, <3>2 DEF PublishRaw
      <4>2. parseTransferRecords(sync.snap, sync.to) \in Deltas
        BY DeltaTypes
      <4> QED BY <1>9, <3>2, <4>1, <4>2, DeltaTypes DEF PublishRaw
    <3> QED BY <3>1, <3>2
  <2> QED BY <1>9, <2>1 DEF PublishRaw, upstream, state
<1>10. CASE PublishCdb
  BY <1>10 DEF PublishCdb, upstream, state
<1>11. CASE SaveState
  <2>1. NewState \in States
    BY NewStateType
  <2> QED BY <1>11, <2>1 DEF SaveState, Record, SyncDone, Idle, upstream, files
<1>12. CASE SaveFails
  BY <1>12, RelayAssumption DEF SaveFails, Fault, Record, Tears, SyncFailed, Idle, upstream, files, state
<1>13. CASE SyncFails
  BY <1>13, RelayAssumption DEF SyncFails, Fault, Tears, SyncFailed, Idle, upstream, files, state
<1>14. CASE ClientIXFR
  <2>1. \A i \in DOMAIN mem.deltas : mem.deltas[i] \in Deltas
    BY DEF States
  <2>2. \A i \in DOMAIN mem.deltas :
          /\ mem.deltas[i].to \in Serials
          /\ ApplyDelta(client.zone, mem.deltas[i]) \in Lists
          /\ VersionOf(mem.deltas[i].to) \in Versions
    <3> SUFFICES ASSUME NEW i \in DOMAIN mem.deltas
                 PROVE  /\ mem.deltas[i].to \in Serials
                        /\ ApplyDelta(client.zone, mem.deltas[i]) \in Lists
                        /\ VersionOf(mem.deltas[i].to) \in Versions
      OBVIOUS
    <3>1. mem.deltas[i] \in Deltas
      BY <2>1
    <3>2. PICK v \in Versions : mem.deltas[i].to = SerialOf[v]
      BY <3>1 DEF Deltas
    <3>3. VersionOf(SerialOf[v]) = v
      BY VersionOfSerial
    <3>4. client.zone \in Lists
      BY DEF Clients
    <3>5. ApplyDelta(client.zone, mem.deltas[i]) \in Lists
      BY <3>1, <3>4, DeltaTypes
    <3> QED BY <3>2, <3>3, <3>5
  <2>3. client' \in Clients
    <3>1. CASE client' = [client EXCEPT !.pc = "axfr"]
      BY <3>1 DEF Clients
    <3>2. ASSUME NEW i \in Matched(client.serial),
                 client' = [pc |-> "idle", serial |-> mem.deltas[i].to,
                            zone |-> ApplyDelta(client.zone, mem.deltas[i]),
                            version |-> VersionOf(mem.deltas[i].to), early |-> FALSE]
          PROVE  client' \in Clients
      <4>1. i \in DOMAIN mem.deltas
        BY DEF Matched
      <4> QED BY <2>2, <3>2, <4>1 DEF Clients
    <3> QED BY <1>14, <3>1, <3>2 DEF ClientIXFR
  <2> QED BY <1>14, <2>3 DEF ClientIXFR, upstream, files, state
<1>15. CASE ClientAXFR
  BY <1>15 DEF ClientAXFR, States, Clients, upstream, files, state
<1>16. CASE UNCHANGED vars
  BY <1>16 DEF vars
<1> QED BY <1>1, <1>2, <1>3, <1>4, <1>5, <1>6, <1>7, <1>8, <1>9, <1>10, <1>11, <1>12, <1>13, <1>14, <1>15, <1>16
        DEF Next, SyncStep, BootStep

-----------------------------------------------------------------------------
(* The inductive invariant                                                 *)

Torn == torn \/ sync.pc \in {"cdb", "save"}

\* The state file follows memory, its serial was published, and with a
\* bootstrap URL a relay without its raw file has no serial and no CDB.
StateInv ==
  /\ disk = mem
  /\ mem.serial # Unknown => mem.serial \in Past(cur)
  /\ url /\ raw = NoFile => mem.serial = Unknown /\ cdb = NoFile
  /\ up = "boot" /\ raw = NoFile => url
  /\ up \in {"down", "boot"} => sync.pc = "idle"
  /\ up = "sync" /\ sync.pc \in {"idle", "transfer", "raw"} => raw = NoFile

\* What Sync carries from its query over the transfer to the save: an IXFR
\* starts from the recorded serial, nothing ends before the relay's version.
SyncInv ==
  /\ sync.pc # "idle" /\ sync.snap # Unknown => sync.snap = mem.serial /\ raw # NoFile
  /\ sync.pc # "idle" => sync.soa \in Past(cur)
  /\ Publishing =>
       /\ sync.to <= cur
       /\ sync.soa # Unknown => sync.soa = SerialOf[sync.to]
       /\ ~sync.full => sync.snap # Unknown /\ sync.soa # Unknown
       /\ mem.serial # Unknown => VersionOf(mem.serial) <= sync.to
  /\ sync.pc \in {"cdb", "save"} => raw = Zone[sync.to] /\ held = sync.to
  /\ sync.pc = "save" => cdb = raw

\* The raw file is the zone of the version it was published as, no older than
\* the recorded serial and no newer than what is being published.
RawHolds ==
  /\ held \in 0 .. cur
  /\ raw = Zone[held]
  /\ VersionOf(mem.serial) <= held
  /\ ~Torn => SerialOf[held] = mem.serial
  /\ Publishing => held <= sync.to

RawInv == raw # NoFile /\ mem.serial # Unknown => RawHolds

\* Deltas between published versions, as parseTransferRecords makes them.
ExactDeltas(c) ==
  {d \in Deltas : \E v, w \in 0 .. c :
     /\ v <= w
     /\ SerialOf[v] # Unknown
     /\ SerialOf[w] # Unknown
     /\ d = parseTransferRecords(SerialOf[v], w)}

DeltaInv == mem.deltas \in Seq(ExactDeltas(cur))

\* The secondary holds a version, which the relay has recorded if it moved on.
ClientHolds ==
  /\ client.version \in 0 .. cur
  /\ client.zone = Zone[client.version]
  /\ client.serial \in Past(cur)
  /\ VersionOf(client.serial) <= client.version
  /\ ~client.early => SerialOf[client.version] = client.serial
  /\ Publishing => client.version <= sync.to
  /\ mem.serial # Unknown /\ mem.serial # client.serial => client.version <= VersionOf(mem.serial)

ClientInv == client.serial # Unknown => ClientHolds

IInv == TypeOK /\ StateInv /\ SyncInv /\ RawInv /\ DeltaInv /\ ClientInv

\* An IXFR is only asked for with a serial, and a serial is only trusted with a file.
Grounded ==
  /\ sync.pc # "idle" /\ sync.snap # Unknown => raw # NoFile
  /\ Publishing /\ ~sync.full => sync.snap # Unknown

\* The starts have their types, those with a lost raw file included.
LEMMA InitTypes == Init => TypeOK /\ Grounded
<1> SUFFICES ASSUME Init PROVE TypeOK /\ Grounded
  OBVIOUS
<1>1. /\ raw \in Files /\ cdb \in Files /\ mem \in States /\ disk \in States /\ url \in BOOLEAN
      /\ held \in Versions \cup {NoVersion}
  BY ConstantTypes, RelayAssumption DEF Init
<1>2. /\ cur \in Versions
      /\ sync \in [pc : {"idle", "transfer", "raw", "cdb", "save"}, snap : Serials, soa : Serials,
                  to : Versions, full : BOOLEAN]
      /\ client \in Clients
  BY ConstantTypes DEF Init, Idle, Lists, Clients
<1>3. torn \in BOOLEAN /\ up \in {"down", "sync", "boot", "serving"} /\ faults \in 0 .. MaxFaults
  <2>1. torn = FALSE /\ up = "down" /\ faults = 0
    BY DEF Init
  <2>2. faults \in 0 .. MaxFaults
    BY <2>1, RelayAssumption
  <2> QED BY <2>1, <2>2
<1>4. Grounded
  BY DEF Init, Grounded, Publishing, Idle
<1> QED BY <1>1, <1>2, <1>3, <1>4 DEF TypeOK

\* The invariant holds at every start but the one that SafeStarts excludes.
LEMMA InitInvariant ==
  ASSUME SafeStarts, Init PROVE IInv
<1>1. PICK start \in Starts :
        /\ url = start.url
        /\ raw = IF start.disk = "kept" THEN Zone[0] ELSE NoFile
        /\ held = IF start.disk = "kept" THEN 0 ELSE NoVersion
        /\ cdb = IF start.disk = "empty" THEN NoFile ELSE Zone[0]
        /\ disk = IF start.disk = "empty" THEN Empty ELSE Kept
        /\ mem = disk
  BY DEF Init
<1>2. start.url \in BOOLEAN /\ start.disk \in {"empty", "kept", "rawless"} /\ ~(start.disk = "rawless" /\ start.url)
  BY RelayAssumption DEF SafeStarts
<1>3. TypeOK
  BY InitTypes
<1>4. /\ SerialOf[0] \in Past(cur)
      /\ VersionOf(SerialOf[0]) = 0
      /\ 0 \in 0 .. cur
      /\ Zone[0] # NoFile
  BY VersionOfSerial, ConstantTypes, RelayAssumption DEF Past, Init
<1>5. StateInv
  BY <1>1, <1>2, <1>4 DEF Init, StateInv, Empty, Kept, Idle
<1>6. SyncInv
  BY DEF Init, SyncInv, Idle, Publishing
<1>7. RawInv
  <2> SUFFICES ASSUME raw # NoFile, mem.serial # Unknown PROVE RawHolds
    BY DEF RawInv
  <2>1. raw = Zone[0] /\ held = 0 /\ mem.serial = SerialOf[0]
    BY <1>1 DEF Kept
  <2> QED BY <1>4, <2>1 DEF Init, RawHolds, Publishing, Idle
<1>8. DeltaInv
  <2>1. mem.deltas = <<>>
    BY <1>1 DEF Empty, Kept
  <2> QED BY <2>1 DEF DeltaInv
<1>9. ClientInv
  BY DEF Init, ClientInv
<1> QED BY <1>3, <1>5, <1>6, <1>7, <1>8, <1>9 DEF IInv

-----------------------------------------------------------------------------
(* Steps                                                                   *)

\* More versions leave what was published before.
LEMMA PastGrows ==
  ASSUME NEW c \in Nat
  PROVE  Past(c) \subseteq Past(c + 1) /\ Seq(ExactDeltas(c)) \subseteq Seq(ExactDeltas(c + 1))
<1>1. 0 .. c \subseteq 0 .. c + 1
  OBVIOUS
<1>2. Past(c) \subseteq Past(c + 1)
  BY <1>1 DEF Past
<1>3. ExactDeltas(c) \subseteq ExactDeltas(c + 1)
  BY <1>1 DEF ExactDeltas
<1> QED BY <1>2, <1>3

\* Every step keeps what the recorded state and its deltas claim.
LEMMA StateKept ==
  ASSUME IInv, [Next]_vars PROVE StateInv'
<1> USE DEF IInv, StateInv
<1>1. CASE Publish
  <2>1. Past(cur) \subseteq Past(cur + 1)
    BY PastGrows DEF TypeOK, Versions
  <2> QED BY <1>1, <2>1 DEF Publish, files, state
<1>2. CASE Start
  BY <1>2 DEF Start, upstream, files
<1>3. CASE Crash
  BY <1>3 DEF Crash, Idle, upstream, files, state
<1>4. CASE DownloadBootstrap
  BY <1>4, ConstantTypes, RelayAssumption DEF DownloadBootstrap, upstream, state
<1>5. CASE CompileBootstrap
  <2>1. mem'.serial = mem.serial
    BY <1>5 DEF CompileBootstrap, TypeOK, States
  <2> QED BY <1>5, <2>1 DEF CompileBootstrap, upstream
<1>6. CASE BootFails
  BY <1>6 DEF BootFails, upstream, state
<1>7. CASE QuerySOA
  <2>1. /\ sync.pc = "idle"
        /\ \/ sync'.pc = "transfer" /\ up' = up
           \/ sync'.pc = "idle" /\ up' = "serving"
    <3>1. CASE serialGreater(SerialOf[cur], LocalSerial)
      BY <1>7, <3>1 DEF QuerySOA, Idle
    <3>2. CASE ~serialGreater(SerialOf[cur], LocalSerial)
      BY <1>7, <3>2 DEF QuerySOA, SyncDone, Idle
    <3> QED BY <3>1, <3>2
  <2> QED BY <1>7, <2>1 DEF QuerySOA, upstream, files, state
<1>8. CASE Transfer
  <2>1. CASE AsAnnounced(SerialOf[cur], sync.soa)
    <3>1. sync'.pc = "raw" /\ up' = up
      BY <1>8, <2>1 DEF Transfer, TypeOK
    <3> QED BY <1>8, <3>1 DEF Transfer, upstream, files, state
  <2>2. CASE ~AsAnnounced(SerialOf[cur], sync.soa)
    BY <1>8, <2>2 DEF Transfer, SyncFailed, Idle, upstream, files, state
  <2> QED BY <2>1, <2>2
<1>9. CASE PublishRaw
  <2>1. sync'.pc = "cdb"
    BY <1>9 DEF PublishRaw, TypeOK
  <2>2. raw' # NoFile
    <3>1. CASE sync.full
      BY <1>9, <3>1, ConstantTypes, RelayAssumption DEF PublishRaw, TypeOK, Lists
    <3>2. CASE ~sync.full
      <4>1. raw \in Lists
        BY <1>9, <3>2, ConstantTypes DEF PublishRaw, TypeOK, SyncInv, Publishing
      <4>2. parseTransferRecords(sync.snap, sync.to) \in Deltas
        BY DeltaTypes DEF TypeOK
      <4> QED BY <1>9, <3>2, <4>1, <4>2, DeltaTypes, RelayAssumption DEF PublishRaw, Lists
    <3> QED BY <3>1, <3>2
  <2> QED BY <1>9, <2>1, <2>2 DEF PublishRaw, upstream, state
<1>10. CASE PublishCdb
  <2>1. sync'.pc = "save"
    BY <1>10 DEF PublishCdb, TypeOK
  <2>2. raw # NoFile
    BY <1>10, ConstantTypes, RelayAssumption DEF PublishCdb, SyncInv, TypeOK, Lists
  <2> QED BY <1>10, <2>1, <2>2 DEF PublishCdb, upstream, state
<1>11. CASE SaveState
  <2>1. raw # NoFile
    BY <1>11, ConstantTypes, RelayAssumption DEF SaveState, SyncInv, TypeOK, Lists
  <2>2. sync.soa \in Past(cur)
    BY <1>11 DEF SaveState, SyncInv
  <2>3. mem'.serial = sync.soa /\ disk' = mem'
    BY <1>11 DEF SaveState, Record, NewState
  <2> QED BY <1>11, <2>1, <2>2, <2>3 DEF SaveState, SyncDone, Idle, upstream, files
<1>12. CASE SaveFails
  <2>1. raw # NoFile
    BY <1>12, ConstantTypes, RelayAssumption DEF SaveFails, SyncInv, TypeOK, Lists
  <2> QED BY <1>12, <2>1 DEF SaveFails, Record, SyncFailed, Idle, upstream, files, state
<1>13. CASE SyncFails
  BY <1>13 DEF SyncFails, SyncFailed, Idle, upstream, files, state
<1>14. CASE ClientIXFR
  BY <1>14 DEF ClientIXFR, upstream, files, state
<1>15. CASE ClientAXFR
  BY <1>15 DEF ClientAXFR, upstream, files, state
<1>16. CASE UNCHANGED vars
  BY <1>16 DEF vars
<1> QED BY <1>1, <1>2, <1>3, <1>4, <1>5, <1>6, <1>7, <1>8, <1>9, <1>10, <1>11, <1>12, <1>13, <1>14, <1>15, <1>16
        DEF Next, SyncStep, BootStep

\* Where a publication leaves the raw file: at the version transferred.
LEMMA PublishedRaw ==
  ASSUME IInv, PublishRaw PROVE raw' = Zone[sync.to]
<1>1. CASE sync.full
  BY <1>1 DEF PublishRaw
<1>2. CASE ~sync.full
  <2>1. sync.snap # Unknown /\ sync.snap = mem.serial /\ raw # NoFile
    BY <1>2 DEF IInv, SyncInv, Publishing, PublishRaw
  <2> DEFINE v == held
  <2>2. v \in 0 .. cur /\ raw = Zone[v] /\ VersionOf(sync.snap) <= v /\ v <= sync.to
    BY <1>2, <2>1 DEF IInv, RawInv, RawHolds, Publishing, PublishRaw
  <2>4. /\ v \in Versions /\ sync.to \in Versions /\ sync.snap \in Serials
        /\ VersionOf(sync.snap) \in Versions
    <3>1. v \in Versions /\ sync.to \in Versions /\ sync.snap \in Serials
      BY <2>2, RelayAssumption DEF IInv, TypeOK, Versions
    <3>2. sync.snap \in Past(cur) /\ cur \in Versions
      BY <2>1 DEF IInv, StateInv, TypeOK
    <3> QED BY <3>1, <3>2, VersionOfSerial
  <2> QED BY <1>2, <2>2, <2>4, DeltaIsExact DEF PublishRaw
<1> QED BY <1>1, <1>2

\* Every step keeps what is known at each point of a synchronisation.
LEMMA SyncKept ==
  ASSUME IInv, [Next]_vars PROVE SyncInv'
<1> USE DEF IInv, SyncInv, Publishing
<1>1. CASE Publish
  <2>1. Past(cur) \subseteq Past(cur + 1) /\ cur \in Nat /\ sync.to \in Nat
    BY PastGrows DEF TypeOK, Versions
  <2> QED BY <1>1, <2>1 DEF Publish, files, state
<1>2. CASE Start
  BY <1>2 DEF Start, StateInv, upstream, files
<1>3. CASE Crash
  BY <1>3 DEF Crash, Idle
<1>4. CASE DownloadBootstrap
  BY <1>4 DEF DownloadBootstrap, StateInv
<1>5. CASE CompileBootstrap
  BY <1>5 DEF CompileBootstrap, StateInv
<1>6. CASE BootFails
  BY <1>6 DEF BootFails, StateInv
<1>7. CASE QuerySOA
  <2>1. CASE serialGreater(SerialOf[cur], LocalSerial)
    <3>1. /\ sync'.pc = "transfer" /\ sync'.soa = SerialOf[cur]
          /\ sync'.snap # Unknown => sync'.snap = mem.serial /\ raw # NoFile
      BY <1>7, <2>1 DEF QuerySOA, Idle, LocalSerial
    <3>2. SerialOf[cur] \in Past(cur)
      BY DEF Past, TypeOK, Versions
    <3> QED BY <1>7, <3>1, <3>2 DEF QuerySOA, upstream, files, state
  <2>2. CASE ~serialGreater(SerialOf[cur], LocalSerial)
    BY <1>7, <2>2 DEF QuerySOA, SyncDone, Idle
  <2> QED BY <2>1, <2>2
<1>8. CASE Transfer
  <2>1. CASE AsAnnounced(SerialOf[cur], sync.soa)
    <3>1. PICK full \in BOOLEAN :
            /\ sync.snap = Unknown \/ sync.soa < sync.snap => full
            /\ sync' = [sync EXCEPT !.pc = "raw", !.to = cur, !.full = full]
      BY <1>8, <2>1 DEF Transfer
    <3>2. /\ sync'.pc = "raw" /\ sync'.to = cur /\ sync'.full = full
          /\ sync'.snap = sync.snap /\ sync'.soa = sync.soa
      BY <3>1 DEF TypeOK
    <3>3. sync.soa # Unknown => sync.soa = SerialOf[cur]
      BY <2>1 DEF AsAnnounced
    <3>4. ~full => sync.snap # Unknown /\ sync.soa # Unknown
      BY <3>1, ModulusAssumption DEF TypeOK, Serials, Unknown
    <3>5. mem.serial # Unknown => VersionOf(mem.serial) <= cur
      BY VersionOfSerial DEF StateInv, TypeOK, Versions
    <3>6. sync.soa \in Past(cur)
      BY <1>8 DEF Transfer
    <3>7. cur <= cur
      BY RelayAssumption DEF TypeOK, Versions
    <3>8. UNCHANGED <<cur, mem, raw, cdb>>
      BY <1>8 DEF Transfer, upstream, files, state
    <3>9. sync.snap # Unknown => sync.snap = mem.serial /\ raw # NoFile
      BY <1>8 DEF Transfer
    <3> QED BY <3>2, <3>3, <3>4, <3>5, <3>6, <3>7, <3>8, <3>9
  <2>2. CASE ~AsAnnounced(SerialOf[cur], sync.soa)
    BY <1>8, <2>2 DEF Transfer, SyncFailed, Idle
  <2> QED BY <2>1, <2>2
<1>9. CASE PublishRaw
  <2>1. raw' = Zone[sync.to] /\ Zone[sync.to] # NoFile
    BY <1>9, PublishedRaw, RelayAssumption DEF TypeOK
  <2>2. /\ sync'.pc = "cdb" /\ sync'.to = sync.to /\ sync'.full = sync.full
        /\ sync'.snap = sync.snap /\ sync'.soa = sync.soa
    BY <1>9 DEF PublishRaw, TypeOK
  <2>3. sync.pc = "raw" /\ held' = sync.to /\ UNCHANGED <<cur, mem>>
    BY <1>9 DEF PublishRaw, upstream, state
  <2> QED BY <2>1, <2>2, <2>3
<1>10. CASE PublishCdb
  <2>1. /\ sync'.pc = "save" /\ sync'.to = sync.to /\ sync'.full = sync.full
        /\ sync'.snap = sync.snap /\ sync'.soa = sync.soa
    BY <1>10 DEF PublishCdb, TypeOK
  <2>2. sync.pc = "cdb" /\ cdb' = raw /\ UNCHANGED <<cur, mem, raw, held>>
    BY <1>10 DEF PublishCdb, upstream, state
  <2> QED BY <2>1, <2>2
<1>11. CASE SaveState
  BY <1>11 DEF SaveState, SyncDone, Idle
<1>12. CASE SaveFails
  BY <1>12 DEF SaveFails, SyncFailed, Idle
<1>13. CASE SyncFails
  BY <1>13 DEF SyncFails, SyncFailed, Idle
<1>14. CASE ClientIXFR
  BY <1>14 DEF ClientIXFR, upstream, files, state
<1>15. CASE ClientAXFR
  BY <1>15 DEF ClientAXFR, upstream, files, state
<1>16. CASE UNCHANGED vars
  BY <1>16 DEF vars
<1> QED BY <1>1, <1>2, <1>3, <1>4, <1>5, <1>6, <1>7, <1>8, <1>9, <1>10, <1>11, <1>12, <1>13, <1>14, <1>15, <1>16
        DEF Next, SyncStep, BootStep

\* Every step keeps the raw file at a version that its state can account for.
LEMMA RawKept ==
  ASSUME IInv, [Next]_vars PROVE RawInv'
<1> SUFFICES ASSUME raw' # NoFile, mem'.serial # Unknown
             PROVE  RawHolds'
  BY DEF RawInv
<1> USE DEF IInv, RawHolds, Torn, Publishing
\* Steps that leave the list, the serial and the publication as they are.
<1>1. ASSUME raw' = raw, held' = held, mem'.serial = mem.serial, Torn' = Torn, Publishing' => Publishing /\ sync'.to = sync.to,
             cur' = cur \/ cur' = cur + 1
      PROVE  RawHolds'
  <2>1. RawHolds
    BY <1>1 DEF RawInv
  <2>2. held \in 0 .. cur'
    BY <1>1, <2>1, RelayAssumption DEF TypeOK, Versions
  <2> QED BY <1>1, <2>1, <2>2
<1>2. CASE Publish
  BY <1>1, <1>2 DEF Publish, files, state
<1>3. CASE Start
  BY <1>1, <1>3 DEF Start, StateInv, upstream, files
<1>4. CASE Crash
  BY <1>1, <1>4 DEF Crash, Tears, Idle, upstream, files, state
<1>5. CASE DownloadBootstrap
  BY <1>5 DEF DownloadBootstrap, StateInv, state
<1>6. CASE CompileBootstrap
  <2>1. mem'.serial = mem.serial
    BY <1>6 DEF CompileBootstrap, TypeOK, States
  <2> QED BY <1>1, <1>6, <2>1 DEF CompileBootstrap, upstream
<1>7. CASE BootFails
  <2>1. RawHolds
    BY <1>7 DEF RawInv, BootFails, state
  <2> QED BY <1>7, <2>1 DEF BootFails, state, upstream
<1>8. CASE QuerySOA
  <2>1. sync.pc = "idle" /\ sync'.pc \in {"idle", "transfer"}
    <3>1. CASE serialGreater(SerialOf[cur], LocalSerial)
      BY <1>8, <3>1 DEF QuerySOA, Idle
    <3>2. CASE ~serialGreater(SerialOf[cur], LocalSerial)
      BY <1>8, <3>2 DEF QuerySOA, SyncDone, Idle
    <3> QED BY <3>1, <3>2
  <2> QED BY <1>1, <1>8, <2>1 DEF QuerySOA, upstream, files, state
<1>9. CASE Transfer
  <2>1. CASE AsAnnounced(SerialOf[cur], sync.soa)
    <3>1. sync'.pc = "raw" /\ sync'.to = cur
      BY <1>9, <2>1 DEF Transfer, TypeOK
    <3>2. RawHolds
      BY <1>9 DEF RawInv, Transfer, files, state
    <3>3. held <= cur
      BY <3>2, RelayAssumption DEF TypeOK, Versions
    <3> QED BY <1>9, <3>1, <3>2, <3>3 DEF Transfer, upstream, files, state
  <2>2. CASE ~AsAnnounced(SerialOf[cur], sync.soa)
    BY <1>1, <1>9, <2>2 DEF Transfer, SyncFailed, Idle, upstream, files, state
  <2> QED BY <2>1, <2>2
<1>10. CASE PublishRaw
  <2>1. raw' = Zone[sync.to]
    BY <1>10, PublishedRaw
  <2>2. sync'.pc = "cdb" /\ sync'.to = sync.to
    BY <1>10 DEF PublishRaw, TypeOK
  <2>3. sync.to \in 0 .. cur /\ VersionOf(mem.serial) <= sync.to /\ sync.to <= sync.to
    BY <1>10, RelayAssumption DEF PublishRaw, SyncInv, TypeOK, Versions, state
  <2> QED BY <1>10, <2>1, <2>2, <2>3 DEF PublishRaw, upstream, state
<1>11. CASE PublishCdb
  <2>1. sync.pc = "cdb" /\ sync'.pc = "save" /\ sync'.to = sync.to
    BY <1>11 DEF PublishCdb, TypeOK
  <2> QED BY <1>1, <1>11, <2>1 DEF PublishCdb, upstream, state
<1>12. CASE SaveState
  <2>1. mem'.serial = sync.soa /\ sync.pc = "save"
    BY <1>12 DEF SaveState, Record, NewState
  <2>2. sync.soa = SerialOf[sync.to] /\ raw = Zone[sync.to] /\ held = sync.to /\ sync.to <= cur
    BY <1>12, <2>1 DEF SyncInv, SaveState, Record, NewState
  <2>3. PICK v \in 0 .. cur : v = sync.to /\ v \in Versions /\ v <= v
    BY <2>2, RelayAssumption DEF TypeOK, Versions
  <2>4. VersionOf(mem'.serial) = v
    BY <2>1, <2>2, <2>3, VersionOfSerial
  <2> QED BY <1>12, <2>1, <2>2, <2>3, <2>4 DEF SaveState, SyncDone, Idle, files, upstream
<1>13. CASE SaveFails
  BY <1>1, <1>13 DEF SaveFails, Record, Tears, SyncFailed, Idle, upstream, files, state
<1>14. CASE SyncFails
  BY <1>1, <1>14 DEF SyncFails, Tears, SyncFailed, Idle, upstream, files, state
<1>15. CASE ClientIXFR \/ ClientAXFR \/ UNCHANGED vars
  BY <1>1, <1>15 DEF ClientIXFR, ClientAXFR, vars, upstream, files, state
<1> QED BY <1>2, <1>3, <1>4, <1>5, <1>6, <1>7, <1>8, <1>9, <1>10, <1>11, <1>12, <1>13, <1>14, <1>15
        DEF Next, SyncStep, BootStep

\* Every step keeps the deltas exact: each leads from a published version to a later one.
LEMMA DeltaKept ==
  ASSUME IInv, [Next]_vars PROVE DeltaInv'
<1> USE DEF DeltaInv
<1>1. mem.deltas \in Seq(ExactDeltas(cur))
  BY DEF IInv
<1>2. CASE SaveState
  <2>1. ~sync.full => parseTransferRecords(sync.snap, sync.to) \in ExactDeltas(cur)
    <3> SUFFICES ASSUME ~sync.full PROVE parseTransferRecords(sync.snap, sync.to) \in ExactDeltas(cur)
      OBVIOUS
    <3> DEFINE v == VersionOf(sync.snap)
    <3>1. /\ sync.snap # Unknown /\ sync.snap = mem.serial
          /\ sync.soa # Unknown /\ sync.soa = SerialOf[sync.to]
          /\ v <= sync.to /\ sync.to <= cur
      BY <1>2 DEF IInv, SyncInv, Publishing, SaveState
    <3>2. v \in 0 .. cur /\ SerialOf[v] = sync.snap
      BY <3>1, VersionOfSerial DEF IInv, StateInv, TypeOK
    <3>3. sync.to \in 0 .. cur
      BY <3>1, RelayAssumption DEF IInv, TypeOK, Versions
    <3>4. parseTransferRecords(sync.snap, sync.to) \in Deltas
      BY DeltaTypes DEF IInv, TypeOK
    <3> QED BY <3>1, <3>2, <3>3, <3>4 DEF ExactDeltas
  <2>2. Len(mem.deltas) <= MaxDeltas
    BY DEF IInv, TypeOK, States
  <2>3. KeepDelta(mem.deltas) \in Seq(ExactDeltas(cur))
    BY <1>1, <2>1, <2>2, KeptDeltas
  <2> QED BY <1>2, <2>3 DEF SaveState, Record, NewState, upstream
<1>3. CASE Publish
  <2>1. Seq(ExactDeltas(cur)) \subseteq Seq(ExactDeltas(cur + 1))
    BY PastGrows, RelayAssumption DEF IInv, TypeOK, Versions
  <2> QED BY <1>1, <1>3, <2>1 DEF Publish, state
<1>4. CASE CompileBootstrap
  <2>1. mem'.deltas = mem.deltas
    BY <1>4 DEF CompileBootstrap, IInv, TypeOK, States
  <2> QED BY <1>1, <1>4, <2>1 DEF CompileBootstrap, upstream
<1>5. CASE Start
  BY <1>1, <1>5 DEF Start, IInv, StateInv, upstream
<1>6. ASSUME UNCHANGED <<cur, mem>> PROVE DeltaInv'
  BY <1>1, <1>6
<1>7. CASE Crash \/ DownloadBootstrap \/ BootFails \/ QuerySOA \/ Transfer \/ PublishRaw \/ PublishCdb
  BY <1>6, <1>7 DEF Crash, DownloadBootstrap, BootFails, QuerySOA, Transfer, PublishRaw, PublishCdb, upstream, state
<1>8. CASE SaveFails \/ SyncFails \/ ClientIXFR \/ ClientAXFR \/ UNCHANGED vars
  BY <1>6, <1>8 DEF SaveFails, Record, SyncFails, ClientIXFR, ClientAXFR, vars, upstream, state
<1> QED BY <1>2, <1>3, <1>4, <1>5, <1>7, <1>8 DEF Next, SyncStep, BootStep

\* A delta that matches takes the secondary to the relay's recorded version.
LEMMA MatchedDelta ==
  ASSUME IInv, NEW i \in Matched(client.serial), ClientIXFR
  PROVE  /\ client.serial # Unknown /\ mem.serial # Unknown
         /\ mem.deltas[i].to = mem.serial
         /\ VersionOf(mem.serial) \in 0 .. cur
         /\ SerialOf[VersionOf(mem.serial)] = mem.serial
         /\ ApplyDelta(client.zone, mem.deltas[i]) = Zone[VersionOf(mem.serial)]
         /\ client.version <= VersionOf(mem.serial)
<1>1. i \in DOMAIN mem.deltas /\ mem.deltas[i].from = client.serial /\ mem.deltas[i].to = mem.serial
  BY DEF Matched, Match
<1>2. mem.deltas[i] \in ExactDeltas(cur)
  BY <1>1 DEF IInv, DeltaInv
<1>3. PICK v, w \in 0 .. cur :
        /\ v <= w /\ SerialOf[v] # Unknown /\ SerialOf[w] # Unknown
        /\ mem.deltas[i] = parseTransferRecords(SerialOf[v], w)
  BY <1>2 DEF ExactDeltas
<1>4. v \in Versions /\ w \in Versions
  BY RelayAssumption DEF IInv, TypeOK, Versions
<1>5. client.serial = SerialOf[v] /\ mem.serial = SerialOf[w]
  BY <1>1, <1>3 DEF parseTransferRecords
<1>6. VersionOf(client.serial) = v /\ VersionOf(mem.serial) = w
  BY <1>4, <1>5, VersionOfSerial
<1>7. mem.serial # client.serial
  BY <1>3, <1>5, SerialOrder DEF ClientIXFR, IInv, TypeOK, States
<1>8. PICK u \in 0 .. cur : u = client.version /\ ClientHolds
  BY <1>3, <1>5 DEF IInv, ClientInv, ClientHolds
<1>9. u \in Versions /\ v <= u /\ u <= w /\ client.zone = Zone[u] /\ client.version <= w
  BY <1>3, <1>5, <1>6, <1>7, <1>8, RelayAssumption DEF ClientHolds, IInv, TypeOK, Versions
<1>10. ApplyDelta(client.zone, mem.deltas[i]) = Zone[w]
  BY <1>3, <1>4, <1>5, <1>6, <1>9, DeltaIsExact DEF IInv, TypeOK, Clients
<1> QED BY <1>1, <1>3, <1>5, <1>6, <1>9, <1>10

\* Every step keeps the secondary at a version that its serial can account for.
LEMMA ClientKept ==
  ASSUME IInv, [Next]_vars PROVE ClientInv'
<1> SUFFICES ASSUME client'.serial # Unknown
             PROVE  ClientHolds'
  BY DEF ClientInv
<1> USE DEF IInv, ClientHolds, Publishing
\* Steps that leave what the secondary holds, the serial and the publication.
<1>1. ASSUME client'.serial = client.serial, client'.zone = client.zone,
             client'.version = client.version, client'.early = client.early,
             mem'.serial = mem.serial, Publishing' => Publishing /\ sync'.to = sync.to,
             cur' = cur \/ cur' = cur + 1
      PROVE  ClientHolds'
  <2>1. ClientHolds
    BY <1>1 DEF ClientInv
  <2>2. cur \in Nat /\ Past(cur) \subseteq Past(cur + 1)
    BY PastGrows, RelayAssumption DEF TypeOK, Versions
  <2>3. client.version \in 0 .. cur' /\ client.serial \in Past(cur')
    BY <1>1, <2>1, <2>2
  <2> QED BY <1>1, <2>1, <2>3
<1>2. CASE Publish
  BY <1>1, <1>2 DEF Publish, files, state
<1>3. CASE Start
  BY <1>1, <1>3 DEF Start, StateInv, upstream, files
<1>4. CASE Crash
  <2>1. /\ client'.serial = client.serial /\ client'.zone = client.zone
        /\ client'.version = client.version /\ client'.early = client.early
    BY <1>4 DEF Crash, TypeOK, Clients
  <2> QED BY <1>1, <1>4, <2>1 DEF Crash, Idle, upstream, state
<1>5. CASE DownloadBootstrap \/ BootFails
  BY <1>1, <1>5 DEF DownloadBootstrap, BootFails, upstream, state
<1>6. CASE CompileBootstrap
  <2>1. mem'.serial = mem.serial
    BY <1>6 DEF CompileBootstrap, TypeOK, States
  <2> QED BY <1>1, <1>6, <2>1 DEF CompileBootstrap, upstream
<1>7. CASE QuerySOA
  <2>1. sync'.pc \in {"idle", "transfer"}
    <3>1. CASE serialGreater(SerialOf[cur], LocalSerial)
      BY <1>7, <3>1 DEF QuerySOA, Idle
    <3>2. CASE ~serialGreater(SerialOf[cur], LocalSerial)
      BY <1>7, <3>2 DEF QuerySOA, SyncDone, Idle
    <3> QED BY <3>1, <3>2
  <2> QED BY <1>1, <1>7, <2>1 DEF QuerySOA, upstream, files, state
<1>8. CASE Transfer
  <2>1. CASE AsAnnounced(SerialOf[cur], sync.soa)
    <3>1. sync'.pc = "raw" /\ sync'.to = cur
      BY <1>8, <2>1 DEF Transfer, TypeOK
    <3>2. ClientHolds
      BY <1>8 DEF ClientInv, Transfer
    <3>3. client.version <= cur
      BY <3>2, RelayAssumption DEF TypeOK, Versions
    <3> QED BY <1>8, <3>1, <3>2, <3>3 DEF Transfer, upstream, state
  <2>2. CASE ~AsAnnounced(SerialOf[cur], sync.soa)
    BY <1>1, <1>8, <2>2 DEF Transfer, SyncFailed, Idle, upstream, state
  <2> QED BY <2>1, <2>2
<1>9. CASE PublishRaw
  <2>1. sync.pc = "raw" /\ sync'.to = sync.to
    BY <1>9 DEF PublishRaw, TypeOK
  <2> QED BY <1>1, <1>9, <2>1 DEF PublishRaw, upstream, state
<1>10. CASE PublishCdb
  <2>1. sync.pc = "cdb" /\ sync'.to = sync.to
    BY <1>10 DEF PublishCdb, TypeOK
  <2> QED BY <1>1, <1>10, <2>1 DEF PublishCdb, upstream, state
<1>11. CASE SaveState
  <2>1. ClientHolds
    BY <1>11 DEF ClientInv, SaveState
  <2>2. mem'.serial = sync.soa /\ sync.pc = "save" /\ sync'.pc = "idle"
    BY <1>11 DEF SaveState, Record, NewState, SyncDone, Idle
  <2>3. mem'.serial # Unknown => VersionOf(mem'.serial) = sync.to
    BY <2>2, VersionOfSerial DEF SyncInv, TypeOK
  <2> QED BY <1>11, <2>1, <2>2, <2>3 DEF SaveState, upstream
<1>12. CASE SaveFails \/ SyncFails
  BY <1>1, <1>12 DEF SaveFails, SyncFails, Record, SyncFailed, Idle, upstream, state
<1>13. CASE ClientIXFR
  <2>1. CASE client' = [client EXCEPT !.pc = "axfr"]
    <3>1. /\ client'.serial = client.serial /\ client'.zone = client.zone
          /\ client'.version = client.version /\ client'.early = client.early
      BY <2>1 DEF TypeOK, Clients
    <3> QED BY <1>1, <1>13, <3>1 DEF ClientIXFR, upstream, state
  <2>2. ASSUME NEW i \in Matched(client.serial),
               client' = [pc |-> "idle", serial |-> mem.deltas[i].to,
                          zone |-> ApplyDelta(client.zone, mem.deltas[i]),
                          version |-> VersionOf(mem.deltas[i].to), early |-> FALSE]
        PROVE  ClientHolds'
    <3>1. PICK v \in 0 .. cur : v = VersionOf(mem.serial)
      BY <1>13, MatchedDelta
    <3>2. /\ client'.serial = mem.serial /\ client'.zone = Zone[v] /\ client'.version = v
          /\ mem.serial # Unknown /\ SerialOf[v] = mem.serial
      BY <1>13, <2>2, <3>1, MatchedDelta
    <3>3. mem.serial \in Past(cur) /\ v <= v
      BY <3>1, <3>2 DEF StateInv
    <3>4. UNCHANGED <<cur, mem, sync>>
      BY <1>13 DEF ClientIXFR, upstream, state
    <3>5. Publishing => v <= sync.to
      BY <3>1, <3>2 DEF SyncInv
    <3> QED BY <3>1, <3>2, <3>3, <3>4, <3>5
  <2> QED BY <1>13, <2>1, <2>2 DEF ClientIXFR
<1>14. CASE ClientAXFR
  <2>1. client'.serial = mem.serial /\ client'.zone = raw /\ client'.version = held
        /\ client'.early = torn /\ mem.serial # Unknown
    BY <1>14 DEF ClientAXFR
  <2>2. RawHolds
    BY <1>14, <2>1 DEF RawInv, ClientAXFR
  <2>3. mem.serial \in Past(cur) /\ UNCHANGED <<cur, mem, sync>>
    BY <1>14, <2>1 DEF StateInv, ClientAXFR, upstream, state
  <2> QED BY <1>14, <2>1, <2>2, <2>3 DEF RawHolds, Torn, ClientAXFR
<1>15. CASE UNCHANGED vars
  BY <1>1, <1>15 DEF vars
<1> QED BY <1>2, <1>3, <1>4, <1>5, <1>6, <1>7, <1>8, <1>9, <1>10, <1>11, <1>12, <1>13, <1>14, <1>15
        DEF Next, SyncStep, BootStep

-----------------------------------------------------------------------------
(* Types and serials, from any start                                       *)

LEMMA GroundedKept ==
  ASSUME TypeOK, Grounded, [Next]_vars PROVE Grounded'
<1> USE DEF Grounded, Publishing
<1>1. CASE DownloadBootstrap
  BY <1>1, RelayAssumption DEF DownloadBootstrap
<1>2. CASE QuerySOA
  <2>1. CASE serialGreater(SerialOf[cur], LocalSerial)
    BY <1>2, <2>1 DEF QuerySOA, Idle, LocalSerial, files
  <2>2. CASE ~serialGreater(SerialOf[cur], LocalSerial)
    BY <1>2, <2>2 DEF QuerySOA, SyncDone, Idle
  <2> QED BY <2>1, <2>2
<1>3. CASE Transfer
  <2>1. CASE AsAnnounced(SerialOf[cur], sync.soa)
    <3>1. PICK full \in BOOLEAN :
            /\ sync.snap = Unknown \/ sync.soa < sync.snap => full
            /\ sync' = [sync EXCEPT !.pc = "raw", !.to = cur, !.full = full]
      BY <1>3, <2>1 DEF Transfer
    <3>2. sync'.full = full /\ sync'.snap = sync.snap /\ sync.pc = "transfer" /\ raw' = raw
      BY <1>3, <3>1 DEF TypeOK, Transfer, files
    <3> QED BY <3>1, <3>2
  <2>2. CASE ~AsAnnounced(SerialOf[cur], sync.soa)
    BY <1>3, <2>2 DEF Transfer, SyncFailed, Idle
  <2> QED BY <2>1, <2>2
<1>4. CASE PublishRaw
  <2>1. sync.pc = "raw" /\ sync'.full = sync.full /\ sync'.snap = sync.snap
    BY <1>4 DEF PublishRaw, TypeOK
  <2>2. raw' # NoFile
    <3>1. CASE sync.full
      BY <1>4, <3>1, RelayAssumption DEF PublishRaw, TypeOK
    <3>2. CASE ~sync.full
      <4>1. raw \in Lists
        BY <2>1, <3>2 DEF TypeOK, Files
      <4>2. ApplyDelta(raw, parseTransferRecords(sync.snap, sync.to)) \in Lists
        BY <4>1, DeltaTypes DEF TypeOK
      <4> QED BY <1>4, <3>2, <4>2, RelayAssumption DEF PublishRaw, Lists
    <3> QED BY <3>1, <3>2
  <2> QED BY <2>1, <2>2
<1>5. CASE PublishCdb
  <2>1. sync.pc = "cdb" /\ sync'.full = sync.full /\ sync'.snap = sync.snap /\ raw' = raw
    BY <1>5 DEF PublishCdb, TypeOK
  <2> QED BY <2>1
<1>6. CASE Crash \/ SaveState \/ SaveFails \/ SyncFails
  <2>1. sync' = Idle
    BY <1>6 DEF Crash, SaveState, SyncDone, SaveFails, SyncFails, SyncFailed
  <2> QED BY <2>1 DEF Idle
<1>7. CASE Publish \/ Start \/ CompileBootstrap \/ BootFails \/ ClientIXFR \/ ClientAXFR \/ UNCHANGED vars
  BY <1>7 DEF Publish, Start, CompileBootstrap, BootFails, ClientIXFR, ClientAXFR, vars, files
<1> QED BY <1>1, <1>2, <1>3, <1>4, <1>5, <1>6, <1>7 DEF Next, SyncStep, BootStep

LEMMA TypesInvariant == Spec => [](TypeOK /\ Grounded)
<1>1. TypeOK /\ Grounded /\ [Next]_vars => TypeOK' /\ Grounded'
  BY TypeKept, GroundedKept DEF Grounded, Publishing
<1> QED BY <1>1, InitTypes, PTL DEF Spec

\* Two stretches of the circle, each below half of it, add up.
LEMMA DistancesAdd ==
  ASSUME NEW f \in Serials, NEW s \in Serials, NEW t \in Serials, InReach(f, s), InReach(s, t)
  PROVE  Minus(t, f) = Minus(s, f) + Minus(t, s) /\ Minus(s, f) \in Nat /\ Minus(t, s) \in Nat
BY ModulusAssumption DEF InReach, Minus, Serials

LEMMA DistanceTypes ==
  ASSUME NEW f \in Serials, NEW s \in Serials
  PROVE  Minus(s, f) \in Nat /\ (Minus(s, f) = 0 <=> s = f)
BY ModulusAssumption DEF Minus, Serials

\* From follower f on, the versions w .. c only get further ahead, and never so
\* far that RFC 1982 would call them older.
Reach(f, w, c) ==
  \A u, v \in w .. c : u <= v =>
    /\ Minus(SerialOf[u], f) <= Minus(SerialOf[v], f)
    /\ InReach(f, SerialOf[v])

\* One more version within reach extends it.
LEMMA ReachGrows ==
  ASSUME NEW f \in Serials, NEW c \in Versions, c # MaxVersions, NEW w \in 0 .. c,
         Reach(f, w, c), InReach(f, SerialOf[c + 1])
  PROVE  Reach(f, w, c + 1)
<1> SUFFICES ASSUME NEW u \in w .. c + 1, NEW v \in w .. c + 1, u <= v
             PROVE  /\ Minus(SerialOf[u], f) <= Minus(SerialOf[v], f)
                    /\ InReach(f, SerialOf[v])
  BY DEF Reach
<1>1. /\ c \in w .. c /\ c + 1 \in Versions
      /\ \A x \in w .. c + 1 : x \in w .. c \/ x = c + 1
      /\ \A x \in w .. c : x \in Versions /\ x <= c
  BY RelayAssumption DEF Versions
<1>2. SerialOf[c] \in Serials /\ SerialOf[c + 1] \in Serials
  BY <1>1, RelayAssumption
<1>3. Minus(SerialOf[c], f) <= Minus(SerialOf[c + 1], f)
  <2>1. InReach(f, SerialOf[c]) /\ InReach(SerialOf[c], SerialOf[c + 1])
    <3>1. c <= c
      BY RelayAssumption DEF Versions
    <3> QED BY <1>1, <3>1, UpstreamAssumption DEF Reach
  <2> HIDE DEF Reach
  <2>2. /\ Minus(SerialOf[c + 1], f) = Minus(SerialOf[c], f) + Minus(SerialOf[c + 1], SerialOf[c])
        /\ Minus(SerialOf[c], f) \in Nat /\ Minus(SerialOf[c + 1], SerialOf[c]) \in Nat
    BY <1>2, <2>1, DistancesAdd
  <2> QED BY <2>2
<1>4. CASE v \in w .. c
  <2>1. u \in w .. c
    BY <1>4, RelayAssumption DEF Versions
  <2> QED BY <1>4, <2>1 DEF Reach
<1>5. CASE v = c + 1 /\ u \in w .. c
  <2>1. Minus(SerialOf[u], f) <= Minus(SerialOf[c], f)
    BY <1>1, <1>5 DEF Reach
  <2>2. Minus(SerialOf[u], f) \in Nat /\ Minus(SerialOf[c], f) \in Nat /\ Minus(SerialOf[c + 1], f) \in Nat
    BY <1>1, <1>2, <1>5, DistanceTypes, RelayAssumption
  <2> QED BY <1>3, <1>5, <2>1, <2>2
<1>6. CASE v = c + 1 /\ u = c + 1
  <2>1. Minus(SerialOf[c + 1], f) \in Nat
    BY <1>2, DistanceTypes
  <2> QED BY <1>6, <2>1
<1> QED BY <1>1, <1>4, <1>5, <1>6

\* What is in reach of f from w on is in reach of w itself.
LEMMA ReachFrom ==
  ASSUME NEW f \in Serials, NEW c \in Versions, NEW w \in 0 .. c, Reach(f, w, c)
  PROVE  Reach(SerialOf[w], w, c)
<1> SUFFICES ASSUME NEW u \in w .. c, NEW v \in w .. c, u <= v
             PROVE  /\ Minus(SerialOf[u], SerialOf[w]) <= Minus(SerialOf[v], SerialOf[w])
                    /\ InReach(SerialOf[w], SerialOf[v])
  BY DEF Reach
<1>1. w \in w .. c /\ w <= u /\ w <= v /\ u \in Versions /\ v \in Versions /\ w \in Versions
  BY RelayAssumption DEF Versions
<1>2. SerialOf[u] \in Serials /\ SerialOf[v] \in Serials /\ SerialOf[w] \in Serials
  BY <1>1, RelayAssumption
<1>3. /\ Minus(SerialOf[w], f) <= Minus(SerialOf[u], f)
      /\ Minus(SerialOf[w], f) <= Minus(SerialOf[v], f)
      /\ Minus(SerialOf[u], f) <= Minus(SerialOf[v], f)
      /\ InReach(f, SerialOf[v]) /\ InReach(f, SerialOf[u]) /\ InReach(f, SerialOf[w])
  BY <1>1 DEF Reach
<1> DEFINE a == SerialOf[u] b == SerialOf[v] o == SerialOf[w]
<1> HIDE DEF a, b, o
<1>4. a \in Serials /\ b \in Serials /\ o \in Serials
  BY <1>2 DEF a, b, o
<1>5. /\ Minus(o, f) <= Minus(a, f) /\ Minus(o, f) <= Minus(b, f) /\ Minus(a, f) <= Minus(b, f)
      /\ InReach(f, a) /\ InReach(f, b) /\ InReach(f, o)
  BY <1>3 DEF a, b, o
<1>6. Minus(a, o) <= Minus(b, o) /\ InReach(o, b)
  BY <1>4, <1>5, ModulusAssumption DEF Minus, InReach, Serials
<1> QED BY <1>6 DEF a, b, o

\* A follower never takes a version in its reach for an older one.
LEMMA ReachAdvances ==
  ASSUME NEW c \in Versions, NEW f \in Past(c), NEW s \in Past(c),
         Reach(f, VersionOf(f), c), VersionOf(f) <= VersionOf(s)
  PROVE  Advances(f, s) /\ InReach(f, s)
<1>1. /\ VersionOf(f) \in 0 .. c /\ VersionOf(s) \in 0 .. c
      /\ SerialOf[VersionOf(f)] = f /\ SerialOf[VersionOf(s)] = s
  BY VersionOfSerial
<1>2. VersionOf(s) \in VersionOf(f) .. c /\ VersionOf(s) <= VersionOf(s)
  BY <1>1, RelayAssumption DEF Versions
<1>3. InReach(f, s)
  BY <1>1, <1>2 DEF Reach
<1>4. f \in Serials /\ s \in Serials
  BY <1>1, RelayAssumption DEF Versions
<1>5. s # f => Minus(s, f) # 0
  BY <1>4, DistanceTypes
<1> QED BY <1>3, <1>5 DEF Advances, serialGreater, InReach

\* A serial that was recorded or given out was published, and is behind all since.
Follows(f) == f # Unknown => f \in Past(cur) /\ Reach(f, VersionOf(f), cur)

\* What Sync is about to record was published, is behind nothing that the relay or
\* the secondary holds, and is in reach of the relay with all that came after it.
Announced ==
  /\ sync.soa \in Past(cur)
  /\ Reach(mem.serial, VersionOf(sync.soa), cur)
  /\ mem.serial # Unknown => VersionOf(mem.serial) <= VersionOf(sync.soa)
  /\ client.serial # Unknown => VersionOf(client.serial) <= VersionOf(sync.soa)

OrderInv ==
  /\ disk = mem
  /\ Follows(mem.serial)
  /\ Follows(client.serial)
  /\ client.pc = "axfr" => Advances(client.serial, mem.serial)
  /\ sync.pc # "idle" => Announced

\* The versions of the serials that are held.
LEMMA SerialTypes ==
  ASSUME TypeOK
  PROVE  /\ cur \in Versions /\ cur \in Nat
         /\ mem.serial \in Serials /\ client.serial \in Serials /\ sync.soa \in Serials
         /\ SerialOf[cur] \in Past(cur) /\ SerialOf[cur] \in Serials /\ VersionOf(SerialOf[cur]) = cur
         /\ \A s \in Past(cur) : VersionOf(s) \in 0 .. cur /\ VersionOf(s) <= cur
<1>1. cur \in Versions /\ cur \in Nat /\ SerialOf[cur] \in Serials
  BY RelayAssumption DEF TypeOK, Versions
<1>2. mem.serial \in Serials /\ client.serial \in Serials /\ sync.soa \in Serials
  BY DEF TypeOK, States, Clients
<1>3. SerialOf[cur] \in Past(cur)
  BY <1>1 DEF Past
<1> QED BY <1>1, <1>2, <1>3, VersionOfSerial

\* Steps that leave the serials, and at most give up a synchronisation.
LEMMA OrderStutters ==
  ASSUME OrderInv,
         cur' = cur, disk' = mem', mem'.serial = mem.serial, client'.serial = client.serial,
         client'.pc = client.pc \/ client'.pc = "idle",
         sync'.pc = "idle" \/ (sync.pc # "idle" /\ sync'.soa = sync.soa)
  PROVE  OrderInv'
<1>1. Follows(mem.serial)' /\ Follows(client.serial)'
  BY DEF OrderInv, Follows
<1>2. client'.pc = "axfr" => Advances(client.serial, mem.serial)'
  BY DEF OrderInv
<1>3. sync'.pc # "idle" => Announced'
  BY DEF OrderInv, Announced
<1> QED BY <1>1, <1>2, <1>3 DEF OrderInv

\* A new version is in reach of everyone whom Publish asks.
LEMMA OrderPublish ==
  ASSUME TypeOK, OrderInv, Publish PROVE OrderInv'
<1>1. /\ cur < MaxVersions /\ cur' = cur + 1 /\ UNCHANGED <<mem, disk, client, sync>>
      /\ InReach(LocalSerial, SerialOf[cur + 1])
      /\ mem.serial # Unknown => InReach(mem.serial, SerialOf[cur + 1])
      /\ client.serial # Unknown => InReach(client.serial, SerialOf[cur + 1])
  BY DEF Publish, state
<1>2. cur # MaxVersions /\ Past(cur) \subseteq Past(cur + 1)
  BY <1>1, SerialTypes, PastGrows
<1>3. ASSUME NEW f \in Serials, f # Unknown, Follows(f), InReach(f, SerialOf[cur + 1]) PROVE Follows(f)'
  <2>1. VersionOf(f) \in 0 .. cur /\ Reach(f, VersionOf(f), cur)
    BY <1>3, SerialTypes DEF Follows
  <2>2. Reach(f, VersionOf(f), cur + 1)
    BY <1>2, <1>3, <2>1, SerialTypes, ReachGrows
  <2> QED BY <1>1, <1>2, <1>3, <2>2 DEF Follows
<1>4. Follows(mem.serial)' /\ Follows(client.serial)'
  BY <1>1, <1>3, SerialTypes DEF OrderInv, Follows
<1>5. sync.pc # "idle" => Announced'
  <2> SUFFICES ASSUME sync.pc # "idle" PROVE Announced'
    OBVIOUS
  <2>1. VersionOf(sync.soa) \in 0 .. cur /\ Reach(mem.serial, VersionOf(sync.soa), cur)
    BY SerialTypes DEF OrderInv, Announced
  <2>2. InReach(mem.serial, SerialOf[cur + 1])
    BY <1>1 DEF LocalSerial
  <2>3. Reach(mem.serial, VersionOf(sync.soa), cur + 1)
    BY <1>2, <2>1, <2>2, SerialTypes, ReachGrows
  <2> QED BY <1>1, <1>2, <2>3 DEF OrderInv, Announced
<1> QED BY <1>1, <1>4, <1>5 DEF OrderInv

\* The serial that Sync asks for is in reach: it is greater than the relay's own, or
\* the relay followed the upstream up to it.
LEMMA OrderQuery ==
  ASSUME TypeOK, OrderInv, QuerySOA PROVE OrderInv'
<1>1. UNCHANGED <<cur, mem, disk, client>>
  BY DEF QuerySOA, upstream, state
<1>2. CASE ~serialGreater(SerialOf[cur], LocalSerial)
  <2>1. sync'.pc = "idle"
    BY <1>2 DEF QuerySOA, SyncDone, Idle
  <2> QED BY <1>1, <2>1, OrderStutters DEF OrderInv
<1>3. CASE serialGreater(SerialOf[cur], LocalSerial)
  <2>1. sync'.soa = SerialOf[cur]
    BY <1>3 DEF QuerySOA, Idle
  <2>2. InReach(mem.serial, SerialOf[cur])
    <3>1. CASE mem.serial = Unknown
      BY <1>3, <3>1 DEF LocalSerial, serialGreater, InReach
    <3>2. CASE mem.serial # Unknown
      <4>1. mem.serial \in Past(cur) /\ Reach(mem.serial, VersionOf(mem.serial), cur)
        BY <3>2 DEF OrderInv, Follows
      <4> QED BY <4>1, SerialTypes, ReachAdvances
    <3> QED BY <3>1, <3>2
  <2>3. Reach(mem.serial, cur, cur)
    <3>1. \A u \in cur .. cur : u = cur
      BY SerialTypes
    <3>2. Minus(SerialOf[cur], mem.serial) <= Minus(SerialOf[cur], mem.serial)
      BY SerialTypes, DistanceTypes
    <3> QED BY <2>2, <3>1, <3>2 DEF Reach
  <2>4. Announced'
    BY <1>1, <2>1, <2>3, SerialTypes DEF OrderInv, Follows, Announced
  <2>5. Follows(mem.serial)' /\ Follows(client.serial)'
    BY <1>1 DEF OrderInv, Follows
  <2> QED BY <1>1, <2>4, <2>5 DEF OrderInv
<1> QED BY <1>2, <1>3

\* What is recorded is ahead of what was.
LEMMA OrderSave ==
  ASSUME TypeOK, OrderInv, SaveState
  PROVE  OrderInv' /\ Advances(mem.serial, mem'.serial)
<1>1. /\ sync.pc # "idle" /\ sync'.pc = "idle" /\ UNCHANGED <<cur, client>>
      /\ mem'.serial = sync.soa /\ disk' = mem'
  BY DEF SaveState, Record, NewState, SyncDone, Idle, upstream
<1>2. Announced
  BY <1>1 DEF OrderInv
<1>3. /\ VersionOf(sync.soa) \in 0 .. cur /\ SerialOf[VersionOf(sync.soa)] = sync.soa
      /\ sync.soa \in Past(cur)
  BY <1>2, VersionOfSerial, SerialTypes DEF Announced
<1>4. Reach(sync.soa, VersionOf(sync.soa), cur)
  BY <1>2, <1>3, SerialTypes, ReachFrom DEF Announced
<1>5. ASSUME NEW f, f # Unknown, Follows(f), VersionOf(f) <= VersionOf(sync.soa)
      PROVE  Advances(f, sync.soa)
  BY <1>3, <1>5, SerialTypes, ReachAdvances DEF Follows
<1>6. Advances(mem.serial, sync.soa) /\ Advances(client.serial, sync.soa)
  BY <1>2, <1>5 DEF OrderInv, Announced, Advances
<1>7. Follows(mem.serial)' /\ Follows(client.serial)'
  BY <1>1, <1>3, <1>4 DEF OrderInv, Follows
<1> QED BY <1>1, <1>6, <1>7 DEF OrderInv

\* The secondary is given the relay's serial, and only one ahead of its own.
LEMMA OrderClient ==
  ASSUME TypeOK, OrderInv, ClientIXFR \/ ClientAXFR
  PROVE  OrderInv' /\ Advances(client.serial, client'.serial)
<1>1. UNCHANGED <<cur, mem, disk, sync>>
  BY DEF ClientIXFR, ClientAXFR, upstream, state
<1>2. ASSUME client'.serial = client.serial, client'.pc = "axfr" => Advances(client.serial, mem.serial)
      PROVE  OrderInv' /\ Advances(client.serial, client'.serial)
  BY <1>1, <1>2 DEF OrderInv, Follows, Announced, Advances
<1>3. ASSUME client'.serial = mem.serial, client'.pc = "idle", Advances(client.serial, mem.serial)
      PROVE  OrderInv' /\ Advances(client.serial, client'.serial)
  BY <1>1, <1>3 DEF OrderInv, Follows, Announced
<1>4. CASE ClientIXFR
  <2>1. Advances(client.serial, mem.serial)
    BY <1>4 DEF ClientIXFR, Advances
  <2>2. CASE client' = [client EXCEPT !.pc = "axfr"]
    <3>1. client'.serial = client.serial
      BY <2>2 DEF TypeOK, Clients
    <3> QED BY <1>2, <2>1, <3>1
  <2>3. ASSUME NEW i \in Matched(client.serial),
               client' = [pc |-> "idle", serial |-> mem.deltas[i].to,
                          zone |-> ApplyDelta(client.zone, mem.deltas[i]),
                          version |-> VersionOf(mem.deltas[i].to), early |-> FALSE]
        PROVE  client'.serial = mem.serial /\ client'.pc = "idle"
    BY <2>3 DEF Matched, Match
  <2> QED BY <1>3, <1>4, <2>1, <2>2, <2>3 DEF ClientIXFR
<1>5. CASE ClientAXFR
  BY <1>3, <1>5 DEF ClientAXFR, OrderInv
<1> QED BY <1>4, <1>5

\* Every step keeps the serials in order.
LEMMA OrderKept ==
  ASSUME TypeOK, OrderInv, [Next]_vars
  PROVE  /\ OrderInv'
         /\ Advances(mem.serial, mem'.serial)
         /\ Advances(client.serial, client'.serial)
<1>1. CASE Publish
  BY <1>1, OrderPublish DEF Publish, state, Advances
<1>2. CASE QuerySOA
  BY <1>2, OrderQuery DEF QuerySOA, state, Advances
<1>3. CASE SaveState
  BY <1>3, OrderSave DEF SaveState, Advances
<1>4. CASE ClientIXFR \/ ClientAXFR
  BY <1>4, OrderClient DEF ClientIXFR, ClientAXFR, state, Advances
<1>5. CASE ~(Publish \/ QuerySOA \/ SaveState \/ ClientIXFR \/ ClientAXFR)
  <2>1. /\ cur' = cur /\ disk' = mem' /\ mem'.serial = mem.serial /\ client'.serial = client.serial
        /\ client'.pc = client.pc \/ client'.pc = "idle"
    <3>1. CASE CompileBootstrap
      BY <3>1 DEF CompileBootstrap, upstream, TypeOK, States
    <3>2. CASE Crash
      BY <3>2 DEF Crash, upstream, state, OrderInv, TypeOK, Clients
    <3>3. CASE Start
      BY <3>3 DEF Start, upstream, files, OrderInv
    <3>4. CASE UNCHANGED <<cur, disk, mem, client>>
      BY <3>4 DEF OrderInv
    <3> QED BY <1>5, <3>1, <3>2, <3>3, <3>4
            DEF Next, SyncStep, BootStep, DownloadBootstrap, BootFails, Transfer, PublishRaw, PublishCdb,
                SaveFails, Record, SyncFails, vars, upstream, state
  <2>2. sync'.pc = "idle" \/ (sync.pc # "idle" /\ sync'.soa = sync.soa)
    <3>1. CASE Transfer
      <4>1. CASE AsAnnounced(SerialOf[cur], sync.soa)
        BY <3>1, <4>1 DEF Transfer, TypeOK
      <4>2. CASE ~AsAnnounced(SerialOf[cur], sync.soa)
        BY <3>1, <4>2 DEF Transfer, SyncFailed, Idle
      <4> QED BY <4>1, <4>2
    <3>2. CASE PublishRaw \/ PublishCdb
      BY <3>2 DEF PublishRaw, PublishCdb, TypeOK
    <3>3. CASE Crash \/ SaveFails \/ SyncFails
      <4>1. sync' = Idle
        BY <3>3 DEF Crash, SaveFails, SyncFails, SyncFailed
      <4> QED BY <4>1 DEF Idle
    <3>4. CASE UNCHANGED sync
      BY <3>4
    <3> QED BY <1>5, <3>1, <3>2, <3>3, <3>4
            DEF Next, SyncStep, BootStep, Start, DownloadBootstrap, CompileBootstrap, BootFails, vars
  <2> QED BY <2>1, <2>2, OrderStutters DEF Advances
<1> QED BY <1>1, <1>2, <1>3, <1>4, <1>5

-----------------------------------------------------------------------------
(* Theorems                                                                *)

\* The invariant that the theorems below rest on.
LEMMA RelayInvariant ==
  ASSUME SafeStarts PROVE Spec => []IInv
<1>1. Init => IInv
  BY InitInvariant
<1>2. IInv /\ [Next]_vars => IInv'
  <2> SUFFICES ASSUME IInv, [Next]_vars PROVE IInv'
    OBVIOUS
  <2>1. TypeOK'
    BY TypeKept DEF IInv, SyncInv, Publishing
  <2> QED BY <2>1, StateKept, SyncKept, RawKept, DeltaKept, ClientKept DEF IInv
<1> QED BY <1>1, <1>2, PTL DEF Spec

\* Every state of the relay and its secondary has its type, and the state file
\* never keeps more than MaxDeltas deltas (main.go:162-168).
THEOREM RelayTypeCorrect == Spec => []TypeOK
BY TypesInvariant, PTL

\* QuerySOA, State.Save, handleIXFR and handleAXFR: from any start, that with a
\* lost raw file included, through failed saves, crashes and restarts, and though
\* a relay without its raw file compares with 0, the serials only advance.
THEOREM SerialsNeverGoBack == Spec => SerialsOnlyAdvance
<1>1. Init => OrderInv
  <2> SUFFICES ASSUME Init PROVE OrderInv
    OBVIOUS
  <2>1. /\ cur = 0 /\ disk = mem /\ client.serial = Unknown /\ client.pc = "idle" /\ sync.pc = "idle"
        /\ mem.serial = Unknown \/ mem.serial = SerialOf[0]
    BY DEF Init, Empty, Kept, Idle
  <2>2. /\ SerialOf[0] \in Past(0) /\ VersionOf(SerialOf[0]) = 0
        /\ Minus(SerialOf[0], SerialOf[0]) <= Minus(SerialOf[0], SerialOf[0])
        /\ InReach(SerialOf[0], SerialOf[0])
    <3>1. SerialOf[0] \in Serials /\ 0 \in Versions
      BY ConstantTypes
    <3>2. Minus(SerialOf[0], SerialOf[0]) = 0
      BY <3>1, DistanceTypes
    <3> QED BY <3>1, <3>2, VersionOfSerial, ModulusAssumption DEF Past, InReach
  <2>3. Reach(SerialOf[0], 0, 0)
    BY <2>2 DEF Reach
  <2> QED BY <2>1, <2>2, <2>3 DEF OrderInv, Follows
<1>2. TypeOK /\ OrderInv /\ [Next]_vars => OrderInv'
  BY OrderKept
<1>3. TypeOK /\ OrderInv /\ [Next]_vars =>
        [/\ Advances(mem.serial, mem'.serial)
         /\ Advances(client.serial, client'.serial)]_vars
  BY OrderKept
<1> QED BY <1>1, <1>2, <1>3, TypesInvariant, PTL DEF Spec, SerialsOnlyAdvance

\* What a version claims is what RawHolds and ClientHolds say of it.
LEMMA HoldsAreClaims ==
  ASSUME NEW c \in Versions, NEW v \in 0 .. c, NEW list, NEW serial \in Serials, NEW early \in BOOLEAN,
         list = Zone[v], VersionOf(serial) <= v, ~early => SerialOf[v] = serial
  PROVE  Claims(list, serial, early)
<1>1. v \in Versions /\ VersionOf(serial) <= v
  BY RelayAssumption DEF Versions
<1>2. early => v >= VersionOf(serial) /\ v \in Nat
  <2> SUFFICES VersionOf(serial) <= v => v >= VersionOf(serial)
    BY <1>1 DEF Versions
  <2> QED OBVIOUS
<1> QED BY <1>1, <1>2 DEF Claims

\* PublishDelta, State.Save and parseTransferRecords: whatever fails between
\* them, the raw file is the zone of the recorded serial or of a later version.
THEOREM RawNeverMixes ==
  ASSUME SafeStarts PROVE Spec => []RawIsAVersion
<1>1. IInv => RawIsAVersion
  <2> SUFFICES ASSUME IInv, raw # NoFile, disk.serial # Unknown
               PROVE  Claims(raw, disk.serial, torn \/ sync.pc \in {"cdb", "save"})
    BY DEF RawIsAVersion
  <2>1. disk = mem /\ mem.serial \in Serials
    BY DEF IInv, StateInv, TypeOK, States
  <2>2. RawHolds
    BY <2>1 DEF IInv, RawInv
  <2>3. cur \in Versions /\ Torn \in BOOLEAN
    BY DEF IInv, TypeOK, Torn
  <2>4. Claims(raw, mem.serial, Torn)
    BY <2>1, <2>2, <2>3, HoldsAreClaims DEF RawHolds
  <2> QED BY <2>1, <2>4 DEF Torn
<1> QED BY <1>1, RelayInvariant, PTL

\* handleIXFR and handleAXFR: a secondary never holds a mixture of versions.
THEOREM SecondariesNeverMix ==
  ASSUME SafeStarts PROVE Spec => []ClientNeverMixes
<1>1. IInv => ClientNeverMixes
  <2> SUFFICES ASSUME IInv, client.serial # Unknown
               PROVE  Claims(client.zone, client.serial, client.early)
    BY DEF ClientNeverMixes
  <2>1. ClientHolds
    BY DEF IInv, ClientInv
  <2>2. cur \in Versions /\ client.serial \in Serials /\ client.early \in BOOLEAN
    BY DEF IInv, TypeOK, Clients
  <2> QED BY <2>1, <2>2, HoldsAreClaims DEF ClientHolds
<1> QED BY <1>1, RelayInvariant, PTL

\* The list, the CDB and its hash, or no CDB yet in a relay that does not serve.
TogetherInv ==
  raw # NoFile /\ sync.pc \notin {"cdb", "save"} /\ ~torn =>
    \/ cdb = raw /\ mem.sha = cdb
    \/ cdb = NoFile /\ up # "serving"

\* Every step keeps list, CDB and hash together, unless it interrupts a publication.
LEMMA TogetherKept ==
  ASSUME IInv, TogetherInv, [Next]_vars PROVE TogetherInv'
<1> USE DEF IInv, StateInv, TogetherInv
<1>1. CASE Publish
  BY <1>1 DEF Publish, files, state
<1>2. CASE Start
  BY <1>2 DEF Start, upstream, files
<1>3. CASE Crash
  BY <1>3 DEF Crash, Tears, Idle, files, state
<1>4. CASE DownloadBootstrap
  BY <1>4 DEF DownloadBootstrap, state
<1>5. CASE CompileBootstrap
  <2>1. mem'.sha = raw
    BY <1>5 DEF CompileBootstrap, TypeOK, States
  <2> QED BY <1>5, <2>1 DEF CompileBootstrap
<1>6. CASE BootFails
  BY <1>6 DEF BootFails, state
<1>7. CASE QuerySOA
  <2>1. sync.pc = "idle" /\ UNCHANGED <<raw, cdb, mem, torn>>
    BY <1>7 DEF QuerySOA, files, state
  <2>2. CASE serialGreater(SerialOf[cur], LocalSerial)
    BY <1>7, <2>1, <2>2 DEF QuerySOA
  <2>3. CASE ~serialGreater(SerialOf[cur], LocalSerial)
    BY <1>7, <2>1, <2>3 DEF QuerySOA, SyncDone
  <2> QED BY <2>2, <2>3
<1>8. CASE Transfer
  <2>1. sync.pc = "transfer" /\ UNCHANGED <<raw, cdb, mem, torn>> /\ (up' = "serving" => up = "serving")
    BY <1>8 DEF Transfer, SyncFailed, files, state
  <2> QED BY <2>1
<1>9. CASE PublishRaw
  BY <1>9 DEF PublishRaw, TypeOK
<1>10. CASE PublishCdb
  BY <1>10 DEF PublishCdb, TypeOK
<1>11. CASE SaveState
  <2>1. mem'.sha = cdb /\ cdb = raw
    BY <1>11 DEF SaveState, Record, NewState, SyncInv
  <2> QED BY <1>11, <2>1 DEF SaveState, files
<1>12. CASE SaveFails \/ SyncFails
  BY <1>12 DEF SaveFails, SyncFails, Record, Tears, SyncFailed, Idle, files, state
<1>13. CASE ClientIXFR \/ ClientAXFR \/ UNCHANGED vars
  BY <1>13 DEF ClientIXFR, ClientAXFR, vars, files, state
<1> QED BY <1>1, <1>2, <1>3, <1>4, <1>5, <1>6, <1>7, <1>8, <1>9, <1>10, <1>11, <1>12, <1>13
        DEF Next, SyncStep, BootStep

\* PublishDelta, BuildCDB and Bootstrap: unless a publication or a build was
\* interrupted, a serving relay's list, CDB and announced hash are of one zone.
THEOREM FilesAgree ==
  ASSUME SafeStarts PROVE Spec => []PublishedTogether
<1>1. Init => TogetherInv
  BY RelayAssumption DEF Init, TogetherInv, Kept
<1>2. IInv /\ TogetherInv /\ [Next]_vars => TogetherInv'
  BY TogetherKept
<1>3. TogetherInv => PublishedTogether
  BY DEF TogetherInv, PublishedTogether
<1> QED BY <1>1, <1>2, <1>3, RelayInvariant, PTL DEF Spec

-----------------------------------------------------------------------------
(* Copies of versions                                                      *)

\* Published or not under a serial, the list is the zone of the version it was last
\* replaced by, and the secondary's that of a version no later than the list's.
FollowInv ==
  /\ held # NoVersion => held \in 0 .. cur /\ raw = Zone[held]
  /\ Publishing => held <= sync.to
  /\ mem.deltas # <<>> => raw # NoFile
  /\ client.version # NoVersion => client.zone = Zone[client.version]
  /\ client.version <= held

LEMMA HistoryTypes ==
  ASSUME TypeOK
  PROVE  /\ held \in Int /\ client.version \in Int /\ sync.to \in Nat /\ cur \in Nat
         /\ held \in Versions \cup {NoVersion} /\ client.version \in Versions \cup {NoVersion}
         /\ \A v \in Versions : v \in Nat /\ NoVersion < v /\ v # NoVersion
         /\ client \in Clients
BY RelayAssumption DEF TypeOK, Clients, Versions, NoVersion

\* A list without a version was never replaced; without a list there is no version.
LEMMA NoListNoVersion ==
  ASSUME TypeOK, FollowInv, raw = NoFile PROVE held = NoVersion /\ client.version = NoVersion
<1>1. held = NoVersion
  BY HistoryTypes, RelayAssumption DEF FollowInv
<1> QED BY <1>1, HistoryTypes DEF FollowInv

\* What a step may do to the list and its version.
LEMMA ListSteps ==
  ASSUME IInv, FollowInv, [Next]_vars
  PROVE  \/ UNCHANGED <<held, raw>>
         \/ DownloadBootstrap /\ held' = held /\ held = NoVersion /\ client.version = NoVersion
         \/ PublishRaw /\ held' = sync.to /\ raw' = Zone[sync.to] /\ held <= sync.to /\ sync.to \in 0 .. cur
<1>1. CASE DownloadBootstrap
  BY <1>1, NoListNoVersion DEF DownloadBootstrap, IInv
<1>2. CASE PublishRaw
  <2>1. held' = sync.to /\ raw' = Zone[sync.to]
    BY <1>2, PublishedRaw DEF PublishRaw
  <2>2. sync.to <= cur /\ held <= sync.to
    BY <1>2 DEF PublishRaw, Publishing, IInv, SyncInv, FollowInv
  <2>3. sync.to \in 0 .. cur
    BY <2>2, HistoryTypes DEF IInv
  <2> QED BY <1>2, <2>1, <2>2, <2>3
<1>3. CASE ~DownloadBootstrap /\ ~PublishRaw
  BY <1>3 DEF Next, SyncStep, BootStep, Publish, Start, Crash, CompileBootstrap, BootFails, QuerySOA,
              Transfer, PublishCdb, SaveState, SaveFails, SyncFails, ClientIXFR, ClientAXFR, vars, files
<1> QED BY <1>1, <1>2, <1>3

\* What a step may do to the secondary's zone and its version.
LEMMA ZoneSteps ==
  ASSUME IInv, FollowInv, [Next]_vars
  PROVE  \/ client'.version = client.version /\ client'.zone = client.zone
         \/ /\ UNCHANGED held
            /\ client'.version = NoVersion /\ client.version = NoVersion
         \/ /\ UNCHANGED held
            /\ client'.version \in Versions /\ client'.zone = Zone[client'.version]
            /\ client.version <= client'.version /\ client'.version <= held
<1>1. CASE ClientIXFR
  <2>1. CASE client' = [client EXCEPT !.pc = "axfr"]
    BY <2>1, HistoryTypes DEF IInv, Clients
  <2>2. ASSUME NEW i \in Matched(client.serial),
               client' = [pc |-> "idle", serial |-> mem.deltas[i].to,
                          zone |-> ApplyDelta(client.zone, mem.deltas[i]),
                          version |-> VersionOf(mem.deltas[i].to), early |-> FALSE]
        PROVE  /\ UNCHANGED held
               /\ client'.version \in Versions /\ client'.zone = Zone[client'.version]
               /\ client.version <= client'.version /\ client'.version <= held
    <3>1. /\ client'.version = VersionOf(mem.serial) /\ client'.zone = Zone[VersionOf(mem.serial)]
          /\ client.version <= VersionOf(mem.serial) /\ VersionOf(mem.serial) \in 0 .. cur
          /\ mem.serial # Unknown
      BY <1>1, <2>2, MatchedDelta
    <3>2. raw # NoFile
      <4>1. mem.deltas # <<>>
        BY <2>2 DEF Matched
      <4> QED BY <4>1 DEF FollowInv
    <3>3. VersionOf(mem.serial) <= held
      BY <3>1, <3>2 DEF IInv, RawInv, RawHolds
    <3>4. VersionOf(mem.serial) \in Versions
      BY <3>1, RelayAssumption DEF IInv, TypeOK, Versions
    <3> QED BY <1>1, <3>1, <3>3, <3>4 DEF ClientIXFR, files
  <2> QED BY <1>1, <2>1, <2>2 DEF ClientIXFR
<1>2. CASE ClientAXFR
  <2>1. client'.version = held /\ client'.zone = raw /\ UNCHANGED held
    BY <1>2 DEF ClientAXFR, files
  <2>2. CASE held = NoVersion
    <3>1. client.version = NoVersion
      BY <2>2, HistoryTypes DEF FollowInv, IInv
    <3> QED BY <2>1, <2>2, <3>1
  <2>3. CASE held # NoVersion
    <3>1. held \in Versions /\ held <= held /\ client.version <= held /\ raw = Zone[held]
      BY <2>3, HistoryTypes DEF FollowInv, IInv
    <3> QED BY <2>1, <3>1
  <2> QED BY <2>2, <2>3
<1>3. CASE Crash
  BY <1>3, HistoryTypes DEF Crash, IInv, Clients
<1>4. CASE ~ClientIXFR /\ ~ClientAXFR /\ ~Crash
  BY <1>4 DEF Next, SyncStep, BootStep, Publish, Start, DownloadBootstrap, CompileBootstrap, BootFails,
              QuerySOA, Transfer, PublishRaw, PublishCdb, SaveState, SaveFails, SyncFails, vars
<1> QED BY <1>1, <1>2, <1>3, <1>4

\* What is being published, and the deltas that are kept, come after the list.
LEMMA PublicationSteps ==
  ASSUME IInv, FollowInv, [Next]_vars
  PROVE  /\ cur <= cur' /\ cur' \in Versions
         /\ Publishing' => held' <= sync'.to
         /\ mem'.deltas # <<>> => raw' # NoFile
<1> USE DEF Publishing
<1>1. cur <= cur' /\ cur' \in Versions
  <2>1. CASE Publish
    BY <2>1, RelayAssumption DEF Publish, IInv, TypeOK, Versions
  <2>2. CASE UNCHANGED cur
    BY <2>2, RelayAssumption DEF IInv, TypeOK, Versions
  <2> QED BY <2>1, <2>2 DEF Next, SyncStep, BootStep, Start, Crash, DownloadBootstrap, CompileBootstrap,
             BootFails, QuerySOA, Transfer, PublishRaw, PublishCdb, SaveState, SaveFails, SyncFails,
             ClientIXFR, ClientAXFR, vars, upstream
<1>2. Publishing' => held' <= sync'.to
  <2>1. CASE QuerySOA
    <3>1. sync'.pc \in {"idle", "transfer"}
      <4>1. CASE serialGreater(SerialOf[cur], LocalSerial)
        BY <2>1, <4>1 DEF QuerySOA, Idle
      <4>2. CASE ~serialGreater(SerialOf[cur], LocalSerial)
        BY <2>1, <4>2 DEF QuerySOA, SyncDone, Idle
      <4> QED BY <4>1, <4>2
    <3> QED BY <3>1
  <2>2. CASE Transfer
    <3>1. CASE AsAnnounced(SerialOf[cur], sync.soa)
      <4>1. sync'.to = cur /\ held' = held
        BY <2>2, <3>1 DEF Transfer, IInv, TypeOK, files
      <4>2. held <= cur
        BY HistoryTypes DEF FollowInv, IInv, NoVersion
      <4> QED BY <4>1, <4>2
    <3>2. CASE ~AsAnnounced(SerialOf[cur], sync.soa)
      BY <2>2, <3>2 DEF Transfer, SyncFailed, Idle
    <3> QED BY <3>1, <3>2
  <2>3. CASE PublishRaw
    <3>1. held' = sync'.to /\ sync'.to = sync.to
      BY <2>3 DEF PublishRaw, IInv, TypeOK
    <3> QED BY <3>1, HistoryTypes DEF IInv
  <2>4. CASE PublishCdb
    <3>1. held' = held /\ sync'.to = sync.to /\ sync.pc = "cdb"
      BY <2>4 DEF PublishCdb, IInv, TypeOK
    <3> QED BY <3>1 DEF FollowInv
  <2>5. CASE Crash \/ SaveState \/ SaveFails \/ SyncFails
    <3>1. sync' = Idle
      BY <2>5 DEF Crash, SaveState, SyncDone, SaveFails, SyncFails, SyncFailed
    <3> QED BY <3>1 DEF Idle
  <2>6. CASE UNCHANGED <<sync, held>>
    BY <2>6 DEF FollowInv
  <2> QED BY <2>1, <2>2, <2>3, <2>4, <2>5, <2>6 DEF Next, SyncStep, BootStep, Publish, Start,
             DownloadBootstrap, CompileBootstrap, BootFails, ClientIXFR, ClientAXFR, vars, files
<1>3. mem'.deltas # <<>> => raw' # NoFile
  <2>1. raw # NoFile => raw' # NoFile
    BY ListSteps, RelayAssumption DEF DownloadBootstrap, IInv, TypeOK
  <2>2. CASE SaveState
    <3>1. raw = Zone[sync.to] /\ raw' = raw
      BY <2>2 DEF SaveState, IInv, SyncInv, files
    <3> QED BY <3>1, RelayAssumption DEF IInv, TypeOK
  <2>3. CASE CompileBootstrap
    BY <2>1, <2>3 DEF CompileBootstrap, IInv, TypeOK, States, FollowInv
  <2>4. CASE Start
    BY <2>1, <2>4 DEF Start, IInv, StateInv, FollowInv
  <2>5. CASE UNCHANGED mem
    BY <2>1, <2>5 DEF FollowInv
  <2> QED BY <2>2, <2>3, <2>4, <2>5 DEF Next, SyncStep, BootStep, Publish, Crash, DownloadBootstrap,
             BootFails, QuerySOA, Transfer, PublishRaw, PublishCdb, SaveFails, Record, SyncFails,
             ClientIXFR, ClientAXFR, vars, state
<1> QED BY <1>1, <1>2, <1>3

LEMMA FollowKept ==
  ASSUME IInv, FollowInv, [Next]_vars PROVE FollowInv'
<1>1. held' # NoVersion => held' \in 0 .. cur' /\ raw' = Zone[held']
  BY ListSteps, PublicationSteps, HistoryTypes DEF FollowInv, IInv
<1>2. client'.version # NoVersion => client'.zone = Zone[client'.version]
  BY ZoneSteps DEF FollowInv
<1>3. client'.version <= held'
  <2>1. held <= held'
    BY ListSteps, HistoryTypes DEF IInv
  <2>2. client'.version \in Int /\ client'.version <= held
    BY ZoneSteps, HistoryTypes DEF FollowInv, IInv
  <2>3. held' \in Int
    BY ListSteps, HistoryTypes DEF IInv
  <2> QED BY <2>1, <2>2, <2>3, HistoryTypes DEF IInv
<1> QED BY <1>1, <1>2, <1>3, PublicationSteps DEF FollowInv

\* A step that replaces a copy's version by one up to its source's, while the source
\* at most moves on, is a step of VersionedCopy: for the relay ...
LEMMA RelayStep ==
  ASSUME IInv, FollowInv, [Next]_vars PROVE [Relay!Next]_(Relay!vars)
<1> DEFINE C == [v \in Versions |-> {Zone[v]}]
<1>1. Relay!Advance \/ UNCHANGED cur
  <2>1. cur' \in DOMAIN C /\ (cur < cur' \/ cur = cur')
    BY PublicationSteps, HistoryTypes DEF Versions, IInv
  <2> QED BY <2>1 DEF Relay!Advance, Relay!Held
<1>2. \/ Relay!Refresh
      \/ UNCHANGED <<held, IF held = NoVersion THEN NoFile ELSE raw>>
  <2>1. CASE UNCHANGED <<held, raw>>
    BY <2>1
  <2>2. CASE held' = held /\ held = NoVersion
    BY <2>2
  <2>3. CASE held' = sync.to /\ raw' = Zone[sync.to] /\ held <= sync.to /\ sync.to \in 0 .. cur
    <3>1. sync.to \in Versions /\ sync.to # NoVersion /\ sync.to <= cur
      BY <2>3, HistoryTypes DEF IInv, TypeOK
    <3>2. held' \in DOMAIN C /\ Zone[held'] \in C[held']
      BY <2>3, <3>1
    <3> QED BY <2>3, <3>1, <3>2 DEF Relay!Refresh, Relay!Held
  <2> QED BY <2>1, <2>2, <2>3, ListSteps
<1> QED BY <1>1, <1>2 DEF Relay!Next

\* ... and for the secondary.
LEMMA SecondaryStep ==
  ASSUME IInv, FollowInv, [Next]_vars PROVE [Secondary!Next]_(Secondary!vars)
<1> DEFINE C == [v \in Versions |-> {Zone[v]}]
<1>1. Secondary!Advance \/ UNCHANGED held
  <2>1. CASE held' = sync.to /\ held <= sync.to /\ sync.to \in 0 .. cur
    <3>1. held' \in DOMAIN C /\ (held < held' \/ held = held')
      BY <2>1, HistoryTypes DEF IInv, TypeOK
    <3> QED BY <3>1 DEF Secondary!Advance, Secondary!Held
  <2> QED BY <2>1, ListSteps
<1>2. \/ Secondary!Refresh
      \/ UNCHANGED <<client.version, IF client.version = NoVersion THEN NoFile ELSE client.zone>>
  <2>1. CASE client'.version = client.version /\ client'.zone = client.zone
    BY <2>1
  <2>2. CASE client'.version = NoVersion /\ client.version = NoVersion
    BY <2>2
  <2>3. CASE /\ client'.version \in Versions /\ client'.zone = Zone[client'.version]
             /\ client.version <= client'.version /\ client'.version <= held
    <3>1. client'.version # NoVersion
      BY <2>3, HistoryTypes DEF IInv
    <3>2. client'.version \in DOMAIN C /\ Zone[client'.version] \in C[client'.version]
      BY <2>3
    <3> QED BY <2>3, <3>1, <3>2 DEF Secondary!Refresh, Secondary!Held
  <2> QED BY <2>1, <2>2, <2>3, ZoneSteps
<1> QED BY <1>1, <1>2 DEF Secondary!Next

LEMMA FollowStarts ==
  ASSUME Init PROVE FollowInv /\ Relay!Init /\ Secondary!Init
<1>1. /\ cur = 0 /\ client.version = NoVersion /\ ~Publishing /\ mem.deltas = <<>>
      /\ \/ held = 0 /\ raw = Zone[0]
         \/ held = NoVersion
  BY DEF Init, Publishing, Idle, Empty, Kept
<1>2. 0 \in Versions /\ NoVersion < 0
  BY ConstantTypes DEF NoVersion
<1>3. FollowInv
  BY <1>1, <1>2 DEF FollowInv, NoVersion
<1>4. Relay!Init
  BY <1>1, <1>2 DEF Relay!Init, Relay!Held, Relay!NoVersion, NoVersion
<1>5. Secondary!Init
  BY <1>1, <1>2 DEF Secondary!Init, Secondary!Held, Secondary!NoVersion, NoVersion
<1> QED BY <1>3, <1>4, <1>5

LEMMA FollowInvariant ==
  ASSUME SafeStarts PROVE Spec => [](IInv /\ FollowInv)
<1>1. FollowInv /\ IInv /\ [Next]_vars => FollowInv'
  BY FollowKept
<1>2. Init => FollowInv
  BY FollowStarts
<1> QED BY <1>1, <1>2, RelayInvariant, PTL DEF Spec

\* PublishDelta over QuerySOA, SyncIXFR, State.Save and the bootstrap: the relay's
\* list is a copy that follows the upstream's zone version by version.
THEOREM RelayFollowsUpstream ==
  ASSUME SafeStarts PROVE Spec => RelayFollows
<1>1. IInv /\ FollowInv /\ [Next]_vars => [Relay!Next]_(Relay!vars)
  BY RelayStep
<1>2. Init => Relay!Init
  BY FollowStarts
<1> QED BY <1>1, <1>2, FollowInvariant, PTL DEF Spec, Relay!Spec, RelayFollows

\* handleIXFR and handleAXFR: the secondary's zone is a copy that follows the
\* relay's list in the same way.
THEOREM SecondaryFollowsRelay ==
  ASSUME SafeStarts PROVE Spec => SecondaryFollows
<1>1. IInv /\ FollowInv /\ [Next]_vars => [Secondary!Next]_(Secondary!vars)
  BY SecondaryStep
<1>2. Init => Secondary!Init
  BY FollowStarts
<1> QED BY <1>1, <1>2, FollowInvariant, PTL DEF Spec, Secondary!Spec, SecondaryFollows

\* The two links in a row: the secondary's zone as a copy of the upstream's.
Chain == INSTANCE VersionedCopy WITH
  Contents <- [v \in Versions |-> {Zone[v]}], Nothing <- NoFile, Lossy <- FALSE,
  source <- cur, copy <- client.version,
  content <- IF client.version = NoVersion THEN NoFile ELSE client.zone

\* Sync, handleIXFR and handleAXFR together: the secondary follows the upstream
\* itself, though it only ever talks to the relay.
THEOREM SecondaryFollowsUpstream ==
  ASSUME SafeStarts PROVE Spec => Chain!Spec
<1>1. IInv /\ FollowInv /\ [Next]_vars => [Chain!Next]_(Chain!vars)
  <2> SUFFICES ASSUME IInv, FollowInv, [Next]_vars PROVE [Chain!Next]_(Chain!vars)
    OBVIOUS
  <2>1. Chain!Advance \/ UNCHANGED cur
    BY RelayStep DEF Relay!Next, Relay!vars, Relay!Advance, Relay!Held, Chain!Advance, Chain!Held
  <2>2. \/ Secondary!Refresh
        \/ UNCHANGED <<client.version, IF client.version = NoVersion THEN NoFile ELSE client.zone>>
    BY SecondaryStep DEF Secondary!Next, Secondary!vars
  <2>3. Secondary!Refresh => Chain!Refresh
    <3> SUFFICES ASSUME Secondary!Refresh PROVE Chain!Refresh
      OBVIOUS
    <3>1. client'.version \in Versions /\ client'.version <= held
      BY DEF Secondary!Refresh, Secondary!Held
    <3>2. held <= cur
      BY HistoryTypes DEF FollowInv, IInv, NoVersion
    <3>3. client'.version <= cur
      BY <3>1, <3>2, HistoryTypes DEF IInv
    <3> QED BY <3>3 DEF Secondary!Refresh, Secondary!Held, Chain!Refresh, Chain!Held
  <2> QED BY <2>1, <2>2, <2>3 DEF Chain!Next
<1>2. Init => Chain!Init
  <2> SUFFICES ASSUME Init PROVE Chain!Init
    OBVIOUS
  <2>1. cur = 0 /\ client.version = NoVersion /\ 0 \in Versions
    BY ConstantTypes DEF Init
  <2> QED BY <2>1 DEF Chain!Init, Chain!Held, Chain!NoVersion, NoVersion
<1> QED BY <1>1, <1>2, FollowInvariant, PTL DEF Spec, Chain!Spec
=============================================================================
