------------------------------- MODULE RpzRelay -------------------------------
(***************************************************************************)
(* tools/rpz-master in mode rpz-slave: one relay follows the RPZ zone of   *)
(* an upstream master by AXFR and IXFR, keeps it as a list of domains (the *)
(* raw file), a CDB compiled from that list and a state file (serial and   *)
(* recent deltas), and serves the zone on to secondaries.  The upstream's  *)
(* zone goes through versions 0, 1, 2, ..., each with a serial; a file is  *)
(* the set of domains it lists.  One downstream secondary stands for all:  *)
(* they do not touch each other or the relay's state.                      *)
(***************************************************************************)
EXTENDS SerialArith, Sequences

CONSTANTS
  Domains,      \* domains the zone may list
  MaxVersions,  \* last version the upstream publishes
  SerialOf,     \* SerialOf[v]: the SOA serial of version v
  Zone,         \* Zone[v]: the domains of version v
  BootList,     \* what source_domain_url serves
  NoFile,       \* "no such file"
  MaxDeltas,    \* deltas kept in the state (20 in the code)
  MaxFaults,    \* how many steps of the relay fail or are cut by a crash
  Starts        \* [disk, url]: what the relay may start from

Versions == 0 .. MaxVersions

ASSUME RelayAssumption ==
  /\ MaxVersions \in Nat
  /\ SerialOf \in [Versions -> Serials]
  /\ \A v, w \in Versions : SerialOf[v] = SerialOf[w] => v = w
  /\ Zone \in [Versions -> SUBSET Domains]
  /\ BootList \in SUBSET Domains
  /\ \A list \in SUBSET Domains : list # NoFile
  /\ MaxDeltas \in Nat
  /\ MaxFaults \in Nat
  /\ Starts \subseteq [disk : {"empty", "kept", "rawless"}, url : BOOLEAN]

\* RFC 1982 orders two serials only when they are less than half the circle
\* apart: a zone's serial never jumps further, nor gets further ahead of a follower.
InReach(follower, serial) == 2 * Minus(serial, follower) < Modulus

ASSUME UpstreamAssumption ==
  \A v \in Versions : v # MaxVersions => InReach(SerialOf[v], SerialOf[v + 1])

VARIABLES
  cur,     \* upstream: the version it serves
  url,     \* source_domain_url is configured
  raw,     \* raw_domain_file
  held,    \* history: the version it was last published as, NoVersion before
  cdb,     \* cdb_path
  disk,    \* state_path: [serial, deltas, sha]
  mem,     \* App.state, the same in memory
  torn,    \* history: a publication or a build stopped between its files and the save
  up,      \* the process: "down", "sync" or "boot" while it starts, "serving"
  sync,    \* the Sync in progress
  client,  \* the downstream secondary
  faults   \* how many steps failed

vars == <<cur, url, raw, held, cdb, disk, mem, torn, up, sync, client, faults>>
upstream == <<cur, url>>
files == <<raw, held, cdb>>
state == <<disk, mem>>

NoVersion == -1
Unknown == 0  \* the serial of a relay or a secondary that holds no zone

\* sha: the CDB that cdb_sha256 is the hash of, NoFile when it is empty.
Empty == [serial |-> Unknown, deltas |-> <<>>, sha |-> NoFile]
Kept == [serial |-> SerialOf[0], deltas |-> <<>>, sha |-> Zone[0]]

\* snap: the serial Sync started from; soa: the serial the upstream answered;
\* to, full: the version that was transferred, and whether by AXFR.
Idle == [pc |-> "idle", snap |-> Unknown, soa |-> Unknown, to |-> 0, full |-> FALSE]

Init ==
  /\ cur = 0
  /\ \E start \in Starts :
       /\ url = start.url
       /\ raw = IF start.disk = "kept" THEN Zone[0] ELSE NoFile
       /\ held = IF start.disk = "kept" THEN 0 ELSE NoVersion
       /\ cdb = IF start.disk = "empty" THEN NoFile ELSE Zone[0]
       /\ disk = IF start.disk = "empty" THEN Empty ELSE Kept
       /\ mem = disk
  /\ torn = FALSE
  /\ up = "down"
  /\ sync = Idle
  /\ client = [pc |-> "idle", serial |-> Unknown, zone |-> {}, version |-> NoVersion, early |-> FALSE]
  /\ faults = 0

-----------------------------------------------------------------------------
(* The upstream.                                                           *)

\* The serial Sync works from: unknown when the raw file is gone.
LocalSerial == IF raw = NoFile THEN Unknown ELSE mem.serial

Publish ==
  /\ cur < MaxVersions
  /\ \A s \in {LocalSerial} \cup ({mem.serial, client.serial} \ {Unknown}) :
       InReach(s, SerialOf[cur + 1])
  /\ cur' = cur + 1
  /\ UNCHANGED <<url, files, state, torn, up, sync, client, faults>>

\* Domains that some version of from .. to lists differently than version to:
\* those that the steps of an IXFR from one to the other mention.
Touched(from, to) == {d \in Domains : \E v \in from .. to : (d \in Zone[v]) # (d \in Zone[to])}

VersionOf(serial) == CHOOSE v \in Versions : SerialOf[v] = serial

\* A plausible slip: a domain that was added on the way is never deleted.
MutParseKeepsAdded(snap, to) ==
  LET v == VersionOf(snap) IN
    [from |-> snap, to |-> SerialOf[to], added |-> Touched(v, to) \cap Zone[to],
     deleted |-> (Touched(v, to) \ Zone[to]) \cap Zone[v]]

\* parseTransferRecords: the last step that mentions a domain decides.
parseTransferRecords(snap, to) ==
  LET touched == Touched(VersionOf(snap), to) IN
    [from |-> snap, to |-> SerialOf[to], added |-> touched \cap Zone[to], deleted |-> touched \ Zone[to]]

\* A plausible slip: deletions are not applied.
MutApplyAddsOnly(list, delta) == list \cup delta.added

ApplyDelta(list, delta) == (list \ delta.deleted) \cup delta.added

-----------------------------------------------------------------------------
(* The process.                                                            *)

Fault == faults < MaxFaults /\ faults' = faults + 1

\* run and Serve: load the state, then look for the files.
Start ==
  /\ up = "down"
  /\ mem' = disk
  /\ up' = IF raw = NoFile THEN "sync" ELSE IF cdb = NoFile THEN "boot" ELSE "serving"
  /\ UNCHANGED <<upstream, files, disk, torn, sync, client, faults>>

\* Whether a publication that stops here leaves the files ahead of the state.
Tears == torn' = (torn \/ sync.pc \in {"cdb", "save"})

\* Serve does not wait for a Sync in progress either when it is told to stop.
Crash ==
  /\ up # "down"
  /\ Fault
  /\ Tears
  /\ up' = "down"
  /\ sync' = Idle
  /\ client' = [client EXCEPT !.pc = "idle"]
  /\ UNCHANGED <<upstream, files, state>>

-----------------------------------------------------------------------------
(* Bootstrap and BuildCDB, when the process starts without its files.      *)

DownloadBootstrap ==
  /\ up = "boot"
  /\ raw = NoFile
  /\ raw' = BootList
  /\ UNCHANGED <<upstream, held, cdb, state, torn, up, sync, client, faults>>

\* The CDB is built and its hash saved; neither sets a serial in mode rpz-slave.
CompileBootstrap ==
  /\ up = "boot"
  /\ raw # NoFile
  /\ cdb' = raw
  /\ mem' = [mem EXCEPT !.sha = raw]
  /\ disk' = mem'
  /\ up' = "serving"
  /\ UNCHANGED <<upstream, raw, held, torn, sync, client, faults>>

\* The download, the compilation or, with the CDB in place, the save fails.
BootFails ==
  /\ up = "boot"
  /\ Fault
  /\ \/ UNCHANGED <<cdb, torn>>
     \/ raw # NoFile /\ cdb' = raw /\ torn' = TRUE
  /\ up' = "down"
  /\ UNCHANGED <<upstream, raw, held, state, sync, client>>

-----------------------------------------------------------------------------
(* Sync: at the start when there is no raw file, and periodically.         *)

\* Sync returned: Serve goes on, the periodic goroutine waits for its tick.
SyncDone ==
  /\ sync' = Idle
  /\ up' = "serving"

\* Sync failed: Serve tries the bootstrap URL if there is one.
SyncFailed ==
  /\ sync' = Idle
  /\ up' = IF up # "sync" THEN up ELSE IF url THEN "boot" ELSE "down"

QuerySOA ==
  /\ up \in {"sync", "serving"}
  /\ sync.pc = "idle"
  /\ IF serialGreater(SerialOf[cur], LocalSerial)
       THEN /\ sync' = [Idle EXCEPT !.pc = "transfer", !.snap = LocalSerial, !.soa = SerialOf[cur]]
            /\ UNCHANGED up
       ELSE SyncDone
  /\ UNCHANGED <<upstream, files, state, torn, client, faults>>

\* The transfer must end at the serial that was announced, unless that is 0.
AsAnnounced(serial, soa) == soa # Unknown => serial = soa

\* SyncIXFR asks for AXFR without a serial and where plain integers would
\* misjudge a wrap; the upstream may answer IXFR by AXFR too.
Transfer ==
  /\ sync.pc = "transfer"
  /\ IF AsAnnounced(SerialOf[cur], sync.soa)
       THEN /\ \E full \in BOOLEAN :
                 /\ sync.snap = Unknown \/ sync.soa < sync.snap => full
                 /\ sync' = [sync EXCEPT !.pc = "raw", !.to = cur, !.full = full]
            /\ UNCHANGED up
       ELSE SyncFailed
  /\ UNCHANGED <<upstream, files, state, torn, client, faults>>

\* PublishDelta, its preparation done: the raw file is replaced ...
PublishRaw ==
  /\ sync.pc = "raw"
  /\ raw' = IF sync.full THEN Zone[sync.to]
            ELSE ApplyDelta(raw, parseTransferRecords(sync.snap, sync.to))
  /\ held' = sync.to
  /\ sync' = [sync EXCEPT !.pc = "cdb"]
  /\ UNCHANGED <<upstream, cdb, state, torn, up, client, faults>>

\* ... then the CDB that was compiled from the same list.
PublishCdb ==
  /\ sync.pc = "cdb"
  /\ cdb' = raw
  /\ sync' = [sync EXCEPT !.pc = "save"]
  /\ UNCHANGED <<upstream, raw, held, state, torn, up, client, faults>>

\* A plausible slip: the history is never cut.
MutKeepAll(deltas) ==
  IF sync.full THEN deltas ELSE Append(deltas, parseTransferRecords(sync.snap, sync.to))

\* The deltas kept: those before and the new one, but never an AXFR.
KeepDelta(deltas) ==
  LET all == Append(deltas, parseTransferRecords(sync.snap, sync.to)) IN
    IF sync.full THEN deltas
    ELSE IF Len(all) > MaxDeltas THEN SubSeq(all, Len(all) - MaxDeltas + 1, Len(all)) ELSE all

\* A plausible slip: the hash of the new CDB is not recorded.
MutOldHash == [serial |-> sync.soa, deltas |-> KeepDelta(mem.deltas), sha |-> mem.sha]

\* The state that a publication leads to.
NewState == [serial |-> sync.soa, deltas |-> KeepDelta(mem.deltas), sha |-> cdb]

\* A plausible slip: App.state is changed in place before it is saved.
MutRecordInPlace(ok) == mem' = NewState /\ disk' = IF ok THEN NewState ELSE disk

\* State.Save, then the assignment of the saved copy to App.state.
Record(ok) == IF ok THEN disk' = NewState /\ mem' = NewState ELSE UNCHANGED state

SaveState ==
  /\ sync.pc = "save"
  /\ Record(TRUE)
  /\ torn' = FALSE
  /\ SyncDone
  /\ UNCHANGED <<upstream, files, client, faults>>

SaveFails ==
  /\ sync.pc = "save"
  /\ Fault
  /\ Record(FALSE)
  /\ Tears
  /\ SyncFailed
  /\ UNCHANGED <<upstream, files, client>>

\* The query, the transfer, the preparation or a rename fails.
SyncFails ==
  /\ up \in {"sync", "serving"}
  /\ sync.pc # "save"
  /\ Fault
  /\ Tears
  /\ SyncFailed
  /\ UNCHANGED <<upstream, files, state, client>>

-----------------------------------------------------------------------------
(* The downstream secondary, served by ServeDNS.                           *)

\* A plausible slip: any delta to the relay's serial will do.
MutMatchEnd(delta, serial) == delta.to = mem.serial

Match(delta, serial) == delta.from = serial /\ delta.to = mem.serial

\* The positions of the deltas that lead from serial to the relay's.
Matched(serial) == {i \in DOMAIN mem.deltas : Match(mem.deltas[i], serial)}

\* handleIXFR: no transfer, the newest delta that matches, or else AXFR.
ClientIXFR ==
  /\ up = "serving"
  /\ client.pc = "idle"
  /\ client.serial # Unknown => serialGreater(mem.serial, client.serial)
  /\ \/ /\ Matched(client.serial) = {}
        /\ client' = [client EXCEPT !.pc = "axfr"]
     \/ \E i \in Matched(client.serial) :
          /\ \A j \in Matched(client.serial) : j <= i
          /\ client' = [pc |-> "idle", serial |-> mem.deltas[i].to,
                        zone |-> ApplyDelta(client.zone, mem.deltas[i]),
                        version |-> VersionOf(mem.deltas[i].to), early |-> FALSE]
  /\ UNCHANGED <<upstream, files, state, torn, up, sync, faults>>

\* A plausible slip: Sync publishes without the lock.
MutNeverPublishing == FALSE

\* Sync holds publicationMu over the renames and the save.
Publishing == sync.pc \in {"raw", "cdb", "save"}

\* handleAXFR: the serial and the open raw file are taken under publicationMu.
ClientAXFR ==
  /\ up = "serving"
  /\ client.pc = "axfr"
  /\ raw # NoFile
  /\ ~Publishing
  /\ client' = [pc |-> "idle", serial |-> mem.serial, zone |-> raw, version |-> held, early |-> torn]
  /\ UNCHANGED <<upstream, files, state, torn, up, sync, faults>>

-----------------------------------------------------------------------------
SyncStep == QuerySOA \/ Transfer \/ PublishRaw \/ PublishCdb \/ SaveState
BootStep == DownloadBootstrap \/ CompileBootstrap

Next ==
  \/ Publish
  \/ Start \/ Crash
  \/ BootStep \/ BootFails
  \/ SyncStep \/ SaveFails \/ SyncFails
  \/ ClientIXFR \/ ClientAXFR

Spec == Init /\ [][Next]_vars

\* The service manager restarts the process, the ticker never stops, and a
\* secondary polls; what fails, fails at most MaxFaults times.
LiveSpec ==
  /\ Spec
  /\ WF_vars(Start) /\ WF_vars(BootStep) /\ WF_vars(SyncStep)
  /\ WF_vars(ClientIXFR) /\ WF_vars(ClientAXFR)

-----------------------------------------------------------------------------
(* Properties.                                                             *)

Lists == SUBSET Domains
Files == {NoFile} \cup Lists
Deltas == [from : Serials, to : {SerialOf[v] : v \in Versions}, added : Lists, deleted : Lists]
States == {s \in [serial : Serials, deltas : Seq(Deltas), sha : Files] : Len(s.deltas) <= MaxDeltas}
Clients == [pc : {"idle", "axfr"}, serial : Serials, zone : Lists,
            version : Versions \cup {NoVersion}, early : BOOLEAN]

\* The types, and the bound on the deltas that the state keeps (main.go).
TypeOK ==
  /\ cur \in Versions
  /\ url \in BOOLEAN
  /\ raw \in Files
  /\ held \in Versions \cup {NoVersion}
  /\ cdb \in Files
  /\ disk \in States
  /\ mem \in States
  /\ torn \in BOOLEAN
  /\ up \in {"down", "sync", "boot", "serving"}
  /\ sync \in [pc : {"idle", "transfer", "raw", "cdb", "save"}, snap : Serials, soa : Serials,
               to : Versions, full : BOOLEAN]
  /\ client \in Clients
  /\ faults \in 0 .. MaxFaults

\* A list that claims a serial is the zone of that serial or, when early, of a
\* later version; it never mixes two versions.
Claims(list, serial, early) ==
  \E v \in Versions :
    /\ list = Zone[v]
    /\ IF early THEN v >= VersionOf(serial) ELSE SerialOf[v] = serial

\* Whatever failed or crashed between the renames of PublishDelta and
\* State.Save, the raw file is never a mixture: it is the zone of the recorded
\* serial, or of a later version after an interrupted publication.
RawIsAVersion ==
  raw # NoFile /\ disk.serial # Unknown =>
    Claims(raw, disk.serial, torn \/ sync.pc \in {"cdb", "save"})

\* Between publications the list that AXFR serves, the CDB that dnsdist and the
\* edges load, and the hash that the manifest and the ETag announce are of the
\* same zone, unless a publication or a build was interrupted.
PublishedTogether ==
  up = "serving" /\ raw # NoFile /\ sync.pc \notin {"cdb", "save"} /\ ~torn =>
    cdb = raw /\ mem.sha = cdb

\* A secondary never holds a mixture of versions, whichever deltas and AXFRs
\* it was given and while Sync publishes; it holds the zone of its serial, or
\* a later one from the AXFR of a relay whose publication was interrupted.
ClientNeverMixes == client.serial # Unknown => Claims(client.zone, client.serial, client.early)

Advances(old, new) == new = old \/ old = Unknown \/ serialGreater(new, old)

\* The serial that the relay answers, and with it the secondary's, never goes
\* back, through failed saves, crashes and restarts: a secondary that saw a
\* serial would ignore a relay that fell behind it.
SerialsOnlyAdvance ==
  [][/\ Advances(mem.serial, mem'.serial)
     /\ Advances(client.serial, client'.serial)]_vars

\* The relay's list and the secondary's zone, each as a copy of what it is made
\* from; a list that was not transferred, such as the bootstrap's, is no version.
Relay == INSTANCE VersionedCopy WITH
  Contents <- [v \in Versions |-> {Zone[v]}], Nothing <- NoFile, Lossy <- FALSE,
  source <- cur, copy <- held, content <- IF held = NoVersion THEN NoFile ELSE raw
Secondary == INSTANCE VersionedCopy WITH
  Contents <- [v \in Versions |-> {Zone[v]}], Nothing <- NoFile, Lossy <- FALSE,
  source <- held, copy <- client.version,
  content <- IF client.version = NoVersion THEN NoFile ELSE client.zone

\* Whatever is retried, fails between the renames or crashes, a list once replaced
\* is never replaced by that of an older version of the upstream.
RelayFollows == Relay!Spec

\* Nor is a secondary ever taken back, or past the relay, by IXFR or AXFR, even
\* where the list it was given is newer than the serial it came with.
SecondaryFollows == Secondary!Spec

\* Once the upstream rests and nothing more fails, the relay's files and hash and the
\* secondary reach its zone and stay there.
Converges == <>[](raw = Zone[cur] /\ cdb = raw /\ mem.sha = cdb /\ client.zone = raw)

\* README.md of rpz-master, 10.2 and 10.4, about a relay in mode rpz-slave:
\* after a bootstrap the serial is 0, so the next sync is an AXFR and the
\* bootstrap list is never the base of an IXFR.
BootstrapMeansUnknownSerial ==
  up = "serving" /\ raw = BootList => mem.serial = Unknown
=============================================================================
