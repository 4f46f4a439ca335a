# dnsdist-edge: TLA+ models and proofs

These modules model the parts of dnsdist-edge whose correctness depends on the
order in which things happen: requests to the panel that interleave, saves that
fail, processes that die between two steps, answers that get lost, files that
several actors replace. Each module names the source it models; source
references below are relative to the repository (`panel/cluster.go:288` is line
288 of that file).

- [The system](#the-system)
- [Modules](#modules)
- [Runs: what is model-checked](#runs-what-is-model-checked)
- [Proofs](#proofs)
- [Behaviours worth knowing](#behaviours-worth-knowing)
- [Not modelled](#not-modelled)
- [Plan](#plan)

## The system

dnsdist-edge runs dnsdist on a set of edge nodes and one Go program,
`dnsdist-panel`, that is the *master* on one host and an *edge agent* on the
others. Beside it a Go program relays response policy zones (`tools/rpz-master`),
another is a transparent UDP proxy, and shell scripts install and update.

| Component | State it keeps | Operations | What makes it correct |
|---|---|---|---|
| Cluster registry, JSON engine (`panel/cluster.go:113-458`) | tokens and nodes in memory under a mutex, the same in `cluster.json` | generate a token, register, heartbeat, list, delete, refresh statuses, load, save | a token enrols one node; an issued token is accepted; an enrolled node is kept; a deleted node stays deleted; a silent node is shown offline |
| Cluster registry, SQL engines (`panel/storage.go`, `panel/pgstore.go`) | tables `cluster_tokens` and `cluster_nodes` | the same, one SQL statement at a time | the same |
| SmartDist profile store (`panel/smartdist_profile.go`) | profiles, assignments, history, in memory and in one file | put, delete, assign many nodes, load | assigned profiles exist; memory, file and answers agree; the history is complete |
| Edge agent: heartbeat and profile synchronisation (`panel/cluster.go:851-986`, `panel/smartdist_agent.go`, `panel/smartdist_dnsdist_apply.go`) | the applied hash (memory and file), three Lua files, dnsdist itself | heartbeat, download, write, check, back up, rename, restart, roll back | dnsdist never loads a section it refuses; the hash says what is applied; an online node reaches its profile |
| Edge agent: registration (`panel/cluster.go:772-849`, `:936-1039`) | identity and last error, in memory and in a state file | register, retry, heartbeat, connect by hand | a token gives an identity to one edge; a listed node is somebody; a valid token gets used; a deletion shows at the edge |
| RPZ relay: synchronisation (`tools/rpz-master/main.go`, `builder.go`, `slave_client.go`, `config.go`) | raw zone, CDB, manifest, deltas, serial | AXFR, IXFR, apply a delta, publish, save the state | the published files and the serial belong together, also after a crash |
| RPZ relay: serving (`dns_server.go`, `http_server.go`) | transfer slots, delta cache | AXFR, IXFR, SOA, HTTP | a client that follows the answers reaches the served zone; slots come back |
| Rate limiters (`panel/cdb_ratelimit.go`, `panel/login_limit.go`) | buckets or failure counters per address | allow, record, reset, evict | bounded rate, bounded memory, also under concurrent requests |
| CDB publisher (`panel/cdbpublisher.go`) | a cache of file hashes | serve a file, its hash, a manifest | the hash belongs to the bytes that are served |
| Master CDB build (`panel/builder.go`, `panel/master_custom_blacklist.go`) | the flag that a build runs, dated files, a link, a manifest | build, publish, change the lists | the link, the manifest and the file agree; a change of the lists is eventually built |
| Edge database update (`setup/update-blacklist.sh`) | database files, time stamps, links | download, verify, link | the edge serves a complete database and reaches the newest one |
| dnstap aggregation (`panel/dnstap.go`) | counters per domain and client, connections | read frames, aggregate, stop | bounded memory; stops |
| Settings files: local block list, block mode and sinkhole, SafeSearch, DoT and DoH (`panel/localblock.go`, `panel/main.go:704-1152`, `setup/setup-edge.sh:532`) | a copy-on-write list, four files, what dnsdist has loaded | change, replace the file, restart dnsdist | files are whole; a change answered with success is kept and in force |
| Login (`panel/main.go:896`, `panel/password.go`) | password hash, JWT secret | verify, migrate | the migration keeps the password |
| Transparent proxy (`tools/dnsdist-tproxy`) | sockets, a slot per query | forward | slots come back |

**How they interact.** Agents register at the master over HTTP with a token the
operator made (with the panel's page, or with `dnsdist-panel -enrollment-token`,
a second process that rewrites the registry file), then send heartbeats. The
answer to a heartbeat names the SHA-256 of the profile that the profile store
assigns to the node; the agent downloads it, writes the SmartDist Lua file, and
applies the dnsdist section behind a gate (`dnsdist --check-config`, rename,
restart, rollback). The assignment handler asks the registry whether a node
exists, then calls the store: two mutexes and two files. Edges download the
databases the master builds, and receive policy zones from the relay.

**Which behaviours are hard.** Requests run concurrently, and several operations
release their mutex between their halves (`RegisterNode`), or run several SQL
statements without a transaction. Errors of saves are dropped in places and
undone in others. Any process may die between two steps and start again from its
files. Heartbeat answers are lost or cut. `PROJECT.json` lists the hazards, each
at the line where it bites, with the properties that cover it, or the reason why
none does yet.

## Modules

### EnrollContract

What every storage engine promises about enrolment, independent of how it is
stored: each token goes from `unissued` to `live`, `claimed`, `paid` or `void`;
each node from `absent` to `member` to `gone`; a node is paid for by one token.
It has one action per method of the interface `ClusterStorage`
(`panel/storage.go:20`), and `Void` for tokens that expire or whose request died.
It is the abstract specification that `ClusterRegistry` implements, that
`SqlRegistry` implements as long as no token is disputed, and that `Enrolment` takes
for the master.

### VersionedCopy

What each link of the distribution promises. A `source` goes through versions; a
`copy` of it has the `content` of one of them, may lag and skip, is never ahead, and
never goes back. A `Lossy` copy may also be missing at times: those of the two database
links are, because a dropped error may leave a link that names no file. Four links are shown to be such a copy, each by a refinement mapping
in the module that models the link:

| Link | Instance | source | copy |
|---|---|---|---|
| upstream zone to relay | `RpzRelay!Relay` | the upstream's version | the version the raw file was last replaced by |
| relay to secondary | `RpzRelay!Secondary` | that version | the version the secondary was given |
| operator's list to master | `MasterBuild!Feed` | saves of the custom list | the list of what `trust.db` names |
| master to edge | `EdgeDatabase!Edge` | the list of what `trust.db` names | the list of what `blacklist.db` names; a mixture of builds counts for the list of the last one in it, and as missing |

`content` is what is in the file behind the copy, and `Contents` what a copy of a version
may hold, so that the refinement says of which version it is *and* what it has of it: of a
zone all domains; of a list a database that one build made from that list, with or without
the feeds, and cut where the list could not be read to its end. Two links in a row are a link: the
proofs compose them (`Chain` in `RpzRelayProofs` and `EdgeDatabaseProofs`).

### ClusterRegistry

The JSON engine. `mem` and `disk` are the two maps `tokens` and `nodes`, in the
process and in the file; `up` says whether the process runs.

| Action | Code |
|---|---|
| `GenerateEnrollmentToken` | `cluster.go:188`, adds a token, saves |
| `ValidateAndConsumeToken`, `RejectExpiredToken` | `cluster.go:202`, first half of `RegisterNode`: its own critical section; the error of the save is dropped; an expired token leaves the map without a save |
| `RegisterNode` | `cluster.go:288`, second half: stores the node, saves |
| `ProcessHeartbeat` | `cluster.go:326` |
| `RefreshAll` | `ListNodes`, and the ticker of `initClusterStore` (`:508`) |
| `DeleteNode` | `cluster.go:449`; answers with the error of its save |
| `Crash`, `newClusterStore` | the process dies; loads the file, refreshes statuses |
| `CliLoad`, `CliGenerate` | `main.go:1332-1338`, a second process: loads the file, adds a token, writes the file |
| `GoSilent`, `Expire` | time: 3 minutes without a heartbeat, the life of a token |

`claim[r]` is the token a registration request has consumed and not used yet, the
state between the two critical sections. A save is one atomic step, because the
file is written under a temporary name and renamed while the mutex is held
(`save`, `main.go:704`); its outcome is chosen from `SaveOutcomes`. The variables
from `issued` on are history: they record what operators and agents were told.
Statuses other than those `refreshNodeStatus` computes, node keys, names and
reports are abstracted.

### SqlRegistry

The same methods for SQLite and PostgreSQL, at the grain of one statement: a
method is at a point of `Points` between two statements, and holds its panel's
mutex there, except at `accepted`, which is between the two halves of
`RegisterNode`. Several panels may share one database. A statement that writes
ends `done`, `failed`, or `unanswered` (applied, but the panel got an error). The
history variable `disputed` collects the tokens for which the code gives up on
single use: those whose `DELETE` failed (the error is dropped,
`pgstore.go:136`) and those two panels had selected at one time. `issued` holds the
tokens that reached the table: one whose `INSERT` failed is handed to the operator all
the same (`:110`), and is refused like one nobody drew. `Contract` maps the tables to
`EnrollContract`: a token is `claimed` while a request is at `accepted` with it, and
`void` once it has expired, or its request died or could not insert its node.

### Enrolment

The edge agents, their pages, the network and the handlers of the master. It EXTENDS
`EnrollContract`, which stands for the storage engine: what it shows holds for each
engine that keeps the contract. A *thread* `r` is a pair of an agent and `"loop"` (the
goroutine `run`) or `"page"` (a request to `handleEdgeClusterConfig`); the mutex of the
agent is not held during a call to the master (`cluster.go:790`, `:858`), so that
threads overlap freely. `state` and `file` are `EdgeAgentState` in memory and on disk,
reduced to the identity and whether `LastError` is set. `post`, `serving`, `answer`
follow a registration: on its way, between the two halves of `RegisterNode`, on its way
back; `waiting` says that `Register` still listens. `beat` is a heartbeat under way.

| Action | Code |
|---|---|
| `Register`, `LoopRegister` | `Register` up to the `Post` (`cluster.go:772-802`), from the page with any token, from `run` (`:941`, `:965`) with the token the edge was installed with |
| `GiveUp`, `HearRefusal`, `HearGarbled`, `Adopt` | its four endings: an error or ten seconds (`:803`), another status (`:812`), an answer that was cut (`:829`), an identity, which is saved and followed by the first heartbeat (`:833-847`) |
| `LoopBeat`, `LoseBeat`, `ServeBeat`, `RefuseBeat` | `sendHeartbeat` (`:851-934`) and `handleClusterHeartbeat` |
| `AcceptToken`, `RefuseToken`, `EnrolNode` | `handleClusterRegister` (`:551`) in the two halves of `RegisterNode`; the answer reaches nobody when the caller gave up |
| `LookUpFails` | a SQL engine cannot look the token up: refused, the token still good |
| `EnrolFails` | the error branch after the token is consumed (`:561-565`): a SQL engine's `INSERT` fails, or succeeds and its answer is lost (`pgstore.go:183`, `storage.go:194`); the caller is refused, the token is spent, and the node may be listed |
| `DropPost` | the network loses a request (external) |
| `initEdgeAgent`, `MasterRestart` | a panel dies with its requests and starts again, in one step: nothing happens in between that could not happen before or after |
| `MakeToken`, `DeleteNode`, `Expire` | operators, time |

Of one thread, one request at a time is in the network; that of a caller which gave up
may still arrive. What a heartbeat changes in the registry is the subject of
`ClusterRegistry`, the profile it brings that of `ProfileSync`. `stray` is history: the
nodes whose identity never reached their edge, or was replaced there, and those whose
`INSERT` the master took for a failure.

### SmartDistStore

The profile store. Every change is applied in memory, saved, and taken back if
the save fails (`saveLocked`). `AssignMany` (`smartdist_profile.go:408-448`) is
two actions, since it saves twice: the assignment (with the history already in
memory but, by the order of the code, not in the first save), then the history,
whose failure is only logged; the mutex is held in between (`Locked`), so only a
crash can come there. The handler (`:636-683`) looks the nodes up in the registry
first: `CheckNodes` is a step of its own, and `RegisterNode`/`DeleteNode` of the
registry may come between it and the assignment. A document is identified by a
body; parsing and validation are left out.

### ProfileSync

One edge node and its master, seen from the node. `sync[s]` is the state of one
synchronisation: `Loop` is the agent's periodic heartbeat, a further member of `Syncs`
the heartbeat that the registration handler sends (`cluster.go:847`, `:989`). Each step
between two operations on files, or on the network, is a point of `Points`, so that
crashes, failures and the steps of the other synchronisation come between any two.
`dns.active`, `dns.new` and `dns.lkg` are `dnsdist-profile.lua` and its two companions,
`lua` is `smartdist-profile.lua`, `running` is what dnsdist loaded.

| Action | Code |
|---|---|
| `Send`, `Answer`, `Lose` | `sendHeartbeat` (`cluster.go:851-934`): the hash is read before the call; both endings save the agent's state (`:901`, `:918`) |
| `Disable`, `Compare`, `Fetch`, `FetchFails` | `syncSmartDistProfileInner` (`smartdist_agent.go`) up to the files; the body must have the hash that was told |
| `WriteLua` | the SmartDist file: a temporary file and a rename |
| `ReadActive` | the active file is read; *any* error counts as "there is none" (`smartdist_dnsdist_apply.go:53`) |
| `OpenNew`, `WriteNew`, `OpenBackup`, `Backup` | `os.WriteFile` of `.new` and of `.lkg`: the file is emptied, then written; what stops in between leaves it `Torn` |
| `CheckNew` | `dnsdist --check-config`, which accepts exactly the sections in `Loadable`; of a torn file it may say either |
| `Rename`, `Restart`, `SkipRestart` | the gate is passed; `-dnsdist-restart=false` leaves dnsdist alone |
| `Rollback`, `RestartAgain` | `.lkg` back, or the new file removed where none was read; the error of that `os.Remove` is dropped (`:92`) and the run goes on (`left`) |
| `setProfileHash` | memory, then the state file, whose error is dropped |
| `Crash`, `OtherRestart`, `Recover` | the agent dies and starts again; an operator or systemd restarts dnsdist; what can go wrong stops going wrong |

`setup`, a member of `Setups`, is the circumstances an edge runs in: what may go wrong
(`net`, `garbled`: the answer is cut, and the error of decoding it dropped,
`cluster.go:925`; `disk`: an operation on a file fails; `restart`: `systemctl restart
dnsdist` does), how often the assignment changes, the agent dies and the node is
registered, and the flag `-dnsdist-restart`. `trouble` says whether things still go wrong.
Two synchronisations share all files without a lock: what a write leaves when another is
at work is chosen from `Outcomes` and `Written`. `sync[s].alone` says that nobody else was
at the files while `s` was; `mixed` that two were, and none that had them alone got
dnsdist restarted since.

### SerialArith

Zone serials: unsigned integers modulo `Modulus` (2^32 in the code), `Minus`, and
`serialGreater` (`slave_client.go:418`), which compares them as RFC 1982 does.

### RpzRelay

`tools/rpz-master` in mode `rpz-slave`, with its upstream and one downstream
secondary. The upstream's zone goes through versions 0, 1, 2, ..., each with a
serial (`SerialOf`) and a set of domains (`Zone`). `raw` and `cdb` are the two
published files, `disk` and `mem` the state file and `App.state` (serial, deltas,
and as `sha` the list whose CDB the recorded hash is of), `sync` the Sync in
progress, `up` where the process is, `client` the secondary. `torn` is history: a
publication or a build stopped between its first rename and the save. So are `held`
and `client.version`, the versions that the raw file was last replaced by and that the
secondary was given; a list that was not transferred, the bootstrap's, has none.

| Action | Code |
|---|---|
| `Publish` | the upstream publishes its next version (external) |
| `Start` | `run` loads the state, `Serve` (`main.go:189-209`) looks for the files: Sync first, a build first, or serve at once |
| `DownloadBootstrap`, `CompileBootstrap`, `BootFails` | `Bootstrap` and `BuildCDB` (`main.go:63-124`), one step per file they replace |
| `QuerySOA` | `Sync` up to the comparison of the serials (`main.go:126-149`) |
| `Transfer` | `SyncIXFR` (`slave_client.go:93`): AXFR or IXFR, and the check of the serial that came; the upstream may have moved on since the query |
| `PublishRaw`, `PublishCdb` | the renames of `PublishDelta` (`builder.go:273-281`); what it prepares before touches no published file |
| `SaveState`, `SaveFails` | `State.Save`, then the assignment to `App.state` (`main.go:163-185`) |
| `SyncFails`, `Crash` | any earlier error; the process dies at any point. `Serve` does not wait for a running Sync when it is told to stop, so that a shutdown is a crash too |
| `ClientIXFR`, `ClientAXFR` | `handleIXFR`, `handleAXFR`: not newer, the newest delta that matches, or AXFR. The look-up of the delta and the AXFR are two steps |

`updateMu` is why there is one `sync`: periodic and initial synchronisations never
overlap. `publicationMu` is the guard `~Publishing` of `ClientAXFR`: the serial and
the opened file are taken under it; the open file stays what it was when it is
replaced, so that the rest of the transfer is no step of its own.
`parseTransferRecords` turns an IXFR of several steps into one delta; the model
computes it from the versions on the way, the last step that mentions a domain
deciding. Record limits, name checks and time stamps are abstracted, failing
there is `SyncFails`. `manifest.json` follows the CDB by a rename of its own; it
carries the hash that `sha` stands for and is not a variable.

### MasterBuild

The database build of the master's panel (`panel/builder.go:251`, `BuildMasterCDB`)
and the ways it is started. `Builders` are goroutines: those that requests start,
and the ticker's. `pc` says where each is, `plan` what it compiled and then the
name it computed; `building` is `masterState.IsBuilding`. `tmp`, `dbs`, `link`,
`manifest`, `localTmp` and `localLink` are the files: `trust_building.tmp`,
`trust.<sha256>.db`, `trust.db`, `manifest.json` and the master's own
`blacklist.db.tmp` and `blacklist.db`.

| Action | Code |
|---|---|
| `BeginSave`, `EndSave`, `SaveFails` | the custom list is saved through one temporary name without a mutex (`master_custom_blacklist.go:73`): two saves at once (`clash`) may leave a mixture of both (`listWhole`) |
| `RequestBuild`, `Tick` | the handler that starts a build, and the ticker of `-build-interval` |
| `Enter` | the test and the setting of `IsBuilding` under its mutex |
| `FetchFeeds`, `Compile` | the feeds: one that cannot be fetched is skipped, an error page is stored like a feed under the ETag of the feed (`poisoned`, `builder.go:145-218`), and the ticker's build, which is not forced, uses that cache; then the custom list as it is *now*: skipped if it cannot be opened (`:354`), cut if it cannot be read to its end (`:361-432`) |
| `NoSource`, `CreateFails`, `WriteFails`, `Close` | nothing to build from; files that cannot be made or written; the temporary file closed and hashed |
| `Rename`, `Link`, `Cleanup`, `WriteManifest`, `LinkLocal`, `SwapLocal` | one step each, in the order of the code, so that a death comes between any two. `ok` is whether it works; where it does not the error is dropped and the build goes on (`:460-493`) |
| `PanelDies` | the panel dies and restarts; files stay |
| `Recover` | what can fail stops failing |

A database is named by its hash, so that a name *is* a content: the version of the
custom list it was compiled from, whether that list was read whole, and whether the feeds
are in it. `Partial` stands for a file that is still being written. `lost` is history: the
build that came last to the link dropped the error of the rename before it (`unnamed`) or
of the link itself. One panel process is modelled; `IsBuilding` excludes nothing else (see
below). `setup`, a member of `Setups`, is the circumstances of a deployment: what may
fail, who posts, how often the list is saved, how often something dies, whether there is
an edge and whether it has a mirror. `trouble` says whether things still fail.

### EdgeDatabase

`setup/update-blacklist.sh` on one edge, composed with `MasterBuild`: it EXTENDS that
module, a step is a step of the one or of the other, and they meet in what `link`
and `dbs` hold when the edge asks. A run goes through its sources (the master, and
in some deployments a mirror with an old copy).

| Action | Code |
|---|---|
| `Start` | cron or an operator, with or without `--force-update` |
| `AskNothing`, `AskNewer`, `AskUnmodified`, `AskRefused`, `AskTimeout` | the request with `If-Modified-Since`, by its outcome: none is sent, 200, 304, another status, or no answer in 15 s (status `000`, which goes on) |
| `BeginDownload`, `NothingOffered`, `NextRange`, `Receive`, `ReceiveFails` | `rm`, `aria2c -x 8 -s 8` (`:111`), the test of the size. Each range, and each repetition of one, is a request for which the master resolves `trust.db` anew (`cdbpublisher.go:342`): after a publication in between what is received is a `Mixture` |
| `Decide` | a source succeeded: is there a temporary file, whoever left it? |
| `Install`, `SwapLink`, `RemoveOld`, `WriteSidecar` | hash and `mv`, the symlink, `cleanup_old_dbs`, the sidecar manifest; none of them is checked (`:222-238`), so that a run whose `mv` failed goes on to the link and the cleanup |
| `Killed` | the script dies, every file stays |

Modification times matter only in comparisons of one of the edge's files with one
of a source's, so there is no clock: `newer` maps each file of the edge to the files
of the sources that were modified after it. A file of the edge is as old as the end
of its download, *not* as the file that was downloaded. `elost` is history: a move failed
in the run that came last to the link. A `Mixture` remembers only the list of the build
whose range was opened last.

### PanelSettings

The files an edge's panel writes for dnsdist. `path[f]` and `tmp[f]` are a file and its
`.tmp`; `fd[r]` says which file request `r` has open, since an open file follows its
inode when it is renamed. A text is the set of the changes it carries, each a request and
one of the settings it sets (`Sets`: domains of the list, the block mode, the sinkhole, or
a whole form); a later change of a setting takes the place of an earlier (`Changed`).
`Torn` stands for a text that was cut short or is of two writers. `loaded` is what dnsdist
read at its last start, or `Down`.

| Action | Code |
|---|---|
| `BeginList` | `Add`, `Remove` (`localblock.go:56-99`): under the mutex, a copy of the list is changed |
| `BeginConf` | the block mode of `handleSettings` (`main.go:1137`), and `setup-edge.sh --set-rpz`, run by `handleRPZ`: the file is read, a line replaced; the script sets the sinkhole *and* the block mode, to `rpz` (`setup/setup-edge.sh:538-541`) |
| `BeginForm` | `writeSafeSearch`, `writeDoTDoH`: the file is made anew |
| `Open`, `WriteTmp`, `Rename`, `OpenFails`, `WriteFails`, `RenameFails` | `atomicWrite` (`main.go:704`), step by step; the script does the same under the same name |
| `Restart`, `RestartFails`, `SkipRestart` | `systemctl restart dnsdist`, and who is told about its failure |
| `OtherRestart`, `PanelDies` | somebody else restarts dnsdist, or it dies; the panel dies and starts again |

`overlapped` is history: the files that two requests were saving at once, which
nothing prevents but for the block list. So is `replaced`: the changes that a later rename
changed again.

## Runs: what is model-checked

| Run | Question | Bounds |
|---|---|---|
| `registry` | With saves that work and one process: does a token enrol one node at most, is an issued token accepted, an enrolled node kept, a silent node shown offline, through interleavings, any number of crashes and restarts? Does the engine implement `EnrollContract`? | 2 tokens, 2 nodes, 2 requests |
| `registry_two_writers` | With saves that may fail and the command line tool rewriting the file: is a token accepted twice by one process? Does a deleted node come back? | 2 tokens, 1 node, 2 requests, 1 use of the tool |
| `registry_cli` (violated) | Is a token the command line tool printed accepted by the running panel? | the same, saves work |
| `sql_registry` | With two panels, statements that fail or are not answered: exactly when can a token be used twice, can a late heartbeat resurrect a deleted node, is every statement a step of the contract while no token is disputed? | 2 panels, 2 tokens, 3 nodes, 3 requests |
| `enrolment` | With requests and answers that get lost, callers that give up, an `INSERT` that fails or is not answered, and crashes on both sides: does a token give an identity to one edge only, is every listed node an edge or known to be lost, does every valid token get used, does an edge whose node was deleted end up showing it for good? | 2 edges installed with one token, a loop each and a page at one, 2 tokens, 2 nodes; saves of the agent succeed |
| `profile_store` | Do assignments, profiles and history stay consistent in memory and in the file? | 2 nodes, 2 profiles, 1 body, 2 requests, lists of one or two nodes, 2 history entries |
| `profile_sync` | With lost and cut answers, failing reads, writes, removals and restarts, a crash, and a second synchronisation after a registration: does dnsdist only ever load what it accepts, is the hash raised only after the files, does a failed apply leave the former file, does a node converge to its profile once the trouble is over? | 3 documents, one refused; the four circumstances of `Usual` |
| `rpz_relay` | Through serial wraps, lost transfers, failed renames and saves, and crashes: is the relay's list one version of the zone, do list, CDB and hash agree, does a secondary ever hold a mixture, does a serial go back, is either ever taken back to an older version, do both reach the upstream? | 6 versions of 3 domains, serials modulo 16 (one of them 0), 2 deltas kept, 3 faults |
| `rpz_lost_raw` (violated) | After a bootstrap, is the serial unknown, so that the next transfer is an AXFR? | the same, raw file lost, with a bootstrap URL |
| `edge_database` | Through failing feeds, lists, files, moves, requests and downloads, two saves of the list at once, downloads over a publication, and deaths of the panel and of the script: do master and edge publish only whole databases, but for the dropped errors that the properties name? Never one of an older list? Does everything name the database of the last list in the end? | one goroutine of requests beside the ticker, two where the list is saved twice at once, 1 edit of the list, 1 death; five deployments (`SeparateSetups`) |
| `edge_partial` (violated) | The same for what the edge installs, in a deployment where a run may be killed *and* a request may stay unanswered | `JointSetups` |
| `profile_refused` (violated) | Is the profile whose hash the agent reports as applied the one in its files? | 2 documents (one refused), 3 changes, nothing fails (`Faultless`) |

**Why the bounds are enough.** Two requests are needed, and suffice, for one
registration to run between the halves of another; two tokens and two nodes for a
token or an identifier to be confused with another. Two panels are the least that
share a database. Two profiles and two nodes let a profile be deleted while it is
being assigned, and an assignment change one node and not the other; three
assignments overflow a history of two entries. In `profile_sync` two documents are good and one is refused; of
the circumstances in `Usual` one lets everything fail, with two changes (the least that
pass through a refused or a former profile) and a crash; one has a failing disk and an
agent that never restarts dnsdist; two register the node once while the loop runs, with
two changes, or with one and failing restarts. In
`enrolment` two edges contend for one token, and a second token lets the page of the
one replace the identity its loop got; lost requests, retries and crashes are not
bounded. Saves of the agent's file succeed there: with failing ones
`MembersAccountedFor` is false after the next restart (see below). Nothing else is
bounded: the number of heartbeats, deletions, crashes
(of the panel) and restarts is not. In `rpz_relay` the serials go once around
their circle, past the serial 0 that also means "unknown" and past the wrap that
forces AXFR; one domain is added and removed again on the way, which tells the
last mention of a domain from any other; six versions overflow two kept deltas;
three faults (`MaxFaults`) let a publication be interrupted, its repetition fail
too, and the process die after that. In `edge_database` two goroutines of requests can save the list
at once, and with the ticker there is always a builder to be kept out; one edit tells an
older list from a newer one; one death can come at any of the steps of a build or of a run
of the script, and the runs that follow meet what it left. Failures are not counted: in a
deployment where a step may fail it may fail any number of times, until the trouble ends.
Each of the five deployments in `SeparateSetups` has the failures that meet: lists and feeds
that cannot be read, with two clients; a master's disk that fails, and a panel that dies;
requests of the edge that fail, and runs that are killed; a mirror and unanswered requests;
a mirror and moves that fail on the edge. `edge_partial` shows why kills and unanswered
requests are not in one deployment. (The run has 984,672 states; with a
client beside the failing moves the invariants hold as well.)

**Deadlock** is checked in every run but `sql_registry`, where a database in
which every identifier has been drawn and removed, with nothing left to do,
really is at rest.

**Symmetry** is used for tokens, nodes, requests, panels, profiles and bodies in
the runs that check no liveness property; no action distinguishes them.

**Fairness.** `registry`: weak fairness of `RefreshAll`, because a ticker
goroutine runs it every 30 s, and of `newClusterStore`, because systemd restarts
the panel. No fairness of requests. `enrolment`: for each
loop, weak fairness of `EnrolNode` or `EnrolFails` (a handler that has begun goes on, to the one end or the other) and of `GiveUp`
(the HTTP client has a timeout of ten seconds), strong fairness of `LoopRegister` or
`LoopBeat` (the ticker of `run`; between two ticks the loop is busy, so that weak
fairness would say too little) and of the master's answers to its requests and to its
heartbeats: what is repeated for ever gets through again and again, to a registry that
can look up its token (`AcceptToken` or `RefuseToken`, not `LookUpFails`). None of it is asked
of pages, operators, crashes, or of an answer that reaches the agent. `profile_sync`: weak
fairness of `Send(Loop)` (the agent's ticker), of the steps of each synchronisation that
runs (a goroutine that is not blocked proceeds: every HTTP request and every command it
runs has a timeout), and of `Recover`: the node is online and its disk works from some
moment on, without which nothing can be promised. `Converges` (`<>[]`) speaks of what
follows, whatever is left from before. `rpz_relay`: weak fairness of
`Start` (the service manager restarts the relay), of the steps of Sync (the ticker of
`periodicSync` never stops, transfers have timeouts), of the steps of a bootstrap,
and of the secondary's polls. Faults are bounded by `MaxFaults` and versions by
`MaxVersions`, so that `Converges` (`<>[]`) speaks of what follows the last of them.
`edge_database`: weak fairness of `Tick` (the ticker of the periodic build never
stops; in a deployment without `-build-interval` cron starts builds instead) and of
the steps of each goroutine's build; of `Start`, because cron starts the script every
three hours (`setup/setup-edge.sh:1287`), and of the steps of a run that meets no
failure, because every command in it ends; and of `Recover`. An edit and a death are never
fair, and each is bounded. `Converges` is `<>[](Savers = {}) => <>[]Converged`: it speaks
of what follows the last failure, death and save, and says that the feeds are in the
database only if no error page is cached for them.

**Each property** can be broken by a small error in the code it is about:
beside the action that models the code a module has operators named `Mut...`
that hold such an error (a token that is not removed, a save that is not rolled
back, a check that is skipped), and `PROJECT.json` says which property each
breaks. They are used by no specification.

## Proofs

`ClusterRegistryProofs` proves, for every number of tokens, nodes and requests:

| Theorem | Statement | Assumptions |
|---|---|---|
| `TypeCorrect` | `Spec => []TypeOK` | none |
| `NoReuse` | `Spec => NoReuseInOneLifetime`: one panel process never accepts a token twice | none: saves may fail, the tool may run any number of times |
| `DeletionIsFinal` | `Spec => []RevokedStaysRevoked`: an acknowledged deletion lasts until the tool is used | none: saves may fail |
| `TokenEnrolsOneNode` | `Spec => []SingleUse` | `Reliable` |
| `TokenIsHonoured` | `Spec => []IssuedTokenHonoured` | `Reliable` |
| `NodeIsKept` | `Spec => []EnrolledNodeKept` | `Reliable` |
| `EngineImplementsContract` | `Spec => ImplementsContract`: the engine implements `EnrollContract` | `Reliable` |

`RegistryAssumption` is what they all rest on (`NoToken` is no token, outcomes are
Booleans, `CliRuns` is a natural number). `Reliable` is: saves succeed and the
tool is not used while the panel runs. Neither can be dropped: the run
`registry_cli` shows the tool breaking `IssuedTokenHonoured`, and the section on
behaviours gives the executions in which a failed save breaks the others.

**The argument.** None of the invariants is inductive by itself.

- `NoReuse` needs `SpentIsGone`: a token this process accepted is not in its map,
  and whatever any process or the file holds was issued before, so that a new
  token is never one that was spent.
- `DeletionIsFinal` needs `NodesKnown`: a record, in memory *or in the file*,
  exists only for an identifier that was drawn, and for none whose deletion was
  acknowledged. Only that excludes that a later save, a restart or a fresh
  registration brings a node back. `UntilToolRuns` carries it until the tool is
  used.
- The theorems under `Reliable` share `ReliableInv`: the map and the file hold
  the same live tokens, none of which is consumed (`TokensKnown`); a claimed
  token is consumed, held by one request and has paid for nothing
  (`ClaimsKnown`); the payers are consumed tokens and pairwise different
  (`PayersKnown`); the map and the file know the same nodes (`NodesKept`).
  `expired` tokens are the delicate part: they leave the map without a save, so
  that the map may know fewer tokens than the file, and a restart agrees with it
  only because `load` filters by the clock.
- The refinement maps a token to its stage by what was issued, claimed, consumed
  and paid, a node by its payer and its record. `ContractStep` has a step per
  action: generation maps to `Issue`, the two halves of a registration to `Claim`
  and `Enrol`, a deletion to `Remove`, a crash and an expiry to `Void`, the rest
  to stuttering.

`SqlRegistryProofs` proves, for every number of panels, requests, tokens and nodes, and
statements that fail or stay unanswered:

| Theorem | Statement | Assumptions |
|---|---|---|
| `SqlTypeCorrect` | `Spec => []TypeOK` | none |
| `SqlSingleUse` | `Spec => []SingleUseUnlessDisputed` | none |
| `SqlRevoked` | `Spec => []RevokedStaysRevoked` | none |
| `SqlKeepsContract` | `Spec => KeepsContractUnlessDisputed` | none |

The invariant adds three parts. `CallsInv`: a request past its `SELECT` carries a token
that reached the table, and until the `DELETE` it is still there or disputed.
`TokensInv`: an undisputed token is in one place at most, in the table (where the
request that has just read it finds it), accepted by one request, or with the node it
paid for. `NodesInv`: an identifier in the table, or deleted, was drawn and paid for, so
that it is not drawn again. The refinement is an action
property under `disputed' = {}` rather than an implication between specifications,
because it holds *up to* the first dispute and the run goes on after it.

`EnrolmentProofs` proves, for every number of agents, threads, tokens and nodes:

| Theorem | Statement | Assumptions |
|---|---|---|
| `ContractPaysOnce` | `Spec => []PaysOnce`, of the contract: a node was paid for by one spent token, a token pays for one node, for good | none |
| `AgentTypeCorrect` | `AgentSpec => []AgentTypeOK` | none |
| `AgentsKeepContract` | `AgentSpec => Spec`, the contract | none |
| `OneTokenOneAgent` | `AgentSpec => []TokenServesOneAgent` | none: saves may fail |
| `NoOtherGhosts` | `AgentSpec => []MembersAccountedFor`, with what the master itself took for a failure among the ways to become a ghost | `ReliableAgents`: saves of the state file succeed |

`TokenServesOneAgent` speaks of edges, the contract of tokens and nodes. Three
invariants join them. `TokensInv`, on the master: the contract's `PaysOnce`, and a token
being served is claimed, by one request. `FlowInv`, in the
network: an answer is for a thread that waits and has no request under way, so that
none overwrites another. `IdentityInv`, at the edges: what an agent has in memory or
file, or is being sent, was paid for, and no other agent has it. `MembersInv` adds, for
`NoOtherGhosts`, that memory and file agree, which is where `ReliableAgents` is needed.

`SmartDistStoreProofs` proves, for every number of nodes, profiles and requests,
every bound on the history, and saves that may fail:

| Theorem | Statement | Assumptions |
|---|---|---|
| `StoreTypeCorrect` | `Spec => []TypeOK`, with the bound on each history | none |
| `AssignedProfilesExist` | `Spec => []ReferentialIntegrity` | none |
| `PanelAndFileAgree` | `Spec => []GrantedAssignmentsKept` | none |
| `HistoryIsComplete` | `Spec => []HistoryIsChain` | `NoRepeats`: no request names a node twice |
| `AssignmentIsNeverReleased` | `Spec => [][NeverReleased]_vars`: a node with a profile in the file keeps one | none |

`ReferentialIntegrity` is inductive because it speaks of the memory and of the file
at once: a rollback returns to the one, a restart to the other.
`GrantedAssignmentsKept` needs it for the restart: `load` drops assignments to
missing profiles, and the theorem says that it never has any to drop.
`HistoryIsComplete` rests on two lemmas about sequences: `NewestOfHistory` (cutting
a history keeps a suffix: what follows what, and the last entry) and
`RecordHistory` (one entry more is still a chain). `NoRepeats` is needed: a node
named twice is recorded twice (see below).

`ProfileSyncProofs` proves, for every set of documents, every set of circumstances, and
any number of synchronisations at once, changes, registrations and crashes:

| Theorem | Statement | Assumptions |
|---|---|---|
| `SyncTypeCorrect` | `Spec => []TypeOK` | none |
| `GateHolds` | `Spec => []OnlyLoadableActive`: unless `mixed`, neither the active file nor dnsdist ever has a section the check refuses, or a torn one | none |
| `HashComesLast` | `Spec => []HashRaisedAfterFiles`: who had the files alone records the hash after both hold its document | none |
| `FailureRestores` | `Spec => FailedApplyKeepsActive`: the failed attempt of one that had the files alone leaves the active file as it found it, also after a failed restart | none |

Two synchronisations at once break the gate (see below), and the code does not prevent
them: the statements say what is left then. Whoever is alone with the files keeps all three
promises, whatever the mixture before it has left; and the first of them that gets dnsdist
restarted ends what the gate's statement excuses. Two failures of the rollback itself are
named in `FailedApplyKeepsActive`: `.lkg` that cannot be renamed, and a new file that
cannot be removed; where the active file could not be read, a rollback leaves none.
`SyncAssumption` says that markers and documents differ.

The invariant is `FilesInv`: at each point of a synchronisation that is alone, what each
file holds (`Progress`). Up to the rename the active file is the one the attempt read;
`.new` is torn while it is written, then the section of the document, and after the check
dnsdist accepts it; `.lkg` is what the rename replaces, which is why the rollback restores
it. Beside it, `Gate` and `OldSafe` carry what dnsdist accepts through a rollback as long
as nothing is mixed. The lemmas follow one synchronisation through its steps, and another
that enters takes `alone` from both.

`RpzRelayProofs` proves, for every width of serials, every sequence of versions,
every bound on the deltas, and any number of faults:

| Theorem | Statement | Assumptions |
|---|---|---|
| `SerialOrder` | no serial is newer than itself; of two, at most one is newer | none |
| `RelayTypeCorrect` | `Spec => []TypeOK` | none |
| `SerialsNeverGoBack` | `Spec => SerialsOnlyAdvance` | none but `UpstreamAssumption` |
| `RawNeverMixes` | `Spec => []RawIsAVersion` | `SafeStarts` |
| `SecondariesNeverMix` | `Spec => []ClientNeverMixes` | `SafeStarts` |
| `FilesAgree` | `Spec => []PublishedTogether` | `SafeStarts` |
| `RelayFollowsUpstream` | `Spec => RelayFollows`: the relay's list implements `VersionedCopy` | `SafeStarts` |
| `SecondaryFollowsRelay` | `Spec => SecondaryFollows`: so does the secondary's zone | `SafeStarts` |
| `SecondaryFollowsUpstream` | `Spec => Chain!Spec`: the secondary's zone is a copy of the upstream's | `SafeStarts` |

`RelayAssumption` says that versions have different serials, and that lists are
sets of domains. `UpstreamAssumption` says that the upstream moves its serial by less
than half the circle from one version to the next, as RFC 1982 asks of it; a zone that
jumped further would be older than itself. `SafeStarts` leaves out the start of `rpz_lost_raw`: a relay with
a bootstrap URL that has a state and no raw file; there `RawIsAVersion` is false.
The invariant `IInv` has one conjunct per place that holds a version. `StateInv`:
the recorded serial was published. `SyncInv`: an IXFR starts from the recorded
serial, and what is being published is no older than that. `RawInv`: the list is
*some* version between the recorded serial and the one being published, which is
what makes the repetition of an interrupted IXFR harmless. `DeltaInv`: every kept
delta leads from one published version to a later one. `ClientInv`: the secondary
holds a version that the relay's state has reached, or is about to. The lemma
`DeltaIsExact` joins them: a delta from `v` to `w` takes *every* version between the
two to `w`, because it decides each domain that any step mentions.

`RelayTypeCorrect` needs no `SafeStarts`: a weaker invariant, `Grounded`, says only
what keeps the types, so that it holds of the mixed list as well.

`SerialsNeverGoBack` holds from every start too, and rests on an invariant of its own,
`OrderInv`. That two serials are in order does not follow from the order of the
versions behind them, since serials wrap and a relay without its raw file compares
with 0 in place of its serial. What does hold is that every serial in use (recorded,
given to the secondary, or announced to the Sync in progress) was published and
reaches, in less than half a circle, each version that was published since (`Reach`,
`Follows`); `Publish` keeps that up because the upstream waits for its followers
(`InReach`). What Sync is about to record is behind none of them (`Announced`); and
the memory and the file never differ, because `State.Save` comes before the assignment
to `App.state`. `DistancesAdd` and `ReachFrom` are the arithmetic on the circle.

The refinements of `VersionedCopy` need `FollowInv`: `held` names a version that is
published and that the raw file is the zone of, the secondary's version is no later
than that, and a publication never starts from a later version than it leads to. The
last is why a transfer that is *repeated* after an interruption does not take the list
back, and `client.version <= held` why neither the deltas in the state nor a full
transfer under an older serial give the secondary more than the relay has.

`EdgeDatabaseProofs` proves, for every number of goroutines, every set of circumstances,
and any number of edits, failures and deaths:

| Theorem | Statement | Assumptions |
|---|---|---|
| `DatabaseTypeCorrect` | `Spec => []TypeOK` | none |
| `PublishedAlwaysComplete` | `Spec => []PublishedComplete`: what `trust.db` names is there and whole, unless the build that came last to the link dropped an error of the link or of the rename before it | none |
| `MasterFollowsList` | `Spec => MasterFollows`: the publication implements a lossy `VersionedCopy` of the operator's list | none |
| `EdgeAlwaysWhole` | `Spec => []EdgeInstallsWhole`: `blacklist.db` never names half a file, and one that is there unless a move failed in the run that came last to the link | `KillsAlone` |
| `EdgeFollowsMaster` | `Spec => EdgeFollows`: without a mirror, the edge's database implements a lossy `VersionedCopy` of the publication | `KillsAlone` |
| `EdgeFollowsOperator` | without a mirror, every step is one of `Chain`: the edge's database is a copy of the operator's list | `KillsAlone` |

`BoundAssumption`, `FreshAssumption`, `MixtureAssumption` and `MirrorAssumption` say that
bounds are natural numbers and that the markers are no contents. `KillsAlone`: a deployment
in which runs of the script are killed has one source, its requests are answered, and the
files of its master can be written. The run `edge_partial` shows that it cannot simply be
dropped.

What they leave open is what the code does: after a dropped error `trust.db` may name no
file, until a build that drops none; a database may lack what could not be read of its list,
or the feeds; an edge may serve nothing after a failed move, and a mixture of builds after a
download over a publication. What they exclude is half a file, and a database of an older
list than the one before it.

The master's invariant `MInv` says that at most one goroutine is past `IsBuilding`
(`OneBuild`), what the temporary file and its plan hold at each of its steps
(`Compiled`), that a database on disk is under the name of its content (`Named`), that what
the link names is on disk unless `lost` (`Published`), that no build runs with an older
list than the published one (`Ordered`), and that where files can be written nothing is
ever lost (`DiskWorks`). `Ordered` is what makes the publication a copy that never goes
back: the list is read inside the guarded region, so that `Link` moves from an older list
to a later one, and none later than what the operator has saved. The edge's invariant
`EInv` adds four facts. `Whole`: only a whole file gets past a download. `Unfinished`: a
half-done temporary file that a killed run left is always followed by a download, because
the next run is forced, or has no database, or is told that there is a newer file; that run
removes it before it could be installed. `Later`: what is newer than an edge's file has a
list that is no older. `OnTheWay`: what is being downloaded, a mixture included, lies
between what the edge serves and what the master publishes, which is what `EdgeFollows`
asks of the step that links it.
`EdgeFollows` is an action property under `~setup.mirror` rather than the
specification `Edge!Spec`, because `Setups` may hold deployments with a mirror beside
others, and a mirror takes an edge back (see below).

`PanelSettingsProofs` proves, for every number of requests of every kind:

| Theorem | Statement | Assumptions |
|---|---|---|
| `SettingsTypeCorrect` | `Spec => []TypeOK` | `SettingsAssumption` |
| `FilesStayWhole` | `Spec => []WholeUnlessOverlapped` | `SettingsAssumption` |
| `ChangesAreKept` | `Spec => []AckedChangesKept` | `SettingsAssumption` |
| `LocalBlockInForce` | `Spec => []ListInForce` | `SettingsAssumption` |

`SettingsAssumption` says what kinds of requests there are, and tells the markers from
texts. The invariant says, for a file that no two requests were saving at once, that one
request at most is saving it (`Single`), what that request has open, what the temporary
file holds at each of its steps, and that its text is the file with the request's own
settings changed (`Progress`), so that the rename loses no other setting; and that a change
is in its file from the rename on until it is `replaced` (`Kept`). So `ChangesAreKept` says
who may undo a change that was answered with success: a later request that sets the same
setting, as `--set-rpz` does with the block mode. A temporary file that a failed write left
is harmless: the next writer truncates it. `MCPanelSettings` is an instance of the module,
with its configuration, on which TLC finds the same invariants to hold (68,650 states); it
is kept to explore the module and is none of the runs above.

Only model-checked: liveness (`SilentGoesOffline`, `Converges`, `TokenGetsUsed`,
`DeletionIsShown`), which is out of the prover's reach. Every other property of a passing
run is also proved.

## Behaviours worth knowing

Findings, each with a run that shows it:

- **A token printed by the command line tool is refused** (`registry_cli`).
  `dnsdist-panel -enrollment-token` adds the token to the file (`main.go:1333`);
  the running panel read the file when it started and never reads it again. It
  refuses the token, and its next save erases it. The message says the token is
  valid for 24 hours, and `setup/setup-master.sh:703` recommends this way.
- **After a refused profile the reported hash and the SmartDist file disagree**
  (`profile_refused`). `smartdist_agent.go:97` replaces the SmartDist file before
  the dnsdist section is checked. When the section is refused, the hash stays
  that of the former profile. Once the operator goes back to the former profile,
  the hashes agree, nothing is written, the master shows `synced`, and the
  SmartDist file remains that of the refused profile.
- **A bootstrap keeps the serial of a lost list** (`rpz_lost_raw`). The relay has a
  state file, a bootstrap URL and no raw file, and its first Sync fails.
  `Bootstrap` (`tools/rpz-master/main.go:91-123`) downloads the bootstrap list and
  leaves the serial alone. The list is served under the serial of the former zone;
  while the upstream rests nothing is transferred, and the next IXFR takes the
  bootstrap list as its base. `tools/rpz-master/README.md`, 10.2 and 10.3, says that
  the serial is 0 after a bootstrap and warns of just this mixture.

- **An edge installs a database it did not download completely** (`edge_partial`). A
  request for the master's time stamp is not answered in 15 s, which counts like "there
  is a newer one" (`setup/update-blacklist.sh:104`); the download begins, and the
  script is killed in the middle. The next run is answered 304, which counts as a
  success (`:99`), finds the file the first one left, hashes *that* and links it
  (`:213`, `:233`). The name is the hash of what was found; it is compared with
  nothing, and the master's manifest is not asked. `docs/CLUSTER-PLAN.md:187` says
  that a node never installs a database that fails its verification.

Behaviours met while modelling, which the properties are stated around:

- *JSON engine, a failed save.* The error of the save that removes a token is
  dropped (`cluster.go:213`): after a restart the token is back, and enrols a
  second node. `DeleteNode` takes the node out of the map before its save
  (`:457`): when that fails the answer is an error, the node is refused, and a
  restart brings it back; a second attempt answers "not found". Hence `revoked`
  counts only the deletions that were answered with success.
- *The command line tool, a lost update.* It writes back what it loaded: a node
  that is deleted in between is in the file again, and returns with the next
  restart; a node that registers in between is missing. Hence the condition on
  `cliLeft` in `RevokedStaysRevoked`. With an SQL engine configured, the tool
  still writes the JSON file.
- *SQL engines, disputed tokens.* `SELECT`, `DELETE` and the check of the clock
  are not a transaction, and the number of rows deleted is not looked at: two
  panels on one PostgreSQL database may both accept a token. `SingleUseUnlessDisputed`
  says that these are the only ways, with the `DELETE` that fails.
- *A registration whose answer is lost*, the master's to the edge or the database's to the
  master (`pgstore.go:183`), leaves a node on the master that no edge is, and spends its
  token. In the second case the edge is even told that it was refused. The edge tries again with the same token at every tick
  (`cluster.go:965`), and is refused for good: an operator has to delete the ghost and
  connect the edge with a new token. `TokenGetsUsed` therefore promises an identity *or*
  a spent token.
- *Two registrations of one edge.* The loop and the page may both be in `Register`. The
  answer that comes last decides (`:836`), even if an operator connected the edge in the
  meantime; the other node remains on the master, silent.
- *A deleted node never registers again.* The edge keeps its identity, sends a refused
  heartbeat at every tick and shows the error (`:917`); `run` looks for an identity, not
  for a valid one. A heartbeat for an *earlier* node of the edge that is answered late
  clears the error for a while (`:928`), until the next refused one sets it again.
  `DeletionIsShown` (`~> []`) says that from some moment on the error stays, until the
  edge is connected anew.
- *A state file that cannot be written* (`:840`, the error is dropped): the edge works
  until it restarts, then has its former identity or none; its node is a ghost.
- *Two writers of one settings file.* `atomicWrite` has one temporary name per file, and
  only the block list has a mutex. The second writer truncates what the first is about
  to rename, or goes on writing into a file that is already in place: dnsdist may then
  be restarted with half a file. Where they merely alternate, one of two changes of
  `dnsdist.conf` is lost, although both were answered with success: both read the file
  first. `CHANGELOG.md:296` calls the writing atomic, which it is for one writer.
- *`--set-rpz` overwrites the block mode.* Setting the sinkhole also sets `BLOCK_MODE` to
  `rpz` (`setup/setup-edge.sh:538-541`): a block mode that was acknowledged before is undone
  by a request that is about something else.
- *A restart that fails* is reported for the block list and for the sinkhole. The
  handlers of SafeSearch, DoT and DoH, and of the block mode log it and answer "ok"
  (`main.go:1060`, `:1105`, `:1147`), so that a change they acknowledged may not be in
  force. `ListInForce` is about the block list.
- *A node assigned twice in one request* (`ids` names it twice) gets two history
  entries (`smartdist_profile.go:435` records per entry of the list, with the
  former value of the node). The run uses lists of different nodes;
  `recordLocked` takes the number of times as its argument.
- *A profile that cannot be deleted.* A node deleted after the handler looked it
  up, or any time after it was assigned, keeps its assignment in the store, and
  the assigned profile counts as in use. `AssignMany` refuses the empty profile
  (`:411`, although the comment at `:635` says that it releases), so that no
  request can release it (`AssignmentIsNeverReleased`).
- *Two synchronisations at once.* The handler that registers a node sends a heartbeat too
  (`cluster.go:847`), and starts a synchronisation of its own. The two share
  `dnsdist-profile.lua.new` without a lock (`smartdist_dnsdist_apply.go:58-76`): A
  writes a good section and checks it, B overwrites the file with a refused one,
  A renames it into place. `OnlyLoadableActive` excuses that only while `mixed`: until one
  synchronisation that has the files alone gets dnsdist restarted. The run has both
  senders, and shows that the node converges after it.
- *A rollback that fails.* `os.Remove` of a new active file is not checked
  (`smartdist_dnsdist_apply.go:92`): where there was no old file, the file that dnsdist
  failed to start with stays active. And an active file that cannot be *read* counts as
  none (`:53`): it is not backed up, and a rollback then removes it.
- *A crash between the rename and the restart.* The next attempt finds that the
  file already has the section (`:54`), restarts nothing and raises the hash:
  dnsdist keeps running the former section until something else restarts it. For
  this reason no property says that `running` is what the hash names.
- *A cut heartbeat answer* decodes to "no profile" (`cluster.go:925`), and the
  agent disables the profile it has until its next heartbeat.
- *Relay, a publication that is interrupted.* The files are ahead of the state, and
  an AXFR gives the newer list under the older serial. The next Sync repairs it:
  it repeats the transfer from the recorded serial. That is right because an IXFR
  mentions every domain that any step on the way changed; an upstream that condenses
  steps (RFC 1995 allows it) and moves on in between could leave a domain behind
  that came and went. The model's upstream does not condense.
- *Relay, the first transfer and high serials.* A relay without a serial counts as
  serial 0; an upstream serial of 2^31 or more is then not "greater"
  (`main.go:147`), and the first Sync reports success without a transfer. The same
  after the loss of the raw file. `Publish` keeps the upstream within half the
  circle of its followers (`InReach`), where RFC 1982 defines the comparison.
- *Relay, serial 0.* An upstream whose serial is 0, which a wrap can reach, is not
  checked against the transfer (`slave_client.go:172`), and a recorded serial 0
  means "unknown": the next transfer is an AXFR. The run passes through it.
- *Two builders on one master.* `IsBuilding` belongs to a process. A master may have
  both the panel with `-build-interval 6h` (`setup/setup-master.sh:657`) and a cron
  job that builds with a process of its own (`:336`), every six hours too. They share
  `trust_building.tmp`, and the cleanup of the one removes what the other has renamed
  and not linked yet. The properties of `MasterBuild` are those of one process.
- *What a build cannot read it leaves out*, under status "success": a feed that cannot be
  fetched, a list that cannot be opened (`panel/builder.go:354`), the rest of one that
  cannot be read on (`:361-432`). An empty CDB is 2048 bytes long, so that the tests of the
  size, here and on the edge, refuse none.
- *An error page is cached for a feed.* No status but the `HEAD`'s 404 is looked at: the
  body of a 503 is stored like a feed, under the ETag that the `HEAD` gave (`:216-218`), and
  the builds of the ticker, which are not forced, take it from the cache until the feed's
  ETag changes or an operator builds by hand. Hence `~poisoned` in `Converged`.
- *A publication drops most of its errors* (`:460-493`). After a rename or a link that
  failed, the cleanup removes every database but the one just named, the one that `trust.db`
  still names among them; edges are refused until the next build. The same on the edge: the
  `mv` is not checked (`setup/update-blacklist.sh:222`), and the cleanup then removes the
  database that worked. `PublishedComplete` and `EdgeInstallsWhole` name these ways out
  (`lost`, `elost`), and `Converges` says that the next builds and runs repair them.
- *A download over a publication.* `aria2c` opens eight ranges, each of which the master
  resolves anew; where two builds have the same length the edge may install a mixture of
  both, under the hash of the mixture. It compares that with nothing. The next newer file
  replaces it.
- *Two saves of the custom list at once* write through one temporary file
  (`panel/master_custom_blacklist.go:73`): the list may become a mixture, under answers that
  say it was saved. `Converged` promises the list *as it is in the file*.
- *A change of the list during a build* is answered "started", and the build it starts
  is refused; the list is published by the next build.
- *A link left by a death.* `os.Symlink` fails, unnoticed, when `blacklist.db.tmp` is
  still there (`panel/builder.go:492`): the master's own `blacklist.db` is then renamed
  to a link that may name a file which the cleanup has removed, until the next build.
- *304 and a publication during a download.* The edge's file is as old as the end of
  its download. A build that is published between the beginning and the end is older
  than that, and the edge is told 304 ("the database is the newest") until the next
  build. `Converges` holds because builds go on.
- *A mirror* may take an edge back to an older list, and its time stamp then hides the
  master's newer file until the next build. Hence `~setup.mirror` in
  `EdgeFollows`.
- *A download of what the edge has* leaves `blacklist.db.tmp` behind, and the time stamp
  of the database as it was: the next run downloads again.
- *SQL engines have no `VerifyNodeKey`*: an agent of such a master is refused
  every profile download (`smartdist_profile.go:543-549`).

## Not modelled

- Conversions without state of their own: the Lua generators
  (`smartdist_lua.go`, `smartdist_dnsdist_lua.go`), the validation of a profile
  document, the CDB generators, statistics, status and block pages.
- Cryptography: JWTs, password hashes, the randomness of keys and identifiers
  (identifiers and tokens are drawn fresh, as 128 random bits are).
- dnsdist's evaluation of packet rules and its Lua plugins: an external program,
  of which only "accepts this file" and "restarted" matter here.
- Installation scripts, except where they document a behaviour.
- Time: the life of a token and the silence of a node are events that may happen
  at any moment, not durations.
- Of the relay: transfer slots (each is given back by a deferred receive), the ACL,
  TSIG, the HTTP handlers, the source modes other than `rpz-slave`, and the command
  line actions run beside the daemon, which share its files without a lock.
- Of the databases: their lengths (any two may be equal, which a mixture needs); the hash of
  the file just written is taken to be that of its content (`io.Copy`'s error at
  `panel/builder.go:452` is dropped); leftovers of a failing `os.Remove`, `rm -f` or `ln` on
  a temporary link, and a failing `sha256sum`; two different mixtures of builds of one list
  have one name; a second process that builds, two runs of the script at once (they
  share `blacklist.db.tmp`), the manifest route, the hash cache and the list of peers
  of the publisher, and the changes of the white list and of the sources, which start
  no build.
- Of the edge agent: `Stop`, which only tests call, a change of the master's URL, and the
  time between two ticks.
- Of the settings: `--set-upstream`, the password, the sources and white list of the
  master and the block page, which are written with `atomicWrite` too, and the
  validation of domains, addresses and paths.
- The rate limiters, dnstap and the proxy, see the plan.

## Plan

Done, in this order: `EnrollContract`, `ClusterRegistry` and its proofs,
`SqlRegistry`, `SmartDistStore` and its proofs, `ProfileSync` and its proofs,
`SerialArith`, `RpzRelay` and its proofs, `MasterBuild` and `EdgeDatabase` and their
proofs, `Enrolment` and its proofs, the refinement and the proofs of `SqlRegistry`,
`PanelSettings` and its proofs, `VersionedCopy` with its four refinements and their
proofs. What could follow:

| Module | Models | Aimed at |
|---|---|---|
| `RateLimiters` | CDB buckets, login failures | bounds on accepted requests and on memory, under concurrency and eviction |
| `DnstapAggregator` | bounded aggregation, the readers of connections | bounded memory; readers that end |

Bounds for them: two addresses, a table of two and two concurrent logins. `MasterBuild`
can get a second process, to show which of its properties the cron job breaks.

Theorems still worth proving: `ContractPaysOnce` carried through the refinement of
`ClusterRegistry`, as what the JSON engine's own state then says.
