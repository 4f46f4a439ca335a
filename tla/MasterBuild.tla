------------------------------ MODULE MasterBuild ------------------------------
(***************************************************************************)
(* The feed builder of the master panel (panel/builder.go) and the ways it *)
(* is started (panel/main.go, panel/master_custom_blacklist.go).           *)
(*                                                                         *)
(* A build compiles the lists into trust_building.tmp, renames that file   *)
(* to trust.<sha256>.db, points the symlink trust.db at it, removes the    *)
(* other trust.<sha256>.db files, writes manifest.json and repoints the    *)
(* master's own blacklist.db.  Most of these steps may fail unnoticed: the *)
(* build drops the error and goes on.  The panel may die between any two   *)
(* of them; the files stay.                                                *)
(*                                                                         *)
(* A database is named by its content, so a name IS a content.  A content  *)
(* is the version of the custom blacklist it was compiled from, whether    *)
(* that list was read to its end, and whether the feeds are in it.         *)
(***************************************************************************)
EXTENDS Integers

CONSTANTS
  Requests,    \* goroutines that POST handlers may have started at one time
  MaxEdits,    \* bound: saves of the custom blacklist
  Setups,      \* the deployments considered: members of Circumstances
  None,        \* no file, no link
  Partial,     \* a file still being written, and the name such a file hashes to
  Ticker,      \* the goroutine of the periodic build
  Tmp          \* a temporary file: trust_building.tmp here, blacklist.db.tmp on the edge

\* What may fail on the master: a feed, the reading of a list, a write to a file; and
\* on an edge: a request, a request that gets no answer, a move of a file; and the
\* update script may be killed.
AllFaults == {"feeds", "lists", "disk", "requests", "timeouts", "edgedisk", "kills"}

\* What may fail, who posts, how often the list is saved, how often a panel or a script
\* dies, whether there is an edge, and whether it has a mirror as its second source.
Circumstances == [faults : SUBSET AllFaults, clients : SUBSET Requests, edits : 0..MaxEdits,
                  deaths : Nat, edge : BOOLEAN, mirror : BOOLEAN]

Content == [list : 0..MaxEdits, whole : BOOLEAN, feeds : BOOLEAN]

\* What sha256sum can be given, and so what a database can be called.
Name == Content \union {Partial}

ASSUME BoundAssumption == MaxEdits \in Nat /\ Setups \subseteq Circumstances
ASSUME FreshAssumption ==
  /\ None \notin Name
  /\ Partial \notin Content
  /\ Tmp \notin Name \union {None}
  /\ Ticker \notin Requests

Builders == Requests \union {Ticker}

VARIABLES
  setup,      \* the circumstances of this deployment
  trouble,    \* things may still fail
  crashes,    \* how often a panel or a script died
  list,       \* version of the custom blacklist file, 0 when there is none
  listWhole,  \* it is what one request posted
  clash,      \* two requests are writing it through one temporary file
  poisoned,   \* an error page is cached for a feed, under the feed's own ETag
  pc,         \* where each goroutine is
  plan,       \* what it compiled, then the name it computed
  building,   \* masterState.IsBuilding
  tmp,        \* content of trust_building.tmp
  dbs,        \* trust.<name>.db: name -> content
  link,       \* the name trust.db points at
  lost,       \* history: the last build that came to the link dropped an error there
  manifest,   \* the name in manifest.json
  localTmp,   \* the name the master's own blacklist.db.tmp points at
  localLink,  \* the name the master's own blacklist.db points at
  newer       \* each file on the edge -> the master's files modified after it

world == <<setup, trouble, crashes>>
inputs == <<list, listWhole, clash, poisoned>>
job == <<pc, plan, building>>
published == <<dbs, link, lost>>
names == <<manifest, localTmp, localLink>>
buildVars == <<inputs, job, tmp, published, names>>
masterVars == <<world, buildVars, newer>>

BuildPC == {"idle", "saving", "called", "compile", "close", "rename", "link", "unnamed",
            "cleanup", "manifest", "local", "localswap"}

MasterTypeOK ==
  /\ setup \in Setups
  /\ trouble \in BOOLEAN
  /\ crashes \in 0..setup.deaths
  /\ list \in 0..setup.edits
  /\ listWhole \in BOOLEAN
  /\ clash \in BOOLEAN
  /\ poisoned \in BOOLEAN
  /\ pc \in [Builders -> BuildPC]
  /\ plan \in [Builders -> Name \union {None}]
  /\ building \in BOOLEAN
  /\ tmp \in Name \union {None}
  /\ dbs \in [Name -> Name \union {None}]
  /\ lost \in BOOLEAN
  /\ {link, manifest, localTmp, localLink} \subseteq Name \union {None}

MasterInit ==
  /\ setup \in Setups
  /\ trouble = (setup.faults # {})
  /\ crashes = 0
  /\ list = 0 /\ listWhole = TRUE /\ clash = FALSE /\ poisoned = FALSE
  /\ pc = [b \in Builders |-> "idle"]
  /\ plan = [b \in Builders |-> None]
  /\ building = FALSE
  /\ tmp = None
  /\ dbs = [n \in Name |-> None]
  /\ link = None /\ lost = FALSE
  /\ manifest = None /\ localTmp = None /\ localLink = None

\* How a step may end that this fault makes fail.
May(fault) == IF trouble /\ fault \in setup.faults THEN BOOLEAN ELSE {TRUE}

Goto(b, place) == pc' = [pc EXCEPT ![b] = place]

\* The deferred function of BuildMasterCDB: every return passes through it.
Return(b) ==
  /\ Goto(b, "idle")
  /\ plan' = [plan EXCEPT ![b] = None]
  /\ building' = FALSE

--------------------------------------------------------------------------------
(* Triggers *)

Savers == {b \in Requests : pc[b] = "saving"}

\* POST /api/master/custom-blacklist: the temporary file is opened, whoever is
\* writing to it already.
BeginSave(b) ==
  /\ b \in setup.clients
  /\ pc[b] = "idle"
  /\ list < setup.edits
  /\ clash' = (clash \/ Savers # {})
  /\ Goto(b, "saving")
  /\ UNCHANGED <<world, list, listWhole, poisoned, plan, building, tmp, published, names, newer>>

\* The file is written and renamed, and a build is started whether or not one is
\* running; the answer is "started" either way.  Where two wrote at once the list
\* may be a mixture, and one of them may find that the other has renamed the file it
\* wrote to: it has changed the list in place, answers with an error and starts
\* nothing.
EndSave(b) ==
  /\ pc[b] = "saving"
  /\ list < setup.edits
  /\ list' = list + 1
  /\ listWhole' \in IF clash THEN BOOLEAN ELSE {TRUE}
  /\ clash' = (clash /\ Savers # {b})
  /\ \/ Goto(b, "called")
     \/ clash /\ Goto(b, "idle")
  /\ UNCHANGED <<world, poisoned, plan, building, tmp, published, names, newer>>

\* The list as a request leaves it that goes no further.
Torn == IF clash /\ list > 0 THEN BOOLEAN ELSE {listWhole}

\* The write or the rename fails.
SaveFails(b) ==
  /\ pc[b] = "saving"
  /\ clash \/ FALSE \in May("disk")
  /\ listWhole' \in Torn
  /\ clash' = (clash /\ Savers # {b})
  /\ Goto(b, "idle")
  /\ UNCHANGED <<world, list, poisoned, plan, building, tmp, published, names, newer>>

\* POST /api/master/build: refused with 409 while a build runs.  The test and
\* the goroutine's own test are two critical sections.
RequestBuild(b) ==
  /\ b \in setup.clients
  /\ pc[b] = "idle"
  /\ ~building
  /\ Goto(b, "called")
  /\ UNCHANGED <<world, inputs, plan, building, tmp, published, names, newer>>

\* The periodic build calls BuildMasterCDB from the ticker's own goroutine.
Tick ==
  /\ pc[Ticker] = "idle"
  /\ Goto(Ticker, "called")
  /\ UNCHANGED <<world, inputs, plan, building, tmp, published, names, newer>>

--------------------------------------------------------------------------------
(* BuildMasterCDB *)

MutEnter(b) ==
  /\ pc[b] = "called"
  /\ Goto(b, "compile") /\ building' = TRUE
  /\ UNCHANGED <<world, inputs, plan, tmp, published, names, newer>>

\* Only one goroutine gets past IsBuilding; the others return an error that
\* every caller drops.
Enter(b) ==
  /\ pc[b] = "called"
  /\ \/ building /\ Goto(b, "idle") /\ UNCHANGED building
     \/ ~building /\ Goto(b, "compile") /\ building' = TRUE
  /\ UNCHANGED <<world, inputs, plan, tmp, published, names, newer>>

\* downloadSourceToFile for all feeds: whether the build has them.  Only the builds of
\* requests are forced to download; the ticker's use the cache of a feed whose ETag is
\* still that of the cache.  No status is checked but the HEAD's 404: an error page is
\* stored like a feed, under the ETag that the HEAD gave.
FetchFeeds(b, feeds) ==
  \/ b = Ticker /\ feeds = ~poisoned /\ UNCHANGED poisoned
  \/ feeds /\ poisoned' = FALSE
  \/ ~feeds /\ FALSE \in May("feeds") /\ poisoned' \in BOOLEAN

\* The custom blacklist is read as it is now.  One that cannot be opened is skipped
\* and one that cannot be read to its end is cut, both unnoticed.
Compile(b) ==
  /\ pc[b] = "compile"
  /\ \E feeds \in BOOLEAN, read \in May("lists") :
       /\ FetchFeeds(b, feeds)
       /\ plan' = [plan EXCEPT ![b] =
            [list |-> list, whole |-> list = 0 \/ (listWhole /\ ~clash /\ read), feeds |-> feeds]]
  /\ tmp' = Partial
  /\ Goto(b, "close")
  /\ UNCHANGED <<world, list, listWhole, clash, building, published, names, newer>>

\* No feed could be fetched and there is no custom blacklist to be seen.
NoSource(b) ==
  /\ pc[b] = "compile"
  /\ FALSE \in May("feeds")
  /\ list = 0 \/ FALSE \in May("lists")
  /\ Return(b)
  /\ UNCHANGED <<world, inputs, tmp, published, names, newer>>

\* A directory or the temporary file cannot be made.
CreateFails(b) ==
  /\ pc[b] = "compile"
  /\ FALSE \in May("disk")
  /\ \E feeds \in BOOLEAN : FetchFeeds(b, feeds)
  /\ tmp' \in {tmp, None}
  /\ Return(b)
  /\ UNCHANGED <<world, list, listWhole, clash, published, names, newer>>

\* A write to the temporary file or closing it fails, or it cannot be opened again.
WriteFails(b) ==
  /\ pc[b] = "close"
  /\ FALSE \in May("disk")
  /\ tmp' \in {None, plan[b]}
  /\ Return(b)
  /\ UNCHANGED <<world, inputs, published, names, newer>>

\* The file is closed, and what is found under its path is hashed; if the path
\* is gone the build gives up.  An empty CDB is 2048 bytes long, so the size test
\* refuses none.
Close(b) ==
  /\ pc[b] = "close"
  /\ IF tmp = None
     THEN Return(b) /\ UNCHANGED <<tmp, newer>>
     ELSE /\ tmp' = IF tmp = Partial THEN plan[b] ELSE tmp
          /\ plan' = [plan EXCEPT ![b] = tmp']
          /\ newer' = [f \in DOMAIN newer |-> newer[f] \union {Tmp}]
          /\ Goto(b, "rename")
          /\ UNCHANGED building
  /\ UNCHANGED <<world, inputs, published, names>>

\* Whatever is under the temporary path takes the computed name, with its
\* modification time; or it does not, and the build goes on.
Rename(b, ok) ==
  /\ pc[b] = "rename"
  /\ IF ok /\ tmp # None
     THEN /\ dbs' = [dbs EXCEPT ![plan[b]] = tmp]
          /\ newer' = [f \in DOMAIN newer |->
                         IF Tmp \in newer[f] THEN (newer[f] \ {Tmp}) \union {plan[b]}
                                             ELSE newer[f] \ {plan[b]}]
          /\ tmp' = None
          /\ Goto(b, "link")
     ELSE UNCHANGED <<dbs, newer, tmp>> /\ Goto(b, "unnamed")
  /\ UNCHANGED <<world, inputs, plan, building, link, lost, names>>

\* A new symlink is renamed over trust.db, or that fails; the build goes on.
Link(b, ok) ==
  /\ pc[b] \in {"link", "unnamed"}
  /\ link' = IF ok THEN plan[b] ELSE link
  /\ lost' = ~(ok /\ pc[b] = "link")
  /\ Goto(b, "cleanup")
  /\ UNCHANGED <<world, inputs, plan, building, tmp, dbs, names, newer>>

\* The files that cleanupVersionedDBs removes: all but the one just named, or those
\* before the first that cannot be removed.
Removed(b, ok) == LET old == Name \ {plan[b]} IN IF ok THEN {old} ELSE SUBSET old

\* Only the file just named is kept, whether or not trust.db names it.
Cleanup(b, ok) ==
  /\ pc[b] = "cleanup"
  /\ \E removed \in Removed(b, ok) :
       /\ dbs' = [n \in Name |-> IF n \in removed THEN None ELSE dbs[n]]
       /\ newer' = [f \in DOMAIN newer |-> newer[f] \ removed]
  /\ Goto(b, "manifest")
  /\ UNCHANGED <<world, inputs, plan, building, tmp, link, lost, names>>

\* The manifest is written, or not.
WriteManifest(b, ok) ==
  /\ pc[b] = "manifest"
  /\ manifest' = IF ok THEN plan[b] ELSE manifest
  /\ Goto(b, "local")
  /\ UNCHANGED <<world, inputs, plan, building, tmp, published, localTmp, localLink, newer>>

\* The master's own node: os.Symlink fails, unnoticed, on a link that a build
\* which died or failed here has left.
LinkLocal(b, ok) ==
  /\ pc[b] = "local"
  /\ localTmp' = IF ok /\ localTmp = None THEN plan[b] ELSE localTmp
  /\ Goto(b, "localswap")
  /\ UNCHANGED <<world, inputs, plan, building, tmp, published, manifest, localLink, newer>>

MutSwapLocal(b, ok) ==
  /\ pc[b] = "localswap"
  /\ IF ok /\ localTmp # None
     THEN localLink' = localTmp /\ localTmp' = None
     ELSE UNCHANGED <<localLink, localTmp>>
  /\ Goto(b, "idle")
  /\ plan' = [plan EXCEPT ![b] = None]
  /\ UNCHANGED <<world, inputs, building, tmp, published, manifest, newer>>

SwapLocal(b, ok) ==
  /\ pc[b] = "localswap"
  /\ IF ok /\ localTmp # None
     THEN localLink' = localTmp /\ localTmp' = None
     ELSE UNCHANGED <<localLink, localTmp>>
  /\ Return(b)
  /\ UNCHANGED <<world, inputs, tmp, published, manifest, newer>>

\* The panel dies and is restarted; only the files are left.
PanelDies ==
  /\ \E b \in Builders : pc[b] # "idle"
  /\ crashes < setup.deaths
  /\ crashes' = crashes + 1
  /\ pc' = [b \in Builders |-> "idle"]
  /\ plan' = [b \in Builders |-> None]
  /\ building' = FALSE
  /\ listWhole' \in Torn
  /\ clash' = FALSE
  /\ UNCHANGED <<setup, trouble, list, poisoned, tmp, published, names, newer>>

\* Feeds, disks and network work from now on.
Recover ==
  /\ trouble
  /\ trouble' = FALSE
  /\ UNCHANGED <<setup, crashes, buildVars, newer>>

\* The steps of a build on the files it publishes.
FileStep(b) ==
  \E ok \in May("disk") :
    \/ Rename(b, ok) \/ Link(b, ok) \/ Cleanup(b, ok) \/ WriteManifest(b, ok)
    \/ LinkLocal(b, ok) \/ SwapLocal(b, ok)

\* The steps of a goroutine that has begun.
BuildStep(b) ==
  \/ EndSave(b) \/ SaveFails(b) \/ Enter(b) \/ Compile(b) \/ NoSource(b) \/ CreateFails(b)
  \/ WriteFails(b) \/ Close(b) \/ FileStep(b)

MasterNext ==
  \/ \E b \in Requests : BeginSave(b) \/ RequestBuild(b)
  \/ Tick
  \/ \E b \in Builders : BuildStep(b)
  \/ PanelDies
  \/ Recover

\* The ticker fires for ever, the scheduler runs every goroutine, and the trouble ends.
MasterFairness ==
  /\ WF_masterVars(Tick)
  /\ \A b \in Builders : WF_masterVars(BuildStep(b))
  /\ WF_masterVars(Recover)

--------------------------------------------------------------------------------
(* Properties *)

\* What trust.db names is on disk, whole, and the content it is named by, unless the
\* build that came last to the link dropped an error of the rename before it or of the
\* link itself: BuildMasterCDB renames before it links, cleans up after, and never runs
\* twice.
PublishedComplete == ~lost /\ link # None => dbs[link] = link /\ link # Partial

\* The list that a database was compiled from; -1 for anything else.
ListOf(db) == IF db \in Content THEN db.list ELSE -1

\* The contents that a database of each list may have.
Compilations == [l \in 0..MaxEdits |-> [list : {l}, whole : BOOLEAN, feeds : BOOLEAN]]

\* What is behind trust.db, as a copy of the operator's list.
Feed == INSTANCE VersionedCopy WITH
  Contents <- Compilations, Nothing <- None, Lossy <- TRUE,
  source <- list, copy <- ListOf(link), content <- IF link = None THEN None ELSE dbs[link]

\* trust.db goes from the database of one version of the operator's list to that of a
\* later one, whatever fails or dies: a build that read an earlier version cannot
\* publish after one that read a later one (BuildMasterCDB, IsBuilding).  After a
\* dropped error it may name no file.
MasterFollows == Feed!Spec
================================================================================
