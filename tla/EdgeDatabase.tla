------------------------------ MODULE EdgeDatabase -----------------------------
(***************************************************************************)
(* The blacklist database of an edge node (setup/update-blacklist.sh), fed *)
(* by the master's builder (MasterBuild).                                  *)
(*                                                                         *)
(* A run of the script goes through its sources in order.  With a          *)
(* database and no force flag it first asks, with If-Modified-Since set to *)
(* the modification time of its own file, whether the source has a later   *)
(* one; otherwise, or when it has, the file is downloaded to               *)
(* blacklist.db.tmp, hashed, renamed to blacklist.<sha256>.db and linked.  *)
(* The sources are the master and, in some deployments, a mirror that      *)
(* serves an old copy.  The download opens several ranges, and the source  *)
(* looks up its file for each of them.  Most failures after the download   *)
(* go unnoticed.  The script may be killed between any two steps.          *)
(***************************************************************************)
EXTENDS MasterBuild, Functions

CONSTANT Mirror  \* the mirror's file, as a file with a modification time

\* What an edge may hold that no build made: ranges of two builds or more, of which
\* the last opened was compiled from list mixed.
Mixture == [mixed : 0..MaxEdits]

EdgeName == Name \union Mixture

ASSUME MixtureAssumption == {None, Partial, Tmp} \intersect Mixture = {}
ASSUME MirrorAssumption == Mirror \notin EdgeName \union {Tmp}

\* What the mirror serves: a build of the first list, made without its feeds.
MirrorContent == [list |-> 0, whole |-> TRUE, feeds |-> FALSE]

Source == {"master", "mirror"}

VARIABLES
  epc,        \* where the run of update-blacklist.sh is
  src,        \* the source it tries
  force,      \* blacklist.db.force exists
  served,     \* what the source has opened for the download
  etmp,       \* content of blacklist.db.tmp
  esum,       \* the name computed for it
  elink,      \* the name blacklist.db points at
  elost,      \* history: the last run that came to the link had a move that failed
  emanifest   \* the name in blacklist.db.manifest.json, or Partial for half a file

edgeVars == <<epc, src, force, served, etmp, esum, elink, elost, emanifest>>
vars == <<masterVars, edgeVars>>

EdgePC == {"idle", "ask", "begin", "receive", "decide", "install", "link",
           "unmoved", "cleanup", "manifest"}

TypeOK ==
  /\ MasterTypeOK
  /\ DOMAIN newer \subseteq EdgeName \union {Tmp}
  /\ \A f \in DOMAIN newer : newer[f] \subseteq Name \union {Tmp, Mirror}
  /\ Tmp \in DOMAIN newer <=> etmp # None
  /\ epc \in EdgePC
  /\ src \in Source
  /\ force \in BOOLEAN
  /\ elost \in BOOLEAN
  /\ {served, etmp, esum, elink, emanifest} \subseteq EdgeName \union {None}

Init ==
  /\ MasterInit
  /\ newer = [f \in {} |-> {}]
  /\ epc = "idle" /\ src = "master" /\ force = FALSE
  /\ served = None /\ etmp = None /\ esum = None
  /\ elink = None /\ elost = FALSE /\ emanifest = None

--------------------------------------------------------------------------------
(* The sources *)

\* The file behind a source's URL: trust.db is resolved to the file it names.
Offered(s) ==
  IF s = "mirror" THEN MirrorContent
  ELSE IF link = None THEN None ELSE dbs[link]

\* That file, as http.ServeFile compares it with If-Modified-Since.
OfferedFile(s) == IF s = "mirror" THEN Mirror ELSE link

\* The database can be read through the symlink.
HasDatabase == elink \in DOMAIN newer

\* The edge's files once blacklist.db.tmp is written (nothing is newer), or removed.
Written == [f \in DOMAIN newer \union {Tmp} |-> IF f = Tmp THEN {} ELSE newer[f]]
Dropped == Restrict(newer, DOMAIN newer \ {Tmp})

--------------------------------------------------------------------------------
(* One run of the script *)

\* Cron, or an operator with --force-update.
Start ==
  /\ setup.edge
  /\ epc = "idle"
  /\ force' \in {force, TRUE}
  /\ src' = "master"
  /\ epc' = "ask"
  /\ UNCHANGED <<masterVars, served, etmp, esum, elink, elost, emanifest>>

LastSource == src = "mirror" \/ ~setup.mirror

\* The next source; after the last one the run fails and keeps the database.
TryNext ==
  IF LastSource THEN epc' = "idle" /\ force' = FALSE /\ UNCHANGED src
                ELSE epc' = "ask" /\ src' = "mirror" /\ UNCHANGED force

Ask ==
  /\ epc = "ask"
  /\ UNCHANGED <<world, buildVars, served, esum, elink, elost, emanifest>>

\* No database, or a forced run: nothing is asked.
AskNothing ==
  /\ Ask
  /\ force \/ ~HasDatabase
  /\ epc' = "begin"
  /\ UNCHANGED <<newer, src, force, etmp>>

\* 200: the source's file was modified after the edge's.
AskNewer ==
  /\ Ask
  /\ ~force /\ HasDatabase
  /\ Offered(src) # None
  /\ OfferedFile(src) \in newer[elink]
  /\ epc' = "begin"
  /\ UNCHANGED <<newer, src, force, etmp>>

\* 304 counts as a success of the run, with no download.
AskUnmodified ==
  /\ Ask
  /\ ~force /\ HasDatabase
  /\ Offered(src) # None
  /\ OfferedFile(src) \notin newer[elink]
  /\ epc' = "decide"
  /\ UNCHANGED <<newer, src, force, etmp>>

\* Any other status: the source is skipped.
AskRefused ==
  /\ Ask
  /\ ~force /\ HasDatabase
  /\ Offered(src) = None \/ FALSE \in May("requests")
  /\ TryNext
  /\ IF LastSource THEN etmp' = None /\ newer' = Dropped ELSE UNCHANGED <<etmp, newer>>

\* No answer within 15 s is status 000, and that goes on to the download.
AskTimeout ==
  /\ Ask
  /\ ~force /\ HasDatabase
  /\ FALSE \in May("timeouts")
  /\ epc' = "begin"
  /\ UNCHANGED <<newer, src, force, etmp>>

\* The old temporary file is removed and the download begins with the file that
\* the source's link names at this moment.
BeginDownload ==
  /\ epc = "begin"
  /\ Offered(src) # None
  /\ served' = Offered(src)
  /\ etmp' = Partial
  /\ newer' = Written
  /\ epc' = "receive"
  /\ UNCHANGED <<world, buildVars, src, force, esum, elink, elost, emanifest>>

\* Nothing is published, or the link names no file: the download is refused.
NothingOffered ==
  /\ epc = "begin"
  /\ Offered(src) = None
  /\ TryNext
  /\ etmp' = None
  /\ newer' = Dropped
  /\ UNCHANGED <<world, buildVars, served, esum, elink, elost, emanifest>>

\* One of aria2c's ranges is opened, or tried again, after the link has moved to a
\* database of the same length.
NextRange ==
  /\ epc = "receive"
  /\ Offered(src) \notin {None, served}
  /\ served' = [mixed |-> Offered(src).list]
  /\ UNCHANGED <<masterVars, epc, src, force, etmp, esum, elink, elost, emanifest>>

Receive ==
  /\ epc = "receive"
  /\ etmp' = served
  /\ newer' = Written
  /\ served' = None
  /\ epc' = "decide"
  /\ UNCHANGED <<world, buildVars, src, force, esum, elink, elost, emanifest>>

MutReceiveFails ==
  /\ epc = "receive"
  /\ Offered(src) # served \/ FALSE \in May("requests")
  /\ TryNext
  /\ served' = None
  /\ UNCHANGED <<masterVars, etmp, esum, elink, elost, emanifest>>

\* aria2c fails, for one because the file has gone or changed its length; or what
\* came is too small.  The temporary file is removed.
ReceiveFails ==
  /\ epc = "receive"
  /\ Offered(src) # served \/ FALSE \in May("requests")
  /\ TryNext
  /\ etmp' = None
  /\ served' = None
  /\ newer' = Dropped
  /\ UNCHANGED <<world, buildVars, esum, elink, elost, emanifest>>

\* A source succeeded.  A temporary file that exists is installed, whoever left
\* it; without one there was nothing to fetch.
Decide ==
  /\ epc = "decide"
  /\ force' = FALSE
  /\ epc' = IF etmp = None THEN "idle" ELSE "install"
  /\ UNCHANGED <<masterVars, src, served, etmp, esum, elink, elost, emanifest>>

MutInstall(ok) ==
  /\ epc = "install"
  /\ esum' = etmp
  /\ newer' = [f \in DOMAIN newer \union {etmp} |-> IF f = etmp THEN {} ELSE newer[f]]
  /\ epc' = "link"
  /\ etmp' = None
  /\ UNCHANGED <<world, buildVars, src, force, served, elink, elost, emanifest>>

\* The file takes the name of its hash and keeps its modification time, unless a
\* file has that name: then the temporary file stays behind.  Where it cannot be
\* moved the run goes on.
Install(ok) ==
  /\ epc = "install"
  /\ esum' = etmp
  /\ \/ etmp \in DOMAIN newer /\ epc' = "link" /\ UNCHANGED <<etmp, newer>>
     \/ /\ etmp \notin DOMAIN newer /\ ok
        /\ etmp' = None
        /\ newer' = [f \in DOMAIN Dropped \union {esum'} |->
                       IF f = esum' THEN newer[Tmp] ELSE newer[f]]
        /\ epc' = "link"
     \/ etmp \notin DOMAIN newer /\ ~ok /\ epc' = "unmoved" /\ UNCHANGED <<etmp, newer>>
  /\ UNCHANGED <<world, buildVars, src, force, served, elink, elost, emanifest>>

\* blacklist.db is replaced by a symlink to the file, or it is not.
SwapLink(ok) ==
  /\ epc \in {"link", "unmoved"}
  /\ elink' = IF ok THEN esum ELSE elink
  /\ elost' = ~(ok /\ epc = "link")
  /\ epc' = "cleanup"
  /\ UNCHANGED <<masterVars, src, force, served, etmp, esum, emanifest>>

\* cleanup_old_dbs keeps the file just named only, or what it could not remove too.
RemoveOld(ok) ==
  /\ epc = "cleanup"
  /\ \E kept \in IF ok THEN {{}} ELSE SUBSET DOMAIN newer :
       newer' = Restrict(newer, DOMAIN newer \intersect ({esum, Tmp} \union kept))
  /\ epc' = "manifest"
  /\ UNCHANGED <<world, buildVars, src, force, served, etmp, esum, elink, elost, emanifest>>

\* The manifest is written in place.
WriteSidecar(ok) ==
  /\ epc = "manifest"
  /\ emanifest' \in IF ok THEN {esum} ELSE {emanifest, Partial}
  /\ epc' = "idle"
  /\ esum' = None
  /\ UNCHANGED <<masterVars, src, force, served, etmp, elink, elost>>

\* The script is killed, or the machine restarts: every file stays as it is, the
\* manifest half written.
Killed ==
  /\ epc # "idle"
  /\ "kills" \in setup.faults
  /\ crashes < setup.deaths
  /\ crashes' = crashes + 1
  /\ emanifest' \in {emanifest} \union (IF epc = "manifest" THEN {Partial} ELSE {})
  /\ epc' = "idle" /\ served' = None /\ esum' = None
  /\ UNCHANGED <<setup, trouble, buildVars, newer, src, force, etmp, elink, elost>>

\* The end of a run that has something to install.
InstallStep ==
  \E ok \in May("edgedisk") : Install(ok) \/ SwapLink(ok) \/ RemoveOld(ok) \/ WriteSidecar(ok)

\* The steps that bring a run to its end.
EdgeStep ==
  \/ AskNothing \/ AskNewer \/ AskUnmodified \/ AskRefused \/ BeginDownload \/ NothingOffered
  \/ Receive \/ Decide \/ InstallStep

EdgeNext == Start \/ EdgeStep \/ AskTimeout \/ NextRange \/ ReceiveFails \/ Killed

Next ==
  \/ MasterNext /\ UNCHANGED edgeVars
  \/ EdgeNext

\* Cron starts the script for ever, and a run that is not killed ends.
Spec ==
  /\ Init
  /\ [][Next]_vars
  /\ MasterFairness
  /\ WF_vars(Start) /\ WF_vars(EdgeStep)

--------------------------------------------------------------------------------
(* Properties *)

\* blacklist.db never names half a file, and the database it names is there, unless a
\* move failed in the last run that came to the link: nothing a failed or killed run
\* left behind is served (download_source, and the installation after it).
EdgeInstallsWhole ==
  /\ elink # Partial
  /\ elink # None /\ ~elost => HasDatabase

\* The list of what an edge names.
EdgeListOf(db) == IF db \in Mixture THEN db.mixed ELSE ListOf(db)

\* What can be read through the edge's blacklist.db, if one build made it.
Held == IF HasDatabase /\ elink \notin Mixture THEN elink ELSE None

\* That, as a copy of what is behind trust.db.
Edge == INSTANCE VersionedCopy WITH
  Contents <- Compilations, Nothing <- None, Lossy <- TRUE,
  source <- ListOf(link), copy <- EdgeListOf(elink), content <- Held

\* Without a mirror an edge goes from the database of one list to that of a later one,
\* none later than the master's, however builds, downloads, failures and deaths
\* interleave; the mixture that aria2c makes of two builds during a publication is
\* all it may serve besides (handleCDBBlacklist, download_source).
EdgeFollows ==
  /\ Edge!Init
  /\ [][~setup.mirror => [Edge!Next]_(Edge!vars)]_vars

\* Everything names the database of the last list, as it was saved, with its feeds
\* unless an error page is in their cache.
Converged ==
  /\ link = [list |-> list, whole |-> listWhole, feeds |-> ~poisoned]
  /\ dbs[link] = link
  /\ {manifest, localLink} = {link}
  /\ setup.edge => {elink, emanifest} = {link} /\ HasDatabase

\* Once no request saves a list any more and the trouble has ended, the ticker's builds
\* and the edge's runs repair whatever dropped errors and deaths have left, but for the
\* cache of the feeds.
Converges == <>[](Savers = {}) => <>[]Converged
================================================================================
