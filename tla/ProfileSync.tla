----------------------------- MODULE ProfileSync -----------------------------
(***************************************************************************)
(* How the profile assigned to an edge node reaches its files: the         *)
(* heartbeat of the edge agent (panel/cluster.go), the synchronisation it  *)
(* starts (panel/smartdist_agent.go) and the gate that applies the dnsdist *)
(* section (panel/smartdist_dnsdist_apply.go).  Heartbeats are sent by the *)
(* agent's loop and by the handler that registers the node, so two         *)
(* synchronisations may run at once; they share the agent's state under a  *)
(* mutex and the files under none.  A profile document is identified with  *)
(* its SHA-256.                                                            *)
(*                                                                         *)
(* os.WriteFile empties a file before it writes it, so that a failure, a   *)
(* death or another writer leaves a torn one; the two dnsdist copies are   *)
(* written in two steps for that reason.                                   *)
(***************************************************************************)
EXTENDS Naturals

CONSTANTS
  Versions,     \* profile documents the master may assign to the node
  NoVersion,    \* "no profile": the empty identifier or hash
  Disabled,     \* content of the SmartDist file when there is no profile
  DnsOf,        \* DnsOf[v]: the dnsdist section of v, as Lua
  Loadable,     \* sections that dnsdist --check-config accepts
  NoFile,       \* "no such file"
  Torn,         \* content of a file that was cut short or written by two at once
  Down,         \* dnsdist does not run
  Syncs,        \* who sends heartbeats
  Loop,         \* the one of them that is periodic; the others follow a registration
  Setups        \* in which circumstances an edge runs: members of Circumstances

AllFaults == {"net", "garbled", "disk", "restart"}

\* What may go wrong, how often the operator changes the assignment, how often the
\* agent's process dies and how often the node is registered while it runs; and the
\* flag -dnsdist-restart, given when the agent is installed.
Circumstances == [faults : SUBSET AllFaults, changes : Nat, crashes : Nat, registrations : Nat,
                  restarts : BOOLEAN]
Sections == {DnsOf[v] : v \in Versions}

ASSUME SyncAssumption ==
  /\ NoVersion \notin Versions
  /\ Disabled \notin Versions
  /\ NoFile \notin Versions \cup {Disabled} \cup Sections
  /\ Torn \notin Versions \cup {Disabled, NoFile} \cup Sections
  /\ Down \notin Sections \cup {NoFile, Torn}
  /\ Loadable \subseteq Sections
  /\ Loop \in Syncs
  /\ Setups \subseteq Circumstances

VARIABLES
  want,      \* master: the document assigned to the node
  reported,  \* master: the applied hash the node last reported
  changes,   \* how often want changed
  hash,      \* edge: ProfileHash in the agent's memory
  saved,     \* edge: ProfileHash in the agent's state file
  lua,       \* edge: smartdist-profile.lua
  dns,       \* edge: dnsdist-profile.lua, its .new and its .lkg
  running,   \* edge: the section dnsdist has loaded
  setup,     \* the circumstances of this edge
  sync,      \* edge: sync[s]: where s is
  crashes,   \* how often the agent died
  registrations,  \* how often the node was registered
  trouble,   \* things may still go wrong
  mixed      \* history: two synchronisations had the files at once, and no later one
             \* that had them alone got dnsdist restarted

vars == <<want, reported, changes, hash, saved, lua, dns, running, setup, sync, crashes,
          registrations, trouble, mixed>>
other == <<setup, crashes, registrations, trouble>>
master == <<want, reported, changes>>
state == <<hash, saved>>
files == <<lua, dns, running>>

Quiet == {"idle", "sending", "told", "fetching"}
Points == Quiet \cup {"verified", "applying", "new", "writing", "written", "checked", "backing",
                      "backed", "renamed", "failed", "restored", "left", "applied"}

\* told: the document the heartbeat answer named; report: the hash it carried;
\* old: dnsdist-profile.lua when applyDnsdistProfile read it; read: it could;
\* alone: nobody else has had the files since it began with them.
Idle == [pc |-> "idle", told |-> NoVersion, report |-> NoVersion, old |-> NoFile,
         read |-> FALSE, alone |-> TRUE]

\* How a step may end that this fault makes fail.
May(fault) == IF trouble /\ fault \in setup.faults THEN BOOLEAN ELSE {TRUE}

Goto(s, pc) == sync' = [sync EXCEPT ![s].pc = pc]
End(s) == sync' = [sync EXCEPT ![s] = Idle]

\* The other synchronisations that are at work on the files.
Company(s) == {q \in Syncs \ {s} : sync[q].pc \notin Quiet}

\* s begins with the files.
Enter(s) ==
  /\ sync' = [q \in Syncs |->
       IF q = s THEN [sync[s] EXCEPT !.pc = "verified", !.alone = (Company(s) = {})]
       ELSE [sync[q] EXCEPT !.alone = sync[q].alone /\ q \notin Company(s)]]
  /\ mixed' = (mixed \/ Company(s) # {})

Init ==
  /\ want = NoVersion
  /\ reported = NoVersion
  /\ changes = 0
  /\ hash = NoVersion
  /\ saved = NoVersion
  /\ lua = NoFile
  /\ dns = [active |-> NoFile, new |-> NoFile, lkg |-> NoFile]
  /\ running = NoFile
  /\ setup \in Setups
  /\ sync = [s \in Syncs |-> Idle]
  /\ crashes = 0
  /\ registrations = 0
  /\ trouble = (setup.faults # {})
  /\ mixed = FALSE

------------------------------------------------------------------------------
(* The master *)

\* The operator assigns another profile, edits the assigned one, or the
\* assignment goes away.
Reassign(v) ==
  /\ changes < setup.changes
  /\ v # want
  /\ want' = v
  /\ changes' = changes + 1
  /\ UNCHANGED <<reported, state, files, sync, other, mixed>>

------------------------------------------------------------------------------
(* sendHeartbeat *)

\* The agent's state is copied before the request is sent: by the loop at each
\* tick, and at the end of Register.
Send(s) ==
  /\ sync[s].pc = "idle"
  /\ s = Loop \/ registrations < setup.registrations
  /\ registrations' = IF s = Loop THEN registrations ELSE registrations + 1
  /\ sync' = [sync EXCEPT ![s] = [Idle EXCEPT !.pc = "sending", !.report = hash]]
  /\ UNCHANGED <<master, state, files, setup, crashes, trouble, mixed>>

\* handleClusterHeartbeat records the report and answers; the agent saves its
\* state.  The error of decoding the answer is dropped: a cut body names no profile.
Answer(s, whole, ok) ==
  /\ sync[s].pc = "sending"
  /\ reported' = sync[s].report
  /\ saved' = IF ok THEN hash ELSE saved
  /\ sync' = [sync EXCEPT ![s].pc = "told", ![s].told = IF whole THEN want ELSE NoVersion]
  /\ UNCHANGED <<want, changes, hash, files, other, mixed>>

\* The request or its answer is lost: the master may have recorded the report.
\* The agent saves its state with the error.
Lose(s, ok) ==
  /\ sync[s].pc = "sending"
  /\ FALSE \in May("net")
  /\ reported' \in {reported, sync[s].report}
  /\ saved' = IF ok THEN hash ELSE saved
  /\ End(s)
  /\ UNCHANGED <<want, changes, hash, files, other, mixed>>

------------------------------------------------------------------------------
(* syncSmartDistProfileInner *)

\* Without a profile nothing is fetched.
Disable(s) ==
  /\ sync[s].pc = "told"
  /\ sync[s].told = NoVersion
  /\ Enter(s)
  /\ UNCHANGED <<master, state, files, other>>

\* The told hash against the stored one.
Compare(s) ==
  /\ sync[s].pc = "told"
  /\ sync[s].told # NoVersion
  /\ IF sync[s].told = hash THEN End(s) ELSE Goto(s, "fetching")
  /\ UNCHANGED <<master, state, files, other, mixed>>

\* handleClusterProfileFetch serves what is assigned now; a body with another
\* hash than the one told is refused.
Fetch(s) ==
  /\ sync[s].pc = "fetching"
  /\ IF want = sync[s].told THEN Enter(s) ELSE End(s) /\ mixed' = mixed
  /\ UNCHANGED <<master, state, files, other>>

FetchFails(s) ==
  /\ sync[s].pc = "fetching"
  /\ FALSE \in May("net")
  /\ End(s)
  /\ UNCHANGED <<master, state, files, other, mixed>>

\* The SmartDist file for what s was told.
SmartDistFile(s) == IF sync[s].told = NoVersion THEN Disabled ELSE sync[s].told

\* What a write of content by s may leave: two writers share the temporary file.
Outcomes(s, content) == {content} \cup IF sync[s].alone THEN {} ELSE {Torn}

AfterLua(s) == Goto(s, IF sync[s].told = NoVersion THEN "applied" ELSE "applying")

MutWriteLuaUnheeded(s, ok) ==
  /\ sync[s].pc = "verified"
  /\ lua' = IF ok THEN SmartDistFile(s) ELSE lua
  /\ AfterLua(s)
  /\ UNCHANGED <<master, state, dns, running, other, mixed>>

\* atomicWriteString: a temporary file and a rename.
WriteLua(s, ok) ==
  /\ sync[s].pc = "verified"
  /\ \/ ok /\ lua' \in Outcomes(s, SmartDistFile(s)) /\ AfterLua(s)
     \/ ~ok /\ lua' = lua /\ End(s)
  /\ UNCHANGED <<master, state, dns, running, other, mixed>>

MutHashOnlyInFile(s, ok) ==
  /\ sync[s].pc = "applied"
  /\ hash' = hash
  /\ saved' = IF ok THEN sync[s].told ELSE saved
  /\ End(s)
  /\ UNCHANGED <<master, files, other, mixed>>

\* The error of saving the state is dropped.
setProfileHash(s, ok) ==
  /\ sync[s].pc = "applied"
  /\ hash' = sync[s].told
  /\ saved' = IF ok THEN sync[s].told ELSE saved
  /\ End(s)
  /\ UNCHANGED <<master, files, other, mixed>>

------------------------------------------------------------------------------
(* applyDnsdistProfile *)

Section(s) == DnsOf[sync[s].told]

\* A write by s to the copy it has opened: another synchronisation may have made
\* that copy the active file, or removed it, meanwhile.
Written(s, copy, content) ==
  {[dns EXCEPT ![copy] = c] : c \in Outcomes(s, content)}
    \cup IF sync[s].alone THEN {}
         ELSE {dns} \cup {[dns EXCEPT !.active = c] : c \in Outcomes(s, content)}

\* os.Remove of .new, whose error is dropped.
Discarded(removed) == IF removed THEN [dns EXCEPT !.new = NoFile] ELSE dns

MutReadWrongFile(s, ok) ==
  /\ sync[s].pc = "applying"
  /\ sync' = [sync EXCEPT ![s].old = lua, ![s].read = ok,
                          ![s].pc = IF dns.active = Section(s) THEN "applied" ELSE "new"]
  /\ UNCHANGED <<master, state, files, other, mixed>>

\* Nothing is written, and nothing restarted, if the content is the same.  A file
\* that cannot be read counts as none.
ReadActive(s, ok) ==
  /\ sync[s].pc = "applying"
  /\ sync' = [sync EXCEPT ![s].old = dns.active,
                          ![s].read = ok /\ dns.active # NoFile,
                          ![s].pc = IF ok /\ dns.active = Section(s) THEN "applied" ELSE "new"]
  /\ UNCHANGED <<master, state, files, other, mixed>>

\* os.WriteFile of .new: it is opened and emptied ...
OpenNew(s, ok) ==
  /\ sync[s].pc = "new"
  /\ \/ ok /\ dns' = [dns EXCEPT !.new = Torn] /\ Goto(s, "writing")
     \/ ~ok /\ dns' = dns /\ End(s)
  /\ UNCHANGED <<master, state, lua, running, other, mixed>>

\* ... and written.
WriteNew(s, ok) ==
  /\ sync[s].pc = "writing"
  /\ \/ ok /\ dns' \in Written(s, "new", Section(s)) /\ Goto(s, "written")
     \/ ~ok /\ dns' = dns /\ End(s)
  /\ UNCHANGED <<master, state, lua, running, other, mixed>>

AfterCheck(s) == Goto(s, IF sync[s].read THEN "checked" ELSE "backed")

MutCheckOldFile(s, ok) ==
  /\ sync[s].pc = "written"
  /\ \/ dns.active \in Loadable \cup {NoFile} /\ dns' = dns /\ AfterCheck(s)
     \/ dns.active \notin Loadable \cup {NoFile} /\ dns' = Discarded(TRUE) /\ End(s)
  /\ UNCHANGED <<master, state, lua, running, other, mixed>>

\* dnsdist --check-config on the .new file, as it is now (what it says of a torn
\* one depends on where it was cut); removed if refused, or if the check fails.
CheckNew(s, ok) ==
  /\ sync[s].pc = "written"
  /\ \/ ok /\ dns.new \in Loadable \cup {Torn} /\ dns' = dns /\ AfterCheck(s)
     \/ /\ ~ok \/ dns.new \notin Loadable
        /\ \E removed \in May("disk") : dns' = Discarded(removed)
        /\ End(s)
  /\ UNCHANGED <<master, state, lua, running, other, mixed>>

\* os.WriteFile of .lkg, likewise.
OpenBackup(s, ok) ==
  /\ sync[s].pc = "checked"
  /\ \/ ok /\ dns' = [dns EXCEPT !.lkg = Torn] /\ Goto(s, "backing")
     \/ ~ok /\ (\E removed \in May("disk") : dns' = Discarded(removed)) /\ End(s)
  /\ UNCHANGED <<master, state, lua, running, other, mixed>>

\* The content read before goes to .lkg.
Backup(s, ok) ==
  /\ sync[s].pc = "backing"
  /\ \/ ok /\ dns' \in Written(s, "lkg", sync[s].old) /\ Goto(s, "backed")
     \/ ~ok /\ (\E removed \in May("disk") : dns' = Discarded(removed)) /\ End(s)
  /\ UNCHANGED <<master, state, lua, running, other, mixed>>

\* .new becomes the active file; it may have gone since it was checked.
Rename(s, ok) ==
  /\ sync[s].pc = "backed"
  /\ IF ok /\ dns.new # NoFile
     THEN dns' = [dns EXCEPT !.active = dns.new, !.new = NoFile] /\ Goto(s, "renamed")
     ELSE dns' = dns /\ End(s)
  /\ UNCHANGED <<master, state, lua, running, other, mixed>>

\* With -dnsdist-restart=false the node is left pending a restart.
SkipRestart(s) ==
  /\ ~setup.restarts
  /\ sync[s].pc = "renamed"
  /\ Goto(s, "applied")
  /\ UNCHANGED <<master, state, files, other, mixed>>

Restart(s, ok) ==
  /\ setup.restarts
  /\ sync[s].pc = "renamed"
  /\ running' = IF ok THEN dns.active ELSE Down
  /\ Goto(s, IF ok THEN "applied" ELSE "failed")
  /\ mixed' = (mixed /\ ~(ok /\ sync[s].alone))
  /\ UNCHANGED <<master, state, lua, dns, other>>

MutNoRollback(s, ok) ==
  /\ sync[s].pc = "failed"
  /\ dns' = dns
  /\ Goto(s, "restored")
  /\ UNCHANGED <<master, state, lua, running, other, mixed>>

\* The restart failed: .lkg comes back, or the attempt ends there if it cannot be
\* renamed; where no file was read the new one is removed, and if that fails its
\* error is dropped.
Rollback(s, ok) ==
  /\ sync[s].pc = "failed"
  /\ CASE sync[s].read /\ ok /\ dns.lkg # NoFile ->
            dns' = [dns EXCEPT !.active = dns.lkg, !.lkg = NoFile] /\ Goto(s, "restored")
       [] sync[s].read /\ ~(ok /\ dns.lkg # NoFile) -> dns' = dns /\ End(s)
       [] ~sync[s].read /\ ok -> dns' = [dns EXCEPT !.active = NoFile] /\ Goto(s, "restored")
       [] ~sync[s].read /\ ~ok -> dns' = dns /\ Goto(s, "left")
  /\ UNCHANGED <<master, state, lua, running, other, mixed>>

\* The error is returned whether or not this restart works.
RestartAgain(s, ok) ==
  /\ sync[s].pc \in {"restored", "left"}
  /\ running' = IF ok THEN dns.active ELSE Down
  /\ End(s)
  /\ UNCHANGED <<master, state, lua, dns, other, mixed>>

------------------------------------------------------------------------------

\* The agent's process dies and starts again: loadState.
Crash ==
  /\ crashes < setup.crashes
  /\ crashes' = crashes + 1
  /\ hash' = saved
  /\ sync' = [s \in Syncs |-> Idle]
  /\ UNCHANGED <<master, saved, files, setup, registrations, trouble, mixed>>

\* dnsdist is restarted by someone else.
OtherRestart ==
  /\ running # dns.active
  /\ running' = dns.active
  /\ UNCHANGED <<master, state, lua, dns, sync, other, mixed>>

\* Network, disk and dnsdist work from now on.
Recover ==
  /\ trouble
  /\ trouble' = FALSE
  /\ UNCHANGED <<master, state, files, sync, setup, crashes, registrations, mixed>>

\* The steps of s on the files of dnsdist.
OnDns(s, ok) ==
  \/ OpenNew(s, ok) \/ WriteNew(s, ok) \/ CheckNew(s, ok)
  \/ OpenBackup(s, ok) \/ Backup(s, ok) \/ Rename(s, ok) \/ Rollback(s, ok)

\* The steps of s while it has the files.
OnFiles(s) ==
  \/ \E ok \in May("disk") :
       WriteLua(s, ok) \/ setProfileHash(s, ok) \/ ReadActive(s, ok) \/ OnDns(s, ok)
  \/ \E ok \in May("restart") : Restart(s, ok) \/ RestartAgain(s, ok)
  \/ SkipRestart(s)

Step(s) ==
  \/ \E whole \in May("garbled"), ok \in May("disk") : Answer(s, whole, ok)
  \/ Disable(s) \/ Compare(s) \/ Fetch(s)
  \/ OnFiles(s)

Next ==
  \/ \E v \in Versions \cup {NoVersion} : Reassign(v)
  \/ \E s \in Syncs : Send(s) \/ FetchFails(s) \/ Step(s)
  \/ \E s \in Syncs, ok \in May("disk") : Lose(s, ok)
  \/ Crash
  \/ OtherRestart
  \/ Recover

Spec == Init /\ [][Next]_vars

\* The agent's goroutines run, its ticker sends heartbeats, and the trouble ends.
LiveSpec ==
  /\ Spec
  /\ WF_vars(Send(Loop))
  /\ \A s \in Syncs : WF_vars(Step(s))
  /\ WF_vars(Recover)

------------------------------------------------------------------------------
(* Properties *)

TypeOK ==
  /\ want \in Versions \cup {NoVersion}
  /\ reported \in Versions \cup {NoVersion}
  /\ changes \in 0..setup.changes
  /\ hash \in Versions \cup {NoVersion}
  /\ saved \in Versions \cup {NoVersion}
  /\ lua \in Versions \cup {Disabled, NoFile, Torn}
  /\ dns \in [active : Sections \cup {NoFile, Torn}, new : Sections \cup {NoFile, Torn},
              lkg : Sections \cup {NoFile, Torn}]
  /\ running \in Sections \cup {NoFile, Torn, Down}
  /\ setup \in Setups
  /\ sync \in [Syncs -> [pc : Points, told : Versions \cup {NoVersion},
                         report : Versions \cup {NoVersion},
                         old : Sections \cup {NoFile, Torn}, read : BOOLEAN, alone : BOOLEAN]]
  /\ crashes \in 0..setup.crashes
  /\ registrations \in 0..setup.registrations
  /\ trouble \in BOOLEAN
  /\ mixed \in BOOLEAN

\* A section that dnsdist's check refuses, or a torn one, is never in the active
\* file, and dnsdist never loads it, through rollbacks, failures and deaths ("the
\* old file is not touched on failure", applyDnsdistProfile), unless two
\* synchronisations had the files at once; and then only until one that has them
\* alone restarts dnsdist.
OnlyLoadableActive ==
  ~mixed => {dns.active, running} \subseteq Loadable \cup {NoFile, Down}

\* When a synchronisation that had the files alone is about to record its hash,
\* both files hold the profile of that hash, whatever earlier ones left there
\* (syncSmartDistProfileInner: a failed write, check or restart must not raise
\* the hash).
HashRaisedAfterFiles ==
  \A s \in Syncs :
    sync[s].pc = "applied" /\ sync[s].alone /\ sync[s].told # NoVersion
      => lua = sync[s].told /\ dns.active = DnsOf[sync[s].told]

\* A failed apply that had the files alone leaves the active dnsdist file as it
\* found it, also after a failed restart, unless .lkg cannot be renamed or the new
\* file not be removed; a rollback of one that could not read the file leaves none
\* (applyDnsdistProfile: "Error = the active file has not changed, or was put
\* back from .lkg").
FailedApplyKeepsActive ==
  [][\A s \in Syncs :
       /\ sync[s].pc \in {"new", "writing", "written", "checked", "backing", "backed", "restored"}
       /\ sync[s].alone
       /\ sync'[s].pc = "idle"
       /\ crashes' = crashes
       => dns'.active = IF sync[s].pc = "restored" /\ ~sync[s].read THEN NoFile
                        ELSE sync[s].old]_vars

\* The hash the agent reports as applied is the profile in both files.
AppliedHashIsInFiles ==
  (\A s \in Syncs : sync[s].pc = "idle") /\ hash # NoVersion
    => lua = hash /\ dns.active = DnsOf[hash]

\* Once the trouble is over, a node whose assignment stays reaches it, if dnsdist
\* can load it, and the master sees that it did, whatever lost and cut answers,
\* failed writes, a death or a second synchronisation left behind (the heartbeat
\* loop of the agent).
Converges ==
  <>[](want \in Versions /\ DnsOf[want] \in Loadable => hash = want /\ reported = want)
=============================================================================
