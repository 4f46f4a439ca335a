--------------------------- MODULE ProfileSyncProofs ---------------------------
(***************************************************************************)
(* Theorems about ProfileSync, for any set of documents, any faults, any   *)
(* number of changes, crashes and registrations, and any number of         *)
(* synchronisations at once: what an attempt does to the files follows     *)
(* from its own steps as long as it has the files alone.                   *)
(***************************************************************************)
EXTENDS ProfileSync, TLAPS

\* The points from which a synchronisation has a document to apply.
HasDocument == {"fetching", "applying", "new", "writing", "written", "checked", "backing",
                "backed", "renamed", "failed", "restored", "left"}

------------------------------------------------------------------------------
(* Type correctness *)

Version == Versions \cup {NoVersion}
Content == Sections \cup {NoFile, Torn}
Sync == [pc : Points, told : Version, report : Version, old : Content, read : BOOLEAN,
         alone : BOOLEAN]
Dns == [active : Content, new : Content, lkg : Content]

\* A synchronisation that has a document to apply was told one.
ToldDocument == \A s \in Syncs : sync[s].pc \in HasDocument => sync[s].told \in Versions

\* TypeOK in terms of these sets.
Parts ==
  /\ want \in Version /\ reported \in Version /\ changes \in 0..setup.changes
  /\ hash \in Version /\ saved \in Version
  /\ lua \in Versions \cup {Disabled, NoFile, Torn}
  /\ dns \in Dns /\ running \in Content \cup {Down}
  /\ setup \in Setups
  /\ sync \in [Syncs -> Sync]
  /\ crashes \in 0..setup.crashes /\ registrations \in 0..setup.registrations
  /\ trouble \in BOOLEAN /\ mixed \in BOOLEAN

LEMMA TypeParts == (TypeOK <=> Parts) /\ (TypeOK' <=> Parts')
BY DEF TypeOK, Parts, Version, Content, Sync, Dns

\* What the bounds are.
LEMMA Bounds ==
  TypeOK => /\ setup.changes \in Nat /\ setup.crashes \in Nat /\ setup.registrations \in Nat
            /\ \A fault \in AllFaults : May(fault) \subseteq BOOLEAN
BY SyncAssumption DEF TypeOK, Circumstances, May

\* q is where it was.
Stays(q) == sync'[q] = sync[q]

\* What Goto and End leave behind.
LEMMA Moves ==
  ASSUME NEW s \in Syncs, sync \in [Syncs -> Sync]
  PROVE  /\ Idle \in Sync /\ Idle.pc = "idle"
         /\ End(s) => /\ sync' \in [Syncs -> Sync]
                      /\ sync'[s] = Idle
                      /\ \A q \in Syncs \ {s} : Stays(q)
         /\ \A pc \in Points : Goto(s, pc) =>
              /\ sync' \in [Syncs -> Sync]
              /\ sync'[s].pc = pc /\ sync'[s].told = sync[s].told /\ sync'[s].old = sync[s].old
              /\ sync'[s].read = sync[s].read /\ sync'[s].alone = sync[s].alone
              /\ \A q \in Syncs \ {s} : Stays(q)
<1>1. Idle \in Sync /\ Idle.pc = "idle"
  BY DEF Idle, Sync, Points, Quiet, Version, Content
<1>2. ASSUME End(s) PROVE /\ sync' \in [Syncs -> Sync]
                          /\ sync'[s] = Idle
                          /\ \A q \in Syncs \ {s} : Stays(q)
  BY <1>1, <1>2 DEF End, Stays
<1>3. ASSUME NEW pc \in Points, Goto(s, pc)
      PROVE  /\ sync' \in [Syncs -> Sync]
             /\ sync'[s].pc = pc /\ sync'[s].told = sync[s].told /\ sync'[s].old = sync[s].old
             /\ sync'[s].read = sync[s].read /\ sync'[s].alone = sync[s].alone
             /\ \A q \in Syncs \ {s} : Stays(q)
  <2> DEFINE rec == [sync[s] EXCEPT !.pc = pc]
  <2>1. /\ rec \in Sync /\ rec.pc = pc /\ rec.told = sync[s].told /\ rec.old = sync[s].old
        /\ rec.read = sync[s].read /\ rec.alone = sync[s].alone
    BY DEF Sync
  <2>2. sync' = [sync EXCEPT ![s] = rec]
    BY <1>3 DEF Goto
  <2> HIDE DEF rec
  <2> QED BY <2>1, <2>2 DEF Stays
<1> QED BY <1>1, <1>2, <1>3

\* What Enter leaves behind: nobody moves but s, and whoever has company knows.
LEMMA Enters ==
  ASSUME NEW s \in Syncs, sync \in [Syncs -> Sync], Enter(s)
  PROVE  /\ sync' \in [Syncs -> Sync]
         /\ sync'[s].pc = "verified" /\ sync'[s].told = sync[s].told
         /\ sync'[s].alone = (Company(s) = {})
         /\ \A q \in Syncs \ {s} :
              /\ sync'[q].pc = sync[q].pc /\ sync'[q].told = sync[q].told
              /\ sync'[q].old = sync[q].old /\ sync'[q].read = sync[q].read
              /\ sync'[q].alone = (sync[q].alone /\ q \notin Company(s))
<1> DEFINE alone == Company(s) = {}
           mine == [sync[s] EXCEPT !.pc = "verified", !.alone = alone]
           others(q) == [sync[q] EXCEPT !.alone = sync[q].alone /\ q \notin Company(s)]
<1>1. /\ mine \in Sync /\ mine.pc = "verified" /\ mine.told = sync[s].told /\ mine.alone = alone
  BY DEF Sync, Points
<1>2. \A q \in Syncs :
        /\ others(q) \in Sync /\ others(q).pc = sync[q].pc /\ others(q).told = sync[q].told
        /\ others(q).old = sync[q].old /\ others(q).read = sync[q].read
        /\ others(q).alone = (sync[q].alone /\ q \notin Company(s))
  BY DEF Sync
<1>3. sync' = [q \in Syncs |-> IF q = s THEN mine ELSE others(q)]
  BY DEF Enter
<1> HIDE DEF mine, others
<1>4. sync'[s] = mine /\ \A q \in Syncs \ {s} : sync'[q] = others(q)
  BY <1>3
<1>5. sync' \in [Syncs -> Sync]
  BY <1>1, <1>2, <1>3
<1> QED BY <1>1, <1>2, <1>4, <1>5

\* The section of a document is one of the sections.
LEMMA SectionType ==
  ASSUME NEW s \in Syncs, sync[s].told \in Versions
  PROVE  Section(s) \in Content
BY DEF Section, Sections, Content

\* What s writes is what it means to or torn; if it is alone, what it means to.
LEMMA WriteResults ==
  ASSUME NEW s \in Syncs, dns \in Dns, NEW content \in Content
  PROVE  /\ Written(s, "new", content) \subseteq Dns
         /\ Written(s, "lkg", content) \subseteq Dns
         /\ sync[s].alone => /\ Written(s, "new", content) = {[dns EXCEPT !.new = content]}
                             /\ Written(s, "lkg", content) = {[dns EXCEPT !.lkg = content]}
<1>1. Outcomes(s, content) \subseteq Content
  BY DEF Outcomes, Content
<1>2. \A c \in Content : /\ [dns EXCEPT !.new = c] \in Dns /\ [dns EXCEPT !.lkg = c] \in Dns
                         /\ [dns EXCEPT !.active = c] \in Dns
  BY DEF Dns
<1>3. Written(s, "new", content) \subseteq Dns /\ Written(s, "lkg", content) \subseteq Dns
  BY <1>1, <1>2 DEF Written
<1>4. sync[s].alone => Outcomes(s, content) = {content}
  BY DEF Outcomes
<1> QED BY <1>3, <1>4 DEF Written

\* Every step keeps the types, and tells documents only where they are applied.
LEMMA TypeStep == TypeOK /\ ToldDocument /\ [Next]_vars => TypeOK' /\ ToldDocument'
<1> DEFINE Typed == TypeOK /\ ToldDocument
<1> SUFFICES ASSUME Typed, [Next]_vars PROVE Typed'
  OBVIOUS
<1> USE SyncAssumption
<1>t. Parts /\ ToldDocument
  BY TypeParts
<1>p. Points = {"idle", "sending", "told", "verified", "applied"} \cup HasDocument
  BY DEF Points, Quiet, HasDocument
<1>b. /\ setup.changes \in Nat /\ setup.crashes \in Nat /\ setup.registrations \in Nat
      /\ May("garbled") \subseteq BOOLEAN /\ May("disk") \subseteq BOOLEAN
      /\ May("restart") \subseteq BOOLEAN
  BY Bounds DEF AllFaults
<1>1. ASSUME NEW v \in Versions \cup {NoVersion}, Reassign(v) PROVE Typed'
  BY <1>1, <1>b, <1>t, TypeParts DEF Parts, Reassign, state, files, other, ToldDocument, Version
<1>2. ASSUME NEW s \in Syncs, Send(s) PROVE Typed'
  <2>1. /\ [Idle EXCEPT !.pc = "sending", !.report = hash] \in Sync
        /\ [Idle EXCEPT !.pc = "sending", !.report = hash].pc = "sending"
    BY <1>t DEF Parts, Idle, Sync, Points, Quiet, Version, Content
  <2>2. sync' \in [Syncs -> Sync] /\ ToldDocument'
    BY <1>2, <1>t, <2>1 DEF Parts, Send, ToldDocument, HasDocument
  <2>3. registrations' \in 0..setup.registrations
    BY <1>2, <1>b, <1>t DEF Parts, Send
  <2> QED BY <1>2, <1>t, <2>2, <2>3, TypeParts DEF Parts, Send, master, state, files
<1>3. ASSUME NEW s \in Syncs, NEW whole \in BOOLEAN, NEW ok \in BOOLEAN, Answer(s, whole, ok)
      PROVE  Typed'
  <2> DEFINE told == IF whole THEN want ELSE NoVersion
             rec == [sync[s] EXCEPT !.pc = "told", !.told = told]
  <2>1. told \in Version
    BY <1>t DEF Parts, Version
  <2>2. rec \in Sync /\ rec.pc = "told"
    BY <1>t, <1>p, <2>1 DEF Parts, Sync
  <2>3. sync' = [sync EXCEPT ![s] = rec]
    BY <1>3, <1>t DEF Parts, Answer
  <2> HIDE DEF rec
  <2>4. sync' \in [Syncs -> Sync] /\ ToldDocument'
    BY <1>t, <2>2, <2>3 DEF Parts, ToldDocument, HasDocument
  <2>5. sync[s].report \in Version
    BY <1>t DEF Parts, Sync
  <2> QED BY <1>3, <1>t, <2>4, <2>5, TypeParts DEF Parts, Answer, files, other
<1>4. ASSUME NEW s \in Syncs, NEW ok \in BOOLEAN, Lose(s, ok) \/ FetchFails(s) PROVE Typed'
  <2>1. End(s) /\ reported' \in {reported, sync[s].report} /\ saved' \in {saved, hash}
    BY <1>4 DEF Lose, FetchFails, master, state
  <2>2. sync' \in [Syncs -> Sync] /\ ToldDocument'
    BY <1>t, <2>1, Moves DEF Parts, ToldDocument, HasDocument, Stays
  <2>3. sync[s].report \in Version
    BY <1>t DEF Parts, Sync
  <2> QED BY <1>4, <1>t, <2>1, <2>2, <2>3, TypeParts
          DEF Parts, Lose, FetchFails, master, state, files, other
<1>5. ASSUME NEW s \in Syncs, Disable(s) \/ Compare(s) \/ Fetch(s) PROVE Typed'
  <2>1. \/ Enter(s)
        \/ mixed' = mixed /\ End(s)
        \/ mixed' = mixed /\ Goto(s, "fetching") /\ sync[s].told # NoVersion
    BY <1>5 DEF Disable, Compare, Fetch
  <2>2. sync[s].told \in Version /\ mixed' \in BOOLEAN
    BY <1>t, <2>1 DEF Parts, Sync, Enter
  <2>3. sync' \in [Syncs -> Sync] /\ ToldDocument'
    <3>1. CASE Enter(s)
      BY <1>t, <3>1, Enters DEF Parts, ToldDocument, HasDocument
    <3>2. CASE ~Enter(s)
      BY <1>t, <1>p, <2>1, <2>2, <3>2, Moves DEF Parts, ToldDocument, HasDocument, Version, Stays
    <3> QED BY <3>1, <3>2
  <2> QED BY <1>5, <1>t, <2>2, <2>3, TypeParts
          DEF Parts, Disable, Compare, Fetch, master, state, files, other
<1>6. ASSUME NEW s \in Syncs, NEW ok \in BOOLEAN, WriteLua(s, ok) PROVE Typed'
  <2>1. sync[s].told \in Version /\ SmartDistFile(s) \in Versions \cup {Disabled}
    BY <1>t DEF Parts, Sync, SmartDistFile, Version
  <2>2. /\ lua' \in {lua, SmartDistFile(s), Torn}
        /\ \/ End(s) \/ Goto(s, "applied")
           \/ Goto(s, "applying") /\ sync[s].told # NoVersion
    BY <1>6 DEF WriteLua, AfterLua, Outcomes
  <2>3. sync' \in [Syncs -> Sync] /\ ToldDocument'
    BY <1>t, <1>p, <2>1, <2>2, Moves DEF Parts, ToldDocument, HasDocument, Version, Stays
  <2> QED BY <1>6, <1>t, <2>1, <2>2, <2>3, TypeParts DEF Parts, WriteLua, master, state, other
<1>7. ASSUME NEW s \in Syncs, NEW ok \in BOOLEAN, setProfileHash(s, ok) PROVE Typed'
  <2>1. sync[s].told \in Version
    BY <1>t DEF Parts, Sync
  <2>2. sync' \in [Syncs -> Sync] /\ ToldDocument'
    BY <1>7, <1>t, Moves DEF Parts, setProfileHash, ToldDocument, HasDocument, Stays
  <2> QED BY <1>7, <1>t, <2>1, <2>2, TypeParts DEF Parts, setProfileHash, master, files, other
<1>8. ASSUME NEW s \in Syncs, NEW ok \in BOOLEAN, ReadActive(s, ok) PROVE Typed'
  <2> DEFINE pc == IF ok /\ dns.active = Section(s) THEN "applied" ELSE "new"
             read == ok /\ dns.active # NoFile
             rec == [sync[s] EXCEPT !.old = dns.active, !.read = read, !.pc = pc]
  <2>1. pc \in Points /\ dns.active \in Content /\ sync[s].told \in Versions
    BY <1>8, <1>t DEF Parts, Points, Dns, ReadActive, ToldDocument, HasDocument
  <2>2. rec \in Sync /\ rec.told = sync[s].told
    BY <1>t, <2>1 DEF Parts, Sync
  <2>3. sync' = [sync EXCEPT ![s] = rec]
    BY <1>8, <1>t DEF Parts, ReadActive
  <2> HIDE DEF rec
  <2>4. sync' \in [Syncs -> Sync] /\ ToldDocument'
    BY <1>t, <2>1, <2>2, <2>3 DEF Parts, ToldDocument
  <2> QED BY <1>8, <1>t, <2>4, TypeParts DEF Parts, ReadActive, master, state, files, other
<1>9. ASSUME NEW s \in Syncs, NEW ok \in BOOLEAN, OnDns(s, ok) PROVE Typed'
  <2>1. sync[s].pc \in HasDocument /\ sync[s].told \in Versions
    BY <1>9, <1>t DEF Parts, OnDns, OpenNew, WriteNew, CheckNew, OpenBackup, Backup, Rename, Rollback,
       ToldDocument, HasDocument
  <2>2. End(s) \/ \E pc \in HasDocument : Goto(s, pc)
    BY <1>9 DEF OnDns, OpenNew, WriteNew, CheckNew, AfterCheck, OpenBackup, Backup, Rename, Rollback,
       HasDocument
  <2>3. sync' \in [Syncs -> Sync] /\ ToldDocument'
    <3>1. CASE End(s)
      BY <1>t, <3>1, Moves DEF Parts, ToldDocument, HasDocument, Stays
    <3>2. CASE \E pc \in HasDocument : Goto(s, pc)
      <4>1. PICK pc \in HasDocument : Goto(s, pc)
        BY <3>2
      <4>2. /\ sync' \in [Syncs -> Sync]
            /\ sync'[s].told = sync[s].told
            /\ \A q \in Syncs \ {s} : Stays(q)
        BY <1>t, <1>p, <4>1, Moves DEF Parts
      <4> QED BY <1>t, <2>1, <4>2 DEF ToldDocument, Stays
    <3> QED BY <2>2, <3>1, <3>2
  <2>4. sync[s].old \in Content /\ Section(s) \in Content /\ dns \in Dns
    BY <1>t, <2>1, SectionType DEF Parts, Sync
  <2>5. \/ dns' \in Written(s, "new", Section(s)) \/ dns' \in Written(s, "lkg", sync[s].old)
        \/ dns' = dns \/ dns' = [dns EXCEPT !.new = Torn] \/ dns' = [dns EXCEPT !.lkg = Torn]
        \/ dns' = [dns EXCEPT !.new = NoFile] \/ dns' = [dns EXCEPT !.active = NoFile]
        \/ dns' = [dns EXCEPT !.active = dns.new, !.new = NoFile]
        \/ dns' = [dns EXCEPT !.active = dns.lkg, !.lkg = NoFile]
    BY <1>9 DEF OnDns, OpenNew, WriteNew, CheckNew, OpenBackup, Backup, Rename, Rollback, Discarded
  <2>6. dns' \in Dns
    BY <2>4, <2>5, WriteResults DEF Dns, Content
  <2>7. UNCHANGED <<master, state, lua, running, other, mixed>>
    BY <1>9 DEF OnDns, OpenNew, WriteNew, CheckNew, OpenBackup, Backup, Rename, Rollback
  <2> QED BY <1>t, <2>3, <2>6, <2>7, TypeParts DEF Parts, master, state, other
<1>10. ASSUME NEW s \in Syncs, NEW ok \in BOOLEAN,
              SkipRestart(s) \/ Restart(s, ok) \/ RestartAgain(s, ok)
       PROVE  Typed'
  <2>1. sync[s].told \in Versions
    BY <1>10, <1>t DEF Parts, SkipRestart, Restart, RestartAgain, ToldDocument, HasDocument
  <2>2. End(s) \/ \E pc \in {"applied", "failed"} : Goto(s, pc)
    BY <1>10 DEF SkipRestart, Restart, RestartAgain
  <2>3. sync' \in [Syncs -> Sync] /\ ToldDocument'
    BY <1>t, <1>p, <2>1, <2>2, Moves DEF Parts, ToldDocument, HasDocument, Stays
  <2>4. running' \in Content \cup {Down} /\ mixed' \in BOOLEAN
    BY <1>10, <1>t DEF Parts, SkipRestart, Restart, RestartAgain, files, Dns
  <2> QED BY <1>10, <1>t, <2>3, <2>4, TypeParts
          DEF Parts, SkipRestart, Restart, RestartAgain, master, state, files, other
<1>11. CASE Crash
  <2>1. sync' = [s \in Syncs |-> Idle] /\ crashes' \in 0..setup.crashes
    BY <1>11, <1>b, <1>t DEF Parts, Crash
  <2>2. sync' \in [Syncs -> Sync] /\ ToldDocument'
    BY <1>t, <2>1, Moves DEF Parts, ToldDocument, HasDocument
  <2> QED BY <1>11, <1>t, <2>1, <2>2, TypeParts DEF Parts, Crash, master, files
<1>12. CASE OtherRestart
  BY <1>12, <1>t, TypeParts DEF Parts, OtherRestart, master, state, other, Dns, ToldDocument
<1>13. CASE Recover
  BY <1>13, <1>t, TypeParts DEF Parts, Recover, master, state, files, ToldDocument
<1>14. CASE UNCHANGED vars
  BY <1>14, <1>t, TypeParts DEF Parts, vars, master, state, files, ToldDocument
<1>15. ASSUME NEW s \in Syncs, OnFiles(s) PROVE Typed'
  BY <1>6, <1>7, <1>8, <1>9, <1>10, <1>15, <1>b DEF OnFiles
<1>16. ASSUME NEW s \in Syncs, Step(s) PROVE Typed'
  BY <1>3, <1>5, <1>15, <1>16, <1>b DEF Step
<1> QED BY <1>1, <1>2, <1>4, <1>11, <1>12, <1>13, <1>14, <1>16, <1>b DEF Next

LEMMA SyncTypes == Spec => [](TypeOK /\ ToldDocument)
<1>1. Init => TypeOK /\ ToldDocument
  <2> SUFFICES ASSUME Init PROVE TypeOK /\ ToldDocument
    OBVIOUS
  <2>1. /\ setup \in Setups /\ setup.changes \in Nat /\ setup.crashes \in Nat
        /\ setup.registrations \in Nat
    BY SyncAssumption DEF Init, Circumstances
  <2>2. sync \in [Syncs -> Sync] /\ ToldDocument
    BY DEF Init, Idle, Sync, Points, Quiet, Version, Content, ToldDocument, HasDocument
  <2>3. dns \in Dns /\ running \in Content
    BY DEF Init, Dns, Content
  <2>4. trouble \in BOOLEAN /\ mixed \in BOOLEAN
    BY DEF Init
  <2>5. changes \in 0..setup.changes /\ crashes \in 0..setup.crashes
        /\ registrations \in 0..setup.registrations
    BY <2>1 DEF Init
  <2>6. want \in Version /\ reported \in Version /\ hash \in Version /\ saved \in Version
        /\ lua \in Versions \cup {Disabled, NoFile, Torn}
    BY DEF Init, Version
  <2> QED BY <2>1, <2>2, <2>3, <2>4, <2>5, <2>6, TypeParts DEF Parts
<1> QED BY <1>1, TypeStep, PTL DEF Spec

\* The agent, its files and its master keep their types (syncSmartDistProfileInner,
\* applyDnsdistProfile), for any number of concurrent synchronisations: a document
\* is only compared, written and recorded by one who has fetched it.
THEOREM SyncTypeCorrect == Spec => []TypeOK
BY SyncTypes, PTL

------------------------------------------------------------------------------
(* What a synchronisation finds in the files at each point *)

Busy(s) == sync[s].pc \notin Quiet
Safe == Loadable \cup {NoFile, Down}
Gate == dns.active \in Safe /\ running \in Safe

\* The points at which the active file has been read and not replaced.
Kept == {"new", "writing", "written", "checked", "backing", "backed"}

\* What holds of the files when s has had them alone.
Progress(s) ==
  /\ sync[s].pc \in HasDocument => lua = sync[s].told
  /\ sync[s].pc = "applied" /\ sync[s].told # NoVersion
       => lua = sync[s].told /\ dns.active = Section(s)
  /\ sync[s].pc \in Kept => dns.active = sync[s].old
  /\ sync[s].pc = "restored" => dns.active = IF sync[s].read THEN sync[s].old ELSE NoFile
  /\ sync[s].pc \in {"written", "checked", "backing", "backed"} => dns.new = Section(s)
  /\ sync[s].pc \in {"checked", "backing", "backed", "renamed"} => Section(s) \in Loadable
  /\ sync[s].pc \in {"backed", "renamed", "failed"} /\ sync[s].read => dns.lkg = sync[s].old
  /\ sync[s].pc \in {"renamed", "failed", "left"} => dns.active = Section(s)

\* What s would put back is safe.
OldSafe(s) == sync[s].pc \in Kept \cup {"renamed", "failed"} => sync[s].old \in Safe

Known == \A s \in Syncs : Busy(s) /\ sync[s].alone => Progress(s)
Met == \A s, q \in Syncs : s # q /\ Busy(s) /\ Busy(q) => ~sync[s].alone
Clean == ~mixed => Gate /\ \A s \in Syncs : Busy(s) => sync[s].alone /\ OldSafe(s)
FilesInv == Known /\ Met /\ Clean

\* A step of s, who has the files: it is enough to look at s when it is alone.
LEMMA Working ==
  ASSUME FilesInv, NEW s \in Syncs, Busy(s), mixed' = mixed,
         \A q \in Syncs \ {s} : Stays(q),
         Busy(s)' => sync'[s].alone = sync[s].alone,
         sync[s].alone /\ Progress(s) /\ Busy(s)' => Progress(s)',
         sync[s].alone /\ Progress(s) /\ Gate /\ OldSafe(s) => Gate' /\ (Busy(s)' => OldSafe(s)')
  PROVE  FilesInv'
<1>1. \A q \in Syncs \ {s} : (Busy(q)' <=> Busy(q)) /\ sync'[q].alone = sync[q].alone
  BY DEF Busy, Stays
<1>2. \A q \in Syncs \ {s} : Busy(q) => ~sync[q].alone /\ ~sync[s].alone
  BY DEF FilesInv, Met
<1>3. Known'
  BY <1>1, <1>2 DEF FilesInv, Known
<1>4. Met'
  BY <1>1, <1>2 DEF FilesInv, Met
<1>5. Clean'
  <2> SUFFICES ASSUME ~mixed
               PROVE  Gate' /\ \A q \in Syncs : Busy(q)' => sync'[q].alone /\ OldSafe(q)'
    BY DEF Clean
  <2>1. Gate /\ sync[s].alone /\ OldSafe(s) /\ Progress(s)
    BY DEF FilesInv, Clean, Known
  <2>2. \A q \in Syncs \ {s} : ~Busy(q)'
    BY <1>1, <1>2, <2>1
  <2> QED BY <2>1, <2>2
<1> QED BY <1>3, <1>4, <1>5 DEF FilesInv

\* A step of s, who has the files neither before nor after.
LEMMA Elsewhere ==
  ASSUME FilesInv, NEW s \in Syncs, ~Busy(s), ~Busy(s)', UNCHANGED <<files, mixed>>,
         \A q \in Syncs \ {s} : Stays(q)
  PROVE  FilesInv'
<1> USE DEF files
<1>1. \A q \in Syncs \ {s} : (Busy(q)' => Busy(q)) /\ sync'[q].alone = sync[q].alone
  BY DEF Busy, Stays
<1>2. \A q \in Syncs \ {s} : (Progress(q) => Progress(q)') /\ (OldSafe(q) => OldSafe(q)')
  <2> SUFFICES ASSUME NEW q \in Syncs \ {s}, sync'[q] = sync[q]
               PROVE  (Progress(q) => Progress(q)') /\ (OldSafe(q) => OldSafe(q)')
    BY DEF Stays
  <2>1. Section(q)' = Section(q)
    BY DEF Section
  <2>2. Progress(q) => Progress(q)'
    BY <2>1 DEF Progress
  <2> QED BY <2>2 DEF OldSafe
<1>3. Gate => Gate'
  BY DEF Gate
<1>4. Known'
  BY <1>1, <1>2 DEF FilesInv, Known
<1>5. Met'
  BY <1>1 DEF FilesInv, Met
<1>6. Clean'
  BY <1>1, <1>2, <1>3 DEF FilesInv, Clean
<1> QED BY <1>4, <1>5, <1>6 DEF FilesInv

\* s begins with the files.
LEMMA Entering ==
  ASSUME FilesInv, NEW s \in Syncs, sync \in [Syncs -> Sync], ~Busy(s), Enter(s), UNCHANGED files
  PROVE  FilesInv'
<1>1. /\ sync'[s].pc = "verified" /\ sync'[s].alone = (Company(s) = {})
      /\ \A q \in Syncs \ {s} : /\ sync'[q].pc = sync[q].pc
                               /\ sync'[q].told = sync[q].told
                               /\ sync'[q].old = sync[q].old
                               /\ sync'[q].read = sync[q].read
                               /\ sync'[q].alone = (sync[q].alone /\ q \notin Company(s))
  BY Enters
<1>2. \A q \in Syncs \ {s} : q \in Company(s) <=> Busy(q)
  BY DEF Company, Busy
<1>3. \A q \in Syncs \ {s} : Busy(q)' => Busy(q) /\ ~sync'[q].alone
  <2> SUFFICES ASSUME NEW q \in Syncs \ {s}, Busy(q)' PROVE Busy(q) /\ ~sync'[q].alone
    OBVIOUS
  <2>1. Busy(q)
    BY <1>1 DEF Busy
  <2> QED BY <1>1, <1>2, <2>1
<1>4. Progress(s)' /\ OldSafe(s)'
  BY <1>1 DEF Progress, OldSafe, HasDocument, Kept
<1>5. Met'
  <2> SUFFICES ASSUME NEW a \in Syncs, NEW b \in Syncs, a # b, Busy(a)', Busy(b)'
               PROVE  ~sync'[a].alone
    BY DEF Met
  <2>1. CASE a = s
    BY <1>1, <1>2, <1>3, <2>1
  <2>2. CASE a # s
    BY <1>3, <2>2
  <2> QED BY <2>1, <2>2
<1>6. Clean'
  <2> SUFFICES ASSUME ~mixed' PROVE Gate' /\ \A q \in Syncs : Busy(q)' => sync'[q].alone /\ OldSafe(q)'
    BY DEF Clean
  <2>1. ~mixed /\ Company(s) = {}
    BY DEF Enter
  <2>2. Gate'
    BY <2>1 DEF FilesInv, Clean, Gate, files
  <2>3. \A q \in Syncs \ {s} : ~Busy(q)'
    BY <1>2, <1>3, <2>1
  <2> QED BY <1>1, <1>4, <2>1, <2>2, <2>3
<1> QED BY <1>3, <1>4, <1>5, <1>6 DEF FilesInv, Known

\* How the steps on the dnsdist files end: s stops, or goes on with its records.
LEMMA DnsMoves ==
  ASSUME NEW s \in Syncs, NEW ok \in BOOLEAN, Parts, OnDns(s, ok)
  PROVE  /\ Busy(s) /\ sync[s].pc \in HasDocument /\ sync[s].pc # "fetching"
         /\ \A q \in Syncs \ {s} : Stays(q)
         /\ \/ sync'[s] = Idle
            \/ /\ sync'[s].told = sync[s].told /\ sync'[s].old = sync[s].old
               /\ sync'[s].read = sync[s].read /\ sync'[s].alone = sync[s].alone
         /\ UNCHANGED <<lua, running, mixed>>
<1>1. End(s) \/ \E pc \in HasDocument : Goto(s, pc)
  BY DEF OnDns, OpenNew, WriteNew, CheckNew, AfterCheck, OpenBackup, Backup, Rename, Rollback,
     HasDocument
<1>2. HasDocument \subseteq Points
  BY DEF HasDocument, Points, Quiet
<1>3. UNCHANGED <<lua, running, mixed>> /\ Busy(s) /\ sync[s].pc \in HasDocument
      /\ sync[s].pc # "fetching"
  BY DEF OnDns, OpenNew, WriteNew, CheckNew, OpenBackup, Backup, Rename, Rollback, Busy, Quiet,
     HasDocument
<1> QED BY <1>1, <1>2, <1>3, Moves DEF Parts

\* What these steps make of the files when s has them alone.
LEMMA DnsProgress ==
  ASSUME NEW s \in Syncs, NEW ok \in BOOLEAN, Parts, OnDns(s, ok), sync[s].told \in Versions,
         sync[s].alone, Progress(s)
  PROVE  /\ Busy(s)' => Progress(s)'
         /\ Gate /\ OldSafe(s) => Gate' /\ (Busy(s)' => OldSafe(s)')
<1> DEFINE Kind(pc) == /\ sync'[s].pc = pc
                       /\ sync'[s].told = sync[s].told /\ sync'[s].old = sync[s].old
                       /\ sync'[s].read = sync[s].read
           Goal == /\ Busy(s)' => Progress(s)'
                   /\ Gate /\ OldSafe(s) => Gate' /\ (Busy(s)' => OldSafe(s)')
<1>1. \A pc \in Points : Goto(s, pc) => Kind(pc)
  BY Moves DEF Parts
<1>2. End(s) => sync'[s].pc = "idle"
  BY Moves DEF Parts
<1>3. dns \in Dns /\ Section(s) \in Content /\ sync[s].old \in Content /\ Torn \notin Loadable
  BY SectionType, SyncAssumption DEF Parts, Sync
<1>4. UNCHANGED <<lua, running>> /\ (Section(s)' = Section(s) \/ sync'[s].pc = "idle")
  <2>1. sync'[s] = Idle \/ sync'[s].told = sync[s].told
    BY DnsMoves
  <2> QED BY <2>1, DnsMoves DEF Section, Idle
<1>5. UNCHANGED running
  BY DnsMoves
<1>6. ASSUME sync'[s].pc = "idle", dns'.active \in {dns.active, NoFile} PROVE Goal
  BY <1>5, <1>6 DEF Busy, Quiet, Gate, Safe
<1>7. CASE OpenNew(s, ok)
  <2>1. CASE dns' = dns /\ End(s)
    BY <1>2, <1>6, <2>1
  <2>2. CASE dns' = [dns EXCEPT !.new = Torn] /\ Goto(s, "writing")
    <3>1. Kind("writing") /\ dns'.active = dns.active
      BY <1>1, <1>3, <2>2 DEF Points, Dns
    <3> QED BY <1>4, <1>7, <3>1 DEF OpenNew, Progress, OldSafe, Gate, HasDocument, Kept
  <2> QED BY <1>7, <2>1, <2>2 DEF OpenNew
<1>8. CASE WriteNew(s, ok)
  <2>1. CASE dns' = dns /\ End(s)
    BY <1>2, <1>6, <2>1
  <2>2. CASE dns' \in Written(s, "new", Section(s)) /\ Goto(s, "written")
    <3>1. Kind("written") /\ dns' = [dns EXCEPT !.new = Section(s)]
      BY <1>1, <1>3, <2>2, WriteResults DEF Points
    <3>2. dns'.active = dns.active /\ dns'.new = Section(s)
      BY <1>3, <3>1 DEF Dns
    <3> QED BY <1>4, <1>8, <3>1, <3>2 DEF WriteNew, Progress, OldSafe, Gate, HasDocument, Kept
  <2> QED BY <1>8, <2>1, <2>2 DEF WriteNew
<1>d. \A removed \in BOOLEAN : Discarded(removed).active = dns.active
  BY <1>3 DEF Discarded, Dns
<1>m. May("disk") \subseteq BOOLEAN
  BY DEF May
<1>9. CASE CheckNew(s, ok)
  <2>1. CASE End(s) /\ \E removed \in May("disk") : dns' = Discarded(removed)
    BY <1>2, <1>6, <1>d, <1>m, <2>1
  <2>2. CASE dns.new \in Loadable \cup {Torn} /\ dns' = dns /\ AfterCheck(s)
    <3>1. PICK pc \in {"checked", "backed"} : Kind(pc) /\ (pc = "backed" => ~sync[s].read)
      BY <1>1, <2>2 DEF AfterCheck, Points
    <3>2. Section(s) \in Loadable
      BY <1>3, <1>9, <2>2, SyncAssumption DEF CheckNew, Progress, Section, Sections
    <3> QED BY <1>4, <1>9, <2>2, <3>1, <3>2 DEF CheckNew, Progress, OldSafe, Gate, HasDocument, Kept
  <2> QED BY <1>9, <2>1, <2>2 DEF CheckNew
<1>10. CASE OpenBackup(s, ok)
  <2>1. CASE End(s) /\ \E removed \in May("disk") : dns' = Discarded(removed)
    BY <1>2, <1>6, <1>d, <1>m, <2>1
  <2>2. CASE dns' = [dns EXCEPT !.lkg = Torn] /\ Goto(s, "backing")
    <3>1. Kind("backing") /\ dns'.active = dns.active /\ dns'.new = dns.new
      BY <1>1, <1>3, <2>2 DEF Points, Dns
    <3> QED BY <1>4, <1>10, <3>1 DEF OpenBackup, Progress, OldSafe, Gate, HasDocument, Kept
  <2> QED BY <1>10, <2>1, <2>2 DEF OpenBackup
<1>11. CASE Backup(s, ok)
  <2>1. CASE End(s) /\ \E removed \in May("disk") : dns' = Discarded(removed)
    BY <1>2, <1>6, <1>d, <1>m, <2>1
  <2>2. CASE dns' \in Written(s, "lkg", sync[s].old) /\ Goto(s, "backed")
    <3>1. Kind("backed") /\ dns' = [dns EXCEPT !.lkg = sync[s].old]
      BY <1>1, <1>3, <2>2, WriteResults DEF Points
    <3>2. dns'.active = dns.active /\ dns'.new = dns.new /\ dns'.lkg = sync[s].old
      BY <1>3, <3>1 DEF Dns
    <3> QED BY <1>4, <1>11, <3>1, <3>2 DEF Backup, Progress, OldSafe, Gate, HasDocument, Kept
  <2> QED BY <1>11, <2>1, <2>2 DEF Backup
<1>12. CASE Rename(s, ok)
  <2>1. CASE dns' = dns /\ End(s)
    BY <1>2, <1>6, <2>1
  <2>2. CASE dns' = [dns EXCEPT !.active = dns.new, !.new = NoFile] /\ Goto(s, "renamed")
    <3>1. Kind("renamed") /\ dns'.active = dns.new /\ dns'.lkg = dns.lkg
      BY <1>1, <1>3, <2>2 DEF Points, Dns
    <3> QED BY <1>4, <1>12, <3>1 DEF Rename, Progress, OldSafe, Gate, Safe, HasDocument, Kept
  <2> QED BY <1>12, <2>1, <2>2 DEF Rename
<1>13. CASE Rollback(s, ok)
  <2>1. CASE dns' = dns /\ End(s)
    BY <1>2, <1>6, <2>1
  <2>2. CASE sync[s].read /\ dns' = [dns EXCEPT !.active = dns.lkg, !.lkg = NoFile]
             /\ Goto(s, "restored")
    <3>1. Kind("restored") /\ dns'.active = dns.lkg
      BY <1>1, <1>3, <2>2 DEF Points, Dns
    <3> QED BY <1>4, <1>13, <2>2, <3>1 DEF Rollback, Progress, OldSafe, Gate, HasDocument, Kept
  <2>3. CASE ~sync[s].read /\ dns' = [dns EXCEPT !.active = NoFile] /\ Goto(s, "restored")
    <3>1. Kind("restored") /\ dns'.active = NoFile
      BY <1>1, <1>3, <2>3 DEF Points, Dns
    <3> QED BY <1>4, <1>13, <2>3, <3>1 DEF Rollback, Progress, OldSafe, Gate, Safe, HasDocument, Kept
  <2>4. CASE dns' = dns /\ Goto(s, "left")
    <3>1. Kind("left")
      BY <1>1, <2>4 DEF Points
    <3> QED BY <1>4, <1>13, <2>4, <3>1 DEF Rollback, Progress, OldSafe, Gate, HasDocument, Kept
  <2> QED BY <1>13, <2>1, <2>2, <2>3, <2>4 DEF Rollback
<1> QED BY <1>7, <1>8, <1>9, <1>10, <1>11, <1>12, <1>13 DEF OnDns

\* Every step keeps the relation between the synchronisations and the files.
LEMMA FilesStep == TypeOK /\ ToldDocument /\ FilesInv /\ [Next]_vars => FilesInv'
<1> SUFFICES ASSUME TypeOK, ToldDocument, FilesInv, [Next]_vars PROVE FilesInv'
  OBVIOUS
<1>t. Parts
  BY TypeParts
<1>s. sync \in [Syncs -> Sync] /\ dns \in Dns
  BY <1>t DEF Parts
<1>b. /\ May("garbled") \subseteq BOOLEAN /\ May("disk") \subseteq BOOLEAN
      /\ May("restart") \subseteq BOOLEAN
  BY Bounds DEF AllFaults
<1> USE DEF Busy
<1>1. ASSUME NEW v \in Versions \cup {NoVersion}, Reassign(v) PROVE FilesInv'
  BY <1>1 DEF Reassign, files, FilesInv, Known, Met, Clean, Gate, Progress, OldSafe, Section
<1>2. ASSUME NEW s \in Syncs, Send(s) PROVE FilesInv'
  <2>1. sync' = [sync EXCEPT ![s] = [Idle EXCEPT !.pc = "sending", !.report = hash]]
        /\ [Idle EXCEPT !.pc = "sending", !.report = hash].pc = "sending"
    BY <1>2 DEF Send, Idle
  <2>2. sync'[s].pc = "sending" /\ \A q \in Syncs \ {s} : Stays(q)
    BY <1>s, <2>1 DEF Stays
  <2> QED BY <1>2, <2>2, Elsewhere DEF Send, Quiet
<1>3. ASSUME NEW s \in Syncs, NEW whole \in BOOLEAN, NEW ok \in BOOLEAN, Answer(s, whole, ok)
      PROVE  FilesInv'
  <2>1. \E told : sync' = [sync EXCEPT ![s] = [sync[s] EXCEPT !.pc = "told", !.told = told]]
    BY <1>3, <1>s DEF Answer
  <2>2. sync'[s].pc = "told" /\ \A q \in Syncs \ {s} : Stays(q)
    BY <1>s, <2>1 DEF Stays, Sync
  <2> QED BY <1>3, <2>2, Elsewhere DEF Answer, Quiet
<1>4. ASSUME NEW s \in Syncs, sync[s].pc \in Quiet, End(s) \/ Goto(s, "fetching"),
             UNCHANGED <<files, mixed>>
      PROVE  FilesInv'
  <2>1. sync'[s].pc \in {"idle", "fetching"} /\ \A q \in Syncs \ {s} : Stays(q)
    BY <1>4, <1>s, Moves DEF Points, Quiet
  <2> QED BY <1>4, <2>1, Elsewhere DEF Quiet
<1>5. ASSUME NEW s \in Syncs, sync[s].pc \in Quiet, Enter(s), UNCHANGED files PROVE FilesInv'
  BY <1>5, <1>s, Entering
<1>6. ASSUME NEW s \in Syncs, NEW ok \in BOOLEAN, WriteLua(s, ok) PROVE FilesInv'
  <2>1. \/ End(s)
        \/ sync[s].told = NoVersion /\ Goto(s, "applied")
        \/ sync[s].told # NoVersion /\ Goto(s, "applying") /\ lua' \in Outcomes(s, sync[s].told)
    BY <1>6 DEF WriteLua, AfterLua, SmartDistFile
  <2>2. /\ \A q \in Syncs \ {s} : Stays(q)
        /\ \/ sync'[s] = Idle /\ sync'[s].pc = "idle"
           \/ /\ sync'[s].told = sync[s].told /\ sync'[s].alone = sync[s].alone
              /\ \/ sync'[s].pc = "applied" /\ sync[s].told = NoVersion
                 \/ sync'[s].pc = "applying" /\ lua' \in Outcomes(s, sync[s].told)
    BY <1>s, <2>1, Moves DEF Points, Quiet
  <2>3. sync[s].alone /\ Busy(s)' => Progress(s)'
    BY <2>2 DEF Progress, Outcomes, HasDocument, Kept, Quiet
  <2>4. Gate => Gate' /\ OldSafe(s)'
    BY <1>6, <2>2 DEF WriteLua, Gate, OldSafe, Kept
  <2> QED BY <1>6, <2>2, <2>3, <2>4, Working DEF WriteLua, Quiet
<1>7. ASSUME NEW s \in Syncs, NEW ok \in BOOLEAN, setProfileHash(s, ok) PROVE FilesInv'
  <2>1. sync'[s].pc = "idle" /\ \A q \in Syncs \ {s} : Stays(q)
    BY <1>7, <1>s, Moves DEF setProfileHash
  <2>2. Gate => Gate'
    BY <1>7 DEF setProfileHash, files, Gate
  <2> QED BY <1>7, <2>1, <2>2, Working DEF setProfileHash, Quiet
<1>8. ASSUME NEW s \in Syncs, NEW ok \in BOOLEAN, ReadActive(s, ok) PROVE FilesInv'
  <2> DEFINE pc == IF ok /\ dns.active = Section(s) THEN "applied" ELSE "new"
             rec == [sync[s] EXCEPT !.old = dns.active, !.read = ok /\ dns.active # NoFile, !.pc = pc]
  <2>1. /\ rec.told = sync[s].told /\ rec.alone = sync[s].alone /\ rec.old = dns.active /\ rec.pc = pc
    BY <1>s DEF Sync
  <2>2. sync' = [sync EXCEPT ![s] = rec]
    BY <1>8, <1>s DEF ReadActive
  <2> HIDE DEF rec
  <2>3. sync'[s] = rec /\ \A q \in Syncs \ {s} : Stays(q)
    BY <1>s, <2>2 DEF Stays
  <2>4. UNCHANGED <<files, mixed>> /\ sync[s].pc = "applying" /\ Section(s)' = Section(s)
    BY <1>8, <2>1, <2>3 DEF ReadActive, Section
  <2>5. Progress(s) => Progress(s)'
    BY <2>1, <2>3, <2>4 DEF Progress, files, HasDocument, Kept
  <2>6. Gate => Gate' /\ OldSafe(s)'
    BY <2>1, <2>3, <2>4 DEF Gate, files, OldSafe
  <2> QED BY <2>1, <2>3, <2>4, <2>5, <2>6, Working DEF Quiet
<1>9. ASSUME NEW s \in Syncs, NEW ok \in BOOLEAN, OnDns(s, ok) PROVE FilesInv'
  <2>1. /\ Busy(s) /\ sync[s].told \in Versions /\ mixed' = mixed
        /\ \A q \in Syncs \ {s} : Stays(q)
        /\ Busy(s)' => sync'[s].alone = sync[s].alone
    BY <1>9, <1>t, DnsMoves DEF ToldDocument, Idle, Quiet
  <2> QED BY <1>9, <1>t, <2>1, DnsProgress, Working
<1>10. ASSUME NEW s \in Syncs, SkipRestart(s) PROVE FilesInv'
  <2>1. /\ sync'[s].pc = "applied" /\ sync'[s].told = sync[s].told
        /\ sync'[s].alone = sync[s].alone
        /\ \A q \in Syncs \ {s} : Stays(q)
    BY <1>10, <1>s, Moves DEF SkipRestart, Points
  <2>2. UNCHANGED <<files, mixed>> /\ sync[s].pc = "renamed" /\ Section(s)' = Section(s)
    BY <1>10, <2>1 DEF SkipRestart, Section
  <2>3. Progress(s) => Progress(s)'
    BY <2>1, <2>2 DEF Progress, files, HasDocument, Kept
  <2>4. Gate => Gate' /\ OldSafe(s)'
    BY <2>1, <2>2 DEF Gate, files, OldSafe, Kept
  <2> QED BY <2>1, <2>2, <2>3, <2>4, Working DEF Quiet
<1>11. ASSUME NEW s \in Syncs, NEW ok \in BOOLEAN, RestartAgain(s, ok) PROVE FilesInv'
  <2>1. sync'[s].pc = "idle" /\ \A q \in Syncs \ {s} : Stays(q)
    BY <1>11, <1>s, Moves DEF RestartAgain
  <2>2. Gate => Gate'
    BY <1>11 DEF RestartAgain, Gate, Safe
  <2> QED BY <1>11, <2>1, <2>2, Working DEF RestartAgain, Quiet
<1>12. ASSUME NEW s \in Syncs, NEW ok \in BOOLEAN, Restart(s, ok) PROVE FilesInv'
  <2>1. /\ sync'[s].pc = IF ok THEN "applied" ELSE "failed"
        /\ sync'[s].told = sync[s].told /\ sync'[s].old = sync[s].old
        /\ sync'[s].read = sync[s].read /\ sync'[s].alone = sync[s].alone
        /\ \A q \in Syncs \ {s} : Stays(q)
    BY <1>12, <1>s, Moves DEF Restart, Points
  <2>2. /\ UNCHANGED <<lua, dns>> /\ sync[s].pc = "renamed" /\ Section(s)' = Section(s)
        /\ running' = IF ok THEN dns.active ELSE Down
    BY <1>12, <2>1 DEF Restart, Section
  <2>3. Progress(s) => Progress(s)'
    BY <2>1, <2>2 DEF Progress, HasDocument, Kept
  <2>4. Gate /\ OldSafe(s) => Gate' /\ OldSafe(s)'
    BY <2>1, <2>2 DEF Gate, Safe, OldSafe, Kept
  <2>5. CASE mixed' = mixed
    BY <2>1, <2>2, <2>3, <2>4, <2>5, Working DEF Quiet
  <2>6. CASE mixed' # mixed
    \* This restart cleans up what two of them had left.
    <3>1. ok /\ sync[s].alone
      BY <1>12, <1>t, <2>6 DEF Restart, Parts
    <3>2. \A q \in Syncs \ {s} : ~Busy(q) /\ ~Busy(q)'
      BY <2>1, <2>2, <3>1 DEF FilesInv, Met, Stays, Quiet
    <3>3. Progress(s)' /\ OldSafe(s)' /\ dns.active \in Loadable
      BY <2>1, <2>2, <2>3, <3>1 DEF FilesInv, Known, Quiet, Progress, OldSafe, Kept
    <3>4. Gate'
      BY <2>2, <3>1, <3>3 DEF Gate, Safe
    <3> QED BY <2>1, <3>1, <3>2, <3>3, <3>4 DEF FilesInv, Known, Met, Clean
  <2> QED BY <2>5, <2>6
<1>13. CASE Crash
  <2>1. \A q \in Syncs : sync'[q].pc = "idle"
    BY <1>13 DEF Crash, Idle
  <2>2. Gate => Gate'
    BY <1>13 DEF Crash, files, Gate
  <2> QED BY <1>13, <2>1, <2>2 DEF Crash, FilesInv, Known, Met, Clean, Quiet
<1>14. CASE OtherRestart
  BY <1>14 DEF OtherRestart, FilesInv, Known, Met, Clean, Gate, Progress, OldSafe, Section
<1>15. CASE Recover \/ UNCHANGED vars
  BY <1>15 DEF Recover, vars, files, FilesInv, Known, Met, Clean, Gate, Progress, OldSafe, Section
<1>16. ASSUME NEW s \in Syncs, OnFiles(s) PROVE FilesInv'
  BY <1>6, <1>7, <1>8, <1>9, <1>10, <1>11, <1>12, <1>16, <1>b DEF OnFiles
<1>17. ASSUME NEW s \in Syncs, NEW ok \in BOOLEAN, Lose(s, ok) PROVE FilesInv'
  BY <1>4, <1>17 DEF Lose, Quiet
<1>18. ASSUME NEW s \in Syncs, FetchFails(s) PROVE FilesInv'
  BY <1>4, <1>18 DEF FetchFails, Quiet
<1>19. ASSUME NEW s \in Syncs, Step(s) PROVE FilesInv'
  <2>1. CASE Disable(s)
    BY <1>5, <2>1 DEF Disable, Quiet
  <2>2. CASE Compare(s)
    BY <1>4, <2>2 DEF Compare, Quiet
  <2>3. CASE Fetch(s)
    BY <1>4, <1>5, <2>3 DEF Fetch, Quiet
  <2>4. CASE OnFiles(s)
    BY <1>16, <2>4
  <2>5. CASE \E whole \in May("garbled"), ok \in May("disk") : Answer(s, whole, ok)
    BY <1>3, <1>b, <2>5
  <2> QED BY <1>19, <2>1, <2>2, <2>3, <2>4, <2>5 DEF Step
<1> QED BY <1>1, <1>2, <1>13, <1>14, <1>15, <1>17, <1>18, <1>19, <1>b DEF Next

LEMMA FilesAlways == Spec => []FilesInv
<1>1. Init => FilesInv
  BY DEF Init, Idle, FilesInv, Known, Met, Clean, Gate, Safe, Busy, Quiet
<1> QED BY <1>1, FilesStep, SyncTypes, PTL DEF Spec

------------------------------------------------------------------------------
(* The theorems *)

\* The active dnsdist file and the running dnsdist hold a section the check has
\* accepted, through every failure and death, unless two synchronisations had the
\* files at once (applyDnsdistProfile); and again from the next restart by one
\* that had them alone.
THEOREM GateHolds == Spec => []OnlyLoadableActive
<1>1. FilesInv => OnlyLoadableActive
  BY DEF FilesInv, Clean, Gate, Safe, OnlyLoadableActive
<1> QED BY <1>1, FilesAlways, PTL

\* Whoever had the files alone records its hash after both hold its profile, also
\* while others wait for the network, and whatever was there before
\* (syncSmartDistProfileInner).
THEOREM HashComesLast == Spec => []HashRaisedAfterFiles
<1>1. FilesInv => HashRaisedAfterFiles
  BY DEF FilesInv, Known, Busy, Quiet, Progress, Section, HashRaisedAfterFiles
<1> QED BY <1>1, FilesAlways, PTL

\* An attempt that fails leaves the active file as it was, if it had the files
\* alone: it ends before the rename, or after .lkg, or nothing, is back
\* (applyDnsdistProfile).
THEOREM FailureRestores == Spec => FailedApplyKeepsActive
<1> DEFINE Failing(s) == sync[s].pc \in Kept \cup {"restored"}
           Before(s) == IF sync[s].pc = "restored" /\ ~sync[s].read THEN NoFile ELSE sync[s].old
<1>1. ASSUME TypeOK, FilesInv, Next, NEW s \in Syncs, Failing(s), sync[s].alone,
             sync'[s].pc = "idle", crashes' = crashes
      PROVE  dns'.active = Before(s)
  <2>t. Parts
    BY <1>1, TypeParts
  <2>s. sync \in [Syncs -> Sync] /\ dns \in Dns /\ crashes \in Nat
    BY <2>t, Bounds, <1>1 DEF Parts
  <2>b. /\ May("garbled") \subseteq BOOLEAN /\ May("disk") \subseteq BOOLEAN
        /\ May("restart") \subseteq BOOLEAN
    BY <1>1, Bounds DEF AllFaults
  <2>1. Progress(s) /\ dns.active = Before(s)
    BY <1>1 DEF FilesInv, Known, Busy, Quiet, Progress, Kept
  <2>2. ~Stays(s)
    BY <1>1 DEF Stays, Kept
  <2>3. ASSUME NEW q \in Syncs, Send(q) PROVE FALSE
    BY <1>1, <2>s, <2>2, <2>3 DEF Send, Stays, Kept
  <2>4. ASSUME NEW q \in Syncs, NEW whole \in BOOLEAN, NEW ok \in BOOLEAN,
               Answer(q, whole, ok) \/ Lose(q, ok) \/ FetchFails(q)
        PROVE  FALSE
    <3>1. sync[q].pc \in Quiet /\ (End(q) \/ \E r : sync' = [sync EXCEPT ![q] = r])
      BY <2>s, <2>4 DEF Answer, Lose, FetchFails, Quiet, End
    <3>2. s # q => Stays(s)
      BY <2>s, <3>1 DEF End, Stays
    <3> QED BY <1>1, <2>2, <3>1, <3>2 DEF Quiet, Kept
  <2>5. ASSUME NEW q \in Syncs, Disable(q) \/ Compare(q) \/ Fetch(q) PROVE FALSE
    <3>1. sync[q].pc \in Quiet /\ (End(q) \/ Goto(q, "fetching") \/ Enter(q))
      BY <2>5 DEF Disable, Compare, Fetch, Quiet
    <3>2. s # q => sync'[s].pc = sync[s].pc
      BY <2>s, <3>1, Moves, Enters DEF Stays, Points, Quiet
    <3> QED BY <1>1, <3>1, <3>2 DEF Quiet, Kept
  <2>6. ASSUME NEW q \in Syncs, NEW ok \in BOOLEAN,
               \/ WriteLua(q, ok) \/ setProfileHash(q, ok) \/ ReadActive(q, ok)
               \/ Restart(q, ok) \/ SkipRestart(q)
        PROVE  FALSE
    <3>1. /\ sync[q].pc \in {"verified", "applied", "applying", "renamed"}
          /\ \E r : sync' = [sync EXCEPT ![q] = r]
      BY <2>s, <2>6
         DEF WriteLua, AfterLua, setProfileHash, ReadActive, Restart, SkipRestart, End, Goto
    <3>2. s # q => Stays(s)
      BY <2>s, <3>1 DEF Stays
    <3> QED BY <1>1, <2>2, <3>1, <3>2 DEF Kept
  <2>7. ASSUME NEW q \in Syncs, NEW ok \in BOOLEAN, OnDns(q, ok) PROVE dns'.active = Before(s)
    <3>1. q = s
      BY <2>2, <2>7, <2>t, DnsMoves
    <3>2. /\ \A removed \in BOOLEAN : Discarded(removed).active = dns.active
          /\ May("disk") \subseteq BOOLEAN
      BY <2>s, <2>b DEF Discarded, Dns
    <3>3. \A pc \in Points : Goto(s, pc) => pc = "idle"
      BY <1>1, <2>s, Moves
    <3>4. dns'.active = dns.active
      BY <1>1, <2>7, <3>1, <3>2, <3>3
         DEF OnDns, OpenNew, WriteNew, CheckNew, AfterCheck, OpenBackup, Backup, Rename, Rollback,
             Points, Quiet, Kept
    <3> QED BY <2>1, <3>4
  <2>8. ASSUME NEW q \in Syncs, NEW ok \in BOOLEAN, RestartAgain(q, ok)
        PROVE  dns'.active = Before(s)
    BY <2>1, <2>8 DEF RestartAgain
  <2>9. ~Crash /\ ~OtherRestart /\ ~Recover /\ \A v \in Versions \cup {NoVersion} : ~Reassign(v)
    BY <1>1, <2>s, <2>2 DEF Crash, OtherRestart, Recover, Reassign, Stays
  <2> QED BY <1>1, <2>b, <2>3, <2>4, <2>5, <2>6, <2>7, <2>8, <2>9 DEF Next, Step, OnFiles
<1>2. ASSUME UNCHANGED vars, NEW s \in Syncs, Failing(s) PROVE sync'[s].pc # "idle"
  BY <1>2 DEF vars, Kept
<1>3. TypeOK /\ FilesInv /\ [Next]_vars
        => [\A s \in Syncs :
              /\ sync[s].pc \in {"new", "writing", "written", "checked", "backing", "backed", "restored"}
              /\ sync[s].alone
              /\ sync'[s].pc = "idle"
              /\ crashes' = crashes
              => dns'.active = IF sync[s].pc = "restored" /\ ~sync[s].read THEN NoFile
                               ELSE sync[s].old]_vars
  BY <1>1, <1>2 DEF Kept
<1> QED BY <1>3, FilesAlways, SyncTypes, PTL DEF Spec, FailedApplyKeepsActive
===============================================================================
