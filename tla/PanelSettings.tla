---------------------------- MODULE PanelSettings ----------------------------
(***************************************************************************)
(* The settings an edge's panel writes for dnsdist: the local block list   *)
(* (panel/localblock.go), and dnsdist.conf, safesearch.conf and dotdoh.conf*)
(* (panel/main.go), the second of which setup-edge.sh edits as well.       *)
(*                                                                         *)
(* Every file is replaced by atomicWrite: the text goes to path.tmp, which *)
(* is renamed to path.  The name path.tmp is the same for all writers of a *)
(* file, and only the local block list has a mutex, so that a writer may   *)
(* truncate, rename or still be writing the file of another.  Then dnsdist *)
(* is restarted, which reads the files.  The panel may die at any step.    *)
(*                                                                         *)
(* A text is the set of the changes it carries, each a request and one of  *)
(* the settings it sets; a later change of a setting replaces an earlier.  *)
(***************************************************************************)
CONSTANTS
  Requests,  \* requests that change a setting
  Kind,      \* Kind[r]: what r changes and how, see Kinds
  Domains,   \* domains of the list
  Named,     \* Named[r]: the domains that r, if it changes the list, adds or removes
  Blank,     \* content of a file that was opened for writing: nothing yet
  Torn,      \* content that no writer meant: cut short, or of two writers
  NoFile,
  Down       \* dnsdist does not run

\* "list": handleLocalBlock; "conf": the block mode of handleSettings; "script":
\* setup-edge.sh --set-rpz, run by handleRPZ; the others write a file of their own.
Kinds == {"list", "conf", "script", "safesearch", "dotdoh"}
Files == {"list", "conf", "safesearch", "dotdoh"}

File(r) == IF Kind[r] = "script" THEN "conf" ELSE Kind[r]

\* _rpz_patch_conf sets the block mode to 'rpz' beside the sinkhole.
Sets(r) ==
  CASE Kind[r] = "list"   -> Named[r]
    [] Kind[r] = "conf"   -> {"mode"}
    [] Kind[r] = "script" -> {"mode", "sinkhole"}
    [] OTHER              -> {Kind[r]}

Settings == Domains \cup {"mode", "sinkhole", "safesearch", "dotdoh"}
Changes(r) == {r} \X Sets(r)
Texts == SUBSET (Requests \X Settings)

\* The text that r makes of t.
Changed(t, r) == {c \in t : c[2] \notin Sets(r)} \cup Changes(r)

Contents == Texts \cup {Blank, Torn}
Whole(content) == content \in Texts

SettingsAssumption ==
  /\ Kind \in [Requests -> Kinds]
  /\ Named \in [Requests -> SUBSET Domains]
  /\ {Blank, Torn, NoFile} \cap Texts = {}
  /\ NoFile \notin {Blank, Torn}
  /\ Blank # Torn
  /\ Down \notin [Files -> Contents]

VARIABLES
  path,       \* path[f]: content of file f
  tmp,        \* tmp[f]: content of f.tmp, or NoFile
  domains,    \* the list in the panel's memory
  step,       \* step[r]: how far r is
  text,       \* text[r]: what r is to write
  fd,         \* fd[r]: where the file r has open is now: tmp, path, or gone
  loaded,     \* what dnsdist read at its last start, or Down
  acked,      \* history: requests answered with success
  replaced,   \* history: changes of a setting that a later rename changed again
  overlapped  \* history: files that two requests were saving at once

vars == <<path, tmp, domains, step, text, fd, loaded, acked, replaced, overlapped>>

\* "saved": before the restart; "done": answered, or died.
Steps == {"new", "begun", "open", "written", "saved", "done"}

Saving(r) == step[r] \in {"begun", "open", "written"}
Beside(r) == {s \in Requests \ {r} : File(s) = File(r) /\ Saving(s)}

Init ==
  /\ path = [f \in Files |-> {}]
  /\ tmp = [f \in Files |-> NoFile]
  /\ domains = {}
  /\ step = [r \in Requests |-> "new"]
  /\ text = [r \in Requests |-> {}]
  /\ fd = [r \in Requests |-> "none"]
  /\ loaded = path
  /\ acked = {}
  /\ replaced = {}
  /\ overlapped = {}

Goto(r, s) == step' = [step EXCEPT ![r] = s]

\* r is answered with an error; the mutex, if it has one, is released.
Fail(r) == Goto(r, "done") /\ UNCHANGED <<domains, loaded, acked, replaced, overlapped>>

------------------------------------------------------------------------------
(* What is to be written *)

\* Two requests save one file.
NoteOverlap(r) == overlapped' = IF Beside(r) = {} THEN overlapped ELSE overlapped \cup {File(r)}

\* Add, Remove: the mutex is taken, the list copied and changed.
BeginList(r) ==
  /\ Kind[r] = "list"
  /\ step[r] = "new"
  /\ Beside(r) = {}
  /\ text' = [text EXCEPT ![r] = Changed(domains, r)]
  /\ Goto(r, "begun")
  /\ NoteOverlap(r)
  /\ UNCHANGED <<path, tmp, domains, fd, loaded, acked, replaced>>

\* handleSettings and _rpz_patch_conf: the file is read, one line or two replaced.
BeginConf(r) ==
  /\ File(r) = "conf"
  /\ step[r] = "new"
  /\ text' = [text EXCEPT ![r] = IF Whole(path["conf"]) THEN Changed(path["conf"], r) ELSE Torn]
  /\ Goto(r, "begun")
  /\ NoteOverlap(r)
  /\ UNCHANGED <<path, tmp, domains, fd, loaded, acked, replaced>>

\* writeSafeSearch, writeDoTDoH: the whole file is made anew from the form.
BeginForm(r) ==
  /\ Kind[r] \in {"safesearch", "dotdoh"}
  /\ step[r] = "new"
  /\ text' = [text EXCEPT ![r] = Changes(r)]
  /\ Goto(r, "begun")
  /\ NoteOverlap(r)
  /\ UNCHANGED <<path, tmp, domains, fd, loaded, acked, replaced>>

------------------------------------------------------------------------------
(* atomicWrite *)

\* os.WriteFile opens f.tmp and truncates it; an f.tmp that is there stays the
\* file others have open.
Open(r) ==
  /\ step[r] = "begun"
  /\ tmp' = [tmp EXCEPT ![File(r)] = Blank]
  /\ fd' = [fd EXCEPT ![r] = "tmp"]
  /\ Goto(r, "open")
  /\ UNCHANGED <<path, domains, text, loaded, acked, replaced, overlapped>>

OpenFails(r) ==
  /\ step[r] = "begun"
  /\ Fail(r)
  /\ UNCHANGED <<path, tmp, text, fd>>

\* Content c goes to the file r has open, whatever name that has now.
Put(r, c) ==
  /\ tmp' = IF fd[r] = "tmp" THEN [tmp EXCEPT ![File(r)] = c] ELSE tmp
  /\ path' = IF fd[r] = "path" THEN [path EXCEPT ![File(r)] = c] ELSE path
  /\ fd' = [fd EXCEPT ![r] = "none"]

Target(r) == IF fd[r] = "tmp" THEN tmp[File(r)] ELSE path[File(r)]

\* The text is written from the start: over the text of another writer, a longer
\* one shows behind it.
WriteTmp(r) ==
  /\ step[r] = "open"
  /\ \E c \in {text[r], Torn} :
       /\ Target(r) = Blank => c = text[r]
       /\ Put(r, c)
  /\ Goto(r, "written")
  /\ UNCHANGED <<domains, text, loaded, acked, replaced, overlapped>>

\* The disk is full: part of the text is there.
WriteFails(r) ==
  /\ step[r] = "open"
  /\ Put(r, Torn)
  /\ Fail(r)
  /\ UNCHANGED text

\* The changes in r's file of the settings that r sets.
Outdated(r) ==
  IF Whole(path[File(r)]) THEN {c \in path[File(r)] : c[2] \in Sets(r)} ELSE {}

\* os.Rename: whatever f.tmp is now becomes f, and those who have either open
\* keep it.  The list in memory follows its file.
Rename(r) ==
  /\ step[r] = "written"
  /\ tmp[File(r)] # NoFile
  /\ path' = [path EXCEPT ![File(r)] = tmp[File(r)]]
  /\ tmp' = [tmp EXCEPT ![File(r)] = NoFile]
  /\ fd' = [s \in Requests |->
              CASE File(s) = File(r) /\ fd[s] = "tmp" -> "path"
                [] File(s) = File(r) /\ fd[s] = "path" -> "gone"
                [] OTHER -> fd[s]]
  /\ domains' = IF Kind[r] = "list" THEN text[r] ELSE domains
  /\ replaced' = replaced \cup Outdated(r)
  /\ Goto(r, "saved")
  /\ UNCHANGED <<text, loaded, acked, overlapped>>

\* f.tmp was renamed by another writer, or the rename fails.
RenameFails(r) ==
  /\ step[r] = "written"
  /\ Fail(r)
  /\ UNCHANGED <<path, tmp, text, fd>>

------------------------------------------------------------------------------
(* restartDnsdist *)

\* dnsdist reads the files when it starts.
Restarted == loaded' = path

\* The answer of handleLocalBlock and handleRPZ waits for the restart to succeed.
Restart(r) ==
  /\ step[r] = "saved"
  /\ Restarted
  /\ acked' = acked \cup {r}
  /\ Goto(r, "done")
  /\ UNCHANGED <<path, tmp, domains, text, fd, replaced, overlapped>>

\* The other handlers only log that it failed.
RestartFails(r) ==
  /\ step[r] = "saved"
  /\ loaded' = Down
  /\ acked' = IF Kind[r] \in {"list", "script"} THEN acked ELSE acked \cup {r}
  /\ Goto(r, "done")
  /\ UNCHANGED <<path, tmp, domains, text, fd, replaced, overlapped>>

\* setup-edge.sh leaves a dnsdist that does not run alone.
SkipRestart(r) ==
  /\ Kind[r] = "script"
  /\ step[r] = "saved"
  /\ loaded = Down
  /\ acked' = acked \cup {r}
  /\ Goto(r, "done")
  /\ UNCHANGED <<path, tmp, domains, text, fd, loaded, replaced, overlapped>>

\* Somebody else restarts dnsdist, or it dies.
OtherRestart ==
  /\ Restarted \/ loaded' = Down
  /\ UNCHANGED <<path, tmp, domains, step, text, fd, acked, replaced, overlapped>>

\* The panel dies with its requests and the script it runs, and starts again:
\* newLocalBlockStore reads the file.
PanelDies ==
  /\ step' = [r \in Requests |-> IF step[r] = "new" THEN "new" ELSE "done"]
  /\ fd' = [r \in Requests |-> "none"]
  /\ domains' = path["list"]
  /\ UNCHANGED <<path, tmp, text, loaded, acked, replaced, overlapped>>

Request(r) ==
  \/ BeginList(r) \/ BeginConf(r) \/ BeginForm(r)
  \/ Open(r) \/ OpenFails(r)
  \/ WriteTmp(r) \/ WriteFails(r)
  \/ Rename(r) \/ RenameFails(r)
  \/ Restart(r) \/ RestartFails(r) \/ SkipRestart(r)

Next == (\E r \in Requests : Request(r)) \/ OtherRestart \/ PanelDies

Spec == Init /\ [][Next]_vars

------------------------------------------------------------------------------
(* Properties *)

TypeOK ==
  /\ path \in [Files -> Contents]
  /\ tmp \in [Files -> Contents \cup {NoFile}]
  /\ domains \in Texts
  /\ step \in [Requests -> Steps]
  /\ text \in [Requests -> Texts \cup {Torn}]
  /\ fd \in [Requests -> {"none", "tmp", "path", "gone"}]
  /\ loaded \in [Files -> Contents] \cup {Down}
  /\ acked \subseteq Requests
  /\ replaced \subseteq Requests \X Settings
  /\ overlapped \subseteq Files

\* A file is never cut short or mixed ("write safesearch.conf atomic"), through
\* failed writes and deaths, unless two requests were saving it at once.
WholeUnlessOverlapped == \A f \in Files \ overlapped : Whole(path[f])

\* A change answered with success stays in the file, whatever later requests fail,
\* until a later request sets the same setting, if it was made to the list, or to
\* dnsdist.conf and no two requests were saving that at once.
AckedChangesKept ==
  \A r \in acked :
    File(r) \in {"list", "conf"} \ overlapped => Changes(r) \subseteq path[File(r)] \cup replaced

\* The local block list is in one piece, memory and file never part over a failed
\* write or a death, and if dnsdist runs it has every change of the list that was
\* answered with success and not replaced, whoever restarted it (writeLocked,
\* reloadLocalBlock).
ListInForce ==
  /\ "list" \notin overlapped
  /\ domains = path["list"]
  /\ loaded # Down =>
       \A r \in acked : Kind[r] = "list" => Changes(r) \subseteq loaded["list"] \cup replaced
==============================================================================
