------------------------- MODULE PanelSettingsProofs -------------------------
(***************************************************************************)
(* Theorems about PanelSettings, for any number of requests of any kind.   *)
(***************************************************************************)
EXTENDS PanelSettings, TLAPS

\* Two requests that save one file are noted.
Single ==
  \A r, s \in Requests :
    Saving(r) /\ Saving(s) /\ File(r) = File(s) => r = s \/ File(r) \in overlapped

\* A file is open only between Open and the write.
Descriptors == \A r \in Requests : fd[r] # "none" => step[r] = "open"

\* A request that is alone with its file finds f.tmp as it left it, and what it
\* is going to put in place is what is there with its own changes.
Progress ==
  \A r \in Requests : Saving(r) /\ File(r) \notin overlapped =>
    /\ text[r] \in Texts
    /\ File(r) \in {"list", "conf"} => text[r] = Changed(path[File(r)], r)
    /\ step[r] = "open" => fd[r] = "tmp" /\ tmp[File(r)] = Blank
    /\ step[r] = "written" => tmp[File(r)] = text[r]

\* A change is in its file from the rename on, until it is replaced.
Kept ==
  \A r \in Requests :
    (step[r] = "saved" \/ r \in acked) /\ File(r) \in {"list", "conf"} \ overlapped
      => Changes(r) \subseteq path[File(r)] \cup replaced

Inv ==
  /\ TypeOK
  /\ Single
  /\ Descriptors
  /\ Progress
  /\ WholeUnlessOverlapped
  /\ Kept
  /\ ListInForce

\* A request's file is one of the files, and only the list's is the list.
LEMMA FileOf ==
  ASSUME SettingsAssumption, NEW r \in Requests
  PROVE  /\ File(r) \in Files
         /\ Kind[r] = "list" <=> File(r) = "list"
BY DEF SettingsAssumption, File, Files, Kinds

\* What a request sets are settings, and a text with its changes is a text.
LEMMA TextOf ==
  ASSUME SettingsAssumption, NEW r \in Requests
  PROVE  /\ Changes(r) \in Texts
         /\ \A t \in Texts : Changed(t, r) \in Texts
<1>1. Sets(r) \subseteq Settings
  <2>1. Kind[r] \in Kinds /\ Named[r] \subseteq Domains
    BY DEF SettingsAssumption
  <2> QED BY <2>1 DEF Sets, Settings, Kinds
<1>2. Changes(r) \in Texts
  BY <1>1 DEF Changes, Texts
<1> QED BY <1>2 DEF Changed, Texts

LEMMA InitInv == SettingsAssumption /\ Init => Inv
<1> SUFFICES ASSUME SettingsAssumption, Init PROVE Inv
  OBVIOUS
<1>1. {} \in Texts /\ {} \in Contents
  BY DEF Texts, Contents
<1>2. TypeOK
  BY <1>1 DEF Init, TypeOK, Steps
<1>3. Single /\ Descriptors /\ Progress /\ Kept
  BY DEF Init, Single, Descriptors, Progress, Kept, Saving
<1>4. WholeUnlessOverlapped
  BY <1>1 DEF Init, WholeUnlessOverlapped, Whole
<1>5. ListInForce
  BY DEF Init, ListInForce, Files
<1> QED BY <1>2, <1>3, <1>4, <1>5 DEF Inv

\* A request begins: the others that save its file lose their protection, it is
\* alone otherwise.
LEMMA BeginInv ==
  ASSUME SettingsAssumption, Inv, NEW r \in Requests,
         step[r] = "new", Goto(r, "begun"), NoteOverlap(r),
         NEW c, text' = [text EXCEPT ![r] = c], c \in Texts \cup {Torn},
         File(r) \notin overlapped =>
           c \in Texts /\ (File(r) \in {"list", "conf"} => c = Changed(path[File(r)], r)),
         File(r) = "list" => Beside(r) = {},
         UNCHANGED <<path, tmp, domains, fd, loaded, acked, replaced>>
  PROVE  Inv'
<1> USE DEF Inv
<1>1. /\ \A s \in Requests \ {r} : step'[s] = step[s] /\ text'[s] = text[s]
      /\ step'[r] = "begun" /\ text'[r] = c
      /\ step' \in [Requests -> Steps]
      /\ fd[r] = "none"
  BY DEF Goto, TypeOK, Steps, Descriptors
<1>2. overlapped \subseteq overlapped' /\ overlapped' \subseteq overlapped \cup {File(r)}
  BY DEF NoteOverlap
<1>3. File(r) \notin overlapped' =>
        /\ File(r) \notin overlapped
        /\ \A s \in Requests \ {r} : File(s) = File(r) => ~Saving(s)
  BY DEF NoteOverlap, Beside
<1>4. TypeOK'
  BY <1>1, <1>2, FileOf DEF TypeOK
<1>5. Single'
  BY <1>1, <1>2, <1>3 DEF Single, Saving
<1>6. Descriptors'
  BY <1>1 DEF Descriptors
<1>7. Progress'
  <2> SUFFICES ASSUME NEW s \in Requests, Saving(s)', File(s) \notin overlapped'
               PROVE  /\ text'[s] \in Texts
                      /\ File(s) \in {"list", "conf"} => text'[s] = Changed(path[File(s)], s)
                      /\ step'[s] = "open" => fd[s] = "tmp" /\ tmp[File(s)] = Blank
                      /\ step'[s] = "written" => tmp[File(s)] = text'[s]
    BY DEF Progress
  <2>1. CASE s = r
    BY <1>1, <1>3, <2>1
  <2>2. CASE s # r
    BY <1>1, <1>2, <2>2 DEF Progress, Saving
  <2> QED BY <2>1, <2>2
<1>8. WholeUnlessOverlapped'
  BY <1>2 DEF WholeUnlessOverlapped
<1>9. Kept'
  BY <1>1, <1>2 DEF Kept
<1>10. ListInForce'
  BY <1>2 DEF ListInForce, NoteOverlap
<1> QED BY <1>4, <1>5, <1>6, <1>7, <1>8, <1>9, <1>10

LEMMA BeginsInv ==
  ASSUME SettingsAssumption, Inv, NEW r \in Requests,
         BeginList(r) \/ BeginConf(r) \/ BeginForm(r)
  PROVE  Inv'
<1> USE DEF Inv
<1>1. CASE BeginList(r)
  <2> DEFINE c == Changed(domains, r)
  <2>1. c \in Texts /\ File(r) = "list" /\ c = Changed(path["list"], r)
    BY <1>1, FileOf, TextOf DEF BeginList, TypeOK, ListInForce
  <2>2. /\ step[r] = "new" /\ Goto(r, "begun") /\ NoteOverlap(r) /\ Beside(r) = {}
        /\ text' = [text EXCEPT ![r] = c]
        /\ UNCHANGED <<path, tmp, domains, fd, loaded, acked, replaced>>
    BY <1>1 DEF BeginList
  <2> HIDE DEF c, Inv
  <2> QED BY <2>1, <2>2, BeginInv
<1>2. CASE BeginConf(r)
  <2> DEFINE c == IF Whole(path["conf"]) THEN Changed(path["conf"], r) ELSE Torn
  <2>1. c \in Texts \cup {Torn} /\ File(r) = "conf"
    BY <1>2, TextOf DEF BeginConf, Whole
  <2>2. File(r) \notin overlapped => c \in Texts /\ c = Changed(path["conf"], r)
    BY <2>1, TextOf DEF WholeUnlessOverlapped, Files, Whole
  <2>3. /\ step[r] = "new" /\ Goto(r, "begun") /\ NoteOverlap(r)
        /\ text' = [text EXCEPT ![r] = c]
        /\ UNCHANGED <<path, tmp, domains, fd, loaded, acked, replaced>>
    BY <1>2 DEF BeginConf
  <2> HIDE DEF c, Inv
  <2> QED BY <2>1, <2>2, <2>3, BeginInv
<1>3. CASE BeginForm(r)
  <2>1. Changes(r) \in Texts /\ File(r) \notin {"list", "conf"}
    BY <1>3, TextOf DEF BeginForm, File
  <2>2. /\ step[r] = "new" /\ Goto(r, "begun") /\ NoteOverlap(r)
        /\ text' = [text EXCEPT ![r] = Changes(r)]
        /\ UNCHANGED <<path, tmp, domains, fd, loaded, acked, replaced>>
    BY <1>3 DEF BeginForm
  <2> HIDE DEF Inv
  <2> QED BY <2>1, <2>2, BeginInv
<1> QED BY <1>1, <1>2, <1>3

LEMMA OpenInv ==
  ASSUME SettingsAssumption, Inv, NEW r \in Requests, Open(r)
  PROVE  Inv'
<1> USE DEF Inv, Open
<1>1. /\ \A s \in Requests \ {r} : step'[s] = step[s] /\ fd'[s] = fd[s]
      /\ step[r] = "begun" /\ step'[r] = "open" /\ fd'[r] = "tmp"
      /\ step' \in [Requests -> Steps]
  BY DEF Goto, TypeOK, Steps
<1>2. /\ tmp'[File(r)] = Blank
      /\ \A f \in Files \ {File(r)} : tmp'[f] = tmp[f]
  BY FileOf DEF TypeOK
<1>3. \A s \in Requests : Saving(s)' <=> Saving(s)
  BY <1>1 DEF Saving
<1>4. TypeOK'
  BY <1>1 DEF TypeOK, Contents
<1>5. Single'
  BY <1>3 DEF Single
<1>6. Descriptors'
  BY <1>1 DEF Descriptors
<1>7. Progress'
  <2> SUFFICES ASSUME NEW s \in Requests, Saving(s), File(s) \notin overlapped
               PROVE  /\ text[s] \in Texts
                      /\ File(s) \in {"list", "conf"} => text[s] = Changed(path[File(s)], s)
                      /\ step'[s] = "open" => fd'[s] = "tmp" /\ tmp'[File(s)] = Blank
                      /\ step'[s] = "written" => tmp'[File(s)] = text[s]
    BY <1>3 DEF Progress
  <2>1. CASE s = r
    BY <1>1, <1>2, <2>1 DEF Progress
  <2>2. CASE s # r
    <3>1. File(s) # File(r)
      BY <1>1, <2>2 DEF Single, Saving
    <3> QED BY <1>1, <1>2, <2>2, <3>1, FileOf DEF Progress
  <2> QED BY <2>1, <2>2
<1>8. WholeUnlessOverlapped'
  BY DEF WholeUnlessOverlapped
<1>9. Kept'
  BY <1>1 DEF Kept
<1>10. ListInForce'
  BY DEF ListInForce
<1> QED BY <1>4, <1>5, <1>6, <1>7, <1>8, <1>9, <1>10

\* A request ends without an answer of success: only what it had open may change.
LEMMA EndInv ==
  ASSUME SettingsAssumption, Inv, NEW r \in Requests,
         Saving(r), Fail(r),
         \/ UNCHANGED <<path, tmp, fd>> /\ step[r] # "open"
         \/ Put(r, Torn) /\ step[r] = "open",
         UNCHANGED text
  PROVE  Inv'
<1> USE DEF Inv, Fail
<1>1. /\ \A s \in Requests \ {r} : step'[s] = step[s] /\ fd'[s] = fd[s]
      /\ step'[r] = "done" /\ fd'[r] = "none"
      /\ step' \in [Requests -> Steps]
      /\ fd' \in [Requests -> {"none", "tmp", "path", "gone"}]
  BY DEF Goto, Put, TypeOK, Steps, Descriptors, Saving
<1>2. \A f \in Files \ {File(r)} : path'[f] = path[f] /\ tmp'[f] = tmp[f]
  BY DEF Put, TypeOK
<1>3. File(r) \notin overlapped => path' = path
  BY DEF Put, Progress, Saving
<1>4. \A s \in Requests : Saving(s)' => Saving(s) /\ s # r
  BY <1>1 DEF Saving
<1>5. TypeOK'
  <2>1. path' \in [Files -> Contents] /\ tmp' \in [Files -> Contents \cup {NoFile}]
    BY DEF Put, TypeOK, Contents
  <2> QED BY <1>1, <2>1 DEF TypeOK
<1>6. Single'
  BY <1>4 DEF Single
<1>7. Descriptors'
  BY <1>1 DEF Descriptors
<1>8. Progress'
  <2> SUFFICES ASSUME NEW s \in Requests, Saving(s)', File(s) \notin overlapped
               PROVE  /\ text[s] \in Texts
                      /\ File(s) \in {"list", "conf"} => text[s] = Changed(path'[File(s)], s)
                      /\ step'[s] = "open" => fd'[s] = "tmp" /\ tmp'[File(s)] = Blank
                      /\ step'[s] = "written" => tmp'[File(s)] = text[s]
    BY DEF Progress
  <2>1. s # r /\ Saving(s) /\ File(s) # File(r)
    BY <1>4 DEF Single
  <2>2. path'[File(s)] = path[File(s)] /\ tmp'[File(s)] = tmp[File(s)]
    BY <1>2, <2>1, FileOf
  <2> QED BY <1>1, <2>1, <2>2 DEF Progress
<1>9. \A f \in Files \ overlapped : path'[f] = path[f]
  BY <1>2, <1>3
<1>10. WholeUnlessOverlapped'
  BY <1>9 DEF WholeUnlessOverlapped
<1>11. Kept'
  BY <1>1, <1>9, FileOf DEF Kept
<1>12. ListInForce'
  BY <1>9 DEF ListInForce, Files
<1> QED BY <1>5, <1>6, <1>7, <1>8, <1>10, <1>11, <1>12

LEMMA WriteInv ==
  ASSUME SettingsAssumption, Inv, NEW r \in Requests, WriteTmp(r)
  PROVE  Inv'
<1> USE DEF Inv
<1>0. PICK c \in {text[r], Torn} : (Target(r) = Blank => c = text[r]) /\ Put(r, c)
  BY DEF WriteTmp
<1>a. step[r] = "open" /\ Goto(r, "written") /\ UNCHANGED <<domains, text, loaded, acked, replaced, overlapped>>
  BY DEF WriteTmp
<1>1. /\ \A s \in Requests \ {r} : step'[s] = step[s] /\ fd'[s] = fd[s]
      /\ step'[r] = "written" /\ fd'[r] = "none"
      /\ step' \in [Requests -> Steps]
      /\ fd' \in [Requests -> {"none", "tmp", "path", "gone"}]
  BY <1>0, <1>a DEF Goto, Put, TypeOK, Steps
<1>2. \A f \in Files \ {File(r)} : path'[f] = path[f] /\ tmp'[f] = tmp[f]
  BY <1>0 DEF Put, TypeOK
<1>3. File(r) \notin overlapped => path' = path /\ tmp'[File(r)] = text[r]
  <2> SUFFICES ASSUME File(r) \notin overlapped PROVE path' = path /\ tmp'[File(r)] = text[r]
    OBVIOUS
  <2>1. fd[r] = "tmp" /\ tmp[File(r)] = Blank
    BY <1>a DEF Progress, Saving
  <2>2. c = text[r]
    BY <1>0, <2>1 DEF Target
  <2> QED BY <1>0, <2>1, <2>2, FileOf DEF Put, TypeOK
<1>4. \A s \in Requests : Saving(s)' <=> Saving(s)
  BY <1>1, <1>a DEF Saving
<1>5. TypeOK'
  <2>1. c \in Contents
    BY DEF TypeOK, Contents
  <2>2. path' \in [Files -> Contents] /\ tmp' \in [Files -> Contents \cup {NoFile}]
    BY <1>0, <2>1 DEF Put, TypeOK
  <2> QED BY <1>1, <1>a, <2>2 DEF TypeOK
<1>6. Single'
  BY <1>4, <1>a DEF Single
<1>7. Descriptors'
  BY <1>1, <1>a DEF Descriptors
<1>9. \A f \in Files \ overlapped : path'[f] = path[f]
  BY <1>2, <1>3
<1>8. Progress'
  <2> SUFFICES ASSUME NEW s \in Requests, Saving(s), File(s) \notin overlapped
               PROVE  /\ text[s] \in Texts
                      /\ File(s) \in {"list", "conf"} => text[s] = Changed(path'[File(s)], s)
                      /\ step'[s] = "open" => fd'[s] = "tmp" /\ tmp'[File(s)] = Blank
                      /\ step'[s] = "written" => tmp'[File(s)] = text[s]
    BY <1>4, <1>a DEF Progress
  <2>1. path'[File(s)] = path[File(s)]
    BY <1>9, FileOf
  <2>2. CASE s = r
    BY <1>1, <1>3, <2>1, <2>2 DEF Progress
  <2>3. CASE s # r
    <3>1. File(s) # File(r)
      BY <1>a, <2>3 DEF Single, Saving
    <3> QED BY <1>1, <1>2, <2>1, <2>3, <3>1, FileOf DEF Progress
  <2> QED BY <2>2, <2>3
<1>10. WholeUnlessOverlapped'
  BY <1>9, <1>a DEF WholeUnlessOverlapped
<1>11. Kept'
  BY <1>1, <1>9, <1>a, FileOf DEF Kept
<1>12. ListInForce'
  BY <1>9, <1>a DEF ListInForce, Files
<1> QED BY <1>5, <1>6, <1>7, <1>8, <1>10, <1>11, <1>12

LEMMA RenameInv ==
  ASSUME SettingsAssumption, Inv, NEW r \in Requests, Rename(r)
  PROVE  Inv'
<1> USE DEF Inv, Rename
<1>1. /\ \A s \in Requests \ {r} : step'[s] = step[s]
      /\ step[r] = "written" /\ step'[r] = "saved"
      /\ step' \in [Requests -> Steps]
  BY DEF Goto, TypeOK, Steps
<1>2. /\ path'[File(r)] = tmp[File(r)] /\ tmp[File(r)] \in Contents
      /\ \A f \in Files \ {File(r)} : path'[f] = path[f] /\ tmp'[f] = tmp[f]
  BY FileOf DEF TypeOK
<1>3. /\ fd' \in [Requests -> {"none", "tmp", "path", "gone"}]
      /\ \A s \in Requests : fd[s] = "none" => fd'[s] = "none"
      /\ \A s \in Requests : File(s) # File(r) => fd'[s] = fd[s]
  BY DEF TypeOK
<1>4. \A s \in Requests : Saving(s)' => Saving(s) /\ s # r
  BY <1>1 DEF Saving
<1>5. File(r) \notin overlapped =>
        /\ tmp[File(r)] = text[r] /\ text[r] \in Texts
        /\ \A s \in Requests \ {r} : File(s) = File(r) => ~Saving(s)
        /\ File(r) \in {"list", "conf"} => text[r] = Changed(path[File(r)], r)
  BY <1>1 DEF Progress, Single, Saving
<1>6. Kind[r] = "list" => text[r] \in Texts
  BY <1>5, FileOf DEF ListInForce
<1>7. TypeOK'
  <2>1. path' \in [Files -> Contents] /\ tmp' \in [Files -> Contents \cup {NoFile}]
    BY <1>2 DEF TypeOK
  <2>2. Outdated(r) \subseteq Requests \X Settings
    BY DEF Outdated, Whole, Texts
  <2> QED BY <1>1, <1>3, <1>6, <2>1, <2>2 DEF TypeOK
<1>8. Single'
  BY <1>4 DEF Single
<1>9. Descriptors'
  <2> SUFFICES ASSUME NEW s \in Requests, fd'[s] # "none" PROVE step'[s] = "open"
    BY DEF Descriptors
  <2> QED BY <1>1, <1>3 DEF Descriptors
<1>10. Progress'
  <2> SUFFICES ASSUME NEW s \in Requests, Saving(s)', File(s) \notin overlapped
               PROVE  /\ text[s] \in Texts
                      /\ File(s) \in {"list", "conf"} => text[s] = Changed(path'[File(s)], s)
                      /\ step'[s] = "open" => fd'[s] = "tmp" /\ tmp'[File(s)] = Blank
                      /\ step'[s] = "written" => tmp'[File(s)] = text[s]
    BY DEF Progress
  <2>1. s # r /\ Saving(s) /\ File(s) # File(r)
    BY <1>4, <1>5
  <2> QED BY <1>1, <1>2, <1>3, <2>1, FileOf DEF Progress
<1>11. WholeUnlessOverlapped'
  BY <1>2, <1>5 DEF WholeUnlessOverlapped, Whole
<1>12. Kept'
  <2> SUFFICES ASSUME NEW s \in Requests, step'[s] = "saved" \/ s \in acked,
                      File(s) \in {"list", "conf"} \ overlapped,
                      NEW c \in Changes(s)
               PROVE  c \in path'[File(s)] \/ c \in replaced'
    BY DEF Kept
  <2>1. File(s) = File(r) =>
          /\ path'[File(s)] = Changed(path[File(r)], r)
          /\ path[File(r)] \in Texts
    BY <1>2, <1>5, FileOf DEF WholeUnlessOverlapped, Whole
  <2>2. CASE s = r
    BY <2>1, <2>2 DEF Changed
  <2>3. CASE s # r
    <3>1. c \in path[File(s)] \/ c \in replaced
      BY <1>1, <2>3 DEF Kept
    <3>2. CASE File(s) = File(r)
      BY <2>1, <3>1, <3>2 DEF Changed, Outdated, Whole
    <3>3. CASE File(s) # File(r)
      BY <1>2, <3>1, <3>3, FileOf
    <3> QED BY <3>2, <3>3
  <2> QED BY <2>2, <2>3
<1>13. ListInForce'
  <2>1. CASE Kind[r] = "list"
    BY <1>2, <1>5, <2>1, FileOf DEF ListInForce
  <2>2. CASE Kind[r] # "list"
    BY <1>2, <2>2, FileOf DEF ListInForce, Files
  <2> QED BY <2>1, <2>2
<1> QED BY <1>7, <1>8, <1>9, <1>10, <1>11, <1>12, <1>13

\* dnsdist starts with the files as they are, or does not, and a request that was
\* waiting for it is answered.
LEMMA RestartsInv ==
  ASSUME SettingsAssumption, Inv,
         \/ \E r \in Requests : Restart(r) \/ RestartFails(r) \/ SkipRestart(r)
         \/ OtherRestart
  PROVE  Inv'
<1> USE DEF Inv
<1>1. /\ UNCHANGED <<path, tmp, domains, text, fd, replaced, overlapped>>
      /\ step' \in [Requests -> Steps]
      /\ \A s \in Requests : step'[s] = step[s] \/ (step[s] = "saved" /\ step'[s] = "done")
      /\ acked \subseteq acked' /\ acked' \subseteq Requests
      /\ \A s \in acked' \ acked : step[s] = "saved"
      /\ loaded' = path \/ loaded' = Down
         \/ (loaded' = loaded /\ \A s \in acked' \ acked : Kind[s] # "list")
  BY DEF Restart, RestartFails, SkipRestart, OtherRestart, Restarted, Goto, TypeOK, Steps
<1>2. \A s \in Requests : (Saving(s)' <=> Saving(s)) /\ (Saving(s) => step'[s] = step[s])
  BY <1>1 DEF Saving
<1>3. TypeOK'
  BY <1>1 DEF TypeOK
<1>4. Single' /\ Progress'
  BY <1>1, <1>2 DEF Single, Progress
<1>5. Descriptors'
  BY <1>1 DEF Descriptors
<1>6. WholeUnlessOverlapped'
  BY <1>1 DEF WholeUnlessOverlapped
<1>7. Kept'
  BY <1>1 DEF Kept
<1>8. ListInForce'
  <2>1. \A s \in acked' : Kind[s] = "list" => Changes(s) \subseteq path["list"] \cup replaced
    <3> SUFFICES ASSUME NEW s \in acked', Kind[s] = "list"
                 PROVE  Changes(s) \subseteq path["list"] \cup replaced
      OBVIOUS
    <3>1. s \in Requests /\ File(s) = "list" /\ "list" \notin overlapped
      BY <1>1, FileOf DEF ListInForce
    <3> QED BY <1>1, <3>1 DEF Kept
  <2> QED BY <1>1, <2>1 DEF ListInForce
<1> QED BY <1>3, <1>4, <1>5, <1>6, <1>7, <1>8

LEMMA PanelDiesInv ==
  ASSUME SettingsAssumption, Inv, PanelDies
  PROVE  Inv'
<1> USE DEF Inv, PanelDies
<1>1. /\ \A r \in Requests : step'[r] = "new" \/ step'[r] = "done"
      /\ \A r \in Requests : ~Saving(r)'
      /\ step' \in [Requests -> Steps]
  BY DEF Saving, Steps
<1>2. path["list"] \in Texts
  BY DEF ListInForce, WholeUnlessOverlapped, Whole, Files
<1>3. TypeOK'
  BY <1>1, <1>2 DEF TypeOK
<1>4. Single' /\ Progress' /\ Descriptors'
  BY <1>1 DEF Single, Progress, Descriptors
<1>5. WholeUnlessOverlapped'
  BY DEF WholeUnlessOverlapped
<1>6. Kept'
  BY <1>1 DEF Kept
<1>7. ListInForce'
  BY DEF ListInForce
<1> QED BY <1>3, <1>4, <1>5, <1>6, <1>7

LEMMA StepInv ==
  ASSUME SettingsAssumption, Inv, [Next]_vars
  PROVE  Inv'
<1>1. ASSUME NEW r \in Requests, Request(r) PROVE Inv'
  <2>1. CASE BeginList(r) \/ BeginConf(r) \/ BeginForm(r)
    BY <2>1, BeginsInv
  <2>2. CASE Open(r)
    BY <2>2, OpenInv
  <2>3. CASE OpenFails(r) \/ RenameFails(r)
    BY <2>3, EndInv DEF OpenFails, RenameFails, Saving
  <2>4. CASE WriteTmp(r)
    BY <2>4, WriteInv
  <2>5. CASE WriteFails(r)
    BY <2>5, EndInv DEF WriteFails, Saving
  <2>6. CASE Rename(r)
    BY <2>6, RenameInv
  <2>7. CASE Restart(r) \/ RestartFails(r) \/ SkipRestart(r)
    BY <2>7, RestartsInv
  <2> QED BY <1>1, <2>1, <2>2, <2>3, <2>4, <2>5, <2>6, <2>7 DEF Request
<1>2. CASE OtherRestart
  BY <1>2, RestartsInv
<1>3. CASE PanelDies
  BY <1>3, PanelDiesInv
<1>4. CASE UNCHANGED vars
  BY <1>4 DEF vars, Inv, TypeOK, Single, Descriptors, Progress, WholeUnlessOverlapped, Kept,
              ListInForce, Saving
<1> QED BY <1>1, <1>2, <1>3, <1>4 DEF Next

LEMMA Invariance == SettingsAssumption => (Spec => []Inv)
<1> SUFFICES ASSUME SettingsAssumption PROVE Spec => []Inv
  OBVIOUS
<1>1. Init => Inv BY InitInv
<1>2. Inv /\ [Next]_vars => Inv' BY StepInv
<1> QED BY <1>1, <1>2, PTL DEF Spec

\* Files, texts and open files stay what the steps of atomicWrite take them for,
\* however many writers share f.tmp.
THEOREM SettingsTypeCorrect == SettingsAssumption => (Spec => []TypeOK)
<1> SUFFICES ASSUME SettingsAssumption PROVE Spec => []TypeOK
  OBVIOUS
<1>1. Inv => TypeOK BY DEF Inv
<1> QED BY <1>1, Invariance, PTL

\* atomicWrite never leaves half a file under the name dnsdist reads, through any
\* failures and deaths, as long as one request at a time saves that file.
THEOREM FilesStayWhole == SettingsAssumption => (Spec => []WholeUnlessOverlapped)
<1> SUFFICES ASSUME SettingsAssumption PROVE Spec => []WholeUnlessOverlapped
  OBVIOUS
<1>1. Inv => WholeUnlessOverlapped BY DEF Inv
<1> QED BY <1>1, Invariance, PTL

\* A change of the local block list or, where no two requests save it at once, of
\* dnsdist.conf is not lost once it was answered with success: it is in the file, or
\* another request changed the same setting after it.
THEOREM ChangesAreKept == SettingsAssumption => (Spec => []AckedChangesKept)
<1> SUFFICES ASSUME SettingsAssumption PROVE Spec => []AckedChangesKept
  OBVIOUS
<1>1. Inv => AckedChangesKept BY DEF Inv, TypeOK, Kept, AckedChangesKept
<1> QED BY <1>1, Invariance, PTL

\* The mutex of localBlockStore and the order of writeLocked, assignment, restart
\* and answer keep list, file and dnsdist together, with no condition.
THEOREM LocalBlockInForce == SettingsAssumption => (Spec => []ListInForce)
<1> SUFFICES ASSUME SettingsAssumption PROVE Spec => []ListInForce
  OBVIOUS
<1>1. Inv => ListInForce BY DEF Inv
<1> QED BY <1>1, Invariance, PTL
==============================================================================
