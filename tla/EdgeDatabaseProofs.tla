--------------------------- MODULE EdgeDatabaseProofs --------------------------
(***************************************************************************)
(* Theorems about MasterBuild and EdgeDatabase, for any number of request  *)
(* goroutines, edits and deaths, and for deployments of any kind.          *)
(***************************************************************************)
EXTENDS EdgeDatabase, TLAPS

USE DEF world, inputs, job, published, names

--------------------------------------------------------------------------------
(* The master's invariant *)

Working(b) == pc[b] \notin {"idle", "saving", "called"}
Chosen(b) == pc[b] \in {"close", "rename", "link", "unnamed"}
Linked(b) == pc[b] \in {"cleanup", "manifest", "local", "localswap"}

\* One goroutine at most is past IsBuilding.
OneBuild ==
  /\ \A b \in Builders : Working(b) => building
  /\ \A b, c \in Builders : Working(b) /\ Working(c) => b = c

\* What the goroutine that builds has made so far.
Compiled ==
  \A b \in Builders :
    /\ pc[b] = "close" => tmp = Partial
    /\ pc[b] = "rename" => tmp = plan[b]
    /\ pc[b] = "link" => dbs[plan[b]] = plan[b]
    /\ Chosen(b) \/ Linked(b) => plan[b] \in Content
    /\ Linked(b) /\ ~lost => link = plan[b] /\ dbs[plan[b]] = plan[b]

\* A file that is there has the name of its content.
Named == \A n \in Name : dbs[n] # None => n \in Content /\ dbs[n] = n

\* trust.db names a content, and one that is there unless its move was lost.
Published ==
  /\ link # None => link \in Content
  /\ link # None /\ ~lost => dbs[link] = link

\* A build read the list after the build that was published before it.
Ordered ==
  /\ link \in Content => link.list <= list
  /\ \A b \in Builders : Chosen(b) =>
       /\ plan[b].list <= list
       /\ link \in Content => link.list <= plan[b].list

\* Where the disk works every file gets its name, and every name is linked.
DiskWorks == "disk" \notin setup.faults => ~lost /\ \A b \in Builders : pc[b] # "unnamed"

Shape ==
  /\ setup \in Setups
  /\ list \in 0..setup.edits
  /\ listWhole \in BOOLEAN
  /\ clash \in BOOLEAN
  /\ poisoned \in BOOLEAN
  /\ pc \in [Builders -> BuildPC]
  /\ plan \in [Builders -> Name \union {None}]
  /\ building \in BOOLEAN
  /\ tmp \in Name \union {None}
  /\ dbs \in [Name -> Name \union {None}]
  /\ link \in Name \union {None}
  /\ lost \in BOOLEAN

MInv == Shape /\ OneBuild /\ Compiled /\ Named /\ Published /\ Ordered /\ DiskWorks

\* The markers are not contents, and contents are numbered.
LEMMA Markers ==
  /\ None \notin Name /\ Partial \notin Content /\ Content \subseteq Name /\ Partial \in Name
  /\ Ticker \notin Requests
  /\ \A c \in Content : c.list \in Nat
BY BoundAssumption, FreshAssumption DEF Name, Content

\* What a build of one version of the list makes.
LEMMA Builds ==
  ASSUME NEW l \in 0..MaxEdits, NEW w \in BOOLEAN, NEW f \in BOOLEAN
  PROVE  /\ [list |-> l, whole |-> w, feeds |-> f] \in Content
         /\ [list |-> l, whole |-> w, feeds |-> f].list = l
BY DEF Content

\* The bounds of a deployment.
LEMMA Bounds ==
  ASSUME setup \in Setups
  PROVE  /\ setup.edits \in 0..MaxEdits
         /\ setup.deaths \in Nat
         /\ 0..setup.edits \subseteq 0..MaxEdits
         /\ \A f : May(f) \subseteq BOOLEAN /\ TRUE \in May(f)
         /\ \A f : f \notin setup.faults => May(f) = {TRUE}
<1>1. setup \in Circumstances /\ MaxEdits \in Nat
  BY BoundAssumption
<1>2. setup.edits \in 0..MaxEdits /\ setup.deaths \in Nat
  BY <1>1 DEF Circumstances
<1>3. 0..setup.edits \subseteq 0..MaxEdits
  BY <1>1, <1>2
<1> QED BY <1>2, <1>3 DEF May

LEMMA MasterStarts == Init => MInv
<1> SUFFICES ASSUME Init PROVE MInv
  OBVIOUS
<1>1. Shape
  <2>1. setup \in Setups /\ list \in 0..setup.edits
    BY Bounds DEF Init, MasterInit
  <2>2. pc \in [Builders -> BuildPC]
    BY DEF Init, MasterInit, BuildPC
  <2>3. plan \in [Builders -> Name \union {None}] /\ dbs \in [Name -> Name \union {None}]
    BY DEF Init, MasterInit
  <2>4. building \in BOOLEAN /\ tmp \in Name \union {None} /\ link \in Name \union {None}
        /\ listWhole \in BOOLEAN /\ clash \in BOOLEAN /\ poisoned \in BOOLEAN /\ lost \in BOOLEAN
    BY DEF Init, MasterInit
  <2> QED BY <2>1, <2>2, <2>3, <2>4 DEF Shape
<1>2. OneBuild /\ Compiled /\ Named /\ Published /\ Ordered /\ DiskWorks
  BY Markers DEF Init, MasterInit, OneBuild, Compiled, Named, Published, Ordered, DiskWorks, Working,
     Linked, Chosen
<1> QED BY <1>1, <1>2 DEF MInv

\* Goroutines that only wait: the published files are untouched and none starts to build.
LEMMA WaitingKeeps ==
  ASSUME MInv,
         pc' \in [Builders -> BuildPC],
         \A b \in Builders : pc'[b] = pc[b] \/ pc'[b] \in {"idle", "saving", "called"},
         list' \in 0..setup.edits, list <= list',
         listWhole' \in BOOLEAN, clash' \in BOOLEAN,
         UNCHANGED <<setup, poisoned, plan, building, tmp, published>>
  PROVE  MInv'
<1>1. Shape'
  BY DEF MInv, Shape
<1>2. OneBuild'
  BY DEF MInv, OneBuild, Working
<1>3. Compiled'
  BY DEF MInv, Compiled, Chosen, Linked
<1>4. Named' /\ Published' /\ DiskWorks'
  BY DEF MInv, Named, Published, DiskWorks
<1>5. Ordered'
  <2>1. ASSUME NEW l \in Nat, l <= list PROVE l <= list'
    BY <2>1, Bounds DEF MInv, Shape
  <2>2. link \in Content => link.list <= list'
    BY <2>1, Markers DEF MInv, Ordered
  <2>3. ASSUME NEW b \in Builders, Chosen(b)'
        PROVE  plan[b].list <= list' /\ (link \in Content => link.list <= plan[b].list)
    <3>1. Chosen(b)
      BY <2>3 DEF Chosen
    <3>2. plan[b] \in Content
      BY <3>1 DEF MInv, Compiled
    <3> QED BY <2>1, <3>1, <3>2, Markers DEF MInv, Ordered
  <2> QED BY <2>2, <2>3 DEF Ordered
<1> QED BY <1>1, <1>2, <1>3, <1>4, <1>5 DEF MInv

\* While one goroutine builds, the others wait.
LEMMA Alone ==
  ASSUME MInv, NEW b \in Builders, Working(b)
  PROVE  building /\ \A c \in Builders : c # b => pc[c] \in {"idle", "saving", "called"}
BY DEF MInv, OneBuild, Working

\* A goroutine that builds moves on: the others' obligations are not disturbed, so
\* what is left to show is its own.
LEMMA AloneKeeps ==
  ASSUME MInv, NEW b \in Builders, Working(b) \/ ~building,
         NEW place \in BuildPC, Goto(b, place),
         UNCHANGED <<setup, list, listWhole, clash>>,
         poisoned' \in BOOLEAN,
         plan'[b] \in Name \union {None},
         plan' = [plan EXCEPT ![b] = plan'[b]],
         building' \in BOOLEAN,
         building' = (place \notin {"idle", "saving", "called"}),
         tmp' \in Name \union {None},
         dbs' \in [Name -> Name \union {None}],
         lost' \in BOOLEAN,
         link' = link \/ (link' = plan[b] /\ plan[b] \in Content),
         place = "unnamed" => "disk" \in setup.faults,
         "disk" \notin setup.faults => ~lost',
         place = "close" => tmp' = Partial,
         place = "rename" => tmp' = plan'[b],
         place = "link" => dbs'[plan'[b]] = plan'[b],
         Chosen(b)' \/ Linked(b)' => plan'[b] \in Content,
         Linked(b)' /\ ~lost' => link' = plan'[b] /\ dbs'[plan'[b]] = plan'[b],
         Named',
         link' # None => link' \in Content,
         link' # None /\ ~lost' => dbs'[link'] = link',
         link' \in Content => link'.list <= list,
         Chosen(b)' => /\ plan'[b].list <= list
                       /\ link' \in Content => link'.list <= plan'[b].list
  PROVE  MInv'
<1>1. /\ \A c \in Builders : c # b => pc[c] \in {"idle", "saving", "called"} /\ pc'[c] = pc[c]
      /\ pc'[b] = place
  <2>1. \A c \in Builders : c # b => pc[c] \in {"idle", "saving", "called"}
    BY Alone DEF MInv, OneBuild, Working
  <2> QED BY <2>1 DEF Goto, MInv, Shape
<1>2. Shape'
  <2>1. pc' \in [Builders -> BuildPC]
    BY DEF Goto, MInv, Shape
  <2>2. plan' \in [Builders -> Name \union {None}]
    BY DEF MInv, Shape
  <2>3. link' \in Name \union {None}
    BY Markers DEF MInv, Shape
  <2> QED BY <2>1, <2>2, <2>3 DEF MInv, Shape
<1>3. OneBuild'
  BY <1>1 DEF OneBuild, Working
<1>4. Compiled'
  BY <1>1 DEF Compiled, Chosen, Linked
<1>5. Published'
  BY DEF Published
<1>6. Ordered'
  BY <1>1 DEF Ordered, Chosen
<1>7. DiskWorks'
  BY <1>1 DEF DiskWorks, MInv
<1> QED BY <1>2, <1>3, <1>4, <1>5, <1>6, <1>7 DEF MInv

\* A goroutine that saves, waits or is turned away.
LEMMA CallerKeeps ==
  ASSUME MInv, NEW b \in Builders,
         \/ BeginSave(b) \/ EndSave(b) \/ SaveFails(b) \/ RequestBuild(b) \/ (Tick /\ b = Ticker)
         \/ (Enter(b) /\ building)
  PROVE  MInv' /\ UNCHANGED <<published, newer>>
<1> USE DEF BeginSave, EndSave, SaveFails, RequestBuild, Tick, Enter
<1>1. PICK place \in {"idle", "saving", "called"} : Goto(b, place)
  OBVIOUS
<1>2. pc' \in [Builders -> BuildPC] /\ \A c \in Builders : pc'[c] = pc[c] \/ pc'[c] = place
  BY <1>1 DEF Goto, MInv, Shape, BuildPC
<1>3. list' \in 0..setup.edits /\ list <= list'
  <2>1. setup.edits \in Nat /\ list \in 0..setup.edits
    BY Bounds, BoundAssumption DEF MInv, Shape
  <2>2. list' = list \/ (list' = list + 1 /\ list < setup.edits)
    OBVIOUS
  <2> QED BY <2>1, <2>2
<1>4. listWhole' \in BOOLEAN /\ clash' \in BOOLEAN
  BY DEF MInv, Shape, Torn
<1>5. UNCHANGED <<setup, poisoned, plan, building, tmp, published, newer>>
  OBVIOUS
<1> QED BY <1>2, <1>3, <1>4, <1>5, WaitingKeeps

\* A build that gives up, or ends.
LEMMA ReturnKeeps ==
  ASSUME MInv, NEW b \in Builders, Working(b), Return(b),
         UNCHANGED <<setup, list, listWhole, clash, published>>,
         tmp' \in Name \union {None}, poisoned' \in BOOLEAN
  PROVE  MInv'
<1> USE DEF MInv
<1>1. pc'[b] = "idle" /\ "idle" \in BuildPC /\ Goto(b, "idle") /\ building' = FALSE
  BY DEF Return, Goto, Shape, BuildPC
<1>2. plan' = [plan EXCEPT ![b] = plan'[b]] /\ plan'[b] \in Name \union {None}
  BY DEF Return, Shape
<1> QED BY <1>1, <1>2, AloneKeeps DEF Shape, Named, Published, Ordered, DiskWorks, Linked, Chosen

\* A build that moves on and leaves what is published alone.
LEMMA PassingKeeps ==
  ASSUME MInv, NEW b \in Builders, Working(b) \/ ~building,
         NEW place \in BuildPC, Goto(b, place), place \notin {"idle", "saving", "called", "link"},
         building' = TRUE, poisoned' \in BOOLEAN,
         UNCHANGED <<setup, list, listWhole, clash, dbs, link, lost>>,
         plan'[b] \in Name \union {None},
         plan' = [plan EXCEPT ![b] = plan'[b]],
         tmp' \in Name \union {None},
         place = "unnamed" => "disk" \in setup.faults,
         place = "close" => tmp' = Partial,
         place = "rename" => tmp' = plan'[b],
         Chosen(b)' \/ Linked(b)' => plan'[b] \in Content,
         Linked(b)' => Linked(b) /\ plan'[b] = plan[b],
         Chosen(b)' => /\ plan'[b].list <= list
                       /\ link \in Content => link.list <= plan'[b].list
  PROVE  MInv'
<1>1. Linked(b)' /\ ~lost => link = plan'[b] /\ dbs[plan'[b]] = plan'[b]
  BY DEF MInv, Compiled
<1>2. building' \in BOOLEAN /\ building' = (place \notin {"idle", "saving", "called"})
  OBVIOUS
<1>3. /\ dbs \in [Name -> Name \union {None}] /\ lost \in BOOLEAN
      /\ Named' /\ (link # None => link \in Content) /\ (link # None /\ ~lost => dbs[link] = link)
      /\ (link \in Content => link.list <= list)
      /\ ("disk" \notin setup.faults => ~lost)
  BY DEF MInv, Shape, Named, Published, Ordered, DiskWorks
<1> QED BY <1>1, <1>2, <1>3, AloneKeeps

LEMMA CompileKeeps ==
  ASSUME MInv, NEW b \in Builders, Compile(b)
  PROVE  MInv'
<1>1. /\ pc[b] = "compile" /\ Goto(b, "close") /\ tmp' = Partial
      /\ UNCHANGED <<setup, list, listWhole, clash, building, dbs, link, lost>>
  BY DEF Compile
<1>2. Working(b) /\ building
  BY <1>1, Alone DEF Working
<1>3. PICK feeds \in BOOLEAN, read \in May("lists") :
        /\ FetchFeeds(b, feeds)
        /\ plan' = [plan EXCEPT ![b] =
             [list |-> list, whole |-> list = 0 \/ (listWhole /\ ~clash /\ read), feeds |-> feeds]]
  BY DEF Compile
<1>4. poisoned' \in BOOLEAN
  BY <1>3 DEF FetchFeeds, MInv, Shape
<1>5. list \in 0..MaxEdits /\ list <= list
  BY Bounds, BoundAssumption DEF MInv, Shape
<1>6. plan'[b] \in Content /\ plan'[b].list = list
  <2> DEFINE w == list = 0 \/ (listWhole /\ ~clash /\ read)
  <2>1. w \in BOOLEAN
    OBVIOUS
  <2>2. plan'[b] = [list |-> list, whole |-> w, feeds |-> feeds]
    BY <1>3 DEF MInv, Shape
  <2> HIDE DEF w
  <2> QED BY <1>5, <2>1, <2>2, Builds
<1>7. plan' = [plan EXCEPT ![b] = plan'[b]] /\ plan'[b] \in Name \union {None}
  BY <1>3, <1>6, Markers DEF MInv, Shape
<1>8. pc'[b] = "close" /\ "close" \in BuildPC
  BY <1>1 DEF Goto, MInv, Shape, BuildPC
<1>9. link \in Content => link.list <= list
  BY DEF MInv, Ordered
<1>10. ~Linked(b)'
  BY <1>8 DEF Linked
<1> QED BY <1>1, <1>2, <1>4, <1>5, <1>6, <1>7, <1>8, <1>9, <1>10, PassingKeeps, Markers

LEMMA CloseKeeps ==
  ASSUME MInv, NEW b \in Builders, Close(b)
  PROVE  MInv'
<1> USE DEF MInv
<1>1. /\ pc[b] = "close" /\ tmp = Partial /\ plan[b] \in Content /\ Working(b) /\ building
      /\ Chosen(b)
  BY Alone DEF Close, Compiled, Chosen, Working
<1>2. tmp # None
  BY <1>1, Markers
<1>3. /\ tmp' = plan[b] /\ plan' = [plan EXCEPT ![b] = tmp'] /\ Goto(b, "rename")
      /\ UNCHANGED <<setup, list, listWhole, clash, poisoned, building, dbs, link, lost>>
  BY <1>1, <1>2 DEF Close
<1>4. pc'[b] = "rename" /\ "rename" \in BuildPC
  BY <1>3 DEF Goto, Shape, BuildPC
<1>5. plan'[b] = plan[b] /\ plan' = [plan EXCEPT ![b] = plan'[b]] /\ plan'[b] \in Name \union {None}
  BY <1>1, <1>3, Markers DEF Shape
<1>6. poisoned' \in BOOLEAN /\ building' = TRUE /\ ~Linked(b)'
  BY <1>1, <1>3, <1>4 DEF Shape, Linked
<1>7. plan[b].list <= list /\ (link \in Content => link.list <= plan[b].list)
  BY <1>1 DEF Ordered
<1> QED BY <1>1, <1>3, <1>4, <1>5, <1>6, <1>7, PassingKeeps, Markers

LEMMA RenameKeeps ==
  ASSUME MInv, NEW b \in Builders, NEW ok \in May("disk"), Rename(b, ok)
  PROVE  MInv'
<1> USE DEF MInv
<1>1. /\ pc[b] = "rename" /\ tmp = plan[b] /\ plan[b] \in Content /\ Working(b) /\ building
      /\ Chosen(b)
  BY Alone DEF Rename, Compiled, Chosen, Working
<1>2. tmp # None
  BY <1>1, Markers
<1>3. UNCHANGED <<setup, list, listWhole, clash, poisoned, building, plan, link, lost>>
  BY DEF Rename
<1>4. plan' = [plan EXCEPT ![b] = plan'[b]] /\ plan'[b] \in Name \union {None}
  BY <1>1, <1>3, Markers DEF Shape
<1>5. plan[b].list <= list /\ (link \in Content => link.list <= plan[b].list)
  BY <1>1 DEF Ordered
<1>6. building' = TRUE /\ poisoned' \in BOOLEAN
  BY <1>1, <1>3 DEF Shape
<1>7. CASE ok
  <2>1. dbs' = [dbs EXCEPT ![plan[b]] = plan[b]] /\ tmp' = None /\ Goto(b, "link")
    BY <1>1, <1>2, <1>7 DEF Rename
  <2>2. pc'[b] = "link" /\ "link" \in BuildPC
    BY <2>1 DEF Goto, Shape, BuildPC
  <2>3. dbs' \in [Name -> Name \union {None}] /\ dbs'[plan[b]] = plan[b] /\ Named'
    BY <1>1, <2>1, Markers DEF Shape, Named
  <2>4. link # None /\ ~lost => dbs'[link] = link
    BY <1>1, <2>1, Markers DEF Shape, Published
  <2> QED BY <1>1, <1>3, <1>4, <1>5, <1>6, <2>1, <2>2, <2>3, <2>4, AloneKeeps
          DEF Shape, Published, Ordered, DiskWorks, Linked
<1>8. CASE ~ok
  <2>1. UNCHANGED <<dbs, tmp>> /\ Goto(b, "unnamed")
    BY <1>8 DEF Rename
  <2>2. pc'[b] = "unnamed" /\ "unnamed" \in BuildPC /\ ~Linked(b)'
    BY <2>1 DEF Goto, Shape, BuildPC, Linked
  <2>3. "disk" \in setup.faults
    BY <1>8 DEF May
  <2>4. tmp' \in Name \union {None}
    BY <2>1 DEF Shape
  <2> QED BY <1>1, <1>3, <1>4, <1>5, <1>6, <2>1, <2>2, <2>3, <2>4, PassingKeeps
<1> QED BY <1>7, <1>8

LEMMA LinkKeeps ==
  ASSUME MInv, NEW b \in Builders, NEW ok \in May("disk"), Link(b, ok)
  PROVE  MInv'
<1> USE DEF MInv
<1>1. pc[b] \in {"link", "unnamed"} /\ Chosen(b) /\ Working(b) /\ building
  BY Alone DEF Link, Chosen, Working
<1>2. plan[b] \in Content /\ plan[b].list <= list /\ (pc[b] = "link" => dbs[plan[b]] = plan[b])
  BY <1>1 DEF Compiled, Ordered
<1>3. /\ link' = (IF ok THEN plan[b] ELSE link) /\ lost' = ~(ok /\ pc[b] = "link")
      /\ Goto(b, "cleanup")
      /\ UNCHANGED <<setup, list, listWhole, clash, poisoned, building, plan, tmp, dbs>>
  BY DEF Link
<1>4. pc'[b] = "cleanup" /\ "cleanup" \in BuildPC
  BY <1>3 DEF Goto, Shape, BuildPC
<1>5. plan' = [plan EXCEPT ![b] = plan'[b]] /\ plan'[b] \in Name \union {None}
  BY <1>2, <1>3, Markers DEF Shape
<1>6. link' = link \/ link' = plan[b]
  BY <1>3
<1>7. ~lost' => link' = plan[b] /\ dbs[plan[b]] = plan[b]
  BY <1>2, <1>3
<1>8. (link' # None => link' \in Content) /\ (link' \in Content => link'.list <= list)
  BY <1>2, <1>6 DEF Published, Ordered
<1>9. lost' \in BOOLEAN /\ building' = TRUE
  BY <1>1, <1>3
<1>10. "disk" \notin setup.faults => ~lost'
  BY <1>1, <1>3 DEF DiskWorks, May
<1> QED BY <1>1, <1>2, <1>3, <1>4, <1>5, <1>6, <1>7, <1>8, <1>9, <1>10, AloneKeeps
        DEF Shape, Named, Chosen

LEMMA CleanupKeeps ==
  ASSUME MInv, NEW b \in Builders, NEW ok \in BOOLEAN, Cleanup(b, ok)
  PROVE  MInv'
<1> USE DEF MInv
<1>1. pc[b] = "cleanup" /\ Linked(b) /\ Working(b) /\ building
  BY Alone DEF Cleanup, Linked, Working
<1>2. plan[b] \in Content /\ plan[b] \in Name /\ (~lost => dbs[plan[b]] = plan[b] /\ link = plan[b])
  BY <1>1, Markers DEF Compiled
<1>3. PICK removed \in Removed(b, ok) :
        dbs' = [n \in Name |-> IF n \in removed THEN None ELSE dbs[n]]
  BY DEF Cleanup
<1>4. plan[b] \notin removed
  BY <1>3 DEF Removed
<1>5. /\ Goto(b, "manifest")
      /\ UNCHANGED <<setup, list, listWhole, clash, poisoned, building, plan, tmp, link, lost>>
  BY DEF Cleanup
<1>6. pc'[b] = "manifest" /\ "manifest" \in BuildPC
  BY <1>5 DEF Goto, Shape, BuildPC
<1>7. dbs' \in [Name -> Name \union {None}] /\ Named'
  BY <1>3 DEF Shape, Named
<1>8. ~lost => dbs'[plan[b]] = plan[b] /\ link = plan[b]
  BY <1>2, <1>3, <1>4
<1>9. plan' = [plan EXCEPT ![b] = plan'[b]] /\ plan'[b] \in Name \union {None}
  BY <1>2, <1>5, Markers DEF Shape
<1> QED BY <1>1, <1>2, <1>5, <1>6, <1>7, <1>8, <1>9, AloneKeeps
        DEF Shape, Published, Ordered, DiskWorks, Chosen

LEMMA BuildKeeps ==
  ASSUME MInv, NEW b \in Builders, BuildStep(b)
  PROVE  MInv'
<1> USE DEF MInv
<1>1. CASE Enter(b) /\ ~building
  <2>1. /\ Goto(b, "compile") /\ building' = TRUE
        /\ UNCHANGED <<setup, list, listWhole, clash, poisoned, plan, tmp, dbs, link, lost>>
    BY <1>1 DEF Enter
  <2>2. pc'[b] = "compile" /\ "compile" \in BuildPC
    BY <2>1 DEF Goto, Shape, BuildPC
  <2> QED BY <1>1, <2>1, <2>2, PassingKeeps DEF Shape, Linked, Chosen
<1>2. ASSUME NEW place \in {"local", "localswap"}, Linked(b), Goto(b, place),
             UNCHANGED <<world, inputs, plan, building, tmp, published>>
      PROVE  MInv'
  <2>1. Working(b) /\ building
    BY <1>2, Alone DEF Linked, Working
  <2>2. pc'[b] = place /\ place \in BuildPC /\ ~Chosen(b)'
    BY <1>2 DEF Goto, Shape, BuildPC, Chosen
  <2>3. plan[b] \in Content /\ plan' = [plan EXCEPT ![b] = plan'[b]] /\ plan'[b] \in Name \union {None}
    BY <1>2, Markers DEF Shape, Compiled
  <2> QED BY <1>2, <2>1, <2>2, <2>3, PassingKeeps DEF Shape
<1>3. CASE \E ok \in May("disk") : WriteManifest(b, ok) \/ LinkLocal(b, ok)
  BY <1>2, <1>3 DEF WriteManifest, LinkLocal, Linked
<1>4. CASE \E ok \in May("disk") : SwapLocal(b, ok)
  BY <1>4, ReturnKeeps DEF SwapLocal, Working, Shape
<1>5. CASE NoSource(b) \/ WriteFails(b)
  BY <1>5, ReturnKeeps DEF NoSource, WriteFails, Working, Shape
<1>6. CASE CreateFails(b)
  BY <1>6, ReturnKeeps DEF CreateFails, FetchFeeds, Working, Shape
<1>7. May("disk") \subseteq BOOLEAN
  BY Bounds DEF Shape
<1> QED BY <1>1, <1>3, <1>4, <1>5, <1>6, <1>7, CallerKeeps, CompileKeeps, CloseKeeps, RenameKeeps,
           LinkKeeps, CleanupKeeps
        DEF BuildStep, FileStep, Shape

\* The files outlive the panel; the goroutines do not.
LEMMA DeathKeeps == MInv /\ PanelDies => MInv'
<1> SUFFICES ASSUME MInv, PanelDies PROVE MInv'
  OBVIOUS
<1> USE DEF MInv
<1>1. /\ pc' = [b \in Builders |-> "idle"] /\ plan' = [b \in Builders |-> None]
      /\ building' = FALSE /\ UNCHANGED <<setup, list, poisoned, tmp, dbs, link, lost>>
      /\ listWhole' \in BOOLEAN /\ clash' \in BOOLEAN
  BY DEF PanelDies, Torn, Shape
<1>2. pc' \in [Builders -> BuildPC]
  BY <1>1 DEF BuildPC
<1>3. plan' \in [Builders -> Name \union {None}]
  BY <1>1
<1>4. Shape'
  BY <1>1, <1>2, <1>3 DEF Shape
<1>5. OneBuild' /\ Compiled' /\ Named' /\ Published' /\ Ordered' /\ DiskWorks'
  BY <1>1 DEF OneBuild, Compiled, Named, Published, Ordered, DiskWorks, Working, Linked, Chosen
<1> QED BY <1>4, <1>5

\* What a step of the master may do to what the edge sees: a database once
\* published gives way to one of the same or a later list, and no file of the edge
\* is touched.
Forward == link # None => link' \in Content /\ link.list <= link'.list

\* The steps that may publish, or lose, a database.
Publishes(b) == \E ok \in May("disk") : Rename(b, ok) \/ Link(b, ok) \/ Cleanup(b, ok)

LEMMA MasterFiles ==
  ASSUME MInv, MasterNext
  PROVE  /\ DOMAIN newer' = DOMAIN newer
         /\ UNCHANGED setup
         /\ UNCHANGED published \/ \E b \in Builders : Publishes(b)
         /\ UNCHANGED link \/ \E b \in Builders, ok \in May("disk") : Link(b, ok) /\ link' = plan[b]
         /\ UNCHANGED list \/ ((\E b \in Builders : EndSave(b)) /\ UNCHANGED link)
<1> USE DEF Publishes
<1>1. ASSUME NEW b \in Requests, BeginSave(b) \/ RequestBuild(b)
      PROVE  UNCHANGED <<setup, list, published, newer>>
  BY <1>1 DEF BeginSave, RequestBuild
<1>2. CASE Tick \/ PanelDies \/ Recover
  BY <1>2 DEF Tick, PanelDies, Recover, buildVars
<1>3. ASSUME NEW b \in Builders, SaveFails(b) \/ Enter(b) \/ Compile(b) \/ NoSource(b) \/ CreateFails(b)
                                 \/ WriteFails(b) \/ Close(b)
      PROVE  UNCHANGED <<setup, list, published>> /\ DOMAIN newer' = DOMAIN newer
  BY <1>3 DEF SaveFails, Enter, Compile, NoSource, CreateFails, WriteFails, Close
<1>4. ASSUME NEW b \in Builders, EndSave(b) PROVE UNCHANGED <<setup, published, newer>>
  BY <1>4 DEF EndSave
<1>5. ASSUME NEW b \in Builders, FileStep(b)
      PROVE  /\ UNCHANGED <<setup, list>> /\ DOMAIN newer' = DOMAIN newer
             /\ UNCHANGED published \/ Publishes(b)
             /\ UNCHANGED link \/ \E ok \in May("disk") : Link(b, ok) /\ link' = plan[b]
  BY <1>5 DEF FileStep, Rename, Link, Cleanup, WriteManifest, LinkLocal, SwapLocal
<1> QED BY <1>1, <1>2, <1>3, <1>4, <1>5 DEF MasterNext, BuildStep

LEMMA MasterKeeps ==
  ASSUME MInv, MasterNext
  PROVE  MInv' /\ Forward
<1>1. MInv'
  <2>1. Recover => MInv'
    <3> SUFFICES ASSUME Recover PROVE MInv'
      OBVIOUS
    <3>1. UNCHANGED <<setup, buildVars>>
      BY DEF Recover
    <3>2. list <= list
      BY Bounds, BoundAssumption DEF MInv, Shape
    <3> QED BY <3>1, <3>2, WaitingKeeps DEF buildVars, MInv, Shape
  <2> QED BY <2>1, CallerKeeps, BuildKeeps, DeathKeeps DEF MasterNext, Builders
<1>2. Forward
  <2>1. CASE UNCHANGED link
    BY <2>1, Markers DEF Forward, MInv, Published
  <2>2. ASSUME NEW b \in Builders, NEW ok \in May("disk"), Link(b, ok), link' = plan[b] PROVE Forward
    <3>1. Chosen(b)
      BY <2>2 DEF Link, Chosen
    <3> QED BY <2>2, <3>1 DEF Forward, MInv, Published, Compiled, Ordered
  <2> QED BY <2>1, <2>2, MasterFiles
<1> QED BY <1>1, <1>2

\* A step of the edge leaves the master's files alone.
LEMMA EdgeLeaves == EdgeNext => UNCHANGED <<setup, trouble, buildVars>>
BY DEF EdgeNext, EdgeStep, InstallStep, Start, Ask, AskNothing, AskNewer, AskUnmodified,
       BeginDownload, NothingOffered, NextRange, Receive, Decide, Install, SwapLink, RemoveOld,
       WriteSidecar, AskRefused, AskTimeout, ReceiveFails, Killed, masterVars

LEMMA StutterKeeps == ASSUME MInv, UNCHANGED <<setup, buildVars>> PROVE MInv'
<1>1. /\ UNCHANGED <<list, listWhole, clash, poisoned, pc, plan, building, tmp, published>>
      /\ pc' \in [Builders -> BuildPC] /\ list' \in 0..setup.edits /\ list <= list'
      /\ listWhole' \in BOOLEAN /\ clash' \in BOOLEAN
  BY Bounds, BoundAssumption DEF buildVars, MInv, Shape
<1> QED BY <1>1, WaitingKeeps

LEMMA MasterInvariant == Spec => []MInv
<1>1. MInv /\ [Next]_vars => MInv'
  BY MasterKeeps, EdgeLeaves, StutterKeeps DEF Next, vars, masterVars
<1> QED BY <1>1, MasterStarts, PTL DEF Spec

(* Unless the last build that came to the link dropped an error of the rename before it
   or of the link itself (builder.go:460-467), trust.db names a database that is there,
   whole, under the name of its content, whatever the edge, deaths, failed writes and
   failed removals do: PublishedComplete.                                          *)
THEOREM PublishedAlwaysComplete == Spec => []PublishedComplete
<1>1. MInv => PublishedComplete
  BY Markers DEF MInv, Published, PublishedComplete
<1> QED BY <1>1, MasterInvariant, PTL

\* A database is of one list, and one of the contents that list may have.
LEMMA Lists ==
  /\ DOMAIN Compilations = 0..MaxEdits
  /\ ListOf(None) = -1
  /\ \A d \in Content : /\ d # None
                        /\ ListOf(d) = d.list /\ ListOf(d) \in 0..MaxEdits
                        /\ d \in Compilations[ListOf(d)]
<1>1. DOMAIN Compilations = 0..MaxEdits
  BY DEF Compilations
<1>2. ListOf(None) = -1
  BY Markers DEF ListOf
<1>3. ASSUME NEW d \in Content
      PROVE  d # None /\ ListOf(d) = d.list /\ ListOf(d) \in 0..MaxEdits /\ d \in Compilations[ListOf(d)]
  <2>1. d # None /\ ListOf(d) = d.list /\ d.list \in 0..MaxEdits
    BY Markers DEF ListOf, Content
  <2>2. Compilations[d.list] = [list : {d.list}, whole : BOOLEAN, feeds : BOOLEAN]
    BY <2>1 DEF Compilations
  <2>3. d \in [list : {d.list}, whole : BOOLEAN, feeds : BOOLEAN]
    BY DEF Content
  <2> QED BY <2>1, <2>2, <2>3
<1> QED BY <1>1, <1>2, <1>3

\* The list only moves on, and what a step publishes was compiled from one that was
\* there before the step.
LEMMA ListSteps ==
  ASSUME MInv, Next
  PROVE  /\ list \in 0..MaxEdits /\ list' \in 0..MaxEdits /\ list <= list'
         /\ (link' \in Content => link'.list <= list)
<1>1. list \in 0..MaxEdits /\ setup.edits \in 0..MaxEdits
  BY Bounds DEF MInv, Shape
<1>2. CASE UNCHANGED <<list, link>>
  BY <1>1, <1>2, BoundAssumption DEF MInv, Ordered
<1>3. ASSUME NEW b \in Builders, EndSave(b), UNCHANGED link
      PROVE  list' \in 0..MaxEdits /\ list <= list' /\ (link' \in Content => link'.list <= list)
  BY <1>1, <1>3, BoundAssumption DEF EndSave, MInv, Ordered
<1>4. ASSUME NEW b \in Builders, NEW ok \in May("disk"), Link(b, ok), link' = plan[b]
      PROVE  UNCHANGED list /\ link'.list <= list
  BY <1>4 DEF Link, MInv, Ordered, Chosen
<1>5. EdgeNext => UNCHANGED <<list, link>>
  BY EdgeLeaves DEF buildVars
<1> QED BY <1>1, <1>2, <1>3, <1>4, <1>5, MasterFiles, BoundAssumption DEF Next

LEMMA FeedStep == MInv /\ [Next]_vars => [Feed!Next]_(Feed!vars)
<1> SUFFICES ASSUME MInv, [Next]_vars PROVE [Feed!Next]_(Feed!vars)
  OBVIOUS
<1>1. CASE UNCHANGED vars
  BY <1>1 DEF vars, masterVars, buildVars, Feed!vars
<1>2. CASE Next
  <2>1. MInv' /\ Forward
    <3>1. CASE MasterNext
      BY <3>1, MasterKeeps
    <3>2. CASE EdgeNext
      <4>1. link' = link /\ (link # None => link \in Content)
        BY <3>2, EdgeLeaves DEF buildVars, MInv, Published
      <4> QED BY <3>2, <4>1, EdgeLeaves, StutterKeeps, Markers DEF Forward
    <3> QED BY <1>2, <3>1, <3>2 DEF Next
  <2>2. Feed!Advance \/ UNCHANGED list
    BY <1>2, ListSteps, Lists, BoundAssumption DEF Feed!Advance, Feed!Held
  <2>3. CASE link' = None
    <3>1. link = None
      BY <2>1, <2>3, Lists DEF Forward
    <3> QED BY <2>2, <2>3, <3>1 DEF Feed!Next
  <2>4. CASE link' # None
    <3>1. link' \in Content /\ dbs'[link'] \in {link', None}
      BY <2>1, <2>4, Markers DEF MInv, Published, Named
    <3>2. ListOf(link') \in 0..MaxEdits /\ ListOf(link') <= list /\ link' \in Compilations[ListOf(link')]
      BY <1>2, <3>1, ListSteps, Lists
    <3>3. ListOf(link) <= ListOf(link')
      BY <2>1, <3>1, <3>2, Lists, BoundAssumption DEF Forward, MInv, Published
    <3>4. Feed!Refresh
      BY <2>4, <3>1, <3>2, <3>3, Lists DEF Feed!Refresh, Feed!Held
    <3> QED BY <2>2, <3>4 DEF Feed!Next
  <2> QED BY <2>3, <2>4
<1> QED BY <1>1, <1>2

(* trust.db only moves to databases of later versions of the operator's list, though the
   list is read long before the database is linked, the goroutines that build are started
   without waiting for each other, and most errors are dropped: MasterFollows.  That one
   goroutine builds at a time, and that what it read lies between what is published and
   what is saved (Ordered), is the argument.  The theorem leaves open that trust.db names
   no file, and that a database lacks what could not be read of its list.           *)
THEOREM MasterFollowsList == Spec => MasterFollows
<1>1. Init => Feed!Init
  <2>1. Init => list \in 0..MaxEdits /\ link = None
    BY BoundAssumption DEF Init, MasterInit
  <2> QED BY <2>1, Lists DEF Feed!Init, Feed!Held, Feed!NoVersion
<1> QED BY <1>1, FeedStep, MasterInvariant, PTL DEF Spec, MasterFollows, Feed!Spec

--------------------------------------------------------------------------------
(* The edge's invariant *)

\* Deployments where runs are killed have one source, and it answers, and the master's
\* disk works: what a killed run left is then still newer than the edge's database when
\* the next one asks.
KillsAlone ==
  \A s \in Setups : "kills" \in s.faults =>
    ~s.mirror /\ "timeouts" \notin s.faults /\ "disk" \notin s.faults

Kills == "kills" \in setup.faults

\* What a download that succeeds may bring.
Product == Content \union Mixture

Installed == epc \in {"link", "unmoved", "cleanup", "manifest"}

\* Nothing incomplete gets past a download, and what is linked is on disk.
Whole ==
  /\ etmp \in Product \union {Partial, None}
  /\ etmp # None => Tmp \in DOMAIN newer
  /\ etmp = Partial => epc \in {"idle", "ask", "begin", "receive"}
  /\ epc = "receive" => served \in Product
  /\ epc = "install" => etmp # None
  /\ Installed => esum \in Product /\ etmp \in {None, esum}
  /\ epc = "link" => esum \in DOMAIN newer
  /\ epc \in {"cleanup", "manifest"} /\ ~elost => elink = esum
  /\ elink # None => elink \in Product
  /\ elink # None /\ ~elost => elink \in DOMAIN newer

\* The master will not answer 304.
Pending == force \/ elink \notin DOMAIN newer \/ link \in newer[elink]

\* A file left half done is one the next run downloads again.
Unfinished ==
  /\ src = "mirror" => setup.mirror
  /\ ~Kills => (etmp = Partial => epc = "receive")
  /\ Kills => (etmp = Partial \/ epc = "begin" => Pending)

\* A build is later than the file published before it.
Later ==
  \A f \in DOMAIN newer, b \in Builders : link \in newer[f] =>
    /\ pc[b] = "rename" => Tmp \in newer[f]
    /\ pc[b] = "link" => plan[b] \in newer[f]

\* A list as old as the published one at most, and no older than the edge's.
Between(d) ==
  /\ link \in Content
  /\ EdgeListOf(d) <= link.list
  /\ elink # None => EdgeListOf(elink) <= EdgeListOf(d)

\* Without a mirror, what is on its way lies between what the edge and the master
\* serve.
OnTheWay ==
  ~setup.mirror =>
    /\ elink # None => Between(elink)
    /\ epc = "receive" => Between(served)
    /\ etmp \in Product => Between(etmp)
    /\ Installed => Between(esum)

EInv == Whole /\ Unfinished /\ (Kills => Later) /\ OnTheWay

\* What can be downloaded is of one list, and neither a marker nor half a file.
LEMMA Products ==
  /\ \A d \in Product : /\ d \notin {None, Partial, Tmp} /\ d \in EdgeName
                        /\ EdgeListOf(d) \in 0..MaxEdits /\ EdgeListOf(d) \in Nat
  /\ \A d \in Content : d \notin Mixture /\ EdgeListOf(d) = d.list
  /\ \A l \in 0..MaxEdits : [mixed |-> l] \in Mixture /\ EdgeListOf([mixed |-> l]) = l
  /\ EdgeListOf(None) = -1
<1>1. ASSUME NEW d \in Content PROVE d \notin Mixture /\ EdgeListOf(d) = d.list
  <2>1. DOMAIN d = {"list", "whole", "feeds"}
    BY DEF Content
  <2>2. ASSUME d \in Mixture PROVE FALSE
    <3>1. DOMAIN d = {"mixed"}
      BY <2>2 DEF Mixture
    <3> QED BY <2>1, <3>1
  <2> QED BY <2>2, Lists DEF EdgeListOf
<1>2. ASSUME NEW l \in 0..MaxEdits
      PROVE  [mixed |-> l] \in Mixture /\ EdgeListOf([mixed |-> l]) = l
  BY DEF Mixture, EdgeListOf
<1>3. ASSUME NEW d \in Mixture
      PROVE  /\ d \notin {None, Partial, Tmp} /\ d \in EdgeName
             /\ EdgeListOf(d) \in 0..MaxEdits /\ EdgeListOf(d) \in Nat
  <2>1. EdgeListOf(d) = d.mixed /\ d.mixed \in 0..MaxEdits
    BY DEF EdgeListOf, Mixture
  <2> QED BY <2>1, MixtureAssumption, BoundAssumption DEF EdgeName
<1>4. ASSUME NEW d \in Content
      PROVE  /\ d \notin {None, Partial, Tmp} /\ d \in EdgeName
             /\ EdgeListOf(d) \in 0..MaxEdits /\ EdgeListOf(d) \in Nat
  BY <1>1, Lists, Markers, FreshAssumption, BoundAssumption DEF EdgeName, Name
<1>5. EdgeListOf(None) = -1
  BY Lists, MixtureAssumption DEF EdgeListOf
<1> QED BY <1>1, <1>2, <1>3, <1>4, <1>5 DEF Product

LEMMA EdgeStarts == Init => EInv
BY Products, Markers
   DEF Init, EInv, Whole, Unfinished, Later, OnTheWay, Installed, Kills, Product

\* The order of the master's files in time survives every step of the master.
LEMMA BuildsInOrder ==
  ASSUME MInv, Later, MasterNext, "disk" \notin setup.faults
  PROVE  /\ Later'
         /\ \A f \in DOMAIN newer : link \in newer[f] => link' \in newer'[f]
<1> DEFINE InOrder == /\ Later'
                      /\ \A f \in DOMAIN newer : link \in newer[f] => link' \in newer'[f]
<1>1. May("disk") = {TRUE}
  BY DEF May
<1>2. ASSUME NEW b \in Builders, Close(b) PROVE InOrder
  <2>1. Working(b) /\ tmp = Partial /\ tmp # None
    BY <1>2, Markers DEF Close, Working, MInv, Compiled
  <2>2. /\ newer' = [f \in DOMAIN newer |-> newer[f] \union {Tmp}] /\ UNCHANGED link
        /\ Goto(b, "rename")
    BY <1>2, <2>1 DEF Close
  <2>3. \A c \in Builders : pc'[c] # "link"
    BY <2>1, <2>2, Alone DEF Goto, MInv, Shape
  <2> QED BY <2>2, <2>3 DEF Later
<1>3. ASSUME NEW b \in Builders, Rename(b, TRUE) PROVE InOrder
  <2>1. /\ pc[b] = "rename" /\ tmp # None /\ Working(b)
        /\ Goto(b, "link") /\ UNCHANGED <<link, plan>>
    BY <1>3, Markers DEF Rename, Working, MInv, Compiled, Chosen
  <2>2. newer' = [f \in DOMAIN newer |->
                    IF Tmp \in newer[f] THEN (newer[f] \ {Tmp}) \union {plan[b]}
                                        ELSE newer[f] \ {plan[b]}]
    BY <1>3, <2>1 DEF Rename
  <2>3. \A c \in Builders : pc'[c] # "rename" /\ (pc'[c] = "link" => c = b)
    BY <2>1, Alone DEF Goto, MInv, Shape
  <2>4. link # Tmp
    BY FreshAssumption DEF MInv, Shape
  <2>5. \A f \in DOMAIN newer : link \in newer[f] => Tmp \in newer[f]
    BY <2>1 DEF Later
  <2>6. \A f \in DOMAIN newer : link \in newer[f] => link \in newer'[f]
    BY <2>2, <2>4, <2>5
  <2>7. \A f \in DOMAIN newer : link \in newer'[f] => plan[b] \in newer'[f]
    BY <2>2, <2>5
  <2> QED BY <2>1, <2>2, <2>3, <2>6, <2>7 DEF Later
<1>4. ASSUME NEW b \in Builders, Link(b, TRUE) PROVE InOrder
  <2>1. pc[b] = "link" /\ link' = plan[b] /\ Goto(b, "cleanup") /\ Working(b) /\ UNCHANGED newer
    BY <1>4 DEF Link, Working, MInv, DiskWorks
  <2>2. \A c \in Builders : pc'[c] \notin {"rename", "link"}
    BY <2>1, Alone DEF Goto, MInv, Shape
  <2> QED BY <2>1, <2>2 DEF Later
<1>5. ASSUME NEW b \in Builders, Cleanup(b, TRUE) PROVE InOrder
  <2>1. /\ pc[b] = "cleanup" /\ Goto(b, "manifest") /\ Working(b) /\ UNCHANGED link
        /\ link = plan[b]
    BY <1>5 DEF Cleanup, Working, Linked, MInv, Compiled, DiskWorks
  <2>2. PICK removed \in Removed(b, TRUE) : newer' = [f \in DOMAIN newer |-> newer[f] \ removed]
    BY <1>5 DEF Cleanup
  <2>3. \A c \in Builders : pc'[c] \notin {"rename", "link"}
    BY <2>1, Alone DEF Goto, MInv, Shape
  <2> QED BY <2>1, <2>2, <2>3 DEF Later, Removed
<1>6. ASSUME NEW b \in Builders, NEW place \in BuildPC, place \notin {"rename", "link"},
             Goto(b, place), UNCHANGED <<link, newer>>,
             \A c \in Builders : c # b => plan'[c] = plan[c]
      PROVE  InOrder
  BY <1>6 DEF Later, Goto, MInv, Shape
<1>7. ASSUME NEW b \in Builders, Return(b), UNCHANGED <<link, newer>> PROVE InOrder
  <2>1. Goto(b, "idle") /\ "idle" \in BuildPC /\ \A c \in Builders : c # b => plan'[c] = plan[c]
    BY <1>7 DEF Return, MInv, Shape, BuildPC
  <2> QED BY <1>6, <1>7, <2>1
<1>8. ASSUME NEW b \in Builders,
             \/ BeginSave(b) \/ EndSave(b) \/ SaveFails(b) \/ RequestBuild(b) \/ (Tick /\ b = Ticker)
             \/ Enter(b) \/ Compile(b) \/ WriteManifest(b, TRUE) \/ LinkLocal(b, TRUE)
      PROVE  InOrder
  <2>1. UNCHANGED <<link, newer>> /\ \A c \in Builders : c # b => plan'[c] = plan[c]
    BY <1>8 DEF BeginSave, EndSave, SaveFails, RequestBuild, Tick, Enter, Compile, WriteManifest,
                LinkLocal, MInv, Shape
  <2>2. PICK place \in {"idle", "saving", "called", "compile", "close", "local", "localswap"} : Goto(b, place)
    BY <1>8 DEF BeginSave, EndSave, SaveFails, RequestBuild, Tick, Enter, Compile, WriteManifest,
                LinkLocal
  <2>3. place \in BuildPC
    BY DEF BuildPC
  <2> QED BY <1>6, <2>1, <2>2, <2>3
<1>9. ASSUME NEW b \in Builders, SwapLocal(b, TRUE) \/ NoSource(b) \/ CreateFails(b) \/ WriteFails(b)
      PROVE  InOrder
  BY <1>7, <1>9 DEF SwapLocal, NoSource, CreateFails, WriteFails
<1>10. CASE PanelDies \/ Recover
  BY <1>10 DEF PanelDies, Recover, Later, buildVars
<1>11. ASSUME NEW b \in Builders, BuildStep(b) PROVE InOrder
  <2>1. CASE FileStep(b)
    <3>1. \/ Rename(b, TRUE) \/ Link(b, TRUE) \/ Cleanup(b, TRUE) \/ WriteManifest(b, TRUE)
          \/ LinkLocal(b, TRUE) \/ SwapLocal(b, TRUE)
      BY <1>1, <2>1 DEF FileStep
    <3> QED BY <1>3, <1>4, <1>5, <1>8, <1>9, <3>1
  <2> QED BY <1>2, <1>8, <1>9, <1>11, <2>1 DEF BuildStep
<1> QED BY <1>8, <1>10, <1>11 DEF MasterNext, Builders

\* The list of what the edge has on its way stays between, whatever the master does.
LEMMA BetweenStays ==
  ASSUME MInv, Forward, UNCHANGED elink, NEW d, EdgeListOf(d) \in Int, Between(d)
  PROVE  Between(d)'
<1>1. link # None /\ link' \in Content /\ link.list <= link'.list
  BY Markers DEF Between, Forward
<1>2. link.list \in Nat /\ link'.list \in Nat
  BY <1>1, Markers DEF Between
<1>3. EdgeListOf(d)' = EdgeListOf(d) /\ EdgeListOf(elink)' = EdgeListOf(elink)
  BY DEF EdgeListOf, ListOf
<1> QED BY <1>1, <1>2, <1>3 DEF Between

\* A step of the master leaves the edge's invariant alone.
LEMMA EdgeWaits ==
  ASSUME MInv, EInv, KillsAlone, MasterNext, UNCHANGED edgeVars
  PROVE  EInv'
<1> USE DEF EInv
<1>1. Forward /\ DOMAIN newer' = DOMAIN newer /\ UNCHANGED setup
  BY MasterKeeps, MasterFiles
<1>2. Kills => "disk" \notin setup.faults
  BY DEF Kills, KillsAlone, MInv, Shape
<1>3. Kills => Later' /\ \A f \in DOMAIN newer : link \in newer[f] => link' \in newer'[f]
  BY <1>2, BuildsInOrder
<1>4. Whole'
  BY <1>1 DEF Whole, Installed, edgeVars
<1>5. Unfinished'
  BY <1>1, <1>3 DEF Unfinished, Pending, Kills, edgeVars
<1>6. \A d \in Product : Between(d) => Between(d)'
  BY <1>1, BetweenStays, Products DEF edgeVars
<1>7. OnTheWay'
  BY <1>1, <1>6 DEF OnTheWay, Whole, Installed, edgeVars
<1> QED BY <1>1, <1>3, <1>4, <1>5, <1>7 DEF Kills

LEMMA DropDomain ==
  /\ DOMAIN Dropped = DOMAIN newer \ {Tmp}
  /\ \A f \in DOMAIN newer \ {Tmp} : Dropped[f] = newer[f]
BY DEF Dropped, Restrict

\* Where neither link moves, nothing gets out of place.
LEMMA BetweenSame == ASSUME UNCHANGED <<link, elink>> PROVE \A d : Between(d)' <=> Between(d)
BY DEF Between, EdgeListOf, ListOf

\* Once the temporary file is removed nothing is half done.
LEMMA DroppingKeeps ==
  ASSUME MInv, EInv,
         UNCHANGED <<setup, buildVars, esum, elink, elost>>,
         etmp' = None, newer' = Dropped,
         epc' \in {"idle", "ask"},
         epc \in {"ask", "begin", "receive"},
         src' = src \/ (src' = "mirror" /\ setup.mirror)
  PROVE  EInv'
<1> USE DEF EInv
<1>1. DOMAIN newer' = DOMAIN newer \ {Tmp} /\ \A f \in DOMAIN newer' : newer'[f] = newer[f]
  BY DropDomain
<1>2. Whole'
  BY <1>1, Products DEF Whole, Installed
<1>3. Unfinished'
  BY Markers DEF Unfinished, Kills
<1>4. Kills' => Later'
  BY <1>1 DEF Later, Kills, buildVars
<1>5. OnTheWay'
  BY Products, BetweenSame DEF OnTheWay, Installed, buildVars
<1> QED BY <1>2, <1>3, <1>4, <1>5

\* The steps that leave every file of the edge alone.
LEMMA LookingKeeps ==
  ASSUME MInv, EInv, KillsAlone,
         NEW ok \in BOOLEAN,
         Start \/ AskNothing \/ AskNewer \/ AskUnmodified \/ AskTimeout \/ Killed \/ Decide
         \/ WriteSidecar(ok) \/ (AskRefused /\ ~LastSource)
  PROVE  EInv'
<1> USE DEF EInv
<1>1. UNCHANGED <<setup, buildVars, newer, etmp, elink, elost>>
  BY DEF Start, Ask, AskNothing, AskNewer, AskUnmodified, AskTimeout, Killed, Decide, WriteSidecar,
         AskRefused, masterVars
<1>2. /\ epc' \in {"idle", "ask", "begin", "decide", "install"}
      /\ epc' = "install" => epc = "decide" /\ etmp # None
      /\ epc' = "decide" => AskUnmodified
      /\ src' = src \/ src' = "master" \/ (src' = "mirror" /\ setup.mirror)
  BY DEF Start, Ask, AskNothing, AskNewer, AskUnmodified, AskTimeout, Killed, Decide, WriteSidecar,
         AskRefused, TryNext, LastSource
<1>3. Kills => "timeouts" \notin setup.faults /\ ~setup.mirror /\ src # "mirror"
  BY DEF KillsAlone, Unfinished, Kills, MInv, Shape
<1>4. ASSUME AskUnmodified PROVE etmp # Partial
  <2>1. epc = "ask" /\ ~force /\ elink \in DOMAIN newer /\ OfferedFile(src) \notin newer[elink]
    BY <1>4 DEF AskUnmodified, Ask, HasDatabase
  <2>2. CASE Kills
    <3>1. link \notin newer[elink]
      BY <1>3, <2>1, <2>2 DEF OfferedFile
    <3> QED BY <2>1, <2>2, <3>1 DEF Unfinished, Pending
  <2>3. CASE ~Kills
    BY <2>1, <2>3 DEF Unfinished
  <2> QED BY <2>2, <2>3
<1>5. Whole'
  BY <1>1, <1>2, <1>4 DEF Whole, Installed
<1>6. ASSUME Kills, etmp = Partial \/ epc' = "begin" PROVE Pending'
  <2>1. CASE Start \/ Killed \/ AskUnmodified \/ WriteSidecar(ok)
    <3>1. etmp = Partial
      BY <1>6, <2>1 DEF Start, Killed, AskUnmodified, WriteSidecar
    <3>2. force' = force \/ force' = TRUE
      BY <2>1 DEF Start, Killed, AskUnmodified, WriteSidecar
    <3> QED BY <1>1, <1>6, <3>1, <3>2 DEF Unfinished, Pending, buildVars
  <2>2. CASE AskNothing
    BY <1>1, <2>2 DEF AskNothing, HasDatabase, Pending
  <2>3. CASE AskNewer
    BY <1>1, <1>3, <1>6, <2>3 DEF AskNewer, OfferedFile, Pending, buildVars
  <2>4. CASE AskTimeout \/ (AskRefused /\ ~LastSource)
    BY <1>3, <1>6, <2>4 DEF AskTimeout, LastSource, May
  <2>5. CASE Decide
    BY <1>6, <2>5 DEF Decide, Whole
  <2> QED BY <2>1, <2>2, <2>3, <2>4, <2>5
<1>7. Unfinished'
  <2>1. ~Kills /\ etmp = Partial => epc' = "receive"
    BY DEF Unfinished, Start, Ask, AskNothing, AskNewer, AskUnmodified, AskTimeout, Killed, Decide,
           WriteSidecar, AskRefused, Kills
  <2> QED BY <1>1, <1>2, <1>6, <2>1 DEF Unfinished, Kills
<1>8. Kills' => Later'
  BY <1>1 DEF Later, Kills, buildVars
<1>9. OnTheWay'
  BY <1>1, <1>2, BetweenSame DEF OnTheWay, Installed, buildVars
<1> QED BY <1>5, <1>7, <1>8, <1>9

\* What a source offers is a build's product.
LEMMA OfferedProduct ==
  ASSUME MInv, EInv, Offered(src) # None
  PROVE  /\ Offered(src) \in Content
         /\ ~setup.mirror => Offered(src) = link
<1>1. CASE src = "mirror"
  <2>1. 0 \in 0..MaxEdits
    BY BoundAssumption
  <2>2. MirrorContent \in Content
    BY <2>1, Builds DEF MirrorContent
  <2> QED BY <1>1, <2>2 DEF Offered, EInv, Unfinished
<1>2. CASE src # "mirror"
  BY <1>2 DEF Offered, MInv, Named, Shape
<1> QED BY <1>1, <1>2

\* ... that lies between.
LEMMA OfferedBetween ==
  ASSUME MInv, EInv, ~setup.mirror, NEW d, EdgeListOf(d) = link.list, link \in Content
  PROVE  Between(d)
<1>1. link.list \in Nat
  BY Markers
<1> QED BY <1>1 DEF Between, EInv, OnTheWay

LEMMA DownloadKeeps ==
  ASSUME MInv, EInv, BeginDownload \/ NextRange \/ Receive
  PROVE  EInv'
<1> USE DEF EInv
<1>1. /\ UNCHANGED <<setup, buildVars, src, force, esum, elink, elost>>
      /\ epc \in {"begin", "receive"}
  BY DEF BeginDownload, NextRange, Receive, masterVars
<1>2. /\ DOMAIN Written = DOMAIN newer \union {Tmp}
      /\ Written[Tmp] = {}
      /\ \A f \in DOMAIN newer : f # Tmp => Written[f] = newer[f]
  BY DEF Written
<1>3. elink # Tmp
  BY Products, FreshAssumption DEF Whole
<1>4. \A d : Between(d)' <=> Between(d)
  BY <1>1, BetweenSame DEF buildVars
<1>5. Kills' => Later'
  <2>1. newer' = Written \/ UNCHANGED newer
    BY DEF BeginDownload, NextRange, Receive, masterVars
  <2> QED BY <1>1, <1>2, <2>1 DEF Later, Kills, buildVars
<1>6. CASE BeginDownload
  <2>1. /\ epc = "begin" /\ epc' = "receive" /\ etmp' = Partial /\ newer' = Written
        /\ served' = Offered(src) /\ Offered(src) # None
    BY <1>6 DEF BeginDownload
  <2>2. served' \in Product /\ (~setup.mirror => Between(served'))
    BY <2>1, OfferedProduct, OfferedBetween, Products DEF Product
  <2>3. Whole'
    BY <1>1, <1>2, <2>1, <2>2, Products, Markers DEF Whole, Installed
  <2>4. Unfinished'
    <3>1. Kills => Pending
      BY <2>1 DEF Unfinished
    <3>2. Kills => Pending'
      BY <1>1, <1>2, <1>3, <2>1, <3>1 DEF Pending, buildVars
    <3> QED BY <1>1, <2>1, <3>2 DEF Unfinished, Kills
  <2>5. OnTheWay'
    BY <1>1, <1>4, <2>1, <2>2, Products DEF OnTheWay, Installed
  <2> QED BY <1>5, <2>3, <2>4, <2>5
<1>7. CASE NextRange
  <2>1. /\ UNCHANGED <<epc, etmp, newer>> /\ epc = "receive" /\ Offered(src) # None
        /\ served' = [mixed |-> Offered(src).list]
    BY <1>7 DEF NextRange, masterVars
  <2>2. served' \in Product /\ (~setup.mirror => Between(served'))
    <3>1. Offered(src) \in Content /\ (~setup.mirror => Offered(src) = link)
      BY <2>1, OfferedProduct
    <3>2. Offered(src).list \in 0..MaxEdits
      BY <3>1, Lists
    <3>3. served' \in Mixture /\ EdgeListOf(served') = Offered(src).list
      BY <2>1, <3>2, Products
    <3> QED BY <3>1, <3>3, OfferedBetween DEF Product
  <2>3. Whole'
    BY <1>1, <2>1, <2>2 DEF Whole, Installed
  <2>4. Unfinished'
    BY <1>1, <2>1 DEF Unfinished, Pending, Kills, buildVars
  <2>5. OnTheWay'
    BY <1>1, <1>4, <2>1, <2>2 DEF OnTheWay, Installed
  <2> QED BY <1>5, <2>3, <2>4, <2>5
<1>8. CASE Receive
  <2>1. epc = "receive" /\ epc' = "decide" /\ etmp' = served /\ served \in Product /\ newer' = Written
    BY <1>8 DEF Receive, Whole
  <2>2. Whole'
    BY <1>1, <1>2, <2>1, Products DEF Whole, Installed
  <2>3. Unfinished'
    BY <1>1, <2>1, Products DEF Unfinished, Kills
  <2>4. OnTheWay'
    BY <1>1, <1>4, <2>1 DEF OnTheWay, Installed
  <2> QED BY <1>5, <2>2, <2>3, <2>4
<1> QED BY <1>6, <1>7, <1>8

LEMMA InstallKeeps ==
  ASSUME MInv, EInv, NEW ok \in BOOLEAN, Install(ok)
  PROVE  EInv'
<1> USE DEF EInv
<1>1. UNCHANGED <<setup, buildVars, src, force, served, elink, elost>>
  BY DEF Install
<1>2. /\ epc = "install" /\ epc' \in {"link", "unmoved"} /\ esum' = etmp
      /\ etmp \in Product /\ etmp # None /\ etmp # Tmp /\ etmp # Partial /\ Tmp \in DOMAIN newer
  BY Products DEF Install, Whole
<1>3. /\ etmp' = None \/ (etmp' = esum' /\ Tmp \in DOMAIN newer')
      /\ epc' = "link" => esum' \in DOMAIN newer'
      /\ \A f \in DOMAIN newer : f # Tmp => f \in DOMAIN newer'
      /\ \A f \in DOMAIN newer' : \E g \in DOMAIN newer : newer'[f] = newer[g]
  <2>1. CASE UNCHANGED <<etmp, newer>>
    <3>1. epc' = "link" => etmp \in DOMAIN newer
      BY <1>2, <2>1 DEF Install
    <3> QED BY <1>2, <2>1, <3>1
  <2>2. CASE /\ etmp' = None
             /\ newer' = [f \in DOMAIN Dropped \union {esum'} |->
                            IF f = esum' THEN newer[Tmp] ELSE newer[f]]
    <3>1. DOMAIN newer' = (DOMAIN newer \ {Tmp}) \union {esum'}
      BY <2>2, DropDomain
    <3>2. \A f \in DOMAIN newer' : newer'[f] = IF f = esum' THEN newer[Tmp] ELSE newer[f]
      BY <2>2, <3>1
    <3> QED BY <1>2, <2>2, <3>1, <3>2
  <2> QED BY <2>1, <2>2 DEF Install
<1>4. Whole'
  <2>1. elink # None => elink \in Product /\ elink # Tmp
    BY Products DEF Whole
  <2>2. elink # None /\ ~elost => elink \in DOMAIN newer'
    BY <1>3, <2>1 DEF Whole
  <2>3. esum' \in Product /\ esum' # Partial /\ None # Partial
    BY <1>2, Markers
  <2> QED BY <1>1, <1>2, <1>3, <2>1, <2>2, <2>3 DEF Whole, Installed
<1>5. Unfinished'
  BY <1>1, <1>2, <1>3, Markers, Products DEF Unfinished, Kills
<1>6. Kills' => Later'
  BY <1>1, <1>3 DEF Later, Kills, buildVars
<1>7. OnTheWay'
  BY <1>1, <1>2, <1>3, BetweenSame, Products DEF OnTheWay, Installed, buildVars
<1> QED BY <1>4, <1>5, <1>6, <1>7

LEMMA SwapKeeps ==
  ASSUME MInv, EInv, NEW ok \in BOOLEAN, SwapLink(ok)
  PROVE  EInv'
<1> USE DEF EInv
<1>1. /\ UNCHANGED <<setup, buildVars, newer, src, force, served, etmp, esum>>
      /\ epc \in {"link", "unmoved"} /\ epc' = "cleanup"
      /\ elink' = (IF ok THEN esum ELSE elink) /\ elost' = ~(ok /\ epc = "link")
      /\ esum \in Product /\ etmp \in {None, esum}
  BY DEF SwapLink, Whole, Installed, masterVars
<1>2. Whole'
  BY <1>1 DEF Whole, Installed
<1>3. Unfinished'
  BY <1>1, Products, Markers DEF Unfinished, Kills
<1>4. Kills' => Later'
  BY <1>1 DEF Later, Kills, buildVars
<1>5. OnTheWay'
  <2>1. CASE elink' = elink
    BY <1>1, <2>1, BetweenSame DEF OnTheWay, Installed, buildVars
  <2>2. CASE elink' = esum
    <3>1. ~setup.mirror => Between(esum)'
      BY <1>1, <2>2, Products DEF Between, OnTheWay, Installed, EdgeListOf, ListOf, buildVars
    <3> QED BY <1>1, <2>2, <3>1, Products DEF OnTheWay, Installed
  <2> QED BY <1>1, <2>1, <2>2
<1> QED BY <1>2, <1>3, <1>4, <1>5

LEMMA RemoveKeeps ==
  ASSUME MInv, EInv, NEW ok \in BOOLEAN, RemoveOld(ok)
  PROVE  EInv'
<1> USE DEF EInv
<1>1. /\ UNCHANGED <<setup, buildVars, src, force, served, etmp, esum, elink, elost>>
      /\ epc = "cleanup" /\ epc' = "manifest"
      /\ esum \in Product /\ etmp \in {None, esum}
  BY DEF RemoveOld, Whole, Installed
<1>2. PICK kept : newer' = Restrict(newer, DOMAIN newer \intersect ({esum, Tmp} \union kept))
  BY DEF RemoveOld
<1>3. /\ DOMAIN newer' \subseteq DOMAIN newer
      /\ \A f \in {esum, Tmp} : f \in DOMAIN newer => f \in DOMAIN newer'
      /\ \A f \in DOMAIN newer' : newer'[f] = newer[f]
  BY <1>2 DEF Restrict
<1>4. Whole'
  BY <1>1, <1>3, Products DEF Whole, Installed
<1>5. Unfinished'
  BY <1>1, Products, Markers DEF Unfinished, Kills
<1>6. Kills' => Later'
  BY <1>1, <1>3 DEF Later, Kills, buildVars
<1>7. OnTheWay'
  BY <1>1, BetweenSame DEF OnTheWay, Installed, buildVars
<1> QED BY <1>4, <1>5, <1>6, <1>7

LEMMA EdgeKeeps ==
  ASSUME MInv, EInv, KillsAlone, EdgeNext
  PROVE  EInv'
<1>1. CASE NothingOffered \/ ReceiveFails \/ (AskRefused /\ LastSource)
  <2>1. /\ UNCHANGED <<setup, buildVars, esum, elink, elost>>
        /\ etmp' = None /\ newer' = Dropped
        /\ epc' \in {"idle", "ask"} /\ epc \in {"ask", "begin", "receive"}
        /\ src' = src \/ (src' = "mirror" /\ setup.mirror)
    BY <1>1 DEF NothingOffered, ReceiveFails, AskRefused, Ask, TryNext, LastSource
  <2> QED BY <2>1, DroppingKeeps
<1>2. May("edgedisk") \subseteq BOOLEAN
  BY DEF May
<1> QED BY <1>1, <1>2, LookingKeeps, DownloadKeeps, InstallKeeps, SwapKeeps, RemoveKeeps
        DEF EdgeNext, EdgeStep, InstallStep

LEMMA EdgeInvariant == KillsAlone /\ Spec => [](MInv /\ EInv)
<1> SUFFICES ASSUME KillsAlone PROVE Spec => [](MInv /\ EInv)
  OBVIOUS
<1>1. MInv /\ EInv /\ [Next]_vars => MInv' /\ EInv'
  <2> SUFFICES ASSUME MInv, EInv, [Next]_vars PROVE MInv' /\ EInv'
    OBVIOUS
  <2>1. CASE MasterNext /\ UNCHANGED edgeVars
    BY <2>1, MasterKeeps, EdgeWaits
  <2>2. CASE EdgeNext
    BY <2>2, EdgeLeaves, StutterKeeps, EdgeKeeps
  <2>3. CASE UNCHANGED vars
    <3>1. MInv'
      BY <2>3, StutterKeeps DEF vars, masterVars
    <3>2. EInv'
      <4>1. UNCHANGED <<setup, buildVars, newer, edgeVars>>
        BY <2>3 DEF vars, masterVars
      <4>2. Whole' /\ Unfinished' /\ (Kills' => Later')
        BY <4>1 DEF buildVars, edgeVars, EInv, Whole, Unfinished, Pending, Later, Installed, Kills
      <4>3. OnTheWay'
        BY <4>1, BetweenSame DEF buildVars, edgeVars, EInv, OnTheWay, Installed
      <4> QED BY <4>2, <4>3 DEF EInv
    <3> QED BY <3>1, <3>2
  <2> QED BY <2>1, <2>2, <2>3 DEF Next
<1> QED BY <1>1, MasterStarts, EdgeStarts, PTL DEF Spec

(* blacklist.db never names half a file, and unless a move failed in the last run that
   came to the link (update-blacklist.sh:222-228) it names a file that is there, whatever
   downloads fail, are mixed, time out or fall back to a mirror; where runs are killed
   too, if they have one source that answers and a master whose disk works:
   EdgeInstallsWhole.                                                             *)
THEOREM EdgeAlwaysWhole == KillsAlone /\ Spec => []EdgeInstallsWhole
<1>1. EInv => EdgeInstallsWhole
  BY Products, Markers DEF EInv, Whole, EdgeInstallsWhole, HasDatabase
<1> QED BY <1>1, EdgeInvariant, PTL

\* The edge's link stays, or moves to what lies between it and the master's; the
\* master's stays in a step of the edge.
LEMMA LinkSteps ==
  ASSUME MInv, EInv, Next, ~setup.mirror
  PROVE  \/ UNCHANGED elink
         \/ UNCHANGED link /\ elink' \in Product /\ Between(elink')
<1>1. ASSUME NEW ok \in BOOLEAN, SwapLink(ok)
      PROVE  UNCHANGED elink \/ (UNCHANGED link /\ elink' \in Product /\ Between(elink'))
  BY <1>1 DEF SwapLink, masterVars, buildVars, EInv, Whole, OnTheWay, Installed
<1>2. (\E ok \in BOOLEAN : SwapLink(ok)) \/ elink' = elink
  BY DEF May, Next, edgeVars, EdgeNext, EdgeStep, InstallStep, Start, Ask, AskNothing, AskNewer,
         AskUnmodified, BeginDownload, NothingOffered, NextRange, Receive, Decide, Install, RemoveOld,
         WriteSidecar, AskRefused, AskTimeout, ReceiveFails, Killed
<1> QED BY <1>1, <1>2

\* What the edge serves has gone from one product to one between that and the master's,
\* or stays, or is missing: a step of a copy of the master's.
LEMMA HeldMoves ==
  ASSUME MInv, EInv, EInv', Next, ~setup.mirror, elink' # None
  PROVE  /\ EdgeListOf(elink') \in 0..MaxEdits
         /\ EdgeListOf(elink) <= EdgeListOf(elink')
         /\ link \in Content /\ EdgeListOf(elink') <= ListOf(link)
         /\ Held' \in Compilations[EdgeListOf(elink')] \/ Held' = None
<1>1. elink' \in Product
  BY DEF EInv, Whole
<1>2. EdgeListOf(elink') \in 0..MaxEdits
  BY <1>1, Products
<1>3. link \in Content /\ EdgeListOf(elink') <= link.list /\ EdgeListOf(elink) <= EdgeListOf(elink')
  <2>1. CASE UNCHANGED elink
    BY <1>2, <2>1, BoundAssumption DEF EInv, OnTheWay, Between
  <2>2. CASE Between(elink')
    BY <1>2, <2>2, Products, BoundAssumption DEF Between
  <2> QED BY <2>1, <2>2, LinkSteps
<1>4. Held' \in Compilations[EdgeListOf(elink')] \/ Held' = None
  <2>1. CASE elink' \in Content
    BY <2>1, Products, Lists DEF Held
  <2>2. CASE elink' \in Mixture
    BY <2>2 DEF Held
  <2> QED BY <1>1, <2>1, <2>2 DEF Product
<1> QED BY <1>2, <1>3, <1>4, Lists

LEMMA EdgeStepFollows ==
  MInv /\ EInv /\ MInv' /\ EInv' /\ [Next]_vars => (~setup.mirror => [Edge!Next]_(Edge!vars))
<1> SUFFICES ASSUME MInv, EInv, MInv', EInv', [Next]_vars, ~setup.mirror
             PROVE  [Edge!Next]_(Edge!vars)
  OBVIOUS
<1>1. CASE UNCHANGED vars
  BY <1>1 DEF vars, masterVars, buildVars, edgeVars, Held, HasDatabase, EdgeListOf, ListOf, Edge!vars
<1>2. CASE Next
  <2>1. Edge!Advance \/ UNCHANGED ListOf(link)
    <3>1. CASE MasterNext /\ link # link'
      <4>1. link' \in Content /\ (link # None => link \in Content /\ link.list <= link'.list)
        BY <3>1, MasterKeeps, Markers DEF Forward, MInv, Published, Shape
      <4>2. ListOf(link') \in 0..MaxEdits /\ ListOf(link) <= ListOf(link')
        BY <4>1, Lists, BoundAssumption
      <4> QED BY <4>1, <4>2, Lists, BoundAssumption DEF Edge!Advance, Edge!Held
    <3>2. CASE link = link'
      BY <3>2
    <3>3. CASE EdgeNext
      BY <3>3, EdgeLeaves DEF buildVars
    <3> QED BY <1>2, <3>1, <3>2, <3>3 DEF Next
  <2>2. CASE elink' = None
    <3>1. elink = None
      BY <1>2, <2>2, LinkSteps, Products
    <3>2. Held = None /\ Held' = None
      BY <2>2, <3>1 DEF Held
    <3> QED BY <2>1, <2>2, <3>1, <3>2 DEF Edge!Next
  <2>3. CASE elink' # None
    <3>1. Edge!Refresh
      BY <1>2, <2>3, HeldMoves, Lists DEF Edge!Refresh, Edge!Held
    <3> QED BY <2>1, <3>1 DEF Edge!Next
  <2> QED BY <2>2, <2>3
<1> QED BY <1>1, <1>2

\* EdgeInvariant, of a step.
LEMMA EdgeStable == KillsAlone /\ Spec => [][MInv /\ EInv /\ MInv' /\ EInv' /\ [Next]_vars]_vars
BY EdgeInvariant, PTL DEF Spec

LEMMA EdgeBegins == Init => elink = None /\ link = None /\ Held = None /\ list \in 0..MaxEdits
BY BoundAssumption DEF Init, MasterInit, Held, HasDatabase

(* Without a mirror such an edge goes from the database of one list to that of a later
   one, none later than the publication's, and what it serves besides is nothing or the
   mixture of builds that aria2c's ranges make while the master publishes; whatever the
   master publishes, renames, loses and removes while a download is under way: EdgeFollows. *)
THEOREM EdgeFollowsMaster == KillsAlone /\ Spec => EdgeFollows
<1>1. Init => Edge!Init
  BY EdgeBegins, Lists, Products DEF Edge!Init, Edge!Held, Edge!NoVersion
<1> QED BY <1>1, EdgeStepFollows, EdgeStable, PTL DEF Spec, EdgeFollows

\* The two links in a row: the edge's database as a copy of the operator's list.
Chain == INSTANCE VersionedCopy WITH
  Contents <- Compilations, Nothing <- None, Lossy <- TRUE,
  source <- list, copy <- EdgeListOf(elink), content <- Held

(* So an edge follows the operator, whom it never asks: if one build made what its
   blacklist.db serves, it was compiled from a version of the operator's list, and a
   later one each time.                                                            *)
THEOREM EdgeFollowsOperator ==
  KillsAlone /\ Spec => Chain!Init /\ [][~setup.mirror => [Chain!Next]_(Chain!vars)]_vars
<1>1. Init => Chain!Init
  BY EdgeBegins, Lists, Products DEF Chain!Init, Chain!Held, Chain!NoVersion
<1>2. MInv /\ EInv /\ MInv' /\ EInv' /\ [Next]_vars => (~setup.mirror => [Chain!Next]_(Chain!vars))
  <2> SUFFICES ASSUME MInv, EInv, MInv', EInv', [Next]_vars, ~setup.mirror
               PROVE  [Chain!Next]_(Chain!vars)
    OBVIOUS
  <2>1. CASE UNCHANGED vars
    BY <2>1 DEF vars, masterVars, buildVars, edgeVars, Held, HasDatabase, EdgeListOf, ListOf, Chain!vars
  <2>2. CASE Next
    <3>1. Chain!Advance \/ UNCHANGED list
      BY <2>2, ListSteps, Lists, BoundAssumption DEF Chain!Advance, Chain!Held
    <3>2. CASE elink' = None
      <4>1. elink = None
        BY <2>2, <3>2, LinkSteps, Products
      <4>2. Held = None /\ Held' = None
        BY <3>2, <4>1 DEF Held
      <4> QED BY <3>1, <3>2, <4>1, <4>2 DEF Chain!Next
    <3>3. CASE elink' # None
      <4>1. link \in Content /\ ListOf(link) <= list /\ ListOf(link) \in 0..MaxEdits
        BY <2>2, <3>3, HeldMoves, Lists DEF MInv, Ordered
      <4>2. EdgeListOf(elink') \in 0..MaxEdits /\ EdgeListOf(elink') <= ListOf(link)
            /\ EdgeListOf(elink) <= EdgeListOf(elink')
            /\ (Held' \in Compilations[EdgeListOf(elink')] \/ Held' = None)
        BY <2>2, <3>3, HeldMoves
      <4>3. EdgeListOf(elink') <= list
        BY <2>2, <4>1, <4>2, ListSteps, BoundAssumption
      <4>4. Chain!Refresh
        BY <4>2, <4>3, Lists DEF Chain!Refresh, Chain!Held
      <4> QED BY <3>1, <4>4 DEF Chain!Next
    <3> QED BY <3>2, <3>3
  <2> QED BY <2>1, <2>2
<1> QED BY <1>1, <1>2, EdgeStable, PTL DEF Spec

--------------------------------------------------------------------------------
(* Types, in every deployment *)

\* A download has a file behind it, and an installation a file to install.
InHand == (epc = "receive" => served # None) /\ (epc = "install" => etmp # None)

\* The edge's files and what they are older than: the part of TypeOK about newer.
FilesType ==
  /\ DOMAIN newer \subseteq EdgeName \union {Tmp}
  /\ \A f \in DOMAIN newer : newer[f] \subseteq Name \union {Tmp, Mirror}

\* The edge's own variables.
EdgeType ==
  /\ epc \in EdgePC
  /\ src \in Source
  /\ force \in BOOLEAN
  /\ served \in EdgeName \union {None}
  /\ etmp \in EdgeName \union {None}
  /\ esum \in EdgeName \union {None}
  /\ elink \in EdgeName \union {None}
  /\ elost \in BOOLEAN
  /\ emanifest \in EdgeName \union {None}

\* The master's variables that MInv does not speak of.
MasterRest ==
  /\ trouble \in BOOLEAN
  /\ crashes \in 0..setup.deaths
  /\ manifest \in Name \union {None}
  /\ localTmp \in Name \union {None}
  /\ localLink \in Name \union {None}

HasTmp == Tmp \in DOMAIN newer <=> etmp # None

TInv == MInv /\ MasterRest /\ FilesType /\ HasTmp /\ EdgeType /\ InHand

LEMMA TypeParts == TInv => TypeOK
BY DEF TInv, MInv, Shape, MasterRest, FilesType, HasTmp, EdgeType, TypeOK, MasterTypeOK

LEMMA TypesStart == Init => TInv
<1> SUFFICES ASSUME Init PROVE TInv
  OBVIOUS
<1>1. MInv
  BY MasterStarts
<1>2. MasterRest
  <2>1. setup.deaths \in Nat
    BY Bounds DEF Init, MasterInit
  <2> QED BY <2>1 DEF Init, MasterInit, MasterRest
<1>3. FilesType /\ HasTmp /\ EdgeType /\ InHand
  BY DEF Init, FilesType, HasTmp, EdgeType, InHand, EdgePC, Source
<1> QED BY <1>1, <1>2, <1>3 DEF TInv

\* One more death, within its bound.
LEMMA Counted ==
  ASSUME TInv
  PROVE  crashes < setup.deaths => crashes + 1 \in 0..setup.deaths
BY Bounds DEF TInv, MInv, Shape, MasterRest

LEMMA MasterTypes ==
  ASSUME TInv, MasterNext
  PROVE  MasterRest' /\ FilesType'
<1> USE DEF TInv
<1>1. ASSUME NEW b \in Builders, NEW ok \in BOOLEAN,
             Rename(b, ok) \/ Link(b, ok) \/ Cleanup(b, ok) \/ WriteManifest(b, ok) \/ LinkLocal(b, ok)
             \/ SwapLocal(b, ok)
      PROVE  MasterRest' /\ FilesType'
  <2>1. CASE Rename(b, ok)
    <3>1. plan[b] \in Name
      BY <2>1, Markers DEF Rename, MInv, Compiled, Chosen
    <3> QED BY <2>1, <3>1 DEF Rename, MasterRest, FilesType
  <2>2. CASE Cleanup(b, ok)
    BY <2>2 DEF Cleanup, MasterRest, FilesType
  <2>3. CASE Link(b, ok) \/ WriteManifest(b, ok) \/ LinkLocal(b, ok) \/ SwapLocal(b, ok)
    <3>1. plan[b] \in Name \union {None}
      BY DEF MInv, Shape
    <3> QED BY <2>3, <3>1 DEF Link, WriteManifest, LinkLocal, SwapLocal, MasterRest, FilesType
  <2> QED BY <1>1, <2>1, <2>2, <2>3
<1>2. ASSUME NEW b \in Builders, Close(b) PROVE MasterRest' /\ FilesType'
  BY <1>2 DEF Close, MasterRest, FilesType
<1>3. ASSUME NEW b \in Builders,
             \/ BeginSave(b) \/ RequestBuild(b) \/ EndSave(b) \/ SaveFails(b) \/ Enter(b) \/ Compile(b)
             \/ NoSource(b) \/ CreateFails(b) \/ WriteFails(b) \/ Tick
      PROVE  MasterRest' /\ FilesType'
  BY <1>3 DEF BeginSave, RequestBuild, EndSave, SaveFails, Enter, Compile, NoSource, CreateFails,
              WriteFails, Tick, MasterRest, FilesType
<1>4. PanelDies => MasterRest' /\ FilesType'
  BY Counted DEF PanelDies, MasterRest, FilesType
<1>5. Recover => MasterRest' /\ FilesType'
  BY DEF Recover, buildVars, MasterRest, FilesType
<1>6. May("disk") \subseteq BOOLEAN
  BY DEF May
<1> QED BY <1>1, <1>2, <1>3, <1>4, <1>5, <1>6 DEF MasterNext, BuildStep, FileStep, Builders

\* Removing the temporary file.
LEMMA DroppingTypes ==
  ASSUME FilesType, etmp' = None, newer' = Dropped
  PROVE  FilesType' /\ HasTmp'
BY DropDomain DEF FilesType, HasTmp

\* Writing it.
LEMMA WritingTypes ==
  ASSUME FilesType, etmp' # None, newer' = Written
  PROVE  FilesType' /\ HasTmp'
BY DEF FilesType, HasTmp, Written

\* What a source opens for a download is a content.
LEMMA OfferedType ==
  ASSUME TInv, NEW s
  PROVE  Offered(s) \in Content \union {None}
<1>1. MirrorContent \in Content
  BY BoundAssumption DEF MirrorContent, Content
<1>2. link # None => dbs[link] \in Content \union {None}
  BY DEF TInv, MInv, Shape, Named
<1> QED BY <1>1, <1>2 DEF Offered

\* What the edge can name.
LEMMA EdgeNames ==
  /\ None \notin EdgeName /\ Partial \in EdgeName /\ Tmp \notin EdgeName
  /\ Content \subseteq EdgeName /\ Mixture \subseteq EdgeName
BY Markers, FreshAssumption, MixtureAssumption DEF EdgeName

\* The steps that leave the edge's files alone.
LEMMA QuietTypes ==
  ASSUME TInv, NEW ok \in BOOLEAN,
         \/ Start \/ AskNothing \/ AskNewer \/ AskUnmodified \/ AskTimeout \/ NextRange \/ Decide
         \/ SwapLink(ok) \/ WriteSidecar(ok) \/ Killed
  PROVE  MasterRest' /\ FilesType' /\ HasTmp' /\ EdgeType' /\ InHand'
<1> USE DEF TInv
<1>1. UNCHANGED <<newer, etmp>>
  BY DEF Start, Ask, AskNothing, AskNewer, AskUnmodified, AskTimeout, NextRange, Decide, SwapLink,
         WriteSidecar, Killed, masterVars
<1>2. MasterRest'
  BY Counted DEF Start, Ask, AskNothing, AskNewer, AskUnmodified, AskTimeout, NextRange, Decide,
     SwapLink, WriteSidecar, Killed, masterVars, buildVars, MasterRest
<1>3. EdgeType' /\ InHand'
  <2>1. CASE NextRange
    <3>1. Offered(src) \in Content
      BY <2>1, OfferedType DEF NextRange
    <3>2. served' \in EdgeName
      BY <2>1, <3>1, Lists, Products, EdgeNames DEF NextRange
    <3> QED BY <2>1, <3>2, EdgeNames DEF NextRange, EdgeType, InHand
  <2>2. CASE SwapLink(ok)
    BY <2>2 DEF SwapLink, EdgeType, InHand, EdgePC
  <2>3. CASE WriteSidecar(ok) \/ Killed
    BY <2>3, EdgeNames DEF WriteSidecar, Killed, EdgeType, InHand, EdgePC
  <2>4. CASE Start \/ AskNothing \/ AskNewer \/ AskUnmodified \/ AskTimeout \/ Decide
    BY <2>4 DEF Start, Ask, AskNothing, AskNewer, AskUnmodified, AskTimeout, Decide, EdgeType, InHand,
       EdgePC, Source
  <2> QED BY <2>1, <2>2, <2>3, <2>4
<1> QED BY <1>1, <1>2, <1>3 DEF FilesType, HasTmp

LEMMA InstallTypes ==
  ASSUME TInv, NEW ok \in BOOLEAN, Install(ok)
  PROVE  MasterRest' /\ FilesType' /\ HasTmp' /\ EdgeType' /\ InHand'
<1> USE DEF TInv
<1>1. etmp \in EdgeName /\ etmp # None /\ esum' = etmp /\ etmp # Tmp
  BY EdgeNames DEF Install, InHand, EdgeType
<1>2. FilesType' /\ HasTmp'
  <2>1. CASE UNCHANGED <<etmp, newer>>
    BY <2>1 DEF FilesType, HasTmp
  <2>2. CASE /\ etmp' = None
             /\ newer' = [f \in DOMAIN Dropped \union {esum'} |->
                            IF f = esum' THEN newer[Tmp] ELSE newer[f]]
    BY <1>1, <2>2, DropDomain DEF FilesType, HasTmp
  <2> QED BY <2>1, <2>2 DEF Install
<1>3. etmp' \in EdgeName \union {None} /\ epc' \in EdgePC /\ epc' \notin {"install", "receive"}
  BY <1>1 DEF Install, EdgePC
<1>4. MasterRest' /\ EdgeType' /\ InHand'
  BY <1>1, <1>3 DEF Install, MasterRest, buildVars, EdgeType, InHand
<1> QED BY <1>2, <1>4

LEMMA EdgeTypes ==
  ASSUME TInv, EdgeNext
  PROVE  MasterRest' /\ FilesType' /\ HasTmp' /\ EdgeType' /\ InHand'
<1> USE DEF TInv
<1> DEFINE Rest == MasterRest' /\ EdgeType' /\ InHand'
<1>1. CASE AskRefused
  <2>1. epc' \in {"idle", "ask"} /\ src' \in Source /\ force' \in BOOLEAN
    BY <1>1 DEF AskRefused, TryNext, EdgeType, Source
  <2>2. (etmp' = None /\ newer' = Dropped) \/ UNCHANGED <<etmp, newer>>
    BY <1>1 DEF AskRefused
  <2>3. FilesType' /\ HasTmp'
    BY <2>2, DroppingTypes DEF FilesType, HasTmp
  <2>4. Rest
    BY <1>1, <2>1, <2>2 DEF AskRefused, Ask, MasterRest, buildVars, EdgeType, InHand, EdgePC
  <2> QED BY <2>3, <2>4
<1>2. CASE NothingOffered \/ ReceiveFails
  <2>1. epc' \in {"idle", "ask"} /\ src' \in Source /\ force' \in BOOLEAN
    BY <1>2 DEF NothingOffered, ReceiveFails, TryNext, EdgeType, Source
  <2>2. FilesType' /\ HasTmp'
    BY <1>2, DroppingTypes DEF NothingOffered, ReceiveFails
  <2>3. Rest
    BY <1>2, <2>1 DEF NothingOffered, ReceiveFails, MasterRest, buildVars, EdgeType, InHand, EdgePC
  <2> QED BY <2>2, <2>3
<1>3. CASE BeginDownload
  <2>1. served' \in EdgeName /\ served' # None /\ etmp' \in EdgeName /\ etmp' # None
    BY <1>3, OfferedType, EdgeNames DEF BeginDownload
  <2>2. FilesType' /\ HasTmp'
    BY <1>3, <2>1, WritingTypes DEF BeginDownload
  <2>3. Rest
    BY <1>3, <2>1 DEF BeginDownload, MasterRest, buildVars, EdgeType, InHand, EdgePC
  <2> QED BY <2>2, <2>3
<1>4. CASE Receive
  <2>1. etmp' \in EdgeName /\ etmp' # None
    BY <1>4, EdgeNames DEF Receive, InHand, EdgeType
  <2>2. FilesType' /\ HasTmp'
    BY <1>4, <2>1, WritingTypes DEF Receive
  <2>3. Rest
    BY <1>4, <2>1 DEF Receive, MasterRest, buildVars, EdgeType, InHand, EdgePC
  <2> QED BY <2>2, <2>3
<1>5. ASSUME NEW ok \in BOOLEAN, RemoveOld(ok) PROVE FilesType' /\ HasTmp' /\ Rest
  <2>1. PICK kept : newer' = Restrict(newer, DOMAIN newer \intersect ({esum, Tmp} \union kept))
    BY <1>5 DEF RemoveOld
  <2>2. /\ DOMAIN newer' = DOMAIN newer \intersect ({esum, Tmp} \union kept)
        /\ \A f \in DOMAIN newer' : newer'[f] = newer[f]
    BY <2>1 DEF Restrict
  <2>3. FilesType' /\ HasTmp'
    BY <1>5, <2>2 DEF RemoveOld, FilesType, HasTmp
  <2>4. Rest
    BY <1>5 DEF RemoveOld, MasterRest, buildVars, EdgeType, InHand, EdgePC
  <2> QED BY <2>3, <2>4
<1>6. May("edgedisk") \subseteq BOOLEAN
  BY DEF May
<1> QED BY <1>1, <1>2, <1>3, <1>4, <1>5, <1>6, QuietTypes, InstallTypes DEF EdgeNext, EdgeStep, InstallStep

(* Every file, link and name is what the other steps take it for, in a deployment
   of any kind: TypeOK.  That a download has a file behind it, and an installation
   a file to install, is what makes it inductive.                               *)
THEOREM DatabaseTypeCorrect == Spec => []TypeOK
<1>1. TInv /\ [Next]_vars => TInv'
  <2> SUFFICES ASSUME TInv, [Next]_vars PROVE TInv'
    OBVIOUS
  <2>1. CASE MasterNext /\ UNCHANGED edgeVars
    <3>1. MInv' /\ DOMAIN newer' = DOMAIN newer
      BY <2>1, MasterKeeps, MasterFiles DEF TInv
    <3>2. HasTmp' /\ EdgeType' /\ InHand'
      BY <2>1, <3>1 DEF TInv, edgeVars, HasTmp, EdgeType, InHand
    <3> QED BY <2>1, <3>1, <3>2, MasterTypes DEF TInv
  <2>2. CASE EdgeNext
    BY <2>2, EdgeTypes, EdgeLeaves, StutterKeeps DEF TInv
  <2>3. CASE UNCHANGED vars
    BY <2>3, StutterKeeps DEF vars, masterVars, edgeVars, buildVars, TInv, MasterRest, FilesType,
       HasTmp, EdgeType, InHand
  <2> QED BY <2>1, <2>2, <2>3 DEF Next
<1> QED BY <1>1, TypesStart, TypeParts, PTL DEF Spec
================================================================================
