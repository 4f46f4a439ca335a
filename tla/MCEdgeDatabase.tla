---------------------------- MODULE MCEdgeDatabase -----------------------------
(***************************************************************************)
(* Instances of EdgeDatabase for TLC.                                      *)
(***************************************************************************)
EXTENDS EdgeDatabase

\* One client saves the list once or asks for builds beside the ticker's.
Plain == [faults |-> {}, clients |-> {CHOOSE r \in Requests : TRUE}, edits |-> 1, deaths |-> 0,
          edge |-> FALSE, mirror |-> FALSE]

\* The master alone: two clients at once, feeds and lists that cannot be read ...
ListSetup == [Plain EXCEPT !.clients = Requests, !.faults = {"feeds", "lists"}, !.deaths = 1]

\* ... or files that cannot be written, with a panel that dies.
WriteSetup == [Plain EXCEPT !.faults = {"disk"}, !.deaths = 1]

\* With an edge whose script, or the panel, dies.
KillsSetup == [Plain EXCEPT !.edge = TRUE, !.faults = {"requests", "kills"}, !.deaths = 1]

\* With an edge that has a mirror and gets no answer, ...
MirrorSetup == [Plain EXCEPT !.edge = TRUE, !.mirror = TRUE, !.faults = {"timeouts"}]

\* ... or that cannot move its files, and changes between the mirror's and the master's.
MoveSetup == [MirrorSetup EXCEPT !.clients = {}, !.edits = 0, !.faults = {"edgedisk", "requests"}]

SeparateSetups == {ListSetup, WriteSetup, KillsSetup, MirrorSetup, MoveSetup}

\* A killed run and an unanswered request in one deployment.
JointSetups == {[KillsSetup EXCEPT !.faults = {"timeouts", "kills"}]}
================================================================================
