---------------------------- MODULE VersionedCopy ----------------------------
(***************************************************************************)
(* What every link of the distribution promises: a copy follows a source   *)
(* whose content goes through versions 0, 1, 2, ...  The copy may lag and  *)
(* may skip versions, but it is always the whole content of one version,   *)
(* never of one the source has not had, and never goes back to an older    *)
(* one.  A lossy copy may also be missing at times, until it is made anew. *)
(* The links: the operator's list to the master's database, that one to an *)
(* edge's (MasterBuild, EdgeDatabase: lossy); the upstream's zone to a     *)
(* relay's list, that one to a secondary's zone (RpzRelay: not lossy).     *)
(***************************************************************************)
EXTENDS Integers

CONSTANTS
  Contents,  \* Contents[v]: the contents that version v may have
  Nothing,   \* the content of a copy that was never made, or is missing
  Lossy      \* the content of a copy may get lost

VARIABLES
  source,    \* the version of the source
  copy,      \* the version of the copy
  content    \* the content of the copy

vars == <<source, copy, content>>

NoVersion == -1
Held == DOMAIN Contents

Init ==
  /\ source \in Held \cup {NoVersion}
  /\ \/ copy = NoVersion /\ content = Nothing
     \/ copy \in Held /\ copy <= source /\ content \in Contents[copy]

\* The source moves on.
Advance == source' \in Held /\ source < source'

\* The copy is replaced by a version between its own and the source's, or lost.
Refresh ==
  /\ copy' \in Held
  /\ copy <= copy' /\ copy' <= source
  /\ \/ content' \in Contents[copy']
     \/ Lossy /\ content' = Nothing

Next ==
  /\ Advance \/ UNCHANGED source
  /\ Refresh \/ UNCHANGED <<copy, content>>

Spec == Init /\ [][Next]_vars
==============================================================================
