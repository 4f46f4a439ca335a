--------------------------- MODULE EnrollContract ---------------------------
(***************************************************************************)
(* What every cluster storage engine of the panel promises about           *)
(* enrolment, whatever it keeps on disk and however its requests           *)
(* interleave: a token is handed out once, accepted at most once while it  *)
(* is valid, and pays for at most one node; a node that was deleted never  *)
(* comes back.                                                             *)
(*                                                                         *)
(* The engines hide behind the ClusterStorage interface (panel/storage.go) *)
(* and the documentation promises "the same contract" for all of them.     *)
(* ClusterRegistry (the JSON file) is shown to implement this module.      *)
(***************************************************************************)
CONSTANTS
  Tokens,    \* enrolment tokens that may ever be generated
  Nodes,     \* node identifiers that may ever be drawn
  NoToken    \* "no token": outside Tokens

VARIABLES
  token,     \* token[t]: where t is in its life
  node,      \* node[n]: where n is in its life
  payer      \* payer[n]: the token that paid for n, or NoToken

vars == <<token, node, payer>>

TokenStates == {"unissued", "live", "claimed", "paid", "void"}
NodeStates == {"absent", "member", "gone"}

Init ==
  /\ token = [t \in Tokens |-> "unissued"]
  /\ node = [n \in Nodes |-> "absent"]
  /\ payer = [n \in Nodes |-> NoToken]

\* GenerateEnrollmentToken hands a token to the operator.
Issue(t) ==
  /\ token[t] = "unissued"
  /\ token' = [token EXCEPT ![t] = "live"]
  /\ UNCHANGED <<node, payer>>

\* ValidateAndConsumeToken accepts a token: only a live one, only once.
Claim(t) ==
  /\ token[t] = "live"
  /\ token' = [token EXCEPT ![t] = "claimed"]
  /\ UNCHANGED <<node, payer>>

\* RegisterNode enrols a node that nobody enrolled before.
Enrol(n, t) ==
  /\ token[t] = "claimed"
  /\ node[n] = "absent"
  /\ token' = [token EXCEPT ![t] = "paid"]
  /\ node' = [node EXCEPT ![n] = "member"]
  /\ payer' = [payer EXCEPT ![n] = t]

\* Tokens expire, and a crash loses the requests in flight.
Void(lost) ==
  /\ \A t \in lost : token[t] \in {"live", "claimed"}
  /\ token' = [t \in Tokens |-> IF t \in lost THEN "void" ELSE token[t]]
  /\ UNCHANGED <<node, payer>>

\* DeleteNode.
Remove(n) ==
  /\ node[n] = "member"
  /\ node' = [node EXCEPT ![n] = "gone"]
  /\ UNCHANGED <<token, payer>>

Next ==
  \/ \E t \in Tokens : Issue(t) \/ Claim(t)
  \/ \E n \in Nodes, t \in Tokens : Enrol(n, t)
  \/ \E lost \in SUBSET Tokens : Void(lost)
  \/ \E n \in Nodes : Remove(n)

Spec == Init /\ [][Next]_vars
=============================================================================
