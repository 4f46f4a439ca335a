--------------------------- MODULE MCPanelSettings ---------------------------
(* An instance of PanelSettings: a domain is added to the local block list   *)
(* and removed, and dnsdist.conf gets a new block mode and a new sinkhole.   *)
EXTENDS PanelSettings

CONSTANTS l1, l2, c1, s1

MCKind ==
  [r \in Requests |->
     CASE r \in {l1, l2} -> "list"
       [] r = c1 -> "conf"
       [] OTHER -> "script"]
MCNamed == [r \in Requests |-> IF r \in {l1, l2} THEN Domains ELSE {}]
==============================================================================
