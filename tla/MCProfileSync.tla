---------------------------- MODULE MCProfileSync ----------------------------
(* Finite instances of ProfileSync: three documents with sections of their   *)
(* own, of which dnsdist refuses that of v3.                                  *)
EXTENDS ProfileSync

CONSTANTS v1, v2, v3

DnsSection == [v \in Versions |-> IF v = v1 THEN "A" ELSE IF v = v2 THEN "B" ELSE "bad"]

\* An edge on which everything may fail, one on which nothing restarts dnsdist, and
\* two that are registered while the loop runs: one whose assignment changes again,
\* one on which restarts fail.
Usual ==
  {[faults |-> AllFaults, changes |-> 2, crashes |-> 1, registrations |-> 0, restarts |-> TRUE],
   [faults |-> {"disk"}, changes |-> 2, crashes |-> 1, registrations |-> 0, restarts |-> FALSE],
   [faults |-> {}, changes |-> 2, crashes |-> 0, registrations |-> 1, restarts |-> TRUE],
   [faults |-> {"restart"}, changes |-> 1, crashes |-> 0, registrations |-> 1, restarts |-> TRUE]}

Faultless ==
  {[faults |-> {}, changes |-> 3, crashes |-> 0, registrations |-> 0, restarts |-> on] : on \in BOOLEAN}

Good == Sections \ {"bad"}
=============================================================================
