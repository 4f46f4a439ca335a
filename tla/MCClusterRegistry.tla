-------------------------- MODULE MCClusterRegistry --------------------------
(* Finite instances of ClusterRegistry.  Tokens, nodes and requests are      *)
(* interchangeable: symmetry for the runs without liveness properties.       *)
EXTENDS ClusterRegistry, TLC

Interchangeable ==
  Permutations(Tokens) \cup Permutations(Nodes) \cup Permutations(Requests)
==============================================================================
