-------------------------- MODULE MCSmartDistStore --------------------------
(* Finite instances of SmartDistStore.                                       *)
EXTENDS SmartDistStore, TLC

\* Every list of one node, and of two different nodes.
DistinctLists == {<<n>> : n \in Nodes} \cup {ids \in Nodes \X Nodes : ids[1] # ids[2]}

Interchangeable ==
  Permutations(Nodes) \cup Permutations(Profiles) \cup Permutations(Bodies)
    \cup Permutations(Requests)
=============================================================================
