---------------------------- MODULE MCSqlRegistry ----------------------------
(* Finite instances of SqlRegistry.                                          *)
EXTENDS SqlRegistry, TLC

Interchangeable ==
  Permutations(Panels) \cup Permutations(Tokens) \cup Permutations(Nodes)
    \cup Permutations(Requests)
==============================================================================
