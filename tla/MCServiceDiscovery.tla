------------------------ MODULE MCServiceDiscovery ------------------------
(* Names and poll tasks are interchangeable: no property tells them apart. *)
EXTENDS ServiceDiscovery, TLC

Symmetry == Permutations(Name) \cup Permutations(Poll)
=============================================================================
