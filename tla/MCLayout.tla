----------------------------- MODULE MCLayout -----------------------------
(* Values of Layout's constants for model checking. *)
EXTENDS Layout, TLC

\* No operation tells terminals apart, or projects.
Symmetry == Permutations(Terminal) \cup Permutations(Project)
=============================================================================
