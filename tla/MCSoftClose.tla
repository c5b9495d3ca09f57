----------------------------- MODULE MCSoftClose -----------------------------
(* Values of SoftClose's constants for model checking. *)
EXTENDS SoftClose, TLC

\* Operations tell projects apart only by Worktrees, and terminals by Unwritable.
Symmetry ==
  Permutations(Worktrees) \cup Permutations(Projects \ Worktrees)
    \cup Permutations(Terminals \ Unwritable)
===============================================================================
