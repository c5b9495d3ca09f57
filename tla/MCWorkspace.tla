---------------------------- MODULE MCWorkspace ----------------------------
(* Values of Workspace's constants for model checking. *)
EXTENDS Workspace, TLC

\* No operation tells projects apart, or folders, or extra windows.
Symmetry == Permutations(Project) \cup Permutations(Folder) \cup Permutations(Extra)
=============================================================================
