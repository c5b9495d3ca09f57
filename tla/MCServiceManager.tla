--------------------------- MODULE MCServiceManager ---------------------------
(* Values of ServiceManager's constants for model checking. *)
EXTENDS ServiceManager, TLC

CONSTANTS web, p1

OneProject == {p1}
InProject == [s \in Services |-> p1]

Listed(S, auto, restart) ==
  [listed |-> S, auto_start |-> auto, restart_on_crash |-> restart]

\* okena.yaml as first written, and after web is taken out of it
KeptOrRemoved == {Listed({web}, {web}, {web}), Listed({}, {}, {})}

\* and after both flags of web are taken away
OneServiceConfigs == KeptOrRemoved \cup {Listed({web}, {}, {})}

\* Terminals differ only in whether a write to them may fail.
Symmetry == Permutations(Terminals \ Unwritable)
===============================================================================
