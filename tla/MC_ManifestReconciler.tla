----------------------- MODULE MC_ManifestReconciler -----------------------
(***************************************************************************)
(* Instances of ManifestReconciler for TLC.                                *)
(***************************************************************************)
EXTENDS ManifestReconciler, TLC

CONSTANTS r1, r2

\* Two resources: the controller's options and its process are shared by
\* every key, and one key's panic restarts the work on the other.
MCRes2 == {r1, r2}

\* One resource, for the liveness runs: the fairness of one key's calls is
\* not disturbed by another key's panic loop.
MCRes1 == {r1}

MCSymmetry == Permutations(MCRes2)

=============================================================================
