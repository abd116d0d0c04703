----------------------------- MODULE MCMeshRun -----------------------------
(***************************************************************************)
(* MeshRun for TLC.                                                        *)
(***************************************************************************)
EXTENDS MeshRun, TLC

\* High-complexity turns (planner, reviewer) cost twice a low or medium one.
TierEstimate == <<2, 1, 1, 2>>

\* Every turn is estimated alike.
FlatEstimate == <<1, 1, 1, 1>>

Symmetry == Permutations(Tasks) \cup Permutations(Workers)

=============================================================================
