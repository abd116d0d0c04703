------------------------- MODULE MCSelfImprovement -------------------------
(***************************************************************************)
(* SelfImprovement for TLC.                                                *)
(***************************************************************************)
EXTENDS SelfImprovement, TLC

\* Proposal ids, callers and versions are interchangeable.
Symmetry == Permutations(Proposals) \cup Permutations(Actors)
              \cup Permutations(Versions)

=============================================================================
