-------------------------- MODULE MCApprovalMesh --------------------------
(***************************************************************************)
(* Instances of ApprovalMesh for TLC.                                      *)
(***************************************************************************)
EXTENDS SingleDeliveryProofs, TLC

CONSTANTS ReadOnlyTasks,               \* tasks without a proposed write
          ReadsPerTask, WritesPerTask  \* proposals of the others

MCReads == [t \in Tasks |-> IF t \in ReadOnlyTasks THEN 1 ELSE ReadsPerTask]
MCWrites == [t \in Tasks |-> IF t \in ReadOnlyTasks THEN 0 ELSE WritesPerTask]

\* Call ids, worker threads and handlers are interchangeable.
Symmetry == Permutations(CallIds) \cup Permutations(Workers)
              \cup Permutations(Handlers)
===========================================================================
