---------------------------- MODULE TaskStates ----------------------------
(***************************************************************************)
(* The task states and the transition table every component consults:      *)
(* contracts/enums.py (TaskState, TERMINAL_STATES) and                     *)
(* contracts/lifecycle.py (_ALLOWED, can_transition, is_terminal).         *)
(* No variables: the modules that hold tasks extend this one.              *)
(***************************************************************************)

TaskState ==
    {"received", "queued", "planning", "running", "awaiting_approval",
     "approved", "rejected", "completed", "failed", "cancelled"}

TERMINAL_STATES == {"completed", "failed", "cancelled", "rejected"}

\* _ALLOWED.get(current, frozenset())
Allowed(current) ==
    CASE current = "received" -> {"queued", "cancelled"}
      [] current = "queued" -> {"planning", "running", "cancelled"}
      [] current = "planning" ->
            {"running", "awaiting_approval", "failed", "cancelled"}
      [] current = "running" ->
            {"awaiting_approval", "completed", "failed", "cancelled"}
      [] current = "awaiting_approval" -> {"approved", "rejected", "cancelled"}
      [] current = "approved" -> {"running", "completed", "failed"}
      [] OTHER -> {}

\* assert_transition raises IllegalTransition exactly when this is FALSE.
CanTransition(current, target) == target \in Allowed(current)

IsTerminal(s) == s \in TERMINAL_STATES
===========================================================================
