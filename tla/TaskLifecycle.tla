--------------------------- MODULE TaskLifecycle ---------------------------
(***************************************************************************)
(* What the durable task store promises to every component: a task row is  *)
(* created in "received", afterwards it moves only along the transition    *)
(* table, and each move appends exactly one row to the audit stream        *)
(* task_events.  This is the abstract specification that ApprovalMesh is   *)
(* checked against.                                                        *)
(***************************************************************************)
EXTENDS TaskStates, Sequences

CONSTANT Tasks   \* task ids

VARIABLES state,   \* state[t]: the state column of task t's row
          events   \* events[t]: the ordered audit stream of task t

vars == <<state, events>>

TypeOK ==
    /\ state \in [Tasks -> TaskState \cup {"absent"}]
    /\ events \in [Tasks -> Seq(TaskState)]

Init ==
    /\ state = [t \in Tasks |-> "absent"]
    /\ events = [t \in Tasks |-> <<>>]

\* Repository.create_task on a new row: the default state, no event.
Create(t) ==
    /\ state[t] = "absent"
    /\ state' = [state EXCEPT ![t] = "received"]
    /\ UNCHANGED events

\* Repository.transition_task: state and audit row advance together.
Move(t, target) ==
    /\ CanTransition(state[t], target)
    /\ state' = [state EXCEPT ![t] = target]
    /\ events' = [events EXCEPT ![t] = Append(@, target)]

Next == \E t \in Tasks : Create(t) \/ \E s \in TaskState : Move(t, s)

Spec == Init /\ [][Next]_vars
============================================================================
