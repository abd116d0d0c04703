------------------------------- MODULE MeshRun -------------------------------
(***************************************************************************)
(* The mesh runs of tasks (worker/graph.py, worker/orchestrator.py, driven *)
(* by worker/runner.py) under the model budget (worker/budget.py): four    *)
(* model turns, each wrapped by a budget check before and a ledger row     *)
(* after, then the write gate, and the resume of a run that paused there.  *)
(*                                                                         *)
(* A turn of _delegate is three steps: budget.check reads the ledger, the  *)
(* provider is paid, budget.record inserts a row.  Other runs, also of the *)
(* same task, interleave between any two; a worker may die between them,   *)
(* and the month may end.                                                  *)
(*                                                                         *)
(* What a turn costs is the router's affair: a call that failed is retried *)
(* and falls back to other, also dearer deployments.  What is booked for   *)
(* it is the estimate if the answer has no usage, and otherwise the tokens *)
(* at the price of the deployment that was asked for.                      *)
(*                                                                         *)
(* Abstracted: the tool calls and approvals of a run (ApprovalMesh); one   *)
(* tenant, so one budget owner, since _delegate charges the tenant; time   *)
(* within a month.  The model credentials are present: without them no     *)
(* turn calls a model.                                                     *)
(***************************************************************************)
EXTENDS TaskStates, Naturals, Sequences, FiniteSets

CONSTANTS
    Tasks,          \* task ids
    Workers,        \* callback threads, of all processes
    Estimate,       \* estimated cost of a turn, per role
    Prices,         \* what the deployments a turn can end up at may charge
    MaxCost,        \* no price and no estimate is higher
    UserCap,        \* model_monthly_budget_usd
    TaskCap,        \* model_per_task_cap
    Durable,        \* whether _select_checkpointer returns a saver
    MaxDeliveries,  \* bound: deliveries per message published for a task
    MaxGuesses,     \* bound: turns booked at another price than they were paid
    MaxMonths,      \* bound: month ends
    MaxFaults       \* bound: workers that die and calls that raise

\* planner_node, researcher_node, code_writer_node, reviewer_node, in the order
\* of the edges of build_graph.
Roles == <<"planner", "researcher", "code_writer", "reviewer">>
Turns == DOMAIN Roles

ASSUME ConstantsAssumption ==
    /\ IsFiniteSet(Tasks) /\ IsFiniteSet(Workers)
    /\ MaxCost \in Nat
    /\ Estimate \in [Turns -> 0..MaxCost]
    /\ Prices \subseteq 0..MaxCost
    /\ UserCap \in Nat /\ TaskCap \in Nat
    /\ Durable \in BOOLEAN
    /\ MaxDeliveries \in Nat /\ MaxGuesses \in Nat
    /\ MaxMonths \in Nat /\ MaxFaults \in Nat

Months == 0..MaxMonths

\* The LangGraph checkpoint of a task's thread: none, the turn that is next, the
\* write gate's interrupt, or the end.
NoThread == 0
AtGate == Len(Roles) + 1
Finished == Len(Roles) + 2

VARIABLES
    state,      \* tasks.state
    gated,      \* per task: does its prompt trigger a write (fixed)
    pending,    \* per task: deliveries its messages still have
    approvals,  \* per task: how often it was approved
    thread,     \* per task: the checkpoint of its thread
    entered,    \* per task: how many runs entered the graph, of each kind
    at,         \* per worker: where its delivery is
    month,      \* the current month
    ledger,     \* budget_ledger: sum of the rows created in each month
    paid,       \* what the providers charged in each month
    spent,      \* what the providers charged for each task
    billed,     \* per task: the turns the providers charged for
    halts,      \* per task: budget_halt rows of gateway_events
    guesses,    \* turns so far that were booked at another price than paid
    faults      \* faults so far

messages == <<pending, approvals>>
budget == <<month, ledger, paid, spent, billed, halts, guesses>>
vars == <<state, gated, messages, thread, entered, at, budget, faults>>

RunState == {"queued", "running", "awaiting_approval", "approved", "rejected",
             "completed", "failed"}

\* A run that starts at the planner, and a resume that found its thread inside
\* the turns of such a run.  A run is its kind and its number.
Kinds == {"fresh", "stray"}

RunStep == {"idle", "claim", "resume", "check", "invoke", "record", "halt",
            "fail", "gate", "recheck", "read", "save", "park", "complete"}

TypeOK ==
    /\ state \in [Tasks -> RunState]
    /\ gated \in [Tasks -> BOOLEAN]
    /\ pending \in [Tasks -> Nat] /\ approvals \in [Tasks -> Nat]
    /\ thread \in [Tasks -> NoThread..Finished]
    /\ entered \in [Tasks -> [Kinds -> Nat]]
    /\ at \in [Workers ->
         [pc : RunStep, task : Tasks, kind : Kinds \cup {"resume"}, run : Nat,
          turn : 0..AtGate,      \* the turn it is at
          booked : 0..MaxCost,   \* paid, and to be recorded at this cost
          proposes : BOOLEAN,    \* its result has proposed writes
          seen : RunState]]      \* the state in the row it will write back
    /\ \A w \in Workers :
         at[w].pc \in {"check", "invoke", "record", "halt"} => at[w].turn \in Turns
    /\ month \in Months
    /\ ledger \in [Months -> Nat] /\ paid \in [Months -> Nat]
    /\ spent \in [Tasks -> Nat]
    /\ billed \in [Tasks -> Seq([kind : Kinds, run : Nat, turn : Turns])]
    /\ halts \in [Tasks -> Seq([kind : Kinds, run : Nat, turn : Turns])]
    /\ guesses \in 0..MaxGuesses
    /\ faults \in 0..MaxFaults

Delivered(t) == [pc |-> "idle", task |-> t, kind |-> "resume", run |-> 0, turn |-> 0,
                 booked |-> 0, proposes |-> FALSE, seen |-> "queued"]

Init ==
    /\ state = [t \in Tasks |-> "queued"]
    /\ gated \in [Tasks -> BOOLEAN]
    /\ pending = [t \in Tasks |-> MaxDeliveries]
    /\ approvals = [t \in Tasks |-> 0]
    /\ thread = [t \in Tasks |-> NoThread]
    /\ entered = [t \in Tasks |-> [k \in Kinds |-> 0]]
    /\ \E t \in Tasks : at = [w \in Workers |-> Delivered(t)]
    /\ month = 0
    /\ ledger = [m \in Months |-> 0]
    /\ paid = [m \in Months |-> 0]
    /\ spent = [t \in Tasks |-> 0]
    /\ billed = [t \in Tasks |-> <<>>]
    /\ halts = [t \in Tasks |-> <<>>]
    /\ guesses = 0
    /\ faults = 0

---------------------------------------------------------------------------

At(w, step) == at[w].pc = step
Go(w, row) == at' = [at EXCEPT ![w] = row]
Task(w) == at[w].task

\* process returns or raises; the row of the delivery is forgotten.
End(w) == Go(w, Delivered(Task(w)))

\* transition_task raises for an illegal transition and for one that lost the
\* guarded UPDATE: a resume read approved, and a rerun of the task has claimed it
\* since.  (A row that any other step changed in between was illegal meanwhile.)
Refused(w, target) ==
    \/ ~CanTransition(state[Task(w)], target)
    \/ at[w].kind # "fresh" /\ state[Task(w)] = "running"

Transition(w, target) ==
    /\ CanTransition(state[Task(w)], target)
    /\ state' = [state EXCEPT ![Task(w)] = target]

---------------------------------------------------------------------------
(* Worker.process up to the graph *)

\* process loads the task: it acks a terminal one, resumes an approved one, and
\* runs any other, whatever becomes of the task in the meantime.
Load(w, t) ==
    /\ At(w, "idle") /\ pending[t] > 0
    /\ pending' = [pending EXCEPT ![t] = @ - 1]
    /\ Go(w, [Delivered(t) EXCEPT !.pc = CASE IsTerminal(state[t]) -> "idle"
                                           [] state[t] = "approved" -> "resume"
                                           [] OTHER -> "claim"])
    /\ UNCHANGED <<state, gated, approvals, thread, entered, budget, faults>>

\* A checkpoint of the thread; without a saver there is none.
Save(w, point) == thread' = [thread EXCEPT ![Task(w)] = IF Durable THEN point ELSE @]

\* A run enters the graph at a turn.
Enter(w, kind, turn) ==
    /\ entered' = [entered EXCEPT ![Task(w)][kind] = @ + 1]
    /\ Go(w, [at[w] EXCEPT !.pc = "check", !.kind = kind, !.turn = turn,
                           !.run = entered[Task(w)][kind] + 1])

\* The transition to running, legal from queued and from approved, and run_mesh
\* starts the graph on the task's thread.
Claim(w) ==
    /\ At(w, "claim")
    /\ \/ /\ Transition(w, "running")
          /\ Enter(w, "fresh", 1)
          /\ Save(w, 1)
       \/ /\ ~CanTransition(state[Task(w)], "running")
          /\ End(w)
          /\ UNCHANGED <<state, thread, entered>>
    /\ UNCHANGED <<gated, messages, budget, faults>>

\* A mutant: the resume starts the graph over.
EnterResumeAtStart(w) ==
    /\ At(w, "resume")
    /\ Enter(w, "stray", 1)
    /\ UNCHANGED <<state, gated, messages, thread, budget, faults>>

\* resume_mesh invokes the graph with Command(resume=True): LangGraph (external)
\* goes on from the thread's checkpoint.  At the gate's interrupt, or after the
\* end, that runs no turn; inside the turns of a rerun it runs them from there.
EnterResume(w) ==
    /\ At(w, "resume")
    /\ IF thread[Task(w)] \in Turns
       THEN Enter(w, "stray", thread[Task(w)]) /\ UNCHANGED thread
       ELSE /\ Go(w, [at[w] EXCEPT !.pc = "recheck"])
            /\ Save(w, Finished)
            /\ UNCHANGED entered
    /\ UNCHANGED <<state, gated, messages, budget, faults>>

---------------------------------------------------------------------------
(* A turn: _delegate *)

\* Spend of the budget owner recorded since the start of this month.
MonthToDate == ledger[month]

\* min(per_user_remaining, per_task_remaining): _delegate passes no task id, so
\* what is left of the task's cap is always the whole cap.
PerUserRemaining == UserCap - MonthToDate
PerTaskRemaining == TaskCap

\* A mutant: the ledger is not consulted.
WithinCaps(estimate) == estimate <= UserCap /\ estimate <= PerTaskRemaining

WithinBudget(estimate) ==
    /\ estimate + MonthToDate <= UserCap
    /\ estimate <= PerTaskRemaining

\* BudgetTracker.check reads the ledger once and passes or raises.
CheckBudget(w) ==
    /\ At(w, "check")
    /\ Go(w, [at[w] EXCEPT !.pc = IF WithinBudget(Estimate[at[w].turn])
                                  THEN "invoke" ELSE "halt"])
    /\ UNCHANGED <<state, gated, messages, thread, entered, budget, faults>>

Row(w) == [kind |-> at[w].kind, run |-> at[w].run, turn |-> at[w].turn]

\* What the providers bill for a turn, all attempts of the router together.
Bill(w, price) ==
    /\ paid' = [paid EXCEPT ![month] = @ + price]
    /\ spent' = [spent EXCEPT ![Task(w)] = @ + price]
    /\ billed' = [billed EXCEPT ![Task(w)] = Append(@, Row(w))]

\* chat.invoke, through the router, and _actual_cost of its answer.
Invoke(w) ==
    /\ At(w, "invoke")
    /\ \E price \in Prices, booked \in Prices \cup {Estimate[at[w].turn]} :
         /\ Bill(w, price)
         /\ IF booked = price THEN UNCHANGED guesses
            ELSE guesses < MaxGuesses /\ guesses' = guesses + 1
         /\ Go(w, [at[w] EXCEPT !.pc = "record", !.booked = booked])
    /\ UNCHANGED <<state, gated, messages, thread, entered, month, ledger, halts, faults>>

\* The next node of the graph.
NextNode(w) ==
    /\ Go(w, [at[w] EXCEPT !.pc = IF at[w].turn = Len(Roles) THEN "gate" ELSE "check",
                           !.turn = @ + 1, !.booked = 0])
    /\ Save(w, at[w].turn + 1)

\* A mutant: the reviewer is followed by another turn.
RecordPastEnd(w) ==
    /\ At(w, "record")
    /\ ledger' = [ledger EXCEPT ![month] = @ + at[w].booked]
    /\ Go(w, [at[w] EXCEPT !.pc = "check", !.turn = @ + 1, !.booked = 0])
    /\ Save(w, at[w].turn + 1)
    /\ UNCHANGED <<state, gated, messages, entered, month, paid, spent, billed, halts,
                   guesses, faults>>

\* A mutant: the row is inserted without the turn's cost.
RecordNothing(w) ==
    /\ At(w, "record")
    /\ NextNode(w)
    /\ UNCHANGED <<state, gated, messages, entered, budget, faults>>

\* budget.record: a row of the month it is created in; then the next node.
Record(w) ==
    /\ At(w, "record")
    /\ ledger' = [ledger EXCEPT ![month] = @ + at[w].booked]
    /\ NextNode(w)
    /\ UNCHANGED <<state, gated, messages, entered, month, paid, spent, billed, halts,
                   guesses, faults>>

\* A mutant: the exception propagates without an audit row.
AuditNothing(w) ==
    /\ At(w, "halt")
    /\ Go(w, [at[w] EXCEPT !.pc = "fail"])
    /\ UNCHANGED <<state, gated, messages, thread, entered, budget, faults>>

\* The budget_halt row, before BudgetExceeded leaves the node.
AuditHalt(w) ==
    /\ At(w, "halt")
    /\ halts' = [halts EXCEPT ![Task(w)] = Append(@, Row(w))]
    /\ Go(w, [at[w] EXCEPT !.pc = "fail"])
    /\ UNCHANGED <<state, gated, messages, thread, entered, month, ledger, paid, spent,
                   billed, guesses, faults>>

\* _governed_budget_halt: the transition to failed, once, its refusal swallowed,
\* and a result without proposals.
FailTask(w) ==
    /\ At(w, "fail")
    /\ \/ Transition(w, "failed")
       \/ Refused(w, "failed") /\ UNCHANGED state
    /\ Go(w, [at[w] EXCEPT !.pc = "recheck"])
    /\ UNCHANGED <<gated, messages, thread, entered, budget, faults>>

\* ... and so is any other exception of it.
FailSkipped(w) ==
    /\ At(w, "fail")
    /\ faults < MaxFaults
    /\ faults' = faults + 1
    /\ Go(w, [at[w] EXCEPT !.pc = "recheck"])
    /\ UNCHANGED <<state, gated, messages, thread, entered, budget>>

---------------------------------------------------------------------------
(* The write gate, and what the worker does with the result *)

\* write_gate_node: a fresh run with a write is interrupted, and its result has
\* the interrupt's proposals; a resumed one gets the decision and ends.
Pauses(w) == at[w].kind = "fresh" /\ gated[Task(w)]

ReachGate(w) ==
    /\ At(w, "gate")
    /\ Save(w, IF Pauses(w) THEN AtGate ELSE Finished)
    /\ Go(w, [at[w] EXCEPT !.pc = "recheck", !.proposes = Pauses(w)])
    /\ UNCHANGED <<state, gated, messages, entered, budget, faults>>

\* The governed-halt guard: get_task again, and return if it is terminal.
Recheck(w) ==
    /\ At(w, "recheck")
    /\ IF IsTerminal(state[Task(w)]) THEN End(w)
       ELSE Go(w, [at[w] EXCEPT !.pc = IF at[w].proposes THEN "read" ELSE "complete"])
    /\ UNCHANGED <<state, gated, messages, thread, entered, budget, faults>>

\* After the approvals are opened, the row is read for its metadata ...
ReadRow(w) ==
    /\ At(w, "read")
    /\ Go(w, [at[w] EXCEPT !.pc = "save", !.seen = state[Task(w)]])
    /\ UNCHANGED <<state, gated, messages, thread, entered, budget, faults>>

\* ... and written back whole,
SaveRow(w) ==
    /\ At(w, "save")
    /\ state' = [state EXCEPT ![Task(w)] = at[w].seen]
    /\ Go(w, [at[w] EXCEPT !.pc = "park"])
    /\ UNCHANGED <<gated, messages, thread, entered, budget, faults>>

\* the task waits for its approval,
Park(w) ==
    /\ At(w, "park")
    /\ \/ Transition(w, "awaiting_approval")
       \/ Refused(w, "awaiting_approval") /\ UNCHANGED state
    /\ End(w)
    /\ UNCHANGED <<gated, messages, thread, entered, budget, faults>>

\* or, without proposals or after a resume, it completes.  (The summary is then
\* written back with the row as it was completed, which is terminal.)
Complete(w) ==
    /\ At(w, "complete")
    /\ \/ Transition(w, "completed")
       \/ Refused(w, "completed") /\ UNCHANGED state
    /\ End(w)
    /\ UNCHANGED <<gated, messages, thread, entered, budget, faults>>

\* The approval endpoint; an approval publishes the task's message again.
Decide(t) ==
    /\ state[t] = "awaiting_approval"
    /\ \/ /\ state' = [state EXCEPT ![t] = "approved"]
          /\ approvals' = [approvals EXCEPT ![t] = @ + 1]
          /\ pending' = [pending EXCEPT ![t] = @ + MaxDeliveries]
       \/ /\ state' = [state EXCEPT ![t] = "rejected"]
          /\ UNCHANGED messages
    /\ UNCHANGED <<gated, thread, entered, at, budget, faults>>

---------------------------------------------------------------------------
(* Faults and time *)

\* The worker dies, or a call raises: run_mesh only governs BudgetExceeded.
Fault(w) ==
    /\ ~At(w, "idle")
    /\ faults < MaxFaults
    /\ faults' = faults + 1
    /\ End(w)
    /\ UNCHANGED <<state, gated, messages, thread, entered, budget>>

\* A provider bills a call whose answer never arrives (a timeout).
InvokeFault(w) ==
    /\ At(w, "invoke")
    /\ faults < MaxFaults
    /\ faults' = faults + 1
    /\ \E price \in Prices : Bill(w, price)
    /\ End(w)
    /\ UNCHANGED <<state, gated, messages, thread, entered, month, ledger, halts, guesses>>

MonthEnds ==
    /\ month < MaxMonths
    /\ month' = month + 1
    /\ UNCHANGED <<state, gated, messages, thread, entered, at, ledger, paid, spent,
                   billed, halts, guesses, faults>>

Step(w) ==
    \/ Claim(w) \/ EnterResume(w)
    \/ CheckBudget(w) \/ Invoke(w) \/ Record(w)
    \/ AuditHalt(w) \/ FailTask(w) \/ FailSkipped(w)
    \/ ReachGate(w) \/ Recheck(w) \/ ReadRow(w) \/ SaveRow(w) \/ Park(w) \/ Complete(w)
    \/ Fault(w) \/ InvokeFault(w)

Next ==
    \/ \E w \in Workers : Step(w) \/ \E t \in Tasks : Load(w, t)
    \/ \E t \in Tasks : Decide(t)
    \/ MonthEnds

Spec == Init /\ [][Next]_vars

---------------------------------------------------------------------------
(* Properties *)

\* The sum of the values of f, as the number of units they consist of.
Units(f) == UNION {{x} \X (1..f[x]) : x \in DOMAIN f}
Total(f) == Cardinality(Units(f))

\* Booked, not yet in the ledger, by the turns in progress.
InFlight == Total([w \in Workers |-> at[w].booked])

\* The monthly cap is exceeded by no more than a turn of every worker that
\* passed its check against the same total, a turn per fault and a turn per
\* misjudged price (budget.py: "owns the hard halt"), whatever the turns cost,
\* however often a task is rerun and also across the end of a month, when a
\* call checked in one month is paid in the next.
OverspendIsBounded ==
    \A m \in Months :
        paid[m] <= UserCap + (Cardinality(Workers) + faults + guesses) * MaxCost

\* The ledger differs from what was paid by the turns in progress, by what died
\* with a worker, and by one turn's cost for each turn that was booked by its
\* estimate or at another deployment's price (_actual_cost).
LedgerAccountsForSpend ==
    /\ Total(ledger) + InFlight <= Total(paid) + guesses * MaxCost
    /\ Total(paid) <= Total(ledger) + InFlight + (faults + guesses) * MaxCost

\* No run pays a turn twice, and only runs pay: a resume of a task that paused at
\* the gate pays nothing ("re-enters at the write_gate interrupt, so _delegate
\* does not re-run").  The turns are paid again only by a rerun, each of which
\* takes an approval, and by a resume that finds one in progress.
TurnsArePaidPerRun ==
    \A t \in Tasks :
        /\ \A i, j \in DOMAIN billed[t] : billed[t][i] = billed[t][j] => i = j
        /\ \A i \in DOMAIN billed[t] :
             billed[t][i].run \in 1..entered[t][billed[t][i].kind]
        /\ entered[t]["fresh"] <= 1 + approvals[t]
        /\ entered[t]["stray"] > 0 => entered[t]["fresh"] >= 2

\* A task fails only by a budget halt: "a single halt produces exactly one
\* budget_halt gateway_event" (_delegate), also when several runs of a task
\* halt, and a run pays nothing from the turn it halted at.  A task of one run is
\* not completed after a halt, unless the transition to failed was lost to a
\* fault (_governed_budget_halt).
HaltsAreAudited ==
    \A t \in Tasks :
        /\ state[t] = "failed" => halts[t] # <<>>
        /\ \A i, j \in DOMAIN halts[t] :
             /\ halts[t][i].kind = halts[t][j].kind
             /\ halts[t][i].run = halts[t][j].run
             => i = j
        /\ \A i \in DOMAIN halts[t], j \in DOMAIN billed[t] :
             /\ halts[t][i].kind = billed[t][j].kind
             /\ halts[t][i].run = billed[t][j].run
             => billed[t][j].turn < halts[t][i].turn
        /\ halts[t] # <<>> /\ entered[t]["fresh"] = 1 /\ faults = 0
             => state[t] # "completed"

\* What a task spends never exceeds the per-task cap (budget.py: raises
\* BudgetExceeded "when the call would breach the USD $50/month per-user cap or
\* the per-task cap").
TaskCapHolds == \A t \in Tasks : spent[t] <= TaskCap

=============================================================================
