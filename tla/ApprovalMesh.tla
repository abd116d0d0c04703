--------------------------- MODULE ApprovalMesh ---------------------------
(***************************************************************************)
(* The approval-gated execution of tasks: ingress (TaskService.create_     *)
(* task), Pub/Sub delivery (worker.main callback), the worker              *)
(* (Worker.process and _resume_after_approval), the approval endpoint      *)
(* (submit_approval -> submit_approval_decision) and the durable store     *)
(* (RepositorySQL) they share.                                             *)
(*                                                                         *)
(* Every repository call is one step, because each borrows its own         *)
(* connection and transaction.  transition_task is two: it reads the row,  *)
(* checks the table, and then updates WHERE state = <what it read>.        *)
(* Between two steps any other worker thread, handler or message may run,  *)
(* and a process may die.                                                  *)
(*                                                                         *)
(* Abstracted: a payload is taken up to the canonical JSON that is hashed, *)
(* so a SHA-256 without collisions is as good as the payload, which stands *)
(* for its own hash; an approval record is indexed by the tool call it was *)
(* opened for (open_approval is called once per gated call, with a fresh   *)
(* id each time); the requester, channel and timestamps are left out.  A   *)
(* token past its exp is refused before anything changes, so it is a token *)
(* its holder does not use.                                                *)
(***************************************************************************)
EXTENDS TaskStates, Naturals, Sequences

CONSTANTS
    Tasks,          \* task ids
    Workers,        \* worker callback threads, over all worker processes
    Handlers,       \* concurrent approval requests at the API
    CallIds,        \* tool-call ids (uuid4, never reused)
    Payloads,       \* parameters of a gated write
    None,           \* "no task / no call / no parameters"
    Reads, Writes,  \* how many reads and writes run_mesh proposes for a task
    Decisions,      \* what approval requests ask for
    MaxDeliveries,  \* --max-delivery-attempts of the worker subscription
    MaxFaults       \* bound on process deaths and raised exceptions

ApprovalDecision == {"pending", "approved", "rejected", "expired"}

ASSUME ConstantsAssumption ==
    /\ Reads \in [Tasks -> Nat]
    /\ Writes \in [Tasks -> Nat]
    /\ Decisions \subseteq ApprovalDecision
    /\ MaxDeliveries \in Nat \ {0}
    /\ MaxFaults \in Nat
    /\ None \notin Tasks /\ None \notin CallIds /\ None \notin Payloads

VARIABLES
    state,      \* tasks.state
    events,     \* task_events, per task in order
    calls,      \* tool_calls
    approvals,  \* approval_records, indexed by the gated call
    metadata,   \* task_metadata: the calls whose approval token it holds
    tokens,     \* calls whose token could be read there, now or earlier
    queue,      \* unacknowledged Pub/Sub messages
    published,  \* published[t]: messages published for task t
    workers,    \* worker threads
    handlers,   \* approval requests in flight
    ingress,    \* how far create_task got, per task
    faults,     \* faults so far (bounded by MaxFaults)
    executions, \* executions[c]: payloads handed to ToolGateway.execute
    granted     \* calls whose approval ever was decided "approved" (history)

store == <<state, events, calls, approvals, metadata, tokens>>
history == <<executions, granted>>
vars == <<state, events, calls, approvals, metadata, tokens, queue,
          published, workers, handlers, ingress, faults, executions, granted>>

ToolCallRow ==
    [task : Tasks \cup {None},
     status : {"absent", "awaiting_approval", "rejected", "executed"},
     is_read : BOOLEAN,
     params : Payloads \cup {None},
     linked : BOOLEAN]        \* approval_record_id is set

ApprovalRow ==
    [decision : ApprovalDecision \cup {"absent"},
     payload_hash : Payloads \cup {None}]

Message == [task : Tasks, seq : Nat, attempts : Nat]

NoCallRow == [task |-> None, status |-> "absent", is_read |-> FALSE,
              params |-> None, linked |-> FALSE]

NoApprovalRow == [decision |-> "absent", payload_hash |-> None]

ReadRow(t) == [task |-> t, status |-> "executed", is_read |-> TRUE,
               params |-> None, linked |-> FALSE]

WriteRow(t, p, status, linked) ==
    [task |-> t, status |-> status, is_read |-> FALSE,
     params |-> p, linked |-> linked]

\* Steps of Worker.process whose next repository call is a transition_task,
\* the state it asks for, and where the worker goes once it is committed.
TransitionSteps == {"claim", "halt", "complete", "pause", "finish"}

TransitionTarget(pc) ==
    CASE pc = "claim" -> "running"
      [] pc = "halt" -> "failed"
      [] pc = "pause" -> "awaiting_approval"
      [] OTHER -> "completed"

AfterTransition(pc) ==
    CASE pc = "claim" -> "mesh"
      [] pc = "halt" -> "recheck"
      [] pc = "complete" -> "summary"
      [] OTHER -> "ack"

WorkerStep == TransitionSteps \cup
    {"idle", "start", "mesh", "recheck", "reads", "gate", "open", "link",
     "stash", "summary", "resume", "list", "calls", "exec", "mark", "reject",
     "ack"}

WorkerRow ==
    [pc : WorkerStep,
     task : Tasks \cup {None}, seq : Nat,       \* the message being processed
     seen : TaskState \cup {"absent"},          \* task row snapshot: state
     held : SUBSET CallIds,                     \* ... and tokens in metadata
     reads : Nat, writes : Nat,                 \* proposals still to handle
     call : CallIds \cup {None},                \* the call being handled
     params : Payloads \cup {None},             \* ... as this worker holds it
     issued : SUBSET CallIds,                   \* tokens issued by this run
     todo : SUBSET (CallIds \X Payloads)]       \* list_tool_calls snapshot

IdleWorker ==
    [pc |-> "idle", task |-> None, seq |-> 0, seen |-> "absent", held |-> {},
     reads |-> 0, writes |-> 0, call |-> None, params |-> None, issued |-> {},
     todo |-> {}]

HandlerRow ==
    [pc : {"idle", "approve", "reject", "publish"},
     task : Tasks \cup {None},
     seen : TaskState \cup {"absent"}]

IdleHandler == [pc |-> "idle", task |-> None, seen |-> "absent"]

TypeOK ==
    /\ state \in [Tasks -> TaskState \cup {"absent"}]
    /\ events \in [Tasks -> Seq(TaskState)]
    /\ calls \in [CallIds -> ToolCallRow]
    /\ approvals \in [CallIds -> ApprovalRow]
    /\ metadata \in [Tasks -> SUBSET CallIds]
    /\ tokens \in SUBSET CallIds
    /\ queue \in SUBSET Message
    /\ published \in [Tasks -> Nat]
    /\ workers \in [Workers -> WorkerRow]
    /\ handlers \in [Handlers -> HandlerRow]
    /\ ingress \in [Tasks -> {"new", "created", "queued", "done"}]
    /\ faults \in 0..MaxFaults
    /\ executions \in [CallIds -> Seq(Payloads)]
    /\ granted \in SUBSET CallIds

Init ==
    /\ state = [t \in Tasks |-> "absent"]
    /\ events = [t \in Tasks |-> <<>>]
    /\ calls = [c \in CallIds |-> NoCallRow]
    /\ approvals = [c \in CallIds |-> NoApprovalRow]
    /\ metadata = [t \in Tasks |-> {}]
    /\ tokens = {}
    /\ queue = {}
    /\ published = [t \in Tasks |-> 0]
    /\ workers = [w \in Workers |-> IdleWorker]
    /\ handlers = [h \in Handlers |-> IdleHandler]
    /\ ingress = [t \in Tasks |-> "new"]
    /\ faults = 0
    /\ executions = [c \in CallIds |-> <<>>]
    /\ granted = {}

---------------------------------------------------------------------------
(* The repository and the dispatcher *)

\* tool_calls rows of task t, as list_tool_calls returns them.
CallsOf(t) == {c \in CallIds : calls[c].task = t /\ calls[c].status # "absent"}

FreshCalls == {c \in CallIds : calls[c].status = "absent"}

\* Mutant of Publish: the message is lost.
PublishNothing(t) == UNCHANGED <<queue, published>>

\* PubSubDispatcher.publish_task: a new message carrying the task id.
Publish(t) ==
    /\ queue' = queue \cup
                  {[task |-> t, seq |-> published[t] + 1, attempts |-> 0]}
    /\ published' = [published EXCEPT ![t] = @ + 1]

\* Repository.create_task: an upsert of the whole task row, state and metadata
\* included (ON CONFLICT DO UPDATE SET state = EXCLUDED.state).  No audit
\* event.  Empty metadata is not written; metadata without tokens may still
\* carry what the request put there.
UpsertTask(t, s, md) ==
    /\ state' = [state EXCEPT ![t] = s]
    /\ \/ metadata' = [metadata EXCEPT ![t] = md]
       \/ md = {} /\ UNCHANGED metadata

\* Mutant of Transition: the UPDATE lacks AND state = seen.
TransitionUnguarded(t, seen, target) ==
    /\ state' = [state EXCEPT ![t] = target]
    /\ events' = [events EXCEPT ![t] = Append(@, target)]

\* The second half of transition_task: UPDATE ... WHERE state = seen and the
\* audit row, in one transaction.
Transition(t, seen, target) ==
    /\ state[t] = seen
    /\ state' = [state EXCEPT ![t] = target]
    /\ events' = [events EXCEPT ![t] = Append(@, target)]

---------------------------------------------------------------------------
(* Ingress: TaskService.create_task *)

CreateTask(t) ==
    /\ ingress[t] = "new"
    /\ UpsertTask(t, "received", {})
    /\ ingress' = [ingress EXCEPT ![t] = "created"]
    /\ UNCHANGED <<events, calls, approvals, tokens, queue, published,
                   workers, handlers, faults, history>>

\* Only the ingress that created the row knows the task yet, so its
\* transition_task cannot lose a race and is one step.
EnqueueTask(t) ==
    /\ ingress[t] = "created"
    /\ Transition(t, "received", "queued")
    /\ ingress' = [ingress EXCEPT ![t] = "queued"]
    /\ UNCHANGED <<calls, approvals, metadata, tokens, queue, published,
                   workers, handlers, faults, history>>

PublishTask(t) ==
    /\ ingress[t] = "queued"
    /\ Publish(t)
    /\ ingress' = [ingress EXCEPT ![t] = "done"]
    /\ UNCHANGED <<store, workers, handlers, faults, history>>

\* The ingress process dies, or a call raises: the caller gets an error and
\* nothing resumes the request.
IngressFault(t) ==
    /\ ingress[t] \in {"created", "queued"}
    /\ faults < MaxFaults
    /\ faults' = faults + 1
    /\ ingress' = [ingress EXCEPT ![t] = "done"]
    /\ UNCHANGED <<store, queue, published, workers, handlers, history>>

---------------------------------------------------------------------------
(* Delivery: the callback of worker.main._run_pubsub *)

At(w, step) == workers[w].pc = step

Goto(w, step) == workers' = [workers EXCEPT ![w].pc = step]

\* Pub/Sub hands an unacknowledged message to an idle callback thread.  The
\* message may be in another thread's hands already: its ack deadline passed.
\* After MaxDeliveries attempts the message is in the dead-letter topic.
Deliver(w) ==
    /\ At(w, "idle")
    /\ \E m \in queue :
         /\ m.attempts < MaxDeliveries
         /\ queue' = (queue \ {m}) \cup {[m EXCEPT !.attempts = @ + 1]}
         /\ workers' = [workers EXCEPT ![w] =
                          [IdleWorker EXCEPT !.pc = "start",
                                             !.task = m.task, !.seq = m.seq]]
    /\ UNCHANGED <<store, published, handlers, ingress, faults, history>>

\* process() returned: message.ack().
Ack(w) ==
    /\ At(w, "ack")
    /\ queue' = {m \in queue : <<m.task, m.seq>> #
                               <<workers[w].task, workers[w].seq>>}
    /\ workers' = [workers EXCEPT ![w] = IdleWorker]
    /\ UNCHANGED <<store, published, handlers, ingress, faults, history>>

\* An exception leaves process(): message.nack(), the message stays for
\* redelivery.  _governed_budget_halt alone swallows it and returns a result
\* without proposals.
Raise(w) ==
    workers' = [workers EXCEPT ![w] =
                  IF At(w, "halt")
                  THEN [@ EXCEPT !.pc = "recheck", !.seen = "absent"]
                  ELSE IdleWorker]

\* A worker process dies: the message is not acknowledged and every local of
\* process() is gone.  Or any external call raises, with the same end but for
\* the transition of a budget halt.
WorkerFault(w) ==
    /\ ~At(w, "idle")
    /\ faults < MaxFaults
    /\ faults' = faults + 1
    /\ workers' = [workers EXCEPT ![w] = IdleWorker] \/ Raise(w)
    /\ UNCHANGED <<store, queue, published, handlers, ingress, history>>

---------------------------------------------------------------------------
(* transition_task as a worker calls it *)

\* get_task and assert_transition pass.
ReadForTransition(w) ==
    LET s == state[workers[w].task] IN
    /\ workers[w].pc \in TransitionSteps
    /\ workers[w].seen = "absent"
    /\ CanTransition(s, TransitionTarget(workers[w].pc))
    /\ workers' = [workers EXCEPT ![w].seen = s]
    /\ UNCHANGED <<store, queue, published, handlers, ingress, faults,
                   history>>

\* assert_transition raises IllegalTransition.
RefuseTransition(w) ==
    /\ workers[w].pc \in TransitionSteps
    /\ workers[w].seen = "absent"
    /\ ~CanTransition(state[workers[w].task], TransitionTarget(workers[w].pc))
    /\ Raise(w)
    /\ UNCHANGED <<store, queue, published, handlers, ingress, faults,
                   history>>

CommitTransition(w) ==
    /\ workers[w].pc \in TransitionSteps
    /\ workers[w].seen # "absent"
    /\ Transition(workers[w].task, workers[w].seen,
                  TransitionTarget(workers[w].pc))
    /\ workers' = [workers EXCEPT ![w] =
                     [@ EXCEPT !.pc = AfterTransition(workers[w].pc),
                               !.seen = "absent"]]
    /\ UNCHANGED <<calls, approvals, metadata, tokens, queue, published,
                   handlers, ingress, faults, history>>

\* The guarded UPDATE matched no row: ConcurrentModification.
LoseRace(w) ==
    /\ workers[w].pc \in TransitionSteps
    /\ workers[w].seen # "absent"
    /\ state[workers[w].task] # workers[w].seen
    /\ Raise(w)
    /\ UNCHANGED <<store, queue, published, handlers, ingress, faults,
                   history>>

---------------------------------------------------------------------------
(* Worker.process: a fresh run *)

\* The first get_task decides between return, resume and fresh run.
LoadTask(w) ==
    LET s == state[workers[w].task] IN
    /\ At(w, "start")
    /\ \/ IsTerminal(s) /\ Goto(w, "ack")
       \/ s = "approved" /\ Goto(w, "resume")
       \/ ~IsTerminal(s) /\ s # "approved" /\ Goto(w, "claim")
    /\ UNCHANGED <<store, queue, published, handlers, ingress, faults,
                   history>>

\* run_mesh returns its proposals.
RunMesh(w) ==
    /\ At(w, "mesh")
    /\ workers' = [workers EXCEPT ![w] =
                     [@ EXCEPT !.pc = "recheck",
                               !.reads = Reads[workers[w].task],
                               !.writes = Writes[workers[w].task]]]
    /\ UNCHANGED <<store, queue, published, handlers, ingress, faults,
                   history>>

\* A delegated turn raised BudgetExceeded: _governed_budget_halt.
HaltOnBudget(w) ==
    /\ At(w, "mesh")
    /\ Goto(w, "halt")
    /\ UNCHANGED <<store, queue, published, handlers, ingress, faults,
                   history>>

\* The re-fetch after run_mesh, and the same guard after resume_mesh.
Recheck(w) ==
    /\ At(w, "recheck") \/ At(w, "resume")
    /\ Goto(w, CASE IsTerminal(state[workers[w].task]) -> "ack"
                 [] At(w, "resume") -> "list"
                 [] OTHER -> "reads")
    /\ UNCHANGED <<store, queue, published, handlers, ingress, faults,
                   history>>

\* One proposed read: executed ungated, then recorded as executed.
ReadTool(w) ==
    /\ At(w, "reads")
    /\ workers[w].reads > 0
    /\ \E c \in FreshCalls :
         calls' = [calls EXCEPT ![c] = ReadRow(workers[w].task)]
    /\ workers' = [workers EXCEPT ![w].reads = @ - 1]
    /\ UNCHANGED <<state, events, approvals, metadata, tokens, queue,
                   published, handlers, ingress, faults, history>>

EndReads(w) ==
    /\ At(w, "reads")
    /\ workers[w].reads = 0
    /\ Goto(w, IF workers[w].writes = 0 THEN "complete" ELSE "gate")
    /\ UNCHANGED <<store, queue, published, handlers, ingress, faults,
                   history>>

\* Mutant of IssueToken: the dict is made anew for every write.
IssueLastToken(issued, c) == {c}

\* issued_tokens[record.approval_record_id] = token
IssueToken(issued, c) == issued \cup {c}

\* Mutant of AfterGate: the task pauses without saving the tokens.
AfterGateUnsaved(writes) == IF writes = 1 THEN "pause" ELSE "gate"

\* After the last proposed write the tokens are stashed.
AfterGate(writes) == IF writes = 1 THEN "stash" ELSE "gate"

\* The gate loop, three repository calls per proposed write: the call row ...
GateCall(w) ==
    /\ At(w, "gate")
    /\ \E c \in FreshCalls, p \in Payloads :
         /\ calls' = [calls EXCEPT ![c] =
              WriteRow(workers[w].task, p, "awaiting_approval", FALSE)]
         /\ workers' = [workers EXCEPT ![w] =
              [@ EXCEPT !.pc = "open", !.call = c, !.params = p]]
    /\ UNCHANGED <<state, events, approvals, metadata, tokens, queue,
                   published, handlers, ingress, faults, history>>

\* ... approvals.open_approval: the pending record, bound to the payload ...
OpenApproval(w) ==
    /\ At(w, "open")
    /\ approvals' = [approvals EXCEPT ![workers[w].call] =
                       [decision |-> "pending",
                        payload_hash |-> workers[w].params]]
    /\ Goto(w, "link")
    /\ UNCHANGED <<state, events, calls, metadata, tokens, queue, published,
                   handlers, ingress, faults, history>>

\* ... and the call row again, now carrying its approval_record_id.
LinkApproval(w) ==
    /\ At(w, "link")
    /\ calls' = [calls EXCEPT ![workers[w].call] =
                   WriteRow(workers[w].task, workers[w].params,
                            "awaiting_approval", TRUE)]
    /\ workers' = [workers EXCEPT ![w] =
                     [@ EXCEPT !.pc = AfterGate(workers[w].writes),
                               !.writes = workers[w].writes - 1,
                               !.issued = IssueToken(workers[w].issued,
                                                   workers[w].call),
                               !.call = None, !.params = None]]
    /\ UNCHANGED <<state, events, approvals, metadata, tokens, queue,
                   published, handlers, ingress, faults, history>>

\* get_task before the metadata upsert, and the re-read at the end of the
\* completing transition_task: the row snapshot that is written back next.
ReadRowSnapshot(w) ==
    /\ At(w, "stash") \/ At(w, "summary")
    /\ workers[w].seen = "absent"
    /\ workers' = [workers EXCEPT ![w] =
                     [@ EXCEPT !.seen = state[workers[w].task],
                               !.held = metadata[workers[w].task]]]
    /\ UNCHANGED <<store, queue, published, handlers, ingress, faults,
                   history>>

\* create_task(current + approval tokens): an upsert of the WHOLE row, so
\* state and metadata go back to the snapshot's, the metadata with the tokens
\* of this run added.  From here on the requester can have these.
StashTokens(w) ==
    /\ At(w, "stash")
    /\ workers[w].seen # "absent"
    /\ UpsertTask(workers[w].task, workers[w].seen,
                  workers[w].held \cup workers[w].issued)
    /\ tokens' = tokens \cup workers[w].issued
    /\ workers' = [workers EXCEPT ![w] =
                     [@ EXCEPT !.pc = "pause", !.seen = "absent", !.held = {}]]
    /\ UNCHANGED <<events, calls, approvals, queue, published,
                   handlers, ingress, faults, history>>

\* create_task(done + result_summary): the same upsert on the read-only path.
WriteSummary(w) ==
    /\ At(w, "summary")
    /\ workers[w].seen # "absent"
    /\ UpsertTask(workers[w].task, workers[w].seen, workers[w].held)
    /\ workers' = [workers EXCEPT ![w] =
                     [@ EXCEPT !.pc = "ack", !.seen = "absent", !.held = {}]]
    /\ UNCHANGED <<events, calls, approvals, tokens, queue, published,
                   handlers, ingress, faults, history>>

---------------------------------------------------------------------------
(* Worker._resume_after_approval *)

\* list_tool_calls: a snapshot of the rows; unlinked ones are skipped, and the
\* rows come back whatever their status.  Reads never have a record.
ListCalls(w) ==
    /\ At(w, "list")
    /\ workers' = [workers EXCEPT ![w] =
         [@ EXCEPT !.pc = "calls",
                   !.todo = {<<c, calls[c].params>> : c \in
                       {k \in CallsOf(workers[w].task) : calls[k].linked}}]]
    /\ UNCHANGED <<store, queue, published, handlers, ingress, faults,
                   history>>

\* Mutants of IsApproved: the decision, or the hash, is not looked at.
IsApprovedAnyDecision(record, payload) == record.payload_hash = payload
IsApprovedAnyPayload(record, payload) == record.decision = "approved"

\* approvals.is_approved: decided "approved", for exactly this payload.
IsApproved(record, payload) ==
    record.decision = "approved" /\ record.payload_hash = payload

\* Mutant of TakeCall: the row stays in the list.
TakeCallAgain(w, row, step) ==
    workers' = [workers EXCEPT ![w] =
                  [@ EXCEPT !.pc = step, !.call = row[1], !.params = row[2]]]

TakeCall(w, row, step) ==
    workers' = [workers EXCEPT ![w] =
                  [@ EXCEPT !.pc = step, !.todo = workers[w].todo \ {row},
                            !.call = row[1], !.params = row[2]]]

\* get_approval for a row of the snapshot decides what becomes of it.  The
\* code takes the rows by created_at; here in any order.
JudgeCall(w) ==
    /\ At(w, "calls")
    /\ \E row \in workers[w].todo :
         LET a == approvals[row[1]] IN
         \/ IsApproved(a, row[2]) /\ TakeCall(w, row, "exec")
         \/ /\ ~IsApproved(a, row[2]) /\ a.decision = "rejected"
            /\ TakeCall(w, row, "reject")
         \/ /\ ~IsApproved(a, row[2]) /\ a.decision # "rejected"
            /\ workers' = [workers EXCEPT ![w].todo = @ \ {row}]
    /\ UNCHANGED <<store, queue, published, handlers, ingress, faults,
                   history>>

\* ToolGateway.execute with the parameters of the snapshot row.
ExecuteCall(w) ==
    /\ At(w, "exec")
    /\ executions' = [executions EXCEPT ![workers[w].call] =
                        Append(@, workers[w].params)]
    /\ Goto(w, "mark")
    /\ UNCHANGED <<store, queue, published, handlers, ingress, faults,
                   granted>>

\* upsert_tool_call(call.model_copy(status = EXECUTED or REJECTED)): the whole
\* row, as the snapshot had it, goes back with a new status.
SettleCall(w, status) ==
    /\ calls' = [calls EXCEPT ![workers[w].call] =
                   WriteRow(workers[w].task, workers[w].params, status, TRUE)]
    /\ workers' = [workers EXCEPT ![w] =
                     [@ EXCEPT !.pc = "calls", !.call = None, !.params = None]]
    /\ UNCHANGED <<state, events, approvals, metadata, tokens, queue,
                   published, handlers, ingress, faults, history>>

MarkExecuted(w) == At(w, "mark") /\ SettleCall(w, "executed")

\* Mutant of MarkRejected: the wrong status.
MarkRejectedAsExecuted(w) == At(w, "reject") /\ SettleCall(w, "executed")

MarkRejected(w) == At(w, "reject") /\ SettleCall(w, "rejected")

EndCalls(w) ==
    /\ At(w, "calls")
    /\ workers[w].todo = {}
    /\ Goto(w, "finish")
    /\ UNCHANGED <<store, queue, published, handlers, ingress, faults,
                   history>>

---------------------------------------------------------------------------
(* The approval endpoint: submit_approval -> submit_approval_decision *)

\* approvals.verify_approval_token: the caller has a token issued for this
\* record, which it can have from the task metadata only.
TokenAccepted(c) == c \in tokens

\* Mutant of RecordDecision: the record is bound anew to the row's parameters.
RecordDecisionRebinds(c, d) ==
    /\ approvals' = [approvals EXCEPT ![c] =
                       [decision |-> d, payload_hash |-> calls[c].params]]
    /\ granted' = IF d = "approved" THEN granted \cup {c} ELSE granted

\* approvals.record_decision: the decision in the request replaces whatever
\* decision the record holds, also an earlier one; the payload hash stays.
RecordDecision(c, d) ==
    /\ approvals' = [approvals EXCEPT ![c].decision = d]
    /\ granted' = IF d = "approved" THEN granted \cup {c} ELSE granted

\* The endpoint up to the recorded decision: "pending" and "expired" are
\* decisions like any other, and leave the task alone.
SubmitDecision(h, c, d) ==
    /\ handlers[h].pc = "idle"
    /\ TokenAccepted(c)
    /\ RecordDecision(c, d)
    /\ handlers' = [handlers EXCEPT ![h] =
         CASE d = "approved" ->
                [IdleHandler EXCEPT !.pc = "approve", !.task = calls[c].task]
           [] d = "rejected" ->
                [IdleHandler EXCEPT !.pc = "reject", !.task = calls[c].task]
           [] OTHER -> IdleHandler]
    /\ UNCHANGED <<state, events, calls, metadata, tokens, queue, published,
                   workers, ingress, faults, executions>>

\* Mutant of HandlerTarget: a rejection approves, too.
HandlerTargetApproves(pc) == "approved"

HandlerTarget(pc) == IF pc = "approve" THEN "approved" ELSE "rejected"

\* transition_task of the handler: get_task, and assert_transition passes.
ReadForDecision(h) ==
    LET s == state[handlers[h].task] IN
    /\ handlers[h].pc \in {"approve", "reject"}
    /\ handlers[h].seen = "absent"
    /\ CanTransition(s, HandlerTarget(handlers[h].pc))
    /\ handlers' = [handlers EXCEPT ![h].seen = s]
    /\ UNCHANGED <<store, queue, published, workers, ingress, faults,
                   history>>

\* assert_transition raises: the request fails, the decision stays recorded.
RefuseDecision(h) ==
    /\ handlers[h].pc \in {"approve", "reject"}
    /\ handlers[h].seen = "absent"
    /\ ~CanTransition(state[handlers[h].task], HandlerTarget(handlers[h].pc))
    /\ handlers' = [handlers EXCEPT ![h] = IdleHandler]
    /\ UNCHANGED <<store, queue, published, workers, ingress, faults,
                   history>>

CommitDecision(h) ==
    /\ handlers[h].pc \in {"approve", "reject"}
    /\ handlers[h].seen # "absent"
    /\ Transition(handlers[h].task, handlers[h].seen,
                  HandlerTarget(handlers[h].pc))
    /\ handlers' = [handlers EXCEPT ![h] =
         IF @.pc = "approve"
         THEN [@ EXCEPT !.pc = "publish", !.seen = "absent"]
         ELSE IdleHandler]
    /\ UNCHANGED <<calls, approvals, metadata, tokens, queue, published,
                   workers, ingress, faults, history>>

\* ConcurrentModification at the handler.
LoseDecision(h) ==
    /\ handlers[h].pc \in {"approve", "reject"}
    /\ handlers[h].seen # "absent"
    /\ state[handlers[h].task] # handlers[h].seen
    /\ handlers' = [handlers EXCEPT ![h] = IdleHandler]
    /\ UNCHANGED <<store, queue, published, workers, ingress, faults,
                   history>>

\* Mutant of PublishResume: the re-dispatch is forgotten.
PublishResumeForgotten(h) ==
    /\ handlers[h].pc = "publish"
    /\ handlers' = [handlers EXCEPT ![h] = IdleHandler]
    /\ UNCHANGED <<store, queue, published, workers, ingress, faults,
                   history>>

\* The re-dispatch after an approval.
PublishResume(h) ==
    /\ handlers[h].pc = "publish"
    /\ Publish(handlers[h].task)
    /\ handlers' = [handlers EXCEPT ![h] = IdleHandler]
    /\ UNCHANGED <<store, workers, ingress, faults, history>>

HandlerFault(h) ==
    /\ handlers[h].pc # "idle"
    /\ faults < MaxFaults
    /\ faults' = faults + 1
    /\ handlers' = [handlers EXCEPT ![h] = IdleHandler]
    /\ UNCHANGED <<store, queue, published, workers, ingress, history>>

---------------------------------------------------------------------------
(* The environment *)

\* Somebody rewrites the parameters of a gated call in the store after the
\* approval was opened: the case is_approved re-hashes the payload for.
AmendParameters(c, p) ==
    /\ calls[c].status # "absent" /\ ~calls[c].is_read
    /\ p # calls[c].params
    /\ calls' = [calls EXCEPT ![c].params = p]
    /\ UNCHANGED <<state, events, approvals, metadata, tokens, queue,
                   published, workers, handlers, ingress, faults, history>>

---------------------------------------------------------------------------

IngressNext(t) == CreateTask(t) \/ EnqueueTask(t) \/ PublishTask(t)

TransitionStep(w) ==
    \/ ReadForTransition(w) \/ RefuseTransition(w)
    \/ CommitTransition(w) \/ LoseRace(w)

FreshRunStep(w) ==
    \/ LoadTask(w) \/ RunMesh(w) \/ Recheck(w)
    \/ ReadTool(w) \/ EndReads(w)
    \/ GateCall(w) \/ OpenApproval(w) \/ LinkApproval(w)
    \/ ReadRowSnapshot(w) \/ StashTokens(w) \/ WriteSummary(w)

ResumeStep(w) ==
    \/ ListCalls(w) \/ JudgeCall(w) \/ ExecuteCall(w)
    \/ MarkExecuted(w) \/ MarkRejected(w) \/ EndCalls(w)

\* What a worker thread does of its own accord once a message reached it.
WorkerNext(w) ==
    TransitionStep(w) \/ FreshRunStep(w) \/ ResumeStep(w) \/ Ack(w)

\* What an approval request does once its decision is recorded.
HandlerNext(h) ==
    \/ ReadForDecision(h) \/ RefuseDecision(h) \/ CommitDecision(h)
    \/ LoseDecision(h) \/ PublishResume(h)

Environment ==
    \/ \E h \in Handlers, c \in CallIds, d \in Decisions :
         SubmitDecision(h, c, d)
    \/ \E w \in Workers : HaltOnBudget(w) \/ WorkerFault(w)
    \/ \E h \in Handlers : HandlerFault(h)
    \/ \E t \in Tasks : IngressFault(t)
    \/ \E c \in CallIds, p \in Payloads : AmendParameters(c, p)

Next ==
    \/ \E t \in Tasks : IngressNext(t)
    \/ \E w \in Workers : Deliver(w) \/ WorkerNext(w)
    \/ \E h \in Handlers : HandlerNext(h)
    \/ Environment

Spec == Init /\ [][Next]_vars

\* Threads run, the broker delivers, and a process that is up takes its next
\* step.  Nobody is obliged to decide, to let a token expire or to fail.
Fairness ==
    /\ \A t \in Tasks : WF_vars(EnqueueTask(t)) /\ WF_vars(PublishTask(t))
    /\ \A w \in Workers : WF_vars(Deliver(w)) /\ WF_vars(WorkerNext(w))
    /\ \A h \in Handlers : WF_vars(HandlerNext(h))

FairSpec == Spec /\ Fairness

---------------------------------------------------------------------------
(* Properties *)

\* Whatever the interleaving, crashes, duplicates and tampering: every payload
\* the worker handed to the Tool Gateway for a gated call is the payload that
\* its approval record was opened with, and somebody holding the token did
\* approve it.  (runner.py: "the ONLY place a write executes, gated by
\* approvals.is_approved() payload re-hash".)
OnlyApprovedPayloadsSent ==
    \A c \in CallIds : \A i \in DOMAIN executions[c] :
        /\ c \in granted
        /\ executions[c][i] = approvals[c].payload_hash

\* The same as a promise kept step by step: the mesh implements GatedWrites.  A
\* record is bound once and to one payload, whoever amends the row, a grant
\* follows the binding, and each write that goes out is bound and granted by
\* then, however often its message is delivered.
Gate ==
    INSTANCE GatedWrites
        WITH Calls <- CallIds, sent <- executions,
             bound <- [c \in CallIds |-> approvals[c].payload_hash]
ImplementsGatedWrites == Gate!Spec

\* The tool-call ledger does not claim a write that never went out.
ExecutedRowsWereSent ==
    \A c \in CallIds :
        calls[c].status = "executed" /\ ~calls[c].is_read
        => executions[c] # <<>>

\* A task that stands in "approved" has an approval behind it, even when whole
\* rows are written back from old snapshots.
ApprovedStateHasDecision ==
    \A t \in Tasks : state[t] = "approved" =>
        \E c \in CallsOf(t) : c \in granted

\* A parked task can be answered: its metadata holds the token of a recorded,
\* linked call, although concurrent runs overwrite each other's metadata.
ParkedIsAnswerable ==
    \A t \in Tasks : state[t] = "awaiting_approval" =>
        \E c \in CallsOf(t) : calls[c].linked /\ c \in metadata[t]

\* With every message delivered once, each gated write of a parked task can be
\* answered: none of the tokens issued along the way is lost.
EveryGatedCallAnswerable ==
    \A t \in Tasks : state[t] = "awaiting_approval" =>
        \A c \in CallsOf(t) : calls[c].is_read \/ c \in metadata[t]

\* Nothing but redelivery repeats a write, and one delivery went into proposing
\* it: a write goes out fewer times than the messages of its task may be
\* delivered, however many threads resume the task and whoever dies.
SendsBelowDeliveries ==
    \A c \in CallIds : calls[c].status # "absent" =>
        Len(executions[c]) < MaxDeliveries * published[calls[c].task]

\* With every message delivered once, no gated write goes out twice.
AtMostOnceSent == \A c \in CallIds : Len(executions[c]) <= 1

\* With every message delivered once, a row marked rejected was never sent,
\* and nothing of a rejected task was.
RejectedNeverSent ==
    \A c \in CallIds :
        calls[c].status = "rejected" \/ (calls[c].task \in Tasks
                                         /\ state[calls[c].task] = "rejected")
        => executions[c] = <<>>

\* With every message delivered once, a write goes out only while its task
\* stands approved.
SentOnlyWhileApproved ==
    [][\A c \in CallIds : executions'[c] # executions[c]
            => state[calls[c].task] = "approved"]_vars

\* With every message delivered once, the store keeps the promise of
\* TaskLifecycle although StashTokens and WriteSummary upsert whole rows.
Lifecycle ==
    INSTANCE TaskLifecycle WITH Tasks <- Tasks, state <- state, events <- events
LifecycleSpec == Lifecycle!Spec

\* enums.py: "Terminal states never transition further."
TerminalIsFinal ==
    [][\A t \in Tasks : IsTerminal(state[t]) => state'[t] = state[t]]_vars

\* Without faults every task that was dispatched is brought to an end or is
\* parked for an answer.
DispatchedSettles ==
    \A t \in Tasks :
        ingress[t] = "done"
        ~> IsTerminal(state[t]) \/ state[t] = "awaiting_approval"

\* Without faults an approved task reaches a terminal state: the re-dispatch
\* is never lost to the race with the message of the first run.
ApprovedSettles ==
    \A t \in Tasks : state[t] = "approved" ~> IsTerminal(state[t])

\* models.py (TaskRecord): state is persisted first "so a worker can resume
\* after restart": a task found running is brought to an end or parked, also
\* when the worker that had it died.
RunningSettles ==
    \A t \in Tasks :
        state[t] = "running"
        ~> IsTerminal(state[t]) \/ state[t] = "awaiting_approval"
===========================================================================
