# TLA+ models of the AusGTM agent mesh

The mesh takes a prompt from Slack, MCP or the GUI, stores a durable task,
dispatches it over Pub/Sub to a worker, runs an agent graph that *proposes* tool
calls, executes reads at once and parks the task until a human approves each
write. This directory holds the specifications kept beside that code. Paths
below are relative to `src/src/agent_mesh/` unless they start with `src/`.

Contents: [inventory](#1-inventory), [plan](#2-plan),
[modules and code](#3-modules-and-the-code), [runs](#4-runs-and-bounds),
[fairness](#5-fairness), [proofs](#6-proofs), [findings](#7-findings),
[not modelled](#8-abstractions-and-what-is-not-modelled).

## 1. Inventory

| Component | Source | State it keeps | Operations | What makes it correct |
|---|---|---|---|---|
| Task lifecycle table | `contracts/enums.py`, `contracts/lifecycle.py` | none | `can_transition`, `assert_transition`, `is_terminal` | terminal states are final; every other state has a way out |
| Durable store | `services/repository.py`, `src/migrations/0001_init.sql` | tasks, task_metadata, task_events, tool_calls, approval_records, proposals, promotions, budget events | whole-row upserts, `transition_task` (read, check, guarded update + audit row), lists | the state column moves only along the table and every move is in the audit stream |
| Task service, ingress | `services/task_service.py`, `api/app.py`, `api/mcp_server.py`, `services/sessions.py` | none of its own | `create_task`, `submit_approval_decision` | persisted before dispatched; one resume per approval |
| Approval ledger | `services/approvals.py` | approval_records; signed tokens in task metadata | `open_approval`, `verify_approval_token`, `record_decision`, `is_approved` | a write goes out only if approved, and only the payload that was approved |
| Dispatch and delivery | `services/dispatch.py`, `worker/main.py`, `services/pubsub_setup.py` | the subscription's messages | publish, deliver, ack, nack, dead letter | at-least-once delivery must be harmless |
| Worker | `worker/runner.py` | locals of `process` only | fresh run, gate loop, resume after approval | reads run at once, writes only after approval; the task ends or parks |
| Orchestrator, graph, roster | `worker/orchestrator.py`, `worker/graph.py`, `worker/roster.py` | LangGraph checkpoint per task | `run_mesh`, `resume_mesh`, `_delegate`, `_governed_budget_halt` | a budget halt ends the task in `failed` |
| Budget | `worker/budget.py`, `worker/graph.py` | ledger of budget events | `check`, `record`, `spent` | spend stays under the caps |
| Self-improvement | `services/self_improvement.py`, `services/version_pin.py`, `services/ai_bom.py` | proposals, promotions, active version | create, evaluate, decide, promote, roll back, pin at boot | nothing is promoted without passing evaluation and approval; roll-back restores |
| Reflective proposer | `services/reflective_proposer.py` | none | `propose_from_traces`, `improve_loop` | stops at the first pass and within its bound |
| Evaluation, judges | `services/eval_harness.py`, `eval/judges.py` | scores of one experiment | `run_candidate`, no-regression gate, order-swapped pairwise verdicts, binomial Type-I gate | a candidate that regresses never passes; neither position bias nor chance is evidence |
| Tool gateway | `tools/gateway.py`, `tools/validation.py`, `tools/credentials.py`, `tools/aggregate_schema.py` | schema cache, gateway events | `execute` | what the row says of a call agrees with what its provider did |
| Adapters | `tools/adapters/` | none | one request per tool, the mapping of its answer | drafts stay drafts, nothing is sent twice in one delivery, a missing SDK is not taken for a provider's answer |
| Model gateway | `worker/model_gateway.py`, `src/config/model_gateway.config.yaml` | none | model routing with retries and fallbacks | what a call may cost is known before it is made (it is not, see `MeshRun`) |
| Sandbox | `sandbox/executor.py` | a container | run with timeout | no container outlives its timeout |
| GUI, serialization, observability, settings, Slack verification | rest | none | read-only views, configuration | - |

**How they interact.** Ingress, approval endpoint and workers meet in the store and on
the topic only. The callback threads of one worker process share its module state as
well: the schema cache, the checkpointer, the version pinned at boot.
`create_task` writes the row, moves it to `queued`, publishes. A worker callback
loads the row, claims it (`running`), runs the mesh, records reads, and for each
proposed write stores the call, opens an approval record bound to the payload's
hash and links the two; it stashes the approval tokens in the task's metadata
and parks the task. The approval endpoint verifies a token, records the decision,
moves the task to `approved` or `rejected` and, when approved, publishes the task
again. The next delivery takes the resume path: it lists the calls, checks each
one's record against its parameters, executes, marks and completes.

Inside a run, each of the four graph nodes asks the budget, pays a model call and
records its cost; the write gate interrupts the graph, whose checkpoint outlives
the worker. Each read and each approved write goes through
`ToolGateway.execute`: input schema, credential, adapter, provider, output schema. Beside
the task path stands the self-improvement pipeline: a proposal is drafted from
traces, evaluated on held-out items, approved through the same ledger, promoted
together with an AI-BOM snapshot (or the id of one that the caller supplies), and rolled back if need be; a worker serves the version
the pointer named when it booted.

**What is hard.** Every repository call is a transaction of its own, so between any
two of them another callback thread, process or request may run. Pub/Sub delivers at
least once, and the deployment gives a message an ack deadline of 600 s
(`src/scripts/gcp_bootstrap.sh:77`) while runs are meant to last more than an
hour (`services/task_service.py:41`): the same message is then being processed
twice. A process may die between two calls. `create_task` is also the *update* of
a task row and writes the state and the metadata of an earlier read back
(`services/repository.py:700`). Decisions may be overwritten
(`services/approvals.py:244`), and the table of calls may be edited after an
approval, which is the case `is_approved` re-hashes for. The pipeline's operations
write the status and record id of a proposal they read earlier, and promotion is three
transactions. A model turn is checked, paid and recorded in three steps, at a price
that the router's fallbacks choose. The callback threads of a process check and fill the
schema cache without a lock. A provider may perform a write and lose the answer, or answer in a shape the adapter refuses.

`PROJECT.json` lists each hazard at its line with the properties that cover it.

## 2. Plan

In order of importance; all of these exist.

1. `TaskStates`: states and transition table, used by everything that holds tasks.
2. `TaskLifecycle`: abstract specification of the store's promise.
3. `ApprovalMesh` + `MCApprovalMesh`: ingress, delivery, worker, ledger, endpoint
   and store composed; safety, liveness, refinement of `TaskLifecycle`.
4. `GatedWrites`, the gate's promise, implemented by `ApprovalMesh`;
   `ApprovalMeshProofs`: type correctness, `OnlyApprovedPayloadsSent`, the refinement.
5. `GovernedVersions`, and `SelfImprovement` + MC that implements it: the pipeline's
   calls by concurrent callers that may die, roll-back, the version pinned at boot.
6. `MeshRun` + MC: the turns of a run under the budget, the write gate and the
   resume, concurrent runs, also of one task, dearer fallbacks, a month's end, faults.
7. `ToolGateway` + MC: a tool call from the worker's loop to the provider and back
   to its row, for every tool of the pack.
8. `ImproveLoop` + MC: the bounded loop, the gate and the judge, whose test is `Binomial`.
9. Proofs of what the runs check: `ApprovalAnswerProofs`, `SingleDeliveryProofs`,
   `SelfImprovementProofs`, `MeshRunProofs`, `ToolGatewayProofs`, `BinomialProofs`,
   `ImproveLoopProofs` ([section 6](#6-proofs)).

Worth adding: what the store still promises of the *task row* under redelivery, between
`TaskLifecycle` (which redelivery breaks) and the invariants of `mesh_faults`; an abstract
specification of `ToolGateway`, at-least-once writes per provider.

Dependencies: `ApprovalMesh` takes a mesh run and a tool call as one step each;
`MeshRun` opens the first and `ToolGateway` the second, and each keeps of the
worker only what surrounds the step it opens. `SelfImprovement` takes an evaluation as
one step that yields an outcome; `ImproveLoop` opens it.

## 3. Modules and the code

`TaskStates` is `contracts/enums.py` and `contracts/lifecycle.py` as operators.
`TaskLifecycle` has two actions: a row appears in `received`; a row moves along the
table and appends one audit row.

`ApprovalMesh` is the whole task path.

| Variable | In the code |
|---|---|
| `state`, `events` | `tasks.state`, the `task_events` of a task in order |
| `calls` | `tool_calls`: task, status, `is_read`, parameters, whether `approval_record_id` is set |
| `approvals` | `approval_records`: decision and payload hash |
| `metadata` | the token map in `task_metadata`, as the calls whose token it holds |
| `tokens` | tokens a requester can have: those that stood in the metadata at some time |
| `queue`, `published` | messages not yet acknowledged, with their delivery attempts |
| `workers` | per callback thread: where it is in `process`, the message, the row snapshot it holds, what is left to read or gate, the call at hand, the snapshot of calls on resume |
| `handlers` | per approval request: its step and the state it read |
| `ingress` | how far `create_task` got |
| `executions`, `granted` | history: payloads given to `ToolGateway.execute` on the write path; calls that were ever decided `approved` |

**One step per repository call.** `transition_task` is two steps, the read with the
table check (`ReadForTransition`, `RefuseTransition`) and the guarded `UPDATE`
with its audit row (`CommitTransition`, or `LoseRace` when the state is no longer
the one that was read). The steps of a fresh run, in the order of `runner.py`:
`LoadTask`, claim, `RunMesh` (or `HaltOnBudget`), `Recheck`, `ReadTool`*,
`EndReads`, then per write `GateCall`, `OpenApproval`, `LinkApproval`, then
`ReadRowSnapshot`, `StashTokens`, pause; or complete, `ReadRowSnapshot`,
`WriteSummary`. A resume: `LoadTask`, `Recheck`, `ListCalls`, per row `JudgeCall`
and `ExecuteCall` + `MarkExecuted` or `MarkRejected`, `EndCalls`, finish.
`Ack` and `Raise` are the two ends of the Pub/Sub callback.

An action's step names are the worker's `pc`; `TransitionSteps` are the
steps whose next call is a `transition_task`, and `TransitionTarget` and
`AfterTransition` give the target state and the next step.

**Delivery.** `Deliver` hands any message that has attempts left to any idle thread,
also one another thread is processing. `Ack` removes it. A message that has used
`MaxDeliveries` attempts stays in `queue` untouched: that is the dead-letter topic.

**Approval endpoint.** `SubmitDecision` is the request up to the recorded decision:
the token check reads a record whose hash never changes, so check and record
are one step. The transition that follows has its own steps, and the decision
stays recorded when it is refused or loses (`RefuseDecision`, `LoseDecision`).

**Faults.** `WorkerFault`, `HandlerFault` and `IngressFault` are a process death or an
exception from any external call (store, model, provider, publish), at any step.
`_governed_budget_halt` alone swallows an exception, whatever it is: `Raise` has that case, and
a fault of a worker that is halting may end its run or let it go on with an empty result.

**Environment.** `AmendParameters` rewrites the parameters of a stored write at
any moment, as `src/tests/test_approval_security.py:216` does.

**The promise.** `GatedWrites` has three actions and none of the machinery: a record binds a
write to a payload, once (`Bind`); a human grants a bound write (`Grant`); the bound payload
of a granted write goes out (`Send`), as often as it is delivered. `ImplementsGatedWrites`
maps `bound` to the hashes of the records, `granted` and `sent` to the two histories. Under
redelivery, faults and edited parameters all steps but `OpenApproval`, a first approving
decision and `ExecuteCall` are stutters.

### SelfImprovement and GovernedVersions

| Variable | In the code |
|---|---|
| `proposals`, `evaluations`, `records`, `boms`, `promotions`, `active` | the tables behind `RepositorySQL`, evaluations up to their outcome |
| `served` | `version_pin._ACTIVE_VERSION` |
| `actors` | calls in flight: the next repository call and the snapshot of the proposal the call read first |
| `granted`, `grants`, `overlaps` | history: records ever approved, approving decisions per proposal, promote calls begun during another one |

A call begins with its guard on what it reads (`Evaluate`, `OpenApproval`, `Decide`,
`Promote`, `Rollback`) and goes on one repository call at a time, in the order of
`services/self_improvement.py`: `promote_proposal` is `Promote`, `ListEvaluations`,
`CheckApproval`, `SnapshotBom`, `UpsertPromotion`, `SetActive`, `SetPromoted`.
`SnapshotBom` stores a new AI-BOM or, when the caller passed `ai_bom_snapshot_id`, takes that
id as it is: nothing is generated, stored or looked up then. `previous` is any version the caller
names, or none.
`SaveProposal` is `upsert_proposal`: it writes back the status *and* the record id of
the snapshot, which is where stale data enters. `Boot` may happen at any time.

`GovernedVersions` is the promise without the calls: the ledger only grows, by proposals
that were evaluated and granted; the pointer names a version of the ledger entry it
refers to; a process serves what the pointer said at boot. `ImplementsGovernedVersions`
is the refinement; a call's inner steps are stutters there.

### ImproveLoop

One thread: `Reflect` drafts a proposal, `RunItem` scores held-out items one by one,
`JudgeForward` and `JudgeSwapped` ask the judge in both orders, `EndRound` takes the gate's
verdict and returns or goes round; `Raise`, at any step, is a reflector, scorer or
repository call that raises, which leaves the loop. `lane` says whether the default gate (replayed
outputs) or an injected one (a real candidate) runs. `PassesNoRegression`, `CandidateWins`,
`PassesTypeI` are the pure functions of `eval_harness.py` and `judges.py`. `Binomial` has
the tail the test is made of (`UpperTail`, an exact fraction, computed as the code does) and
the outcomes it is meant to count (`AsManyWins`).

### MeshRun

| Variable | In the code |
|---|---|
| `state`, `pending`, `approvals` | `tasks.state`; deliveries the task's messages still have; how often it was approved |
| `gated` | whether the task's prompt triggers a write |
| `thread` | the LangGraph checkpoint of the task: the turn that is next, the gate, the end |
| `at` | per callback thread: task, run, turn, what it paid and has not booked, the row it will write back |
| `month`, `ledger`, `paid`, `spent` | the calendar, `budget_ledger` per month, what providers charged per month and per task |
| `billed`, `halts` | per task: the turns that were paid, with their run, and the `budget_halt` rows |
| `entered`, `guesses`, `faults` | history: runs that entered the graph, turns booked at another price than they were paid, faults |

`Load` is the read of the row at the top of `process`, and `Claim` the transition some time
later: to `running`, from `queued` or, when a message was loaded before the task was
approved, from `approved`. So a task may have several *fresh* runs, one more than it has approvals
at most, each of which pays its turns. `EnterResume` is `resume_mesh`: LangGraph goes on
from the checkpoint of the thread, which is the gate or the end if the paused run was the last to move it;
if a fresh run of the approved task moved it into the turns, the resume runs the rest of
them (a *stray* run). `Recheck`, then `ReadRow`, `SaveRow` and `Park`, or `Complete`, are
the rest of `process`, with the row written back whole.

`_delegate` is `CheckBudget`, `Invoke`, `Record`, or `AuditHalt`, `FailTask`. `Invoke` charges
any of `Prices`, lower or higher than the estimate: the router retries and falls back from a
low tier to a medium and a high one. What is booked may again be another of them, or the
estimate: the answer may lack its usage, and its tokens are priced by the deployment that was
asked. `guesses` counts the turns where this differs. `FailTask` is the transition of a
governed halt, whose refusal (`Refused`) is swallowed without a fault; `FailSkipped` swallows
any other exception of it. A transition is one step here (two in `ApprovalMesh`): the one race of its
read and its guarded update that ends otherwise, a resume that has read `approved` and loses to
a rerun's claim, is `Refused`.

### ToolGateway

| Variable | In the code |
|---|---|
| `calls` | the task's `tool_calls` rows: tool and class of parameters |
| `secrets`, `sdk`, `config` | environment: credentials, optional SDKs, resource bindings |
| `phase` | the task, as far as the two loops of `runner.py` need it |
| `at` | per callback thread: the step of its delivery |
| `cache`, `asked` | per process: `_SCHEMA_CACHE`, which its threads share; history: how often a session was asked |
| `rows` | the outcome each row carries |
| `effects`, `performed` | what providers did: how often, in which form |

A call runs `TakeCall`, then `RejectInput`, `Stub` or `Dispatch`, for Composio's tools
`LookUpSchema` and `StoreSchema`, then `ProviderAnswers` (external), `MapResult`, `RecordRow`.
`Request` gives for each tool what its adapter sends, or that it raises or returns None before
sending; `OddBody` what it makes of a 2xx body without the key it maps. `Route` is the
tool pack. A delivery that raised is delivered again; `Crash` ends all threads of a process.
`fetch_runtime_schema` looks into the cache and stores into it in two steps, with the provider's
answer between them and no lock. `composio_adapter` calls it before it executes
(`tools/adapters/composio.py:98`) and only records whether a schema was found;
`execute` validates the input with `runtime_schema=None` (`tools/gateway.py:185`), so
no call depends on the cached schema, in the code as in the model.

`HasAdapter` is true of every tool of the pack: each has a module, and no module imports an SDK
at its top level, so `get_adapter` never takes its `ImportError` branch for them. The
documentation says otherwise, see the observations of [section 7](#7-findings).
A "risky" Xero invoice is one whose top-level `Status` says something else than DRAFT; the adapter looks
at no other key (`composio.py:52`), and neither does the model.

### Mutants

The definitions marked "Mutant of X", or "A mutant" right before the definition they
alter, are plausible mistakes. They take part in no behaviour; substituting one for the
original must make a property fail, which shows that the property depends on that code.

## 4. Runs and bounds

| Run | Shows | Instance | Distinct states |
|---|---|---|---|
| `mesh_faults` | `OnlyApprovedPayloadsSent`, `ExecutedRowsWereSent`, `ApprovedStateHasDecision`, `ParkedIsAnswerable`, `SendsBelowDeliveries` under redelivery and a crash anywhere | 1 task with 1 write, 2 threads, 2 deliveries, 1 fault | 2.5 M |
| `mesh_tamper` | `IInv`, which contains `TypeOK` and `OnlyApprovedPayloadsSent`, and the refinement `ImplementsGatedWrites`, while parameters are edited and all four decisions arrive in any order | 1 thread, 2 payloads, 2 deliveries, 1 fault | 0.3 M |
| `mesh_single` | each message delivered once: `AtMostOnceSent`, `RejectedNeverSent`, `EveryGatedCallAnswerable`, `SentOnlyWhileApproved`, `LifecycleSpec`, the refinement of `TaskLifecycle`, and `OnceInv`, the inductive invariant behind them | a read-only task and one with 2 writes, 2 threads, 2 concurrent approval requests, 1 fault | 0.4 M |
| `mesh_live` | without faults, each message delivered once: `DispatchedSettles`, `ApprovedSettles` | 1 task with 2 writes, 2 threads, 2 requests | 42 k |
| `mesh_terminal` | violation of `TerminalIsFinal` | as `mesh_faults` without the fault | - |
| `mesh_restart` | violation of `RunningSettles` | as `mesh_faults` with fairness | - |
| `si_pipeline` | `ApprovedNamesGrant`, `PromotionsTraceable`, `PromotionsAreDecided`, and `ImplementsGovernedVersions`, the refinement | 2 proposals, 2 callers, 2 versions, 3 decisions, 7 calls, AI-BOM ids generated or supplied, 1 death | 0.5 M |
| `si_decision` | violation of `OnePromotionPerDecision` | as above, 7 calls | - |
| `improve_loop` | `GateKeepsEveryBaselineItem`, `JudgeNeedsEvidence`, `PositionBiasIsNoEvidence`, `StopsAtFirstPass`, `LoopHalts` | 6 items of which the baseline solves 5, 2 rounds, alpha 1/20, null rate 1/2 | 2.1 M |
| `mesh_budget` | `OverspendIsBounded`, `LedgerAccountsForSpend`, `TurnsArePaidPerRun`, `HaltsAreAudited` | 1 task, 2 workers, 2 deliveries per message, estimates 2-1-1-2, prices 1 and 3, user cap 4, task cap 3, 1 turn booked at another price, 1 month end, 1 fault | 1.7 M |
| `mesh_taskcap` | violation of `TaskCapHolds` | 2 tasks, 1 delivery per message, the same estimates and task cap, every price 1, user cap 6, no fault or month end | - |
| `tool_gateway` | `UnsentRowsTouchedNothing`, `OkWritesWerePerformed`, `QuarantinedWritesWerePerformed`, `DraftsStayDrafts`, `OnePerformancePerDelivery`, `NothingLeftPending`, `SchemaAskedOncePerThread` | 2 calls of 9 tools, 2 threads of one process and 1 of another, 2 deliveries, 1 death | 2.9 M |

What the invariants say:

- `OnlyApprovedPayloadsSent`: what was sent for a gated call is the payload its record
  was opened with, and someone with the token approved it. A decision later
  overwritten does not unsend it, which is why the property speaks of `granted`
  and not of the current decision.
- `ExecutedRowsWereSent`: the call ledger does not claim a write that never went out.
  (The converse fails by design: a crash after the provider call leaves the row
  as it was.)
- `ApprovedStateHasDecision`: a task in `approved` has an approved call, although
  whole rows are written back from old snapshots.
- `ParkedIsAnswerable`: a parked task's metadata holds a token for one of its linked
  calls; with single delivery `EveryGatedCallAnswerable` says so of each gated call.
- `SendsBelowDeliveries`: a write goes out fewer times than the messages published for
  its task can be delivered; one delivery at least proposed it, and each other one
  takes the call up at most once. What repeats a write is redelivery, nothing else.
- `ImplementsGatedWrites`: besides the payloads of `OnlyApprovedPayloadsSent`, a record is never
  bound anew, by no decision, upsert or edited row, and at the moment of sending the write was
  granted already.
- `LifecycleSpec` and the liveness properties are asked without redelivery, and the latter without
  faults: what a death or a race does to the transitions of a redelivered message is not
  covered by them but by `mesh_faults`, `mesh_terminal` and `mesh_restart`.
- `RejectedNeverSent`, `SentOnlyWhileApproved`, `AtMostOnceSent`: what a
  reader expects of an approval gate; they hold when a message is delivered once.

- `ApprovedNamesGrant`: status and record id of an approved proposal come from the same
  decision, though every write is of an old snapshot. `PromotionsTraceable`: each
  promotion has evaluation, human grant and, unless its caller supplied an id, a stored
  AI-BOM, whichever calls died. (Of a supplied id the code checks nothing, and neither does the property.)
  `PromotionsAreDecided`: a proposal is not promoted again on a decision it already
  used, but for overlapping and dead callers, which `si_decision` shows are real.
- `GateKeepsEveryBaselineItem`: the gate is exactly "solves whatever the baseline solves";
  items lost in the experiment count as failed. `JudgeNeedsEvidence`: GO means that at most
  one in twenty of all equally likely outcomes at the null rate has as many wins, by
  counting outcomes, where the code sums a binomial tail. `PositionBiasIsNoEvidence`: a judge that always names the same position
  never yields GO.
- `OverspendIsBounded`: the monthly cap is exceeded by at most a dearest turn per worker, per
  fault and per turn that was booked at another price than it was paid, also over a month's
  end. The dearest turn is the dearest of the fallbacks, not of the estimates.
  `LedgerAccountsForSpend`: ledger and payments differ by the turns in flight, by what faults
  lost and by the cost of the turns booked at another price, in both directions.
- `TurnsArePaidPerRun`: no run pays a turn twice, and only runs pay: a resume from the gate
  pays nothing. A turn is paid again by a rerun, of which there is at most one per approval, or by
  a resume inside one. `HaltsAreAudited`: a halt leaves one audit row and its run pays no more; a
  failed task has such a row; a halted task that had one run is not completed. The last needs
  that no fault took the transition to `failed`; a task with two runs may be completed by one after
  the other halted.
- `UnsentRowsTouchedNothing`, `OkWritesWerePerformed`, `QuarantinedWritesWerePerformed`: a row's
  outcome is true of all deliveries so far, those included that died before a row was written. The
  last names its one exception: HubSpot's adapter returns None without its SDK, and that is
  quarantined though nothing was sent. `OnePerformancePerDelivery`: neither gateway nor adapter repeats a
  request; what repeats a write is redelivery alone. `NothingLeftPending`: a call whose
  execution raised ends its delivery, and no other delivery goes on or completes the task
  without an outcome for it. `SchemaAskedOncePerThread`: the unlocked schema cache lets each callback
  thread of a process ask for a tool's schema once, and no thread twice, whatever was answered.

**Why single delivery.** `list_tool_calls` returns rows of every status and
`_resume_after_approval` does not look at it (`runner.py:185`). If the worker dies
after the provider call and the message is redelivered, nothing else than the task
state prevents a second execution, and no document promises otherwise.
`mesh_faults` therefore asks only what must hold under redelivery, and the three
properties above are asked where each message is delivered once
(`MaxDeliveries = 1`, still with one fault). How often a write may be repeated
otherwise, `SendsBelowDeliveries` says.

**Bounds.** `CallIds` bounds the calls that can be recorded: a run that finds none
left waits at `gate`, as if it were slow. With two ids and one write two fresh runs
of one task overlap, which is what redelivery can produce in two attempts.
`MaxDeliveries = 2` gives the message of the first run and the message of the
resume two deliveries each; in `src/scripts/gcp_bootstrap.sh` it is 5. `MaxFaults = 1`
puts one death at every step. `Payloads` has two elements where they are edited and
one where they are not. Two handlers make two requests race for one task. Reads
touch no gate and are bounded to one, on the read-only task.

Seven calls are what a proposal needs to be drafted, evaluated, approved, promoted
twice and rolled back; two of each kind make every pair of calls overlap.
Six items are the least for which a clean sweep clears alpha with room for one miss
below it (1/64, 7/64), so both verdicts of the judge occur; two rounds give a failed
round followed by another. A cap of 4 against runs estimated at 6, and billed up to 12, is reached in every
turn but the first; a run that pays all its turns does so across the month's end, or with a turn booked too
low. Two deliveries of each message give a second fresh run, a resume beside it and a stray, which then
halts or completes: TLC finds each of these, a cap exceeded by more than two dearest turns, and a ledger
above the payments. A second task adds nothing to one budget but a second pair of runs; `mesh_taskcap` and the
proofs have it. The nine tools have one of each behaviour: SDK present or not,
None, draft-only, grid binding, unguarded field, quarantined body, Composio and Nango;
the others of the pack share theirs.

**Symmetry** permutes call ids, threads and handlers, proposals, callers and versions,
tasks and workers of `MeshRun`, the threads of `ToolGateway`'s first process, none of which the specifications
tell apart. It is used where only safety is checked.

**Deadlock** is not checked: the system comes to rest when every task has ended or
waits for a human, every message is acknowledged or dead-lettered, and no fault is
left. The exception is `ImproveLoop`, whose returned state stutters (`Returned`):
there it is checked, and the loop never gets stuck.

## 5. Fairness

`FairSpec` adds weak fairness on the ingress steps after the row exists, on `Deliver`,
on `WorkerNext` and on `HandlerNext`: threads of a live process run on, and the
broker delivers while attempts are left. Weak fairness is enough because none of these
steps is switched on and off by others for ever. There is none on `SubmitDecision`
(nobody is obliged to decide, so nothing is claimed of a parked task), on faults,
on `HaltOnBudget`, on `AmendParameters` or on `CreateTask`.

`ImproveLoop` has weak fairness on its steps: one thread runs the loop, the task and
the judge are called synchronously, and a call that fails raises. A call that never
returns is outside the model. The other modules claim safety only.

## 6. Proofs

tlapm checks eight modules of theorems. All the safety properties of the passing runs
are proved for every value of the constants: any number of tasks, threads, requests,
proposals, callers, calls, months, deliveries and faults.

| Module | Theorems (property) |
|---|---|
| `ApprovalMeshProofs` | `TypeCorrect`, `Invariance` (`IInv`), `ApprovedSendsOnly` (`OnlyApprovedPayloadsSent`), `Refinement` (`ImplementsGatedWrites`) |
| `ApprovalAnswerProofs` | `LedgerClaimsOnlySends` (`ExecutedRowsWereSent`), `ApprovedMeansGranted` (`ApprovedStateHasDecision`), `ParkedTasksCanBeAnswered` (`ParkedIsAnswerable`), `RedeliveryAloneRepeats` (`SendsBelowDeliveries`) |
| `SingleDeliveryProofs` | for `MaxDeliveries = 1`: `OnceInvariance` (`OnceInv`), `SentAtMostOnce` (`AtMostOnceSent`), `RejectionIsRespected` (`RejectedNeverSent`), `NoTokenIsLost` (`EveryGatedCallAnswerable`), `SendsFindTaskApproved` (`SentOnlyWhileApproved`), `StoreKeepsLifecycle` (`LifecycleSpec`), `TerminalStatesAreFinal` (`TerminalIsFinal`) |
| `SelfImprovementProofs` | `TypeCorrect`, `ApprovedNamesItsGrant` (`ApprovedNamesGrant`), `PromotionsAreTraceable` (`PromotionsTraceable`), `PromotionsHaveDecisions` (`PromotionsAreDecided`), `Refinement` (`ImplementsGovernedVersions`) |
| `MeshRunProofs` | `TypeCorrect`, `RunsPayOnce` (`TurnsArePaidPerRun`), `HaltsLeaveOneRow` (`HaltsAreAudited`), `CapHoldsUpToConcurrency` (`OverspendIsBounded`), `LedgerIsComplete` (`LedgerAccountsForSpend`) |
| `ToolGatewayProofs` | `TypeCorrect`, `UnsentIsUnsent` (`UnsentRowsTouchedNothing`), `OkIsPerformed` (`OkWritesWerePerformed`), `DraftsAreAllTheySend` (`DraftsStayDrafts`), `PerformedOncePerDelivery` (`OnePerformancePerDelivery`), `NothingIsLeftPending` (`NothingLeftPending`), `QuarantinedIsPerformed` (`QuarantinedWritesWerePerformed`), `SchemaIsAskedOncePerThread` (`SchemaAskedOncePerThread`) |
| `BinomialProofs` | `TailCounts`: `BinomialTail` is the share of the equally likely outcomes with so many wins or more |
| `ImproveLoopProofs` | `TypeCorrect`, `GoNeedsEvidence` (`JudgeNeedsEvidence`), `PassingRoundIsTheLast` (`StopsAtFirstPass`), `GateIsExact` (`GateKeepsEveryBaselineItem`), `HabitIsNoEvidence` (`PositionBiasIsNoEvidence`) |

**Assumptions.** The `ASSUME`s of each module, which TLC evaluates in each run: constants
are numbers, decisions or fractions where the code has such; `None` is none of the
values; tasks and workers of `MeshRun`, callers of `SelfImprovement` and threads of
`ToolGateway` are finitely many, since those modules count them; no estimate and no price of
`MeshRun` exceeds `MaxCost`; the tools are among
the pack's. Two hypotheses are added to theorems. Those of `SingleDeliveryProofs` assume
`MaxDeliveries = 1`: a message that is not acknowledged is dead-lettered instead of
redelivered, as the in-process queue of local development does and a
subscription with a longer deadline approaches. The deployment allows five, and with
two `mesh_terminal` shows that `TerminalIsFinal` fails; these theorems say that redelivery alone is
to blame, not the requests that race or the processes that die.
`HabitIsNoEvidence` assumes that alpha is below one.

### The invariants and why they are needed

**`IInv` of `ApprovalMesh`.** `OnlyApprovedPayloadsSent` says nothing of a worker about to
send. `IInv` adds, in `WorkerInv`, that a worker at `exec` holds a granted call and the
payload its record binds. For that to survive other workers' steps, a record's hash
must never change once a decision can rest on it. Only `OpenApproval` writes a
hash, so a worker at `open` must hold a call without record, which in turn needs
`OpenCallsDiffer` (two workers at `open` have different calls: ids are taken only
from unused ones) and `StoreInv` (a record belongs to a recorded call, so a fresh id
has none; tokens and grants belong to records, so no decision precedes the record).
`AmendInv` is the step that edits parameters: it touches neither a hash nor
a worker's snapshot. The lemmas follow the shape of `Next`: `LocalStep` for steps that
change a worker's locals only, `StoreStep` for steps that leave the ledger alone, and one
lemma per action on the ledger.

**The refinement of `GatedWrites`.** It needs one more invariant, `RecordsBind`: a record is there
exactly when it binds a payload, which makes the mapped `bound` of a call without a record
the `None` that `Bind` asks for. Then three steps map to abstract ones, each from the part of
`WorkerInv` or `StoreInv` that speaks of its step (`OpeningBinds`, `DecidingGrants`,
`ExecutingSends`), and every other one leaves hashes, grants and sent payloads alone
(`GateKept`): in particular a decision, which rewrites the record.

**`AnswerInv`.** What threatens `ApprovedStateHasDecision` and `ParkedIsAnswerable` are the
upserts that write an old task row back. The invariant therefore speaks of the
snapshots: one that says `approved` comes with a grant, one taken by a worker about to write a
summary while the task was open carries a token that answers it (`SnapshotLocals`), and
a worker about to pause a running task has put a token into the row (`RunLocals`). Call rows, links, tokens
and grants only grow (`Grows`), so what a snapshot proves is never lost.
`ExecutedRowsWereSent` needs only that a worker at `mark` has sent its call.

**`SendInv`.** `SendsBelowDeliveries` counts the past; the invariant adds the future. For a task
and a call, `Chances` are the deliveries still to come, `Holders` the workers whose
delivery may still be used for the call (to send it or, as long as nobody did, to
propose it), `Used` the deliveries already used: one proposed the call, each other one sent
it. Together they never exceed `MaxDeliveries * published`. Publishing adds
`MaxDeliveries` chances; every other step moves a unit on or drops it: `Deliver` turns a chance into a
holder, `GateCall` and `ExecuteCall` turn a holder into a use. That a worker is a holder only once
per delivery is `TodoRows`: a call is in the list once, and not while it is in hand. It
holds for any delivery limit; with a limit of one and two messages it is one send.

**`OnceInv`.** A task is published twice at most, by its ingress and by the one request that
wins its approval. `FirstRun` and `SecondRun` say which steps the run of either message
may be at in each state of the task: the first while it is queued or running, the second
while it is approved. `Separate` says that no message is in two hands.
`FirstRunIsAlone` and `SecondRunIsAlone` conclude that whoever acts on a task does so
alone, so that what it read is what it overwrites; then a call is untouched until the
second run takes it (`OnceCall`), and the gated calls of a running task are those its first run
has issued tokens for. `ActStep` and `KeptStep` carry this through the steps that act on
one task, or on none. The refinement of `TaskLifecycle` is a corollary: the upserts stutter.

**`IInv` of `SelfImprovement`.** `ActorInv` says of each step of a call what the call has already
established and nobody can undo: a verdict, a granted record, a passed evaluation, a
stored AI-BOM. `RecordInv` binds a record to one proposal. `DecidedInv` makes
`PromotionsAreDecided` inductive by counting claims: a recorded decision is owed a
promotion until a call takes it, and every promotion uses one claim, an overlap or a
fault. The refinement maps `UpsertPromotion`, `SetActive` and the roll-back's steps to
steps of `GovernedVersions`, all others to stutters.

**`RunInv` and `SpendInv`.** `RunInv` ties, per task, state, runs, approvals, checkpoint, bills
and audit rows (`TaskOK`), and each worker to the run it carries out (`RowOK`): a run about to pay turn *n* has no
bill from *n* on and no audit row, no two workers carry out the same run (`Apart`), and a checkpoint inside
the turns of an approved task is that of a second fresh run, so that the resume of a task that had one run pays
nothing. `OverspendIsBounded` is not inductive: a run that passed its check pays later, after
others have passed theirs against the same ledger, and it pays any price up to `MaxCost`. `SpendInv`
bounds what was paid together with what those about to pay may still pay, and says that the ledger differs
from the payments by no more than what is in flight, was lost or was booked at another price.
Sums are cardinalities of sets of units (`Total`), so that the library's facts on finite sets
prove how one entry changes them.

**`GatewayInv`, `DeliveryInv`, `SchemaInv` and `LoopInv`.** The first says what a thread inside `execute` has
established of its call and what a row or a performed write implies; nothing it rests on
(rows, secrets, SDKs, bindings) changes while the task runs. The second counts, per call,
the deliveries that may still perform it: each performance uses one up. The third counts in the same way the threads that have missed the cache
and will still ask. The last says that a
thread has left behind only calls whose rows have an outcome, or that are not of its loop.

**`IInv` of `ImproveLoop`.** A round begins with failed rounds only behind it, a pair is judged
once per item, and a judge that showed one habit has given no win. `GateIsExact` is arithmetic:
a candidate that keeps the baseline's items has no lower mean, over however few
scored items. `GoNeedsEvidence` is `TailCounts` applied to the judge's result.

**`TailCounts`** is induction over data, which the library's theorems offer only with an
operator as parameter. `BinomialProofs` takes it over a *set* of numbers instead (`Induction`, from
the well-foundedness of `<` and `WFMin`), which a first-order prover can instantiate, and
shows that a function defined by recursion exists (`Recursion`) before it unfolds
one. `choose` of the community modules is first shown to be an integer
division without remainder (`ChooseIsIntegral`), then to obey Pascal's rule; the outcomes with exactly *k* wins
obey the same rule, by a bijection between the outcomes of one trial more and the pairs of an outcome
and a draw (`ExtendOnto`, `ExtendInjective`); the tail sums over *k*.

`IInv` is also an invariant of `mesh_tamper`, `OnceInv` of `mesh_single`.

**Model-checked only**: liveness (`DispatchedSettles`, `ApprovedSettles`, `LoopHalts`), which
with `ENABLED` is beyond tlapm, and the properties of the runs that find a violation.

## 7. Findings

- **A completed task goes back to running** (`mesh_terminal`,
  `services/repository.py:700`). `contracts/enums.py:37`: "Terminal states never
  transition further." `create_task` upserts the state column. When a message is
  redelivered, a second fresh run can overlap the resumed one: it reads the row while
  it is `running`, the resumed run completes the task, and the token upsert of
  `runner.py:156` puts `running` back, outside the guarded transition and without
  an audit row.
- **A worker death leaves the task running** (`mesh_restart`, `runner.py:63`).
  `contracts/models.py:85` says state is persisted first "so a worker can resume after
  restart". After a death in `running` each redelivery asks for `running` to
  `running`, which `lifecycle.py` forbids; the message ends in the dead-letter topic
  and nothing moves the task again.

- **One approval, two promotions** (`si_decision`, `services/self_improvement.py:342`).
  The comment there says the status check keeps a proposal from being promoted twice
  and that "A fresh promotion always requires a fresh APPROVED status." The status is
  read at line 332 and written at 412, unguarded; two overlapping calls both pass.
- **The per-task cap caps a call** (`mesh_taskcap`, `worker/graph.py:175`).
  `worker/budget.py:8` promises a halt "when the call would breach ... the per-task
  cap". `_delegate` passes no task id, so what the task spent is never subtracted.

Smaller observations, without a run of their own:

- `tools/adapters/hubspot.py:17` says that "the engine stubs cleanly when the SDK is absent (even if a
  non-None credential is supplied ...)". The adapter returns None then, which `execute`
  (`tools/gateway.py:203`) takes for a provider's answer and quarantines; Google's and Composio's raise, on
  each delivery. This is the exception in `QuarantinedWritesWerePerformed`.
- `tools/aggregate_schema.py:16`: "A second `fetch_runtime_schema` for the same tool does NOT re-query the
  provider session." Two callback threads of a process that both miss the cache both ask, and the later
  answer stands. `SchemaAskedOncePerThread` is what is left of the sentence.
- A message loaded early starts a second fresh run of a task that was
approved in the meantime, and all its turns are paid again, which `TurnsArePaidPerRun` bounds.
- `tools/aggregate_schema.py:4` says the
aggregate branch validates against the runtime schema, while `execute` passes None.
- `tools/validation.py:14` speaks of a failed tool call, while `runner.py` marks a
rejected input `executed`.
- `rollback_promotion` of an older one may reactivate a version that was
itself rolled back.

## 8. Abstractions and what is not modelled

- A payload is taken up to the canonical JSON that is hashed, and stands for its own
  hash. Tokens cannot be forged; a token past its `exp` is one its holder does not use.
- An approval record is indexed by the call it was opened for: `open_approval` is
  called once per gated call, and the identifiers are fresh UUIDs.
- `run_mesh` is one step that yields `Reads[t]` reads and `Writes[t]` writes, or
  a budget halt. The graph's checkpoints are inside that step. `resume_mesh` writes
  nothing the other components read, but for a budget halt, which the code calls
  "essentially unreachable" (`worker/orchestrator.py:445`) and which takes a rerun of the task: `MeshRun`
  has it, `ApprovalMesh` does not; an exception from it is a `WorkerFault`.
- The rows of a resume are taken in any order; the code takes them by creation time.
- What the task request put into metadata is not modelled; whether it is empty is
  left open (`UpsertTask`), since empty metadata is not written.
- A task without writes has at most the reads of `Reads[t]`; read results are data.
- The in-memory repository is the same operations under one lock, and the
  in-process queue delivers once; neither adds a behaviour.
- Costs are small numbers, and no turn, all attempts of the router together, costs more than `MaxCost`;
  which deployment the router picks is left open. One tenant, hence one budget owner (`worker/graph.py:163`).
- A fresh run on a thread that has a checkpoint starts at the planner; `resume_mesh` of a finished or
  interrupted thread runs no node but the gate, and of any other thread the turns from its
  checkpoint on: LangGraph's behaviour, taken on trust. Two runs on one thread each keep their own place.
- `MeshRun` keeps of the write gate only that a gated run pauses and has proposals; the interrupt's
  value and the reads beside it (`worker/orchestrator.py:362`) are data there.
- Tool parameters are plain, invalid (break the input schema) or risky; a provider's
  body is as expected, odd, or an error, which may hide a write that was performed.
- An evaluation is its outcome, a patch is blank or not, a score is 0 or 1 as `exact_match`
  gives it. Floats are exact fractions: no tail for a pool of this size lies within
  rounding of alpha.
- Not modelled: `calibrate` and `is_close_margin` (nothing in the gate calls them),
  `assert_holdout_isolation` (a test over two literals), the AI-BOM's contents, the
  agent roster and node prompts (text), GUI, serialization, telemetry, settings, schema export and deployment (I/O
  or configuration, no state to order), the sandbox (one subprocess; the container that
  may survive it is docker's), Slack's redelivery of events (each copy is an
  independent task, and the code makes no promise about them).
