------------------------ MODULE ApprovalMeshProofs ------------------------
(***************************************************************************)
(* Theorems about ApprovalMesh: its type invariant and, whatever the       *)
(* number of tasks, worker threads, deliveries and faults, that nothing is *)
(* sent that was not approved as it stands, and that the mesh implements   *)
(* GatedWrites.                                                            *)
(*                                                                         *)
(* OnlyApprovedPayloadsSent is not inductive.  It needs to know where the  *)
(* payload of a worker about to execute comes from, and that an approval   *)
(* record, once a decision could be based on it, is never opened again:    *)
(* only a worker at "open" writes a payload hash, the record it writes is  *)
(* still absent, and no two workers are at "open" with one call.           *)
(***************************************************************************)
EXTENDS ApprovalMesh, TLAPS

\* What a worker holds at each step.  The last two conjuncts are the ones
\* that matter: a call about to be opened has no record, and a payload about
\* to be sent is the one its approval record binds.
WorkerInv(r) ==
    /\ r.pc # "idle" => r.task \in Tasks
    /\ r.pc \in {"gate", "open", "link"} => r.writes > 0
    /\ r.pc \in {"open", "link", "exec", "mark", "reject"} =>
         r.call \in CallIds /\ r.params \in Payloads
    /\ \A c \in r.issued : approvals[c].decision # "absent"
    /\ r.pc = "link" => approvals[r.call].decision # "absent"
    /\ r.pc = "open" => /\ calls[r.call].status # "absent"
                        /\ approvals[r.call].decision = "absent"
    /\ r.pc = "exec" => /\ r.call \in granted
                        /\ r.params = approvals[r.call].payload_hash

\* Two workers are never about to open an approval for the same call.
OpenCallsDiffer ==
    \A v, w \in Workers :
        /\ v # w
        /\ workers[v].pc = "open"
        /\ workers[w].pc = "open"
        => workers[v].call # workers[w].call

\* The store: a record belongs to a recorded call, a token to a record, and a
\* grant to a record.
StoreInv ==
    \A c \in CallIds :
        /\ calls[c].status # "absent" => calls[c].task \in Tasks
        /\ calls[c].linked => calls[c].params \in Payloads
        /\ approvals[c].decision # "absent" => calls[c].status # "absent"
        /\ c \in tokens => approvals[c].decision # "absent"
        /\ c \in granted => approvals[c].decision # "absent"
        /\ approvals[c].decision = "approved" => c \in granted

\* The inductive invariant: what the store, the workers' locals and the open
\* requests must agree on so that nothing but an approved payload is ever sent
\* (runner.py 122-207, approvals.py 195-263).
IInv ==
    /\ TypeOK
    /\ StoreInv
    /\ \A w \in Workers : WorkerInv(workers[w])
    /\ OpenCallsDiffer
    /\ \A h \in Handlers : handlers[h].pc # "idle" => handlers[h].task \in Tasks
    /\ OnlyApprovedPayloadsSent
---------------------------------------------------------------------------

LEMMA InitInv == Init => IInv
<1> SUFFICES ASSUME Init PROVE IInv
  OBVIOUS
<1> USE DEF Init
<1>1. TypeOK
  BY ConstantsAssumption
  DEF TypeOK, TaskState, ToolCallRow, NoCallRow, ApprovalRow, NoApprovalRow,
      ApprovalDecision, Message, WorkerRow, IdleWorker, WorkerStep, HandlerRow,
      IdleHandler
<1>2. StoreInv
  BY DEF StoreInv, NoCallRow, NoApprovalRow
<1>3. \A w \in Workers : WorkerInv(workers[w])
  BY DEF WorkerInv, IdleWorker
<1>4. OpenCallsDiffer
  BY DEF OpenCallsDiffer, IdleWorker
<1>5. \A h \in Handlers : handlers[h].pc # "idle" => handlers[h].task \in Tasks
  BY DEF IdleHandler
<1>6. OnlyApprovedPayloadsSent
  BY DEF OnlyApprovedPayloadsSent
<1> QED
  BY <1>1, <1>2, <1>3, <1>4, <1>5, <1>6 DEF IInv

\* A worker's step that touches nothing but its own locals preserves IInv when
\* the new locals are well formed.
LEMMA LocalStep ==
  ASSUME IInv, NEW w \in Workers, NEW r \in WorkerRow,
         WorkerInv(r), r.pc # "open",
         workers' = [workers EXCEPT ![w] = r],
         queue' \in SUBSET Message,
         faults' \in 0..MaxFaults,
         UNCHANGED <<store, published, handlers, ingress, history>>
  PROVE  IInv'
<1> USE DEF IInv, store, history
<1>1. TypeOK'
  BY DEF TypeOK
<1>2. StoreInv'
  BY DEF StoreInv
<1>3. \A v \in Workers : WorkerInv(workers[v])'
  BY DEF WorkerInv, TypeOK
<1>4. OpenCallsDiffer'
  BY DEF OpenCallsDiffer, TypeOK
<1>5. (\A h \in Handlers : handlers[h].pc # "idle" => handlers[h].task \in Tasks)'
  OBVIOUS
<1>6. OnlyApprovedPayloadsSent'
  BY DEF OnlyApprovedPayloadsSent
<1> QED
  BY <1>1, <1>2, <1>3, <1>4, <1>5, <1>6

LEMMA WorkerLocals ==
  ASSUME NEW w \in Workers, TypeOK
  PROVE  /\ workers[w] \in WorkerRow
         /\ workers[w].pc \in WorkerStep
  BY DEF TypeOK, WorkerRow

LEMMA DeliverInv ==
  ASSUME IInv, NEW w \in Workers, Deliver(w)
  PROVE  IInv'
<1>1. PICK m \in queue :
        /\ m.attempts < MaxDeliveries
        /\ queue' = (queue \ {m}) \cup {[m EXCEPT !.attempts = @ + 1]}
        /\ workers' = [workers EXCEPT ![w] =
                         [IdleWorker EXCEPT !.pc = "start",
                                            !.task = m.task, !.seq = m.seq]]
  BY DEF Deliver
<1> DEFINE r == [IdleWorker EXCEPT !.pc = "start", !.task = m.task, !.seq = m.seq]
<1>2. m \in Message
  BY DEF IInv, TypeOK
<1>3. queue' \in SUBSET Message
  <2>1. [m EXCEPT !.attempts = @ + 1] \in Message
    BY <1>2 DEF Message
  <2>2. queue \in SUBSET Message
    BY DEF IInv, TypeOK
  <2> QED
    BY <1>1, <2>1, <2>2
<1>4. r \in WorkerRow
  BY <1>2 DEF IdleWorker, WorkerRow, WorkerStep, Message
<1>5. WorkerInv(r) /\ r.pc # "open"
  BY <1>2 DEF WorkerInv, IdleWorker, Message
<1>6. faults' \in 0..MaxFaults
  BY DEF Deliver, IInv, TypeOK
<1> QED
  BY <1>1, <1>3, <1>4, <1>5, <1>6, LocalStep DEF Deliver

\* An abandoned message: the thread is idle again, the store is as it was.
LEMMA IdleWorkerInv == IdleWorker \in WorkerRow /\ WorkerInv(IdleWorker)
  BY DEF IdleWorker, WorkerRow, WorkerStep, WorkerInv

LEMMA AckInv ==
  ASSUME IInv, NEW w \in Workers, Ack(w)
  PROVE  IInv'
<1>1. queue' \in SUBSET Message /\ faults' \in 0..MaxFaults
  BY DEF Ack, IInv, TypeOK
<1> QED
  BY <1>1, IdleWorkerInv, LocalStep DEF Ack, IdleWorker

LEMMA WorkerFaultInv ==
  ASSUME IInv, NEW w \in Workers, WorkerFault(w)
  PROVE  IInv'
<1> DEFINE old == workers[w]
           r == [old EXCEPT !.pc = "recheck", !.seen = "absent"]
<1>1. /\ queue' \in SUBSET Message /\ faults' \in 0..MaxFaults
      /\ old \in WorkerRow /\ WorkerInv(old)
  BY ConstantsAssumption DEF WorkerFault, IInv, TypeOK
<1>2. CASE workers' = [workers EXCEPT ![w] = IdleWorker]
  BY <1>1, <1>2, IdleWorkerInv, LocalStep DEF WorkerFault, IdleWorker
<1>3. CASE old.pc = "halt" /\ workers' = [workers EXCEPT ![w] = r]
  <2>1. r \in WorkerRow /\ WorkerInv(r) /\ r.pc # "open"
    BY <1>1, <1>3 DEF WorkerRow, WorkerStep, WorkerInv
  <2> HIDE DEF r
  <2> QED
    BY <1>1, <1>3, <2>1, LocalStep DEF WorkerFault
<1> QED
  BY <1>2, <1>3 DEF WorkerFault, Raise, At

\* The upsert of a task row writes a row of the right type.
LEMMA UpsertTaskType ==
  ASSUME TypeOK, NEW t \in Tasks, NEW s \in TaskState \cup {"absent"},
         NEW md \in SUBSET CallIds, UpsertTask(t, s, md)
  PROVE  /\ state' \in [Tasks -> TaskState \cup {"absent"}]
         /\ metadata' \in [Tasks -> SUBSET CallIds]
  BY DEF UpsertTask, TypeOK

\* The steps that only move a worker on, or refresh its snapshot of the row.
LEMMA ControlStepInv ==
  ASSUME IInv, NEW w \in Workers,
         \/ RefuseTransition(w) \/ LoseRace(w) \/ ReadForTransition(w)
         \/ HaltOnBudget(w) \/ LoadTask(w) \/ RunMesh(w) \/ Recheck(w)
         \/ EndReads(w) \/ ReadRowSnapshot(w) \/ EndCalls(w)
  PROVE  IInv'
<1> DEFINE old == workers[w]
<1>0. /\ old \in WorkerRow /\ WorkerInv(old)
      /\ workers \in [Workers -> WorkerRow]
      /\ queue \in SUBSET Message /\ faults \in 0..MaxFaults
      /\ state \in [Tasks -> TaskState \cup {"absent"}]
  BY DEF IInv, TypeOK
<1>1. CASE RefuseTransition(w) \/ LoseRace(w)
  <2> DEFINE r == IF old.pc = "halt"
                  THEN [old EXCEPT !.pc = "recheck", !.seen = "absent"]
                  ELSE IdleWorker
  <2>1. r \in WorkerRow /\ WorkerInv(r) /\ r.pc # "open"
    <3>1. CASE old.pc = "halt"
      BY <1>0, <3>1 DEF WorkerRow, WorkerStep, WorkerInv
    <3>2. CASE old.pc # "halt"
      BY <3>2, IdleWorkerInv DEF IdleWorker
    <3> QED
      BY <3>1, <3>2
  <2> QED
    BY <1>0, <1>1, <2>1, LocalStep DEF RefuseTransition, LoseRace, Raise, At
<1>2. CASE ReadForTransition(w)
  <2> DEFINE r == [old EXCEPT !.seen = state[old.task]]
  <2>1. r \in WorkerRow /\ WorkerInv(r) /\ r.pc # "open"
    BY <1>0, <1>2
    DEF ReadForTransition, TransitionSteps, WorkerRow, WorkerStep, WorkerInv
  <2> QED
    BY <1>0, <1>2, <2>1, LocalStep DEF ReadForTransition
<1>3. CASE HaltOnBudget(w) \/ LoadTask(w) \/ Recheck(w) \/ EndReads(w) \/ EndCalls(w)
  <2>1. PICK pc \in {"halt", "ack", "resume", "claim", "list", "reads",
                     "complete", "gate", "finish"} :
          /\ workers' = [workers EXCEPT ![w].pc = pc]
          /\ pc = "gate" => old.writes # 0
          /\ old.pc # "idle"
    BY <1>3 DEF HaltOnBudget, LoadTask, Recheck, EndReads, EndCalls, Goto, At
  <2> DEFINE r == [old EXCEPT !.pc = pc]
  <2>2. r \in WorkerRow /\ WorkerInv(r) /\ r.pc # "open"
    BY <1>0, <2>1 DEF WorkerRow, WorkerStep, TransitionSteps, WorkerInv
  <2> QED
    BY <1>0, <1>3, <2>1, <2>2, LocalStep
    DEF HaltOnBudget, LoadTask, Recheck, EndReads, EndCalls
<1>4. CASE RunMesh(w)
  <2> DEFINE r == [old EXCEPT !.pc = "recheck", !.reads = Reads[old.task],
                              !.writes = Writes[old.task]]
  <2>1. r \in WorkerRow /\ WorkerInv(r) /\ r.pc # "open"
    BY <1>0, <1>4, ConstantsAssumption
    DEF RunMesh, At, WorkerRow, WorkerStep, WorkerInv
  <2> QED
    BY <1>0, <1>4, <2>1, LocalStep DEF RunMesh
<1>5. CASE ReadRowSnapshot(w)
  <2> DEFINE r == [old EXCEPT !.seen = state[old.task],
                              !.held = metadata[old.task]]
  <2>1. /\ state[old.task] \in TaskState \cup {"absent"}
        /\ metadata[old.task] \in SUBSET CallIds
    <3>1. old.task \in Tasks
      BY <1>0, <1>5 DEF ReadRowSnapshot, At, WorkerInv
    <3>2. TypeOK
      BY DEF IInv
    <3> QED
      BY <3>1, <3>2 DEF TypeOK
  <2>2. r \in WorkerRow /\ WorkerInv(r) /\ r.pc # "open"
    BY <1>0, <1>5, <2>1
    DEF ReadRowSnapshot, At, WorkerRow, WorkerStep, WorkerInv
  <2> QED
    BY <1>0, <1>5, <2>2, LocalStep DEF ReadRowSnapshot
<1> QED
  BY <1>1, <1>2, <1>3, <1>4, <1>5

\* list_tool_calls and the judgement of a row.  A row is handed on to be
\* executed only with the payload its granted record binds.
LEMMA JudgeInv ==
  ASSUME IInv, NEW w \in Workers, ListCalls(w) \/ JudgeCall(w)
  PROVE  IInv'
<1> DEFINE old == workers[w]
<1>0. /\ old \in WorkerRow /\ WorkerInv(old)
      /\ workers \in [Workers -> WorkerRow]
      /\ queue \in SUBSET Message /\ faults \in 0..MaxFaults
  BY DEF IInv, TypeOK
<1>1. CASE ListCalls(w)
  <2> DEFINE rows == {<<c, calls[c].params>> :
                        c \in {k \in CallsOf(old.task) : calls[k].linked}}
             r == [old EXCEPT !.pc = "calls", !.todo = rows]
  <2>1. rows \in SUBSET (CallIds \X Payloads)
    BY DEF CallsOf, IInv, StoreInv
  <2>2. r \in WorkerRow /\ WorkerInv(r) /\ r.pc # "open"
    BY <1>0, <1>1, <2>1 DEF ListCalls, At, WorkerRow, WorkerStep, WorkerInv
  <2> QED
    BY <1>0, <1>1, <2>2, LocalStep DEF ListCalls
<1>2. CASE JudgeCall(w)
  <2>1. PICK row \in old.todo :
          \/ IsApproved(approvals[row[1]], row[2]) /\ TakeCall(w, row, "exec")
          \/ TakeCall(w, row, "reject")
          \/ workers' = [workers EXCEPT ![w].todo = @ \ {row}]
    BY <1>2 DEF JudgeCall
  <2>2. row[1] \in CallIds /\ row[2] \in Payloads
    BY <1>0 DEF WorkerRow
  <2>3. old.pc = "calls" /\ old.task \in Tasks
    BY <1>0, <1>2 DEF JudgeCall, At, WorkerInv
  <2> DEFINE taken(step) == [old EXCEPT !.pc = step, !.todo = old.todo \ {row},
                                        !.call = row[1], !.params = row[2]]
             skipped == [old EXCEPT !.todo = old.todo \ {row}]
  <2>4. /\ taken("exec") \in WorkerRow
        /\ taken("reject") \in WorkerRow
        /\ skipped \in WorkerRow
    BY <1>0, <2>2 DEF WorkerRow, WorkerStep
  <2>5. CASE IsApproved(approvals[row[1]], row[2]) /\ TakeCall(w, row, "exec")
    <3>1. row[1] \in granted /\ row[2] = approvals[row[1]].payload_hash
      BY <2>2, <2>5 DEF IsApproved, IInv, StoreInv
    <3>2. WorkerInv(taken("exec"))
      BY <1>0, <2>2, <2>3, <3>1 DEF WorkerInv, WorkerRow
    <3> QED
      BY <1>0, <1>2, <2>4, <2>5, <3>2, LocalStep DEF JudgeCall, TakeCall, WorkerRow
  <2>6. CASE TakeCall(w, row, "reject")
    <3>1. WorkerInv(taken("reject"))
      BY <1>0, <2>2, <2>3 DEF WorkerInv, WorkerRow
    <3> QED
      BY <1>0, <1>2, <2>4, <2>6, <3>1, LocalStep DEF JudgeCall, TakeCall, WorkerRow
  <2>7. CASE workers' = [workers EXCEPT ![w].todo = @ \ {row}]
    <3>1. WorkerInv(skipped)
      BY <1>0, <2>3 DEF WorkerInv, WorkerRow
    <3> QED
      BY <1>0, <1>2, <2>3, <2>4, <2>7, <3>1, LocalStep DEF JudgeCall, WorkerRow
  <2> QED
    BY <2>1, <2>5, <2>6, <2>7
<1> QED
  BY <1>1, <1>2

---------------------------------------------------------------------------
(* Steps that leave the approval ledger alone *)

\* Such a step preserves IInv when a worker it moves is left well formed and
\* the rows it writes are complete.
LEMMA StoreStep ==
  ASSUME IInv, TypeOK',
         UNCHANGED <<approvals, granted, executions>>,
         \A v \in Workers : \/ workers'[v] = workers[v]
                            \/ WorkerInv(workers[v])' /\ workers'[v].pc # "open",
         \A c \in CallIds :
            /\ calls[c].status # "absent" => calls'[c].status # "absent"
            /\ calls'[c].status # "absent" => calls'[c].task \in Tasks
            /\ calls'[c].linked => calls'[c].params \in Payloads,
         \A c \in tokens' : approvals[c].decision # "absent",
         \A h \in Handlers : handlers'[h].pc # "idle" => handlers'[h].task \in Tasks
  PROVE  IInv'
<1> USE DEF IInv
<1>1. StoreInv'
  BY DEF StoreInv
<1>2. \A v \in Workers : WorkerInv(workers[v])'
  BY DEF WorkerInv, TypeOK, WorkerRow
<1>3. OpenCallsDiffer'
  BY DEF OpenCallsDiffer
<1>4. OnlyApprovedPayloadsSent'
  BY DEF OnlyApprovedPayloadsSent
<1> QED
  BY <1>1, <1>2, <1>3, <1>4

\* Ingress, the approval endpoint after the decision, and their faults.
LEMMA RequestStepInv ==
  ASSUME IInv,
         \/ \E t \in Tasks : IngressNext(t) \/ IngressFault(t)
         \/ \E h \in Handlers : HandlerNext(h) \/ HandlerFault(h)
  PROVE  IInv'
<1>0. /\ TypeOK /\ StoreInv
      /\ \A h \in Handlers : handlers[h].pc # "idle" => handlers[h].task \in Tasks
  BY DEF IInv
<1>1. ASSUME NEW t \in Tasks, IngressNext(t) \/ IngressFault(t)
      PROVE  IInv'
  <2>1. UNCHANGED <<calls, approvals, tokens, workers, handlers, history>>
    BY <1>1 DEF IngressNext, CreateTask, EnqueueTask, PublishTask, IngressFault,
                store, history
  <2>2. TypeOK'
    <3>1. CASE CreateTask(t)
      <4>1. UpsertTask(t, "received", {})
        BY <3>1 DEF CreateTask
      <4>2. /\ state' \in [Tasks -> TaskState \cup {"absent"}]
            /\ metadata' \in [Tasks -> SUBSET CallIds]
        BY <1>0, <4>1, UpsertTaskType DEF TaskState
      <4> QED
        BY <1>0, <3>1, <4>2 DEF CreateTask, TypeOK, history
    <3>2. CASE EnqueueTask(t)
      BY <1>0, <3>2 DEF EnqueueTask, Transition, TypeOK, TaskState, history
    <3>3. CASE PublishTask(t)
      BY <1>0, <3>3 DEF PublishTask, Publish, TypeOK, Message, store, history
    <3>4. CASE IngressFault(t)
      BY <1>0, <3>4, ConstantsAssumption
      DEF IngressFault, TypeOK, store, history
    <3> QED
      BY <1>1, <3>1, <3>2, <3>3, <3>4 DEF IngressNext
  <2> QED
    BY <1>0, <2>1, <2>2, StoreStep DEF StoreInv, TypeOK, history
<1>2. ASSUME NEW h \in Handlers, HandlerNext(h) \/ HandlerFault(h)
      PROVE  IInv'
  <2>1. UNCHANGED <<calls, approvals, metadata, tokens, workers, history>>
    BY <1>2 DEF HandlerNext, ReadForDecision, RefuseDecision, CommitDecision,
                LoseDecision, PublishResume, HandlerFault, store, history
  <2>2. handlers[h] \in HandlerRow /\ handlers[h].task \in Tasks
    BY <1>0, <1>2
    DEF TypeOK, HandlerNext, ReadForDecision, RefuseDecision, CommitDecision,
        LoseDecision, PublishResume, HandlerFault
  <2>3. \E r \in HandlerRow :
          /\ handlers' = [handlers EXCEPT ![h] = r]
          /\ r.pc # "idle" => r.task \in Tasks
    <3>1. IdleHandler \in HandlerRow /\ IdleHandler.pc = "idle"
      BY DEF IdleHandler, HandlerRow
    <3>2. CASE ReadForDecision(h)
      <4> DEFINE r == [handlers[h] EXCEPT !.seen = state[handlers[h].task]]
      <4>1. r \in HandlerRow /\ r.task \in Tasks
        BY <1>0, <2>2 DEF HandlerRow, TypeOK
      <4> QED
        BY <3>2, <4>1 DEF ReadForDecision
    <3>3. CASE CommitDecision(h)
      <4> DEFINE r == IF handlers[h].pc = "approve"
                      THEN [handlers[h] EXCEPT !.pc = "publish", !.seen = "absent"]
                      ELSE IdleHandler
      <4>1. r \in HandlerRow /\ (r.pc # "idle" => r.task \in Tasks)
        BY <2>2, <3>1 DEF HandlerRow
      <4> QED
        BY <3>3, <4>1 DEF CommitDecision
    <3>4. CASE RefuseDecision(h) \/ LoseDecision(h) \/ PublishResume(h)
                 \/ HandlerFault(h)
      BY <3>1, <3>4 DEF RefuseDecision, LoseDecision, PublishResume, HandlerFault
    <3> QED
      BY <1>2, <3>2, <3>3, <3>4 DEF HandlerNext
  <2>4. TypeOK'
    <3>1. handlers' \in [Handlers -> HandlerRow]
      BY <1>0, <2>3 DEF TypeOK
    <3>2. CASE CommitDecision(h)
      <4>1. HandlerTarget(handlers[h].pc) \in TaskState
        BY DEF HandlerTarget, TaskState
      <4> QED
        BY <1>0, <2>1, <2>2, <3>1, <3>2, <4>1
        DEF CommitDecision, Transition, TypeOK, history
    <3>3. CASE PublishResume(h)
      BY <1>0, <2>2, <3>1, <3>3
      DEF PublishResume, Publish, TypeOK, Message, store, history
    <3>4. CASE ReadForDecision(h) \/ RefuseDecision(h) \/ LoseDecision(h)
                 \/ HandlerFault(h)
      BY <1>0, <3>1, <3>4, ConstantsAssumption
      DEF ReadForDecision, RefuseDecision, LoseDecision, HandlerFault, TypeOK,
          store, history
    <3> QED
      BY <1>2, <3>2, <3>3, <3>4 DEF HandlerNext
  <2>5. \A k \in Handlers : handlers'[k].pc # "idle" => handlers'[k].task \in Tasks
    BY <1>0, <2>3 DEF TypeOK
  <2> QED
    BY <1>0, <2>1, <2>4, <2>5, StoreStep DEF StoreInv, TypeOK, history
<1> QED
  BY <1>1, <1>2

\* A committed transition, and the two upserts of a whole task row.
LEMMA TaskRowStepInv ==
  ASSUME IInv, NEW w \in Workers,
         CommitTransition(w) \/ StashTokens(w) \/ WriteSummary(w)
  PROVE  IInv'
<1> DEFINE old == workers[w]
<1>0. /\ TypeOK /\ StoreInv
      /\ old \in WorkerRow /\ WorkerInv(old)
      /\ \A h \in Handlers : handlers[h].pc # "idle" => handlers[h].task \in Tasks
  BY DEF IInv, TypeOK
<1>1. old.pc # "idle" /\ old.pc # "open" /\ old.task \in Tasks
  BY <1>0 DEF CommitTransition, TransitionSteps, StashTokens, WriteSummary, At,
              WorkerInv
<1>2. PICK pc \in {"mesh", "recheck", "summary", "ack", "pause"},
           held \in SUBSET CallIds :
        workers' = [workers EXCEPT ![w] =
                      [old EXCEPT !.pc = pc, !.seen = "absent", !.held = held]]
  <2>1. CASE CommitTransition(w)
    <3>1. [old EXCEPT !.pc = AfterTransition(old.pc), !.seen = "absent"]
            = [old EXCEPT !.pc = AfterTransition(old.pc), !.seen = "absent",
                          !.held = old.held]
      BY <1>0 DEF WorkerRow
    <3>2. AfterTransition(old.pc) \in {"mesh", "recheck", "summary", "ack"}
      BY DEF AfterTransition
    <3>3. old.held \in SUBSET CallIds
      BY <1>0 DEF WorkerRow
    <3> QED
      BY <2>1, <3>1, <3>2, <3>3 DEF CommitTransition
  <2>2. CASE StashTokens(w) \/ WriteSummary(w)
    BY <2>2 DEF StashTokens, WriteSummary
  <2> QED
    BY <2>1, <2>2
<1> DEFINE r == [old EXCEPT !.pc = pc, !.seen = "absent", !.held = held]
<1>3. r \in WorkerRow
  BY <1>0 DEF WorkerRow, WorkerStep, TransitionSteps
<1>4. UNCHANGED <<calls, approvals, handlers, granted, executions>>
  BY DEF CommitTransition, StashTokens, WriteSummary, history
<1>5. workers' \in [Workers -> WorkerRow]
  BY <1>0, <1>2, <1>3 DEF TypeOK
<1>6. /\ \A v \in Workers \ {w} : workers'[v] = workers[v]
      /\ workers'[w] = r
  BY <1>0, <1>2 DEF TypeOK
<1>7. WorkerInv(workers[w])' /\ workers'[w].pc # "open"
  BY <1>0, <1>1, <1>4, <1>6 DEF WorkerInv, WorkerRow
<1>8. TypeOK' /\ \A c \in tokens' : approvals[c].decision # "absent"
  <2>1. CASE CommitTransition(w)
    <3>1. TransitionTarget(old.pc) \in TaskState
      BY DEF TransitionTarget, TaskState
    <3> QED
      BY <1>0, <1>1, <1>5, <2>1, <3>1
      DEF CommitTransition, Transition, TypeOK, StoreInv, history
  <2>2. CASE StashTokens(w)
    <3>1. /\ state' \in [Tasks -> TaskState \cup {"absent"}]
          /\ metadata' \in [Tasks -> SUBSET CallIds]
      <4>1. /\ old.held \cup old.issued \in SUBSET CallIds
            /\ old.seen \in TaskState \cup {"absent"}
        BY <1>0 DEF WorkerRow
      <4> QED
        BY <1>0, <1>1, <2>2, <4>1, UpsertTaskType DEF StashTokens
    <3>2. /\ tokens' \in SUBSET CallIds
          /\ \A c \in tokens' : approvals[c].decision # "absent"
      BY <1>0, <2>2 DEF StashTokens, TypeOK, WorkerRow, WorkerInv, StoreInv
    <3> QED
      BY <1>0, <1>5, <2>2, <3>1, <3>2 DEF StashTokens, TypeOK, history
  <2>3. CASE WriteSummary(w)
    <3>1. /\ state' \in [Tasks -> TaskState \cup {"absent"}]
          /\ metadata' \in [Tasks -> SUBSET CallIds]
      <4>1. /\ old.held \in SUBSET CallIds
            /\ old.seen \in TaskState \cup {"absent"}
        BY <1>0 DEF WorkerRow
      <4> QED
        BY <1>0, <1>1, <2>3, <4>1, UpsertTaskType DEF WriteSummary
    <3> QED
      BY <1>0, <1>5, <2>3, <3>1 DEF WriteSummary, TypeOK, StoreInv, history
  <2> QED
    BY <2>1, <2>2, <2>3
<1> QED
  BY <1>0, <1>4, <1>6, <1>7, <1>8, StoreStep DEF StoreInv, TypeOK

\* The steps that write a tool_calls row and open nothing.
LEMMA CallRowStepInv ==
  ASSUME IInv, NEW w \in Workers,
         ReadTool(w) \/ LinkApproval(w) \/ MarkExecuted(w) \/ MarkRejected(w)
  PROVE  IInv'
<1> DEFINE old == workers[w]
<1>0. /\ TypeOK /\ StoreInv
      /\ old \in WorkerRow /\ WorkerInv(old)
      /\ \A h \in Handlers : handlers[h].pc # "idle" => handlers[h].task \in Tasks
  BY DEF IInv, TypeOK
<1>1. old.task \in Tasks
  BY <1>0 DEF ReadTool, LinkApproval, MarkExecuted, MarkRejected, At, WorkerInv
<1>2. UNCHANGED <<state, events, approvals, metadata, tokens, queue, published, handlers,
                  ingress, faults, executions, granted>>
  BY DEF ReadTool, LinkApproval, MarkExecuted, MarkRejected, SettleCall, history
<1>3. \E c \in CallIds, row \in ToolCallRow :
        /\ calls' = [calls EXCEPT ![c] = row]
        /\ row.status # "absent" /\ row.task \in Tasks
        /\ row.linked => row.params \in Payloads
  <2>1. CASE ReadTool(w)
    <3>1. PICK c \in FreshCalls : calls' = [calls EXCEPT ![c] = ReadRow(old.task)]
      BY <2>1 DEF ReadTool
    <3>2. /\ ReadRow(old.task) \in ToolCallRow
          /\ ReadRow(old.task).status # "absent"
          /\ ReadRow(old.task).task \in Tasks
          /\ ~ReadRow(old.task).linked
      BY <1>1 DEF ReadRow, ToolCallRow
    <3> QED
      BY <3>1, <3>2 DEF FreshCalls
  <2>2. ASSUME NEW status \in {"awaiting_approval", "rejected", "executed"},
               calls' = [calls EXCEPT ![old.call] =
                           WriteRow(old.task, old.params, status, TRUE)],
               old.call \in CallIds, old.params \in Payloads
        PROVE  <1>3
    <3> DEFINE row == WriteRow(old.task, old.params, status, TRUE)
    <3>1. /\ row \in ToolCallRow
          /\ row.status # "absent" /\ row.task \in Tasks
          /\ row.params \in Payloads
      BY <1>1, <2>2 DEF WriteRow, ToolCallRow
    <3> QED
      BY <2>2, <3>1
  <2> QED
    BY <1>0, <2>1, <2>2
    DEF LinkApproval, MarkExecuted, MarkRejected, SettleCall, At, WorkerInv
<1>4. \E r \in WorkerRow :
        /\ workers' = [workers EXCEPT ![w] = r]
        /\ r.pc \in {"reads", "stash", "gate", "calls"}
        /\ r.task = old.task
        /\ r.pc = "gate" => r.writes > 0
        /\ \A c \in r.issued : approvals[c].decision # "absent"
  <2>1. CASE ReadTool(w)
    <3> DEFINE r == [old EXCEPT !.reads = old.reads - 1]
    <3>1. /\ r \in WorkerRow /\ r.pc = "reads" /\ r.task = old.task
          /\ r.issued = old.issued
      BY <1>0, <2>1 DEF ReadTool, At, WorkerRow
    <3> QED
      BY <1>0, <2>1, <3>1 DEF ReadTool, WorkerInv
  <2>2. CASE LinkApproval(w)
    <3> DEFINE r == [old EXCEPT !.pc = AfterGate(old.writes),
                                !.writes = old.writes - 1,
                                !.issued = IssueToken(old.issued, old.call),
                                !.call = None, !.params = None]
    <3>1. /\ old.writes \in Nat /\ old.writes > 0
          /\ old.call \in CallIds /\ approvals[old.call].decision # "absent"
      BY <1>0, <2>2 DEF LinkApproval, At, WorkerInv, WorkerRow
    <3>2. /\ AfterGate(old.writes) \in {"stash", "gate"}
          /\ AfterGate(old.writes) = "gate" => old.writes - 1 > 0
      BY <3>1 DEF AfterGate
    <3>3. r \in WorkerRow
      <4>1. /\ AfterGate(old.writes) \in WorkerStep
            /\ old.writes - 1 \in Nat
            /\ IssueToken(old.issued, old.call) \in SUBSET CallIds
        BY <1>0, <3>1, <3>2 DEF WorkerRow, WorkerStep, IssueToken
      <4> QED
        BY <1>0, <4>1 DEF WorkerRow
    <3>4. /\ r.pc = AfterGate(old.writes) /\ r.task = old.task
          /\ r.writes = old.writes - 1
          /\ r.issued = old.issued \cup {old.call}
      BY <1>0 DEF WorkerRow, IssueToken
    <3>5. \A c \in r.issued : approvals[c].decision # "absent"
      BY <1>0, <3>1, <3>4 DEF WorkerInv
    <3>6. workers' = [workers EXCEPT ![w] = r]
      BY <2>2 DEF LinkApproval
    <3> HIDE DEF r
    <3> QED
      BY <3>2, <3>3, <3>4, <3>5, <3>6
  <2>3. CASE MarkExecuted(w) \/ MarkRejected(w)
    <3> DEFINE r == [old EXCEPT !.pc = "calls", !.call = None, !.params = None]
    <3>1. /\ r \in WorkerRow /\ r.pc = "calls" /\ r.task = old.task
          /\ r.issued = old.issued
      BY <1>0 DEF WorkerRow, WorkerStep
    <3> QED
      BY <1>0, <2>3, <3>1 DEF MarkExecuted, MarkRejected, SettleCall, WorkerInv
  <2> QED
    BY <2>1, <2>2, <2>3
<1>5. TypeOK'
  BY <1>0, <1>2, <1>3, <1>4 DEF TypeOK
<1>6. \A v \in Workers : \/ workers'[v] = workers[v]
                         \/ WorkerInv(workers[v])' /\ workers'[v].pc # "open"
  BY <1>0, <1>1, <1>2, <1>4 DEF TypeOK, WorkerInv
<1>7. \A c \in CallIds :
        /\ calls[c].status # "absent" => calls'[c].status # "absent"
        /\ calls'[c].status # "absent" => calls'[c].task \in Tasks
        /\ calls'[c].linked => calls'[c].params \in Payloads
  BY <1>0, <1>3 DEF TypeOK, StoreInv
<1> QED
  BY <1>0, <1>2, <1>5, <1>6, <1>7, StoreStep DEF StoreInv, TypeOK

\* Tampering with the parameters of a recorded call.
LEMMA AmendInv ==
  ASSUME IInv, NEW c \in CallIds, NEW p \in Payloads, AmendParameters(c, p)
  PROVE  IInv'
<1>0. /\ TypeOK /\ StoreInv
      /\ \A h \in Handlers : handlers[h].pc # "idle" => handlers[h].task \in Tasks
  BY DEF IInv
<1>1. calls' = [calls EXCEPT ![c] = [calls[c] EXCEPT !.params = p]]
  BY DEF AmendParameters
<1>2. [calls[c] EXCEPT !.params = p] \in ToolCallRow
  <2>1. calls[c] \in ToolCallRow
    BY <1>0 DEF TypeOK
  <2> QED
    BY <2>1 DEF ToolCallRow
<1>3. TypeOK'
  <2>1. calls' \in [CallIds -> ToolCallRow]
    BY <1>0, <1>1, <1>2 DEF TypeOK
  <2>2. UNCHANGED <<state, events, approvals, metadata, tokens, queue,
                    published, workers, handlers, ingress, faults, executions,
                    granted>>
    BY DEF AmendParameters, history
  <2> QED
    BY <1>0, <2>1, <2>2 DEF TypeOK
<1>4. \A k \in CallIds :
        /\ calls[k].status # "absent" => calls'[k].status # "absent"
        /\ calls'[k].status # "absent" => calls'[k].task \in Tasks
        /\ calls'[k].linked => calls'[k].params \in Payloads
  BY <1>0, <1>1 DEF TypeOK, ToolCallRow, StoreInv
<1> QED
  BY <1>0, <1>3, <1>4, StoreStep DEF AmendParameters, StoreInv, TypeOK, history

---------------------------------------------------------------------------
(* Steps on the approval ledger and the record of what was sent *)

\* A fresh call row: no other worker can be about to open it.
LEMMA GateCallInv ==
  ASSUME IInv, NEW w \in Workers, GateCall(w)
  PROVE  IInv'
<1> DEFINE old == workers[w]
<1>0. /\ TypeOK /\ StoreInv /\ OpenCallsDiffer /\ OnlyApprovedPayloadsSent
      /\ old \in WorkerRow /\ WorkerInv(old)
      /\ \A v \in Workers : WorkerInv(workers[v])
      /\ \A h \in Handlers : handlers[h].pc # "idle" => handlers[h].task \in Tasks
  BY DEF IInv, TypeOK
<1>1. PICK c \in FreshCalls, p \in Payloads :
        /\ calls' = [calls EXCEPT ![c] =
                       WriteRow(old.task, p, "awaiting_approval", FALSE)]
        /\ workers' = [workers EXCEPT ![w] =
                         [@ EXCEPT !.pc = "open", !.call = c, !.params = p]]
  BY DEF GateCall
<1> DEFINE r == [old EXCEPT !.pc = "open", !.call = c, !.params = p]
           row == WriteRow(old.task, p, "awaiting_approval", FALSE)
<1>2. /\ UNCHANGED <<state, events, approvals, metadata, tokens, queue, published,
                     handlers, ingress, faults, executions, granted>>
      /\ old.pc = "gate" /\ old.task \in Tasks
  BY <1>0 DEF GateCall, At, WorkerInv, history
<1>3. c \in CallIds /\ calls[c].status = "absent" /\ approvals[c].decision = "absent"
  BY <1>0 DEF FreshCalls, StoreInv
<1>4. /\ r \in WorkerRow /\ r.pc = "open" /\ r.call = c /\ r.params = p
      /\ r.task = old.task /\ r.writes = old.writes /\ r.issued = old.issued
  BY <1>0, <1>3 DEF WorkerRow, WorkerStep
<1>5. /\ row \in ToolCallRow /\ row.status = "awaiting_approval"
      /\ row.task = old.task /\ row.linked = FALSE
  BY <1>2 DEF WriteRow, ToolCallRow
<1>6. /\ workers' = [workers EXCEPT ![w] = r]
      /\ calls' = [calls EXCEPT ![c] = row]
  BY <1>1
<1> HIDE DEF r, row
<1>7. TypeOK'
  BY <1>0, <1>2, <1>3, <1>4, <1>5, <1>6 DEF TypeOK
<1>8. StoreInv'
  BY <1>0, <1>2, <1>3, <1>5, <1>6 DEF StoreInv, TypeOK
<1>9. \A v \in Workers : WorkerInv(workers[v])'
  <2>1. WorkerInv(workers[w])'
    BY <1>0, <1>2, <1>3, <1>4, <1>5, <1>6 DEF WorkerInv, TypeOK
  <2>2. ASSUME NEW v \in Workers, v # w
        PROVE  WorkerInv(workers[v])'
    BY <1>0, <1>2, <1>3, <1>5, <1>6, <2>2 DEF WorkerInv, TypeOK
  <2> QED
    BY <2>1, <2>2
<1>10. OpenCallsDiffer'
  <2>1. \A v \in Workers : workers[v].pc = "open" => workers[v].call # c
    BY <1>0, <1>3 DEF WorkerInv
  <2> QED
    BY <1>0, <1>4, <1>6, <2>1 DEF OpenCallsDiffer, TypeOK
<1>11. OnlyApprovedPayloadsSent'
  BY <1>0, <1>2 DEF OnlyApprovedPayloadsSent
<1> QED
  BY <1>0, <1>2, <1>7, <1>8, <1>9, <1>10, <1>11 DEF IInv

\* The record that is opened was absent, so no grant, no payload sent and no
\* worker about to send relies on its payload hash.
LEMMA OpenApprovalInv ==
  ASSUME IInv, NEW w \in Workers, OpenApproval(w)
  PROVE  IInv'
<1> DEFINE old == workers[w]
           c == old.call
           record == [decision |-> "pending", payload_hash |-> old.params]
           r == [old EXCEPT !.pc = "link"]
<1>0. /\ TypeOK /\ StoreInv /\ OpenCallsDiffer /\ OnlyApprovedPayloadsSent
      /\ old \in WorkerRow /\ WorkerInv(old)
      /\ \A v \in Workers : WorkerInv(workers[v])
      /\ \A h \in Handlers : handlers[h].pc # "idle" => handlers[h].task \in Tasks
  BY DEF IInv, TypeOK
<1>1. /\ approvals' = [approvals EXCEPT ![c] = record]
      /\ workers' = [workers EXCEPT ![w] = r]
      /\ UNCHANGED <<state, events, calls, metadata, tokens, queue, published, handlers,
                     ingress, faults, executions, granted>>
  BY DEF OpenApproval, Goto, history
<1>2. /\ old.pc = "open" /\ old.task \in Tasks /\ old.writes > 0
      /\ c \in CallIds /\ old.params \in Payloads
      /\ calls[c].status # "absent" /\ approvals[c].decision = "absent"
  BY <1>0 DEF OpenApproval, At, WorkerInv
<1>3. /\ r \in WorkerRow /\ r.pc = "link" /\ r.call = c
      /\ r.params = old.params /\ r.task = old.task /\ r.writes = old.writes
      /\ r.issued = old.issued
  BY <1>0 DEF WorkerRow, WorkerStep
<1>4. record \in ApprovalRow /\ record.decision = "pending"
  BY <1>2 DEF ApprovalRow, ApprovalDecision
<1>5. /\ approvals'[c] = record
      /\ \A k \in CallIds \ {c} : approvals'[k] = approvals[k]
  BY <1>0, <1>1, <1>2 DEF TypeOK
<1>6. /\ workers'[w] = r
      /\ \A v \in Workers \ {w} : workers'[v] = workers[v]
  BY <1>0, <1>1 DEF TypeOK
<1>7. c \notin granted
  BY <1>0, <1>2 DEF StoreInv
<1> HIDE DEF r, record
<1>8. TypeOK'
  BY <1>0, <1>1, <1>3, <1>4 DEF TypeOK
<1>9. StoreInv'
  BY <1>0, <1>1, <1>2, <1>4, <1>5 DEF StoreInv
<1>10. \A v \in Workers : WorkerInv(workers[v])'
  <2>1. WorkerInv(workers[w])'
    BY <1>0, <1>1, <1>2, <1>3, <1>4, <1>5, <1>6 DEF WorkerInv, WorkerRow
  <2>2. ASSUME NEW v \in Workers, v # w
        PROVE  WorkerInv(workers[v])'
    <3>1. /\ WorkerInv(workers[v]) /\ workers[v] \in WorkerRow
          /\ workers'[v] = workers[v]
      BY <1>0, <1>6, <2>2 DEF TypeOK
    <3>2. workers[v].pc = "open" => workers[v].call # c
      BY <1>0, <1>2, <2>2 DEF OpenCallsDiffer
    <3>3. workers[v].pc = "exec" => workers[v].call # c
      BY <1>7, <3>1 DEF WorkerInv
    <3> QED
      BY <1>1, <1>4, <1>5, <3>1, <3>2, <3>3 DEF WorkerInv, WorkerRow
  <2> QED
    BY <2>1, <2>2
<1>11. OpenCallsDiffer'
  BY <1>0, <1>3, <1>6 DEF OpenCallsDiffer
<1>12. OnlyApprovedPayloadsSent'
  BY <1>0, <1>1, <1>5, <1>7 DEF OnlyApprovedPayloadsSent
<1> QED
  BY <1>0, <1>1, <1>8, <1>9, <1>10, <1>11, <1>12 DEF IInv

\* A decision replaces the decision of an existing record, never its payload
\* hash.
LEMMA SubmitDecisionInv ==
  ASSUME IInv, NEW h \in Handlers, NEW c \in CallIds, NEW d \in Decisions,
         SubmitDecision(h, c, d)
  PROVE  IInv'
<1>0. /\ TypeOK /\ StoreInv /\ OpenCallsDiffer /\ OnlyApprovedPayloadsSent
      /\ \A v \in Workers : WorkerInv(workers[v])
      /\ \A k \in Handlers : handlers[k].pc # "idle" => handlers[k].task \in Tasks
  BY DEF IInv
<1>1. /\ c \in tokens
      /\ approvals' = [approvals EXCEPT ![c] = [@ EXCEPT !.decision = d]]
      /\ granted' = IF d = "approved" THEN granted \cup {c} ELSE granted
      /\ UNCHANGED <<state, events, calls, metadata, tokens, queue, published, workers,
                     ingress, faults, executions>>
  BY DEF SubmitDecision, TokenAccepted, RecordDecision
<1>2. /\ d \in ApprovalDecision /\ d # "absent"
      /\ approvals[c].decision # "absent" /\ calls[c].task \in Tasks
  BY <1>0, <1>1, ConstantsAssumption DEF StoreInv, ApprovalDecision
<1>3. \E r \in HandlerRow :
        /\ handlers' = [handlers EXCEPT ![h] = r]
        /\ r.pc # "idle" => r.task \in Tasks
  <2> DEFINE busy(pc) == [IdleHandler EXCEPT !.pc = pc, !.task = calls[c].task]
  <2>1. /\ IdleHandler \in HandlerRow /\ IdleHandler.pc = "idle"
        /\ busy("approve") \in HandlerRow /\ busy("approve").task \in Tasks
        /\ busy("reject") \in HandlerRow /\ busy("reject").task \in Tasks
    BY <1>2 DEF IdleHandler, HandlerRow
  <2>2. handlers' = [handlers EXCEPT ![h] = CASE d = "approved" -> busy("approve")
                                              [] d = "rejected" -> busy("reject")
                                              [] OTHER -> IdleHandler]
    BY DEF SubmitDecision
  <2> HIDE DEF busy
  <2> QED
    BY <2>1, <2>2
<1>4. /\ approvals'[c].decision = d
      /\ approvals'[c].payload_hash = approvals[c].payload_hash
      /\ \A k \in CallIds \ {c} : approvals'[k] = approvals[k]
      /\ approvals' \in [CallIds -> ApprovalRow]
  BY <1>0, <1>1, <1>2 DEF TypeOK, ApprovalRow
<1>5. granted \subseteq granted' /\ granted' \subseteq granted \cup {c}
  BY <1>1
<1>6. TypeOK'
  BY <1>0, <1>1, <1>3, <1>4, <1>5 DEF TypeOK
<1>7. StoreInv'
  BY <1>0, <1>1, <1>2, <1>4, <1>5 DEF StoreInv
<1>8. \A v \in Workers : WorkerInv(workers[v])'
  <2> SUFFICES ASSUME NEW v \in Workers
               PROVE  WorkerInv(workers[v])'
    OBVIOUS
  <2>1. WorkerInv(workers[v]) /\ workers[v] \in WorkerRow /\ workers'[v] = workers[v]
    BY <1>0, <1>1 DEF TypeOK
  <2> QED
    BY <1>1, <1>2, <1>4, <1>5, <2>1 DEF WorkerInv, WorkerRow
<1>9. OpenCallsDiffer'
  BY <1>0, <1>1 DEF OpenCallsDiffer
<1>10. \A k \in Handlers : handlers'[k].pc # "idle" => handlers'[k].task \in Tasks
  BY <1>0, <1>3 DEF TypeOK
<1>11. OnlyApprovedPayloadsSent'
  BY <1>0, <1>1, <1>4, <1>5 DEF OnlyApprovedPayloadsSent
<1> QED
  BY <1>1, <1>6, <1>7, <1>8, <1>9, <1>10, <1>11 DEF IInv

\* What goes out is what the worker was allowed to take from the snapshot.
LEMMA ExecuteCallInv ==
  ASSUME IInv, NEW w \in Workers, ExecuteCall(w)
  PROVE  IInv'
<1> DEFINE old == workers[w]
           c == old.call
           r == [old EXCEPT !.pc = "mark"]
<1>0. /\ TypeOK /\ StoreInv /\ OpenCallsDiffer /\ OnlyApprovedPayloadsSent
      /\ old \in WorkerRow /\ WorkerInv(old)
      /\ \A v \in Workers : WorkerInv(workers[v])
      /\ \A h \in Handlers : handlers[h].pc # "idle" => handlers[h].task \in Tasks
  BY DEF IInv, TypeOK
<1>1. /\ executions' = [executions EXCEPT ![c] = Append(@, old.params)]
      /\ workers' = [workers EXCEPT ![w] = r]
      /\ UNCHANGED <<state, events, calls, approvals, metadata, tokens, queue, published,
                     handlers, ingress, faults, granted>>
  BY DEF ExecuteCall, Goto, store
<1>2. /\ old.pc = "exec" /\ old.task \in Tasks
      /\ c \in CallIds /\ old.params \in Payloads
      /\ c \in granted /\ old.params = approvals[c].payload_hash
  BY <1>0 DEF ExecuteCall, At, WorkerInv
<1>3. /\ r \in WorkerRow /\ r.pc = "mark" /\ r.call = c
      /\ r.params = old.params /\ r.task = old.task /\ r.issued = old.issued
  BY <1>0 DEF WorkerRow, WorkerStep
<1>4. /\ workers'[w] = r
      /\ \A v \in Workers \ {w} : workers'[v] = workers[v]
  BY <1>0, <1>1 DEF TypeOK
<1> HIDE DEF r
<1>5. executions' \in [CallIds -> Seq(Payloads)]
  BY <1>0, <1>1, <1>2 DEF TypeOK
<1>6. TypeOK'
  BY <1>0, <1>1, <1>3, <1>5 DEF TypeOK
<1>7. StoreInv'
  BY <1>0, <1>1 DEF StoreInv
<1>8. \A v \in Workers : WorkerInv(workers[v])'
  BY <1>0, <1>1, <1>2, <1>3, <1>4 DEF WorkerInv
<1>9. OpenCallsDiffer'
  BY <1>0, <1>3, <1>4 DEF OpenCallsDiffer
<1>10. OnlyApprovedPayloadsSent'
  <2> SUFFICES ASSUME NEW k \in CallIds, NEW i \in DOMAIN executions'[k]
               PROVE  k \in granted /\ executions'[k][i] = approvals[k].payload_hash
    BY <1>1 DEF OnlyApprovedPayloadsSent
  <2>1. CASE k # c
    BY <1>0, <1>1, <2>1 DEF OnlyApprovedPayloadsSent, TypeOK
  <2>2. CASE k = c
    <3>1. /\ executions[c] \in Seq(Payloads)
          /\ executions'[c] = Append(executions[c], old.params)
      BY <1>0, <1>1, <1>2 DEF TypeOK
    <3>2. i \in 1..(Len(executions[c]) + 1)
      BY <2>2, <3>1
    <3>3. CASE i = Len(executions[c]) + 1
      BY <1>2, <2>2, <3>1, <3>3
    <3>4. CASE i \in 1..Len(executions[c])
      <4>1. executions'[c][i] = executions[c][i] /\ i \in DOMAIN executions[c]
        BY <3>1, <3>4
      <4> QED
        BY <1>0, <1>2, <2>2, <4>1 DEF OnlyApprovedPayloadsSent
    <3> QED
      BY <3>1, <3>2, <3>3, <3>4
  <2> QED
    BY <2>1, <2>2
<1> QED
  BY <1>0, <1>1, <1>6, <1>7, <1>8, <1>9, <1>10 DEF IInv

---------------------------------------------------------------------------

LEMMA NextInv == IInv /\ [Next]_vars => IInv'
<1> SUFFICES ASSUME IInv, [Next]_vars PROVE IInv'
  OBVIOUS
<1>1. CASE UNCHANGED vars
  BY <1>1 DEF vars, IInv, TypeOK, StoreInv, WorkerInv, OpenCallsDiffer,
              OnlyApprovedPayloadsSent
<1>2. ASSUME NEW t \in Tasks, IngressNext(t) \/ IngressFault(t)
      PROVE  IInv'
  BY <1>2, RequestStepInv
<1>3. ASSUME NEW h \in Handlers, HandlerNext(h) \/ HandlerFault(h)
      PROVE  IInv'
  BY <1>3, RequestStepInv
<1>4. ASSUME NEW w \in Workers,
             Deliver(w) \/ WorkerNext(w) \/ HaltOnBudget(w) \/ WorkerFault(w)
      PROVE  IInv'
  <2>1. CASE Deliver(w) \/ Ack(w) \/ WorkerFault(w)
    BY <2>1, DeliverInv, AckInv, WorkerFaultInv
  <2>2. CASE TransitionStep(w)
    BY <2>2, ControlStepInv, TaskRowStepInv DEF TransitionStep
  <2>3. CASE FreshRunStep(w)
    BY <2>3, ControlStepInv, TaskRowStepInv, CallRowStepInv, GateCallInv,
       OpenApprovalInv DEF FreshRunStep
  <2>4. CASE ResumeStep(w)
    BY <2>4, ControlStepInv, JudgeInv, CallRowStepInv, ExecuteCallInv
    DEF ResumeStep
  <2> QED
    BY <1>4, <2>1, <2>2, <2>3, <2>4, ControlStepInv DEF WorkerNext
<1>5. ASSUME NEW h \in Handlers, NEW c \in CallIds, NEW d \in Decisions,
             SubmitDecision(h, c, d)
      PROVE  IInv'
  BY <1>5, SubmitDecisionInv
<1>6. ASSUME NEW c \in CallIds, NEW p \in Payloads, AmendParameters(c, p)
      PROVE  IInv'
  BY <1>6, AmendInv
<1> QED
  BY <1>1, <1>2, <1>3, <1>4, <1>5, <1>6 DEF Next, Environment

\* The inductive invariant holds throughout: the store, the workers' locals and
\* the open requests agree in every reachable state.
THEOREM Invariance == Spec => []IInv
  BY InitInv, NextInv, PTL DEF Spec

\* Every variable keeps its type: no step reads a row, a call or a message
\* that is not there.
THEOREM TypeCorrect == Spec => []TypeOK
<1>1. IInv => TypeOK
  BY DEF IInv
<1> QED
  BY <1>1, Invariance, PTL

\* For any number of tasks, worker threads, approval requests, redeliveries
\* and faults, and with anybody amending call rows: what the worker hands to
\* the Tool Gateway was approved, in exactly this form.
THEOREM ApprovedSendsOnly == Spec => []OnlyApprovedPayloadsSent
<1>1. IInv => OnlyApprovedPayloadsSent
  BY DEF IInv
<1> QED
  BY <1>1, Invariance, PTL

---------------------------------------------------------------------------
(* The mesh implements GatedWrites *)

\* A call's record is there exactly when it binds a payload.
RecordsBind ==
    \A c \in CallIds :
        /\ approvals[c].decision = "absent" => approvals[c].payload_hash = None
        /\ approvals[c].decision # "absent" =>
             approvals[c].payload_hash \in Payloads

\* What the gate's promise is about: steps that touch none of it are listed
\* by what they are not.
LEMMA GateKept ==
  ASSUME [Next]_vars
  PROVE  \/ UNCHANGED <<approvals, granted, executions>>
         \/ \E w \in Workers : OpenApproval(w) \/ ExecuteCall(w)
         \/ \E h \in Handlers, c \in CallIds, d \in Decisions :
              SubmitDecision(h, c, d)
<1>1. CASE UNCHANGED vars
  BY <1>1 DEF vars
<1>2. ASSUME NEW t \in Tasks, IngressNext(t) \/ IngressFault(t)
      PROVE  UNCHANGED <<approvals, granted, executions>>
  BY <1>2 DEF IngressNext, CreateTask, EnqueueTask, PublishTask, IngressFault,
              store, history
<1>3. ASSUME NEW h \in Handlers, HandlerNext(h) \/ HandlerFault(h)
      PROVE  UNCHANGED <<approvals, granted, executions>>
  BY <1>3 DEF HandlerNext, ReadForDecision, RefuseDecision, CommitDecision,
              LoseDecision, PublishResume, HandlerFault, store, history
<1>4. ASSUME NEW w \in Workers,
             Deliver(w) \/ WorkerNext(w) \/ HaltOnBudget(w) \/ WorkerFault(w)
      PROVE  \/ UNCHANGED <<approvals, granted, executions>>
             \/ OpenApproval(w) \/ ExecuteCall(w)
  <2>1. CASE Deliver(w) \/ Ack(w) \/ HaltOnBudget(w) \/ WorkerFault(w)
    BY <2>1 DEF Deliver, Ack, HaltOnBudget, WorkerFault, store, history
  <2>2. CASE TransitionStep(w)
    BY <2>2 DEF TransitionStep, ReadForTransition, RefuseTransition,
                CommitTransition, LoseRace, store, history
  <2>3. CASE FreshRunStep(w)
    BY <2>3 DEF FreshRunStep, LoadTask, RunMesh, Recheck, ReadTool, EndReads,
                GateCall, LinkApproval, ReadRowSnapshot, StashTokens,
                WriteSummary, store, history
  <2>4. CASE ResumeStep(w)
    BY <2>4 DEF ResumeStep, ListCalls, JudgeCall, MarkExecuted, MarkRejected,
                SettleCall, EndCalls, store, history
  <2> QED
    BY <1>4, <2>1, <2>2, <2>3, <2>4 DEF WorkerNext
<1>5. ASSUME NEW c \in CallIds, NEW p \in Payloads, AmendParameters(c, p)
      PROVE  UNCHANGED <<approvals, granted, executions>>
  BY <1>5 DEF AmendParameters, history
<1> QED
  BY <1>1, <1>2, <1>3, <1>4, <1>5 DEF Next, Environment

\* Opening a record binds it, for the first time.
LEMMA OpeningBinds ==
  ASSUME IInv, RecordsBind, NEW w \in Workers, OpenApproval(w)
  PROVE  RecordsBind' /\ \E c \in CallIds, p \in Payloads : Gate!Bind(c, p)
<1>1. PICK c \in CallIds, p \in Payloads :
        c = workers[w].call /\ p = workers[w].params
  BY DEF IInv, WorkerInv, OpenApproval, At
<1>2. approvals[c].decision = "absent"
  BY <1>1 DEF IInv, WorkerInv, OpenApproval, At
<1>3. /\ approvals' = [approvals EXCEPT ![c] =
                         [decision |-> "pending", payload_hash |-> p]]
      /\ UNCHANGED <<granted, executions>>
  BY <1>1 DEF OpenApproval, history
<1>4. approvals \in [CallIds -> ApprovalRow]
  BY DEF IInv, TypeOK
<1>5. RecordsBind'
  BY <1>2, <1>3, <1>4 DEF RecordsBind
<1>6. Gate!Bind(c, p)
  BY <1>2, <1>3, <1>4 DEF Gate!Bind, RecordsBind
<1> QED
  BY <1>5, <1>6

\* A decision is taken on a bound record and leaves the binding alone.
LEMMA DecidingGrants ==
  ASSUME IInv, RecordsBind, NEW h \in Handlers, NEW c \in CallIds,
         NEW d \in Decisions, SubmitDecision(h, c, d)
  PROVE  RecordsBind' /\ [Gate!Grant(c)]_(Gate!vars)
<1>1. /\ approvals' = [approvals EXCEPT ![c] = [@ EXCEPT !.decision = d]]
      /\ granted' = IF d = "approved" THEN granted \cup {c} ELSE granted
      /\ UNCHANGED executions
      /\ approvals[c].decision # "absent" /\ d # "absent"
  BY ConstantsAssumption DEF SubmitDecision, TokenAccepted, RecordDecision, IInv,
     StoreInv, ApprovalDecision
<1>2. approvals \in [CallIds -> ApprovalRow]
  BY DEF IInv, TypeOK
<1>3. \A k \in CallIds : /\ approvals'[k].payload_hash = approvals[k].payload_hash
                         /\ k # c => approvals'[k] = approvals[k]
  BY <1>1, <1>2 DEF ApprovalRow
<1>4. approvals'[c].decision = d
  BY <1>1, <1>2 DEF ApprovalRow
<1>5. RecordsBind'
  BY <1>1, <1>3, <1>4 DEF RecordsBind
<1>6. [k \in CallIds |-> approvals[k].payload_hash]'
        = [k \in CallIds |-> approvals[k].payload_hash]
  BY <1>3
<1>7. approvals[c].payload_hash # None
  BY <1>1, ConstantsAssumption DEF RecordsBind
<1>8. CASE d = "approved"
  BY <1>1, <1>5, <1>6, <1>7, <1>8 DEF Gate!Grant
<1>9. CASE d # "approved"
  BY <1>1, <1>5, <1>6, <1>9 DEF Gate!vars
<1> QED
  BY <1>8, <1>9

\* What a worker hands on is the bound payload of a granted call.
LEMMA ExecutingSends ==
  ASSUME IInv, NEW w \in Workers, ExecuteCall(w)
  PROVE  UNCHANGED approvals /\ \E c \in CallIds : Gate!Send(c)
<1> DEFINE c == workers[w].call
<1>1. /\ c \in CallIds /\ c \in granted
      /\ workers[w].params = approvals[c].payload_hash
  BY DEF IInv, WorkerInv, ExecuteCall, At
<1>2. /\ executions' = [executions EXCEPT ![c] = Append(@, workers[w].params)]
      /\ UNCHANGED <<approvals, granted>>
  BY DEF ExecuteCall, store
<1> HIDE DEF c
<1>3. Gate!Send(c)
  BY <1>1, <1>2 DEF Gate!Send
<1> QED
  BY <1>1, <1>2, <1>3

LEMMA GateStep ==
  IInv /\ RecordsBind /\ [Next]_vars => RecordsBind' /\ [Gate!Next]_(Gate!vars)
<1> SUFFICES ASSUME IInv, RecordsBind, [Next]_vars
             PROVE  RecordsBind' /\ [Gate!Next]_(Gate!vars)
  OBVIOUS
<1>1. CASE UNCHANGED <<approvals, granted, executions>>
  BY <1>1 DEF RecordsBind, Gate!vars
<1>2. ASSUME NEW w \in Workers, OpenApproval(w) \/ ExecuteCall(w)
      PROVE  RecordsBind' /\ [Gate!Next]_(Gate!vars)
  <2>1. CASE OpenApproval(w)
    BY <2>1, OpeningBinds DEF Gate!Next
  <2>2. CASE ExecuteCall(w)
    <3>1. UNCHANGED approvals /\ \E c \in CallIds : Gate!Send(c)
      BY <2>2, ExecutingSends
    <3> QED
      BY <3>1 DEF Gate!Next, RecordsBind
  <2> QED
    BY <1>2, <2>1, <2>2
<1>3. ASSUME NEW h \in Handlers, NEW c \in CallIds, NEW d \in Decisions,
             SubmitDecision(h, c, d)
      PROVE  RecordsBind' /\ [Gate!Next]_(Gate!vars)
  <2>1. RecordsBind' /\ [Gate!Grant(c)]_(Gate!vars)
    BY <1>3, DecidingGrants
  <2> QED
    BY <2>1 DEF Gate!Next
<1> QED
  BY <1>1, <1>2, <1>3, GateKept

\* The mesh implements GatedWrites, with any number of tasks, threads, requests
\* and deliveries: open_approval binds, a decision grants, _execute sends, and
\* no other step touches what the gate promises.
THEOREM Refinement == Spec => ImplementsGatedWrites
<1>1. Init => RecordsBind /\ Gate!Init
  BY DEF Init, RecordsBind, NoApprovalRow, Gate!Init
<1>2. IInv /\ RecordsBind /\ [Next]_vars
        => RecordsBind' /\ [Gate!Next]_(Gate!vars)
  BY GateStep
<1> QED
  BY <1>1, <1>2, Invariance, PTL DEF Spec, ImplementsGatedWrites, Gate!Spec

===========================================================================
