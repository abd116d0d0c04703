------------------------ MODULE ApprovalAnswerProofs ------------------------
(***************************************************************************)
(* Theorems about what the store of ApprovalMesh tells its readers, under  *)
(* redelivery, crashes and tampering, for any number of tasks, threads and *)
(* requests: a row marked executed was sent, a task that stands approved   *)
(* has an approval behind it, a parked task can be answered, and a write   *)
(* goes out fewer times than its task's messages can be delivered.         *)
(*                                                                         *)
(* The middle two are threatened by the upserts of whole task rows, which  *)
(* write an old snapshot back.  The invariant says what a snapshot of a    *)
(* row still proves when it is written: a snapshot in which the task was   *)
(* open or running carries tokens that answer it, because a worker gets to *)
(* write a summary only after a completion, and no step takes a task from  *)
(* a completion back to running without putting tokens into the row.       *)
(*                                                                         *)
(* The last is counting: the deliveries still to come, the workers whose   *)
(* delivery may still be used for a call, and those used for it are never  *)
(* more than the published messages allow.                                 *)
(***************************************************************************)
EXTENDS ApprovalMeshProofs, FiniteSetTheorems

\* Where a task is before the first worker claims it.
Early == {"absent", "received", "queued", "planning"}

\* Steps of a worker that has not claimed the task, or is done with it.
Outside == {"idle", "start", "claim", "ack"}

\* Call c is a recorded call of task t.
Recorded(c, t) == calls[c].status # "absent" /\ calls[c].task = t

\* A decision on task t: somebody approved one of its calls.
HasGrant(t) == \E c \in CallIds : Recorded(c, t) /\ c \in granted

\* Metadata md of task t holds the token of one of its linked calls.
Answerable(md, t) ==
    \E c \in CallIds : Recorded(c, t) /\ calls[c].linked /\ c \in md

\* What a worker's locals say of the calls it holds ...
CallLocals(r) ==
    /\ r.pc \in {"open", "link", "exec", "mark", "reject"} => Recorded(r.call, r.task)
    /\ \A row \in r.todo : Recorded(row[1], r.task)
    /\ \A c \in r.issued : Recorded(c, r.task) /\ calls[c].linked
    /\ r.pc = "stash" => r.issued # {}
    /\ r.pc = "mark" => executions[r.call] # <<>>

\* ... and what its snapshot of the task row says of the task.
SnapshotLocals(r) ==
    /\ r.seen # "absent" => r.pc \in TransitionSteps \cup {"stash", "summary"}
    /\ r.seen # "absent" /\ r.pc \in TransitionSteps =>
         CanTransition(r.seen, TransitionTarget(r.pc))
    /\ r.seen # "absent" /\ r.pc \in {"stash", "summary"} => r.seen \notin Early
    /\ r.seen = "approved" /\ r.pc \in {"stash", "summary"} => HasGrant(r.task)
    /\ r.seen \in {"running", "awaiting_approval", "approved"} /\ r.pc = "summary" =>
         Answerable(r.held, r.task)

\* A worker inside a run is past the claim, and one that is about to pause the
\* task or to write its summary has tokens in the row if the task runs.
RunLocals(r) ==
    /\ r.pc \notin Outside => state[r.task] \notin Early
    /\ r.pc \in {"pause", "summary"} /\ state[r.task] = "running" =>
         Answerable(metadata[r.task], r.task)

AnswerWorker(r) == CallLocals(r) /\ SnapshotLocals(r) /\ RunLocals(r)

AnswerHandler(r) ==
    /\ r.pc \in {"approve", "publish"} => HasGrant(r.task)
    /\ r.seen # "absent" =>
         r.pc \in {"approve", "reject"} /\ CanTransition(r.seen, HandlerTarget(r.pc))

AnswerTask(t) ==
    /\ state[t] \in {"awaiting_approval", "approved"} => Answerable(metadata[t], t)
    /\ state[t] = "approved" => HasGrant(t)
    /\ ingress[t] = "new" => state[t] = "absent"

AnswerStore ==
    /\ \A c \in CallIds : calls[c].linked => calls[c].status # "absent"
    /\ ExecutedRowsWereSent

AnswerInv ==
    /\ \A w \in Workers : AnswerWorker(workers[w])
    /\ \A h \in Handlers : AnswerHandler(handlers[h])
    /\ \A t \in Tasks : AnswerTask(t)
    /\ AnswerStore

---------------------------------------------------------------------------
(* The ledger of calls only grows *)

\* Recorded calls keep their task and their link, a grant is never forgotten
\* and what was sent stays sent.
Grows ==
    /\ \A c \in CallIds :
         /\ calls[c].status # "absent" =>
              calls'[c].status # "absent" /\ calls'[c].task = calls[c].task
         /\ calls[c].linked => calls'[c].linked
         /\ executions[c] # <<>> => executions'[c] # <<>>
    /\ granted \subseteq granted'

LEMMA RecordsGrow ==
  ASSUME Grows
  PROVE  /\ \A c \in CallIds : \A t : Recorded(c, t) => Recorded(c, t)'
         /\ \A t : HasGrant(t) => HasGrant(t)'
         /\ \A md, t : Answerable(md, t) => Answerable(md, t)'
<1>1. \A c \in CallIds : \A t : Recorded(c, t) => Recorded(c, t)'
  BY DEF Grows, Recorded
<1>2. \A t : HasGrant(t) => HasGrant(t)'
  BY <1>1 DEF Grows, HasGrant
<1>3. \A md, t : Answerable(md, t) => Answerable(md, t)'
  BY <1>1 DEF Grows, Answerable
<1> QED
  BY <1>1, <1>2, <1>3

\* The calls a worker's locals name.
HeldCalls(r) ==
    r.pc \in {"open", "link", "exec", "mark", "reject"} => r.call \in CallIds

LEMMA CallsKept ==
  ASSUME Grows, NEW r \in WorkerRow, HeldCalls(r), CallLocals(r)
  PROVE  CallLocals(r)'
<1>1. \A row \in r.todo : row[1] \in CallIds
  BY DEF WorkerRow
<1>2. r.issued \subseteq CallIds
  BY DEF WorkerRow
<1>3. \A c \in r.issued : Recorded(c, r.task)' /\ calls'[c].linked
  BY <1>2, RecordsGrow DEF CallLocals, Grows
<1>4. \A row \in r.todo : Recorded(row[1], r.task)'
  BY <1>1, RecordsGrow DEF CallLocals
<1>5. /\ r.pc \in {"open", "link", "exec", "mark", "reject"} =>
           Recorded(r.call, r.task)'
      /\ r.pc = "stash" => r.issued # {}
      /\ r.pc = "mark" => executions'[r.call] # <<>>
  BY RecordsGrow DEF CallLocals, Grows, HeldCalls
<1> QED
  BY <1>3, <1>4, <1>5 DEF CallLocals

LEMMA SnapshotKept ==
  ASSUME Grows, NEW r, SnapshotLocals(r)
  PROVE  SnapshotLocals(r)'
  BY RecordsGrow DEF SnapshotLocals

LEMMA HandlerKept ==
  ASSUME Grows, NEW r, AnswerHandler(r)
  PROVE  AnswerHandler(r)'
  BY RecordsGrow DEF AnswerHandler

LEMMA WorkerHeld ==
  ASSUME IInv, NEW w \in Workers
  PROVE  workers[w] \in WorkerRow /\ HeldCalls(workers[w])
  BY DEF IInv, TypeOK, WorkerInv, HeldCalls

\* Any step keeps AnswerInv that leaves the task rows alone, lets the ledger
\* grow, and leaves the worker or request that moved well informed.
LEMMA GrowStep ==
  ASSUME IInv, AnswerInv, Grows, UNCHANGED <<state, metadata>>,
         \A t \in Tasks : ingress'[t] = "new" => ingress[t] = "new",
         \A v \in Workers : workers'[v] = workers[v] \/ AnswerWorker(workers[v])',
         \A h \in Handlers : handlers'[h] = handlers[h] \/ AnswerHandler(handlers[h])',
         AnswerStore'
  PROVE  AnswerInv'
<1>1. ASSUME NEW v \in Workers PROVE AnswerWorker(workers[v])'
  <2>1. CASE workers'[v] # workers[v]
    BY <2>1
  <2>2. CASE workers'[v] = workers[v]
    <3>1. PICK r \in WorkerRow : r = workers[v]
      BY WorkerHeld
    <3>2. HeldCalls(r) /\ AnswerWorker(r)
      BY <3>1, WorkerHeld DEF AnswerInv
    <3>3. CallLocals(r)' /\ SnapshotLocals(r)'
      BY <3>2, CallsKept, SnapshotKept DEF AnswerWorker
    <3>4. RunLocals(r)'
      <4>1. RunLocals(r)
        BY <3>2 DEF AnswerWorker
      <4>2. state' = state /\ metadata' = metadata
        OBVIOUS
      <4>3. Answerable(metadata[r.task], r.task) => Answerable(metadata[r.task], r.task)'
        BY <4>2, RecordsGrow DEF Grows, Answerable, Recorded
      <4> QED
        BY <4>1, <4>2, <4>3 DEF RunLocals
    <3>5. AnswerWorker(r)'
      BY <3>3, <3>4 DEF AnswerWorker
    <3>6. r = workers'[v]
      BY <2>2, <3>1
    <3> QED
      BY <3>5, <3>6
  <2> QED
    BY <2>1, <2>2
<1>2. ASSUME NEW h \in Handlers PROVE AnswerHandler(handlers[h])'
  <2>1. CASE handlers'[h] # handlers[h]
    BY <2>1
  <2>2. CASE handlers'[h] = handlers[h]
    <3>1. PICK r : r = handlers[h]
      OBVIOUS
    <3>2. AnswerHandler(r)'
      BY <3>1, HandlerKept DEF AnswerInv
    <3>3. r = handlers'[h]
      BY <2>2, <3>1
    <3> QED
      BY <3>2, <3>3
  <2> QED
    BY <2>1, <2>2
<1>3. ASSUME NEW t \in Tasks PROVE AnswerTask(t)'
  <2>1. AnswerTask(t) /\ state' = state /\ metadata' = metadata
    BY DEF AnswerInv
  <2>2. HasGrant(t) => HasGrant(t)'
    BY RecordsGrow
  <2>3. Answerable(metadata[t], t) => Answerable(metadata[t], t)'
    BY <2>1 DEF Grows, Answerable, Recorded
  <2> QED
    BY <2>1, <2>2, <2>3 DEF AnswerTask
<1> QED
  BY <1>1, <1>2, <1>3 DEF AnswerInv

---------------------------------------------------------------------------
(* Steps of a worker that write nothing these properties read *)

LEMMA LocalAnswer ==
  ASSUME IInv, AnswerInv, NEW w \in Workers, NEW r, AnswerWorker(r),
         workers' = [workers EXCEPT ![w] = r],
         UNCHANGED <<state, metadata, calls, granted, executions, handlers,
                     ingress>>
  PROVE  AnswerInv'
<1>1. Grows
  BY DEF Grows
<1>2. AnswerStore'
  BY DEF AnswerInv, AnswerStore, ExecutedRowsWereSent
<1>3. workers'[w] = r /\ \A v \in Workers : v # w => workers'[v] = workers[v]
  BY DEF IInv, TypeOK
<1>4. AnswerWorker(r)'
  <2>1. /\ \A c, t : Recorded(c, t)' = Recorded(c, t)
        /\ \A t : HasGrant(t)' = HasGrant(t)
        /\ \A md, t : Answerable(md, t)' = Answerable(md, t)
    BY DEF Recorded, HasGrant, Answerable
  <2>2. CallLocals(r)'
    BY <2>1 DEF AnswerWorker, CallLocals
  <2>3. SnapshotLocals(r)'
    BY <2>1 DEF AnswerWorker, SnapshotLocals
  <2>4. RunLocals(r)'
    <3>1. Answerable(metadata[r.task], r.task)' = Answerable(metadata[r.task], r.task)
      BY DEF Answerable, Recorded
    <3> QED
      BY <3>1 DEF AnswerWorker, RunLocals
  <2> QED
    BY <2>2, <2>3, <2>4 DEF AnswerWorker
<1>5. \A v \in Workers : workers'[v] = workers[v] \/ AnswerWorker(workers[v])'
  BY <1>3, <1>4
<1> QED
  BY <1>1, <1>2, <1>5, GrowStep

LEMMA IdleAnswers == AnswerWorker(IdleWorker)
  BY DEF AnswerWorker, CallLocals, SnapshotLocals, RunLocals, IdleWorker, Outside,
         TransitionSteps

\* Deliveries and acknowledgements.
LEMMA DeliveryAnswers ==
  ASSUME IInv, AnswerInv, NEW w \in Workers,
         Deliver(w) \/ Ack(w)
  PROVE  AnswerInv'
<1>1. UNCHANGED <<state, metadata, calls, granted, executions, handlers, ingress>>
  BY DEF Deliver, Ack, store, history
<1>2. CASE Ack(w)
  <2>1. workers' = [workers EXCEPT ![w] = IdleWorker]
    BY <1>2 DEF Ack
  <2> QED
    BY <1>1, <2>1, IdleAnswers, LocalAnswer
<1>3. CASE Deliver(w)
  <2>1. PICK m : workers' = [workers EXCEPT ![w] =
                   [IdleWorker EXCEPT !.pc = "start", !.task = m.task, !.seq = m.seq]]
    BY <1>3 DEF Deliver
  <2> DEFINE r == [IdleWorker EXCEPT !.pc = "start", !.task = m.task, !.seq = m.seq]
  <2>2. r.pc = "start" /\ r.seen = "absent" /\ r.issued = {} /\ r.todo = {}
    BY DEF IdleWorker
  <2>3. workers' = [workers EXCEPT ![w] = r]
    BY <2>1
  <2> HIDE DEF r
  <2>4. AnswerWorker(r)
    BY <2>2 DEF AnswerWorker, CallLocals, SnapshotLocals, RunLocals, Outside,
                TransitionSteps
  <2> QED
    BY <1>1, <2>3, <2>4, LocalAnswer
<1> QED
  BY <1>2, <1>3

\* A worker that moves on with the same task, calls and tokens.
LEMMA MoveAnswers ==
  ASSUME IInv, AnswerInv, NEW w \in Workers, NEW r,
         r.task = workers[w].task, r.todo = workers[w].todo,
         r.issued = workers[w].issued, r.seen = "absent",
         r.pc \notin {"open", "link", "exec", "mark", "reject", "stash",
                     "pause", "summary"},
         r.pc \notin Outside => state[r.task] \notin Early
  PROVE  AnswerWorker(r)
<1>1. AnswerWorker(workers[w])
  BY DEF AnswerInv
<1>2. CallLocals(r)
  BY <1>1 DEF AnswerWorker, CallLocals
<1>3. SnapshotLocals(r) /\ RunLocals(r)
  BY DEF SnapshotLocals, RunLocals
<1> QED
  BY <1>2, <1>3 DEF AnswerWorker

\* Reading the task row, and the decisions taken on it.
LEMMA ControlAnswers ==
  ASSUME IInv, AnswerInv, NEW w \in Workers,
         \/ RefuseTransition(w) \/ LoseRace(w) \/ WorkerFault(w)
         \/ HaltOnBudget(w) \/ LoadTask(w) \/ RunMesh(w) \/ Recheck(w)
         \/ EndReads(w) \/ EndCalls(w) \/ ListCalls(w)
  PROVE  AnswerInv'
<1> DEFINE old == workers[w]
<1>0. /\ old \in WorkerRow /\ AnswerWorker(old)
      /\ UNCHANGED <<state, metadata, calls, granted, executions, handlers, ingress>>
  BY WorkerHeld
  DEF AnswerInv, RefuseTransition, LoseRace, WorkerFault, HaltOnBudget,
      LoadTask, RunMesh, Recheck, EndReads, EndCalls, ListCalls, store, history
<1>1. CASE RefuseTransition(w) \/ LoseRace(w) \/ WorkerFault(w)
  <2>1. CASE old.pc = "halt" /\ Raise(w)
    <3> DEFINE r == [old EXCEPT !.pc = "recheck", !.seen = "absent"]
    <3>1. /\ r.task = old.task /\ r.todo = old.todo /\ r.issued = old.issued
          /\ r.seen = "absent" /\ r.pc = "recheck"
      BY <1>0 DEF WorkerRow
    <3>2. workers' = [workers EXCEPT ![w] = r]
      BY <2>1 DEF Raise, At
    <3>3. state[old.task] \notin Early
      BY <1>0, <2>1 DEF AnswerWorker, RunLocals, Outside
    <3> HIDE DEF r
    <3>4. AnswerWorker(r)
      BY <3>1, <3>3, MoveAnswers
    <3> QED
      BY <1>0, <3>2, <3>4, LocalAnswer
  <2>2. CASE workers' = [workers EXCEPT ![w] = IdleWorker]
    BY <1>0, <2>2, IdleAnswers, LocalAnswer
  <2> QED
    BY <1>1, <2>1, <2>2 DEF RefuseTransition, LoseRace, WorkerFault, Raise, At
<1>2. CASE \/ HaltOnBudget(w) \/ LoadTask(w) \/ Recheck(w) \/ EndReads(w)
           \/ EndCalls(w)
  <2>1. PICK pc \in {"halt", "ack", "resume", "claim", "list", "reads",
                     "complete", "gate", "finish"} :
          /\ workers' = [workers EXCEPT ![w].pc = pc]
          /\ old.pc \in {"mesh", "start", "recheck", "resume", "reads", "calls"}
          /\ old.pc = "start" /\ pc \notin Outside => state[old.task] = "approved"
    BY <1>2
    DEF HaltOnBudget, LoadTask, Recheck, EndReads, EndCalls, Goto, At, Outside
  <2> DEFINE r == [old EXCEPT !.pc = pc]
  <2>2. /\ r.task = old.task /\ r.todo = old.todo /\ r.issued = old.issued
        /\ r.seen = old.seen /\ r.pc = pc
    BY <1>0 DEF WorkerRow
  <2>3. workers' = [workers EXCEPT ![w] = r]
    BY <2>1
  <2>4. old.seen = "absent"
    BY <1>0, <2>1 DEF AnswerWorker, SnapshotLocals, TransitionSteps
  <2>5. pc \notin Outside => state[old.task] \notin Early
    BY <1>0, <2>1 DEF AnswerWorker, RunLocals, Outside, Early
  <2> HIDE DEF r
  <2>6. AnswerWorker(r)
    BY <2>1, <2>2, <2>4, <2>5, MoveAnswers
  <2> QED
    BY <1>0, <2>3, <2>6, LocalAnswer
<1>3. CASE RunMesh(w)
  <2> DEFINE r == [old EXCEPT !.pc = "recheck", !.reads = Reads[old.task],
                              !.writes = Writes[old.task]]
  <2>1. workers' = [workers EXCEPT ![w] = r] /\ old.pc = "mesh"
    BY <1>3 DEF RunMesh, At
  <2>2. /\ r.task = old.task /\ r.todo = old.todo /\ r.issued = old.issued
        /\ r.seen = old.seen /\ r.pc = "recheck"
    BY <1>0 DEF WorkerRow
  <2>3. old.seen = "absent" /\ state[old.task] \notin Early
    BY <1>0, <2>1 DEF AnswerWorker, SnapshotLocals, RunLocals, TransitionSteps, Outside
  <2> HIDE DEF r
  <2>4. AnswerWorker(r)
    BY <2>2, <2>3, MoveAnswers
  <2> QED
    BY <1>0, <2>1, <2>4, LocalAnswer
<1>4. CASE ListCalls(w)
  <2> DEFINE rows == {<<c, calls[c].params>> :
                        c \in {k \in CallsOf(old.task) : calls[k].linked}}
             r == [old EXCEPT !.pc = "calls", !.todo = rows]
  <2>1. workers' = [workers EXCEPT ![w] = r] /\ old.pc = "list"
    BY <1>4 DEF ListCalls, At
  <2>2. /\ r.task = old.task /\ r.todo = rows /\ r.issued = old.issued
        /\ r.seen = old.seen /\ r.pc = "calls"
    BY <1>0 DEF WorkerRow
  <2>3. \A row \in rows : Recorded(row[1], old.task)
    BY DEF CallsOf, Recorded
  <2>4. old.seen = "absent" /\ state[old.task] \notin Early
    BY <1>0, <2>1 DEF AnswerWorker, SnapshotLocals, RunLocals, TransitionSteps, Outside
  <2> HIDE DEF r, rows
  <2>5. AnswerWorker(r)
    BY <1>0, <2>2, <2>3, <2>4
    DEF AnswerWorker, CallLocals, SnapshotLocals, RunLocals, Outside
  <2> QED
    BY <1>0, <2>1, <2>5, LocalAnswer
<1> QED
  BY <1>1, <1>2, <1>3, <1>4

\* The reads of a task row that a transition or an upsert relies on.
LEMMA ReadAnswers ==
  ASSUME IInv, AnswerInv, NEW w \in Workers,
         ReadForTransition(w) \/ ReadRowSnapshot(w)
  PROVE  AnswerInv'
<1> DEFINE old == workers[w]
<1>0. /\ old \in WorkerRow /\ CallLocals(old) /\ RunLocals(old)
      /\ UNCHANGED <<state, metadata, calls, granted, executions, handlers, ingress>>
  BY WorkerHeld
  DEF AnswerInv, AnswerWorker, ReadForTransition, ReadRowSnapshot, store, history
<1>1. CASE ReadForTransition(w)
  <2> DEFINE r == [old EXCEPT !.seen = state[old.task]]
  <2>1. /\ workers' = [workers EXCEPT ![w] = r]
        /\ r.task = old.task /\ r.todo = old.todo /\ r.issued = old.issued
        /\ r.call = old.call /\ r.pc = old.pc /\ r.seen = state[old.task]
    BY <1>0, <1>1 DEF ReadForTransition, WorkerRow
  <2>2. /\ old.pc \in TransitionSteps
        /\ CanTransition(state[old.task], TransitionTarget(old.pc))
    BY <1>1 DEF ReadForTransition
  <2> HIDE DEF r
  <2>3. CallLocals(r)
    BY <1>0, <2>1 DEF CallLocals
  <2>4. SnapshotLocals(r)
    BY <2>1, <2>2 DEF SnapshotLocals, TransitionSteps
  <2>5. RunLocals(r)
    BY <1>0, <2>1 DEF RunLocals
  <2> QED
    BY <1>0, <2>1, <2>3, <2>4, <2>5, LocalAnswer DEF AnswerWorker
<1>2. CASE ReadRowSnapshot(w)
  <2> DEFINE r == [old EXCEPT !.seen = state[old.task], !.held = metadata[old.task]]
  <2>1. /\ workers' = [workers EXCEPT ![w] = r]
        /\ r.task = old.task /\ r.todo = old.todo /\ r.issued = old.issued
        /\ r.call = old.call /\ r.pc = old.pc /\ r.seen = state[old.task]
        /\ r.held = metadata[old.task]
    BY <1>0, <1>2 DEF ReadRowSnapshot, WorkerRow
  <2>2. old.pc \in {"stash", "summary"}
    BY <1>2 DEF ReadRowSnapshot, At
  <2>3. old.task \in Tasks
    BY <2>2 DEF IInv, WorkerInv
  <2>4. AnswerTask(old.task)
    BY <2>3 DEF AnswerInv
  <2> HIDE DEF r
  <2>5. CallLocals(r)
    BY <1>0, <2>1 DEF CallLocals
  <2>6. SnapshotLocals(r)
    BY <1>0, <2>1, <2>2, <2>4
    DEF SnapshotLocals, TransitionSteps, RunLocals, Outside, AnswerTask
  <2>7. RunLocals(r)
    BY <1>0, <2>1 DEF RunLocals
  <2> QED
    BY <1>0, <2>1, <2>5, <2>6, <2>7, LocalAnswer DEF AnswerWorker
<1> QED
  BY <1>1, <1>2

\* A row of the snapshot handed on to be executed or rejected.
LEMMA JudgeAnswers ==
  ASSUME IInv, AnswerInv, NEW w \in Workers, JudgeCall(w)
  PROVE  AnswerInv'
<1> DEFINE old == workers[w]
<1>0. /\ old \in WorkerRow /\ AnswerWorker(old) /\ old.pc = "calls"
      /\ UNCHANGED <<state, metadata, calls, granted, executions, handlers, ingress>>
  BY WorkerHeld DEF AnswerInv, JudgeCall, At, store, history
<1>1. old.seen = "absent" /\ state[old.task] \notin Early
  BY <1>0 DEF AnswerWorker, SnapshotLocals, RunLocals, TransitionSteps, Outside
<1>2. PICK row \in old.todo :
        \/ TakeCall(w, row, "exec") \/ TakeCall(w, row, "reject")
        \/ workers' = [workers EXCEPT ![w].todo = @ \ {row}]
  BY DEF JudgeCall
<1>3. Recorded(row[1], old.task)
  BY <1>0 DEF AnswerWorker, CallLocals
<1>4. ASSUME NEW step \in {"exec", "reject"}, TakeCall(w, row, step)
      PROVE  AnswerInv'
  <2> DEFINE r == [old EXCEPT !.pc = step, !.todo = old.todo \ {row},
                              !.call = row[1], !.params = row[2]]
  <2>1. /\ workers' = [workers EXCEPT ![w] = r]
        /\ r.task = old.task /\ r.todo \subseteq old.todo /\ r.issued = old.issued
        /\ r.call = row[1] /\ r.pc = step /\ r.seen = "absent"
    BY <1>0, <1>1, <1>4 DEF TakeCall, WorkerRow
  <2> HIDE DEF r
  <2>2. CallLocals(r)
    BY <1>0, <1>3, <2>1 DEF AnswerWorker, CallLocals
  <2>3. SnapshotLocals(r) /\ RunLocals(r)
    BY <1>1, <2>1 DEF SnapshotLocals, RunLocals
  <2> QED
    BY <1>0, <2>1, <2>2, <2>3, LocalAnswer DEF AnswerWorker
<1>5. CASE workers' = [workers EXCEPT ![w].todo = @ \ {row}]
  <2> DEFINE r == [old EXCEPT !.todo = old.todo \ {row}]
  <2>1. /\ workers' = [workers EXCEPT ![w] = r]
        /\ r.task = old.task /\ r.todo \subseteq old.todo /\ r.issued = old.issued
        /\ r.pc = "calls" /\ r.seen = "absent"
    BY <1>0, <1>1, <1>5 DEF WorkerRow
  <2> HIDE DEF r
  <2>2. CallLocals(r)
    BY <1>0, <2>1 DEF AnswerWorker, CallLocals
  <2>3. SnapshotLocals(r) /\ RunLocals(r)
    BY <1>1, <2>1 DEF SnapshotLocals, RunLocals
  <2> QED
    BY <1>0, <2>1, <2>2, <2>3, LocalAnswer DEF AnswerWorker
<1> QED
  BY <1>2, <1>4, <1>5

\* Opening a record touches the approvals only.
LEMMA OpenAnswers ==
  ASSUME IInv, AnswerInv, NEW w \in Workers, OpenApproval(w)
  PROVE  AnswerInv'
<1> DEFINE old == workers[w]
           r == [old EXCEPT !.pc = "link"]
<1>0. /\ old \in WorkerRow /\ AnswerWorker(old) /\ old.pc = "open"
      /\ UNCHANGED <<state, metadata, calls, granted, executions, handlers, ingress>>
  BY WorkerHeld DEF AnswerInv, OpenApproval, At, history
<1>1. old.seen = "absent" /\ state[old.task] \notin Early
  BY <1>0 DEF AnswerWorker, SnapshotLocals, RunLocals, TransitionSteps, Outside
<1>2. /\ workers' = [workers EXCEPT ![w] = r]
      /\ r.task = old.task /\ r.todo = old.todo /\ r.issued = old.issued
      /\ r.call = old.call /\ r.pc = "link" /\ r.seen = "absent"
  BY <1>0, <1>1 DEF OpenApproval, Goto, WorkerRow
<1> HIDE DEF r
<1>3. CallLocals(r)
  BY <1>0, <1>2 DEF AnswerWorker, CallLocals
<1>4. SnapshotLocals(r) /\ RunLocals(r)
  BY <1>1, <1>2 DEF SnapshotLocals, RunLocals
<1> QED
  BY <1>0, <1>2, <1>3, <1>4, LocalAnswer DEF AnswerWorker

---------------------------------------------------------------------------
(* Steps that write the rows of calls *)

LEMMA CallRowWritten ==
  ASSUME IInv, AnswerInv, NEW c \in CallIds, NEW row,
         calls' = [calls EXCEPT ![c] = row],
         row.status # "absent",
         calls[c].status # "absent" => row.task = calls[c].task,
         calls[c].linked => row.linked,
         row.status = "executed" /\ ~row.is_read => executions[c] # <<>>,
         UNCHANGED <<granted, executions>>
  PROVE  Grows /\ AnswerStore'
<1>1. calls'[c] = row /\ \A k \in CallIds : k # c => calls'[k] = calls[k]
  BY DEF IInv, TypeOK
<1>2. Grows
  BY <1>1 DEF Grows
<1>3. AnswerStore'
  BY <1>1 DEF AnswerInv, AnswerStore, ExecutedRowsWereSent
<1> QED
  BY <1>2, <1>3

\* A read is recorded, or a write before its approval is opened: a row of a
\* fresh call.
LEMMA FreshCallAnswers ==
  ASSUME IInv, AnswerInv, NEW w \in Workers, ReadTool(w) \/ GateCall(w)
  PROVE  AnswerInv'
<1>old. PICK old : old = workers[w]
  OBVIOUS
<1>0. /\ old \in WorkerRow /\ CallLocals(old)
      /\ old.seen = "absent" /\ state[old.task] \notin Early
      /\ UNCHANGED <<state, metadata, granted, executions, handlers, ingress>>
  BY <1>old, WorkerHeld
  DEF AnswerInv, AnswerWorker, SnapshotLocals, RunLocals, TransitionSteps, Outside,
      ReadTool, GateCall, At, history
<1>1. CASE ReadTool(w)
  <2>1. PICK c \in FreshCalls : calls' = [calls EXCEPT ![c] = ReadRow(old.task)]
    BY <1>1, <1>old DEF ReadTool
  <2>2. c \in CallIds /\ calls[c].status = "absent" /\ ~calls[c].linked
    BY DEF FreshCalls, AnswerInv, AnswerStore
  <2>3. Grows /\ AnswerStore'
    <3>1. /\ ReadRow(old.task).status # "absent"
          /\ ReadRow(old.task).is_read
      BY DEF ReadRow
    <3> QED
      BY <1>0, <2>1, <2>2, <3>1, CallRowWritten
  <2>r. PICK r : r = [old EXCEPT !.reads = old.reads - 1]
    OBVIOUS
  <2>4. /\ workers' = [workers EXCEPT ![w] = r]
        /\ r.task = old.task /\ r.todo = old.todo /\ r.issued = old.issued
        /\ r.pc = "reads" /\ r.seen = "absent" /\ r \in WorkerRow
    BY <1>0, <1>1, <1>old, <2>r DEF ReadTool, At, WorkerRow
  <2>5. CallLocals(r)'
    <3>1. CallLocals(r) /\ HeldCalls(r)
      BY <1>0, <2>4 DEF CallLocals, HeldCalls
    <3> QED
      BY <2>3, <2>4, <3>1, CallsKept
  <2>6. SnapshotLocals(r)' /\ RunLocals(r)'
    BY <1>0, <2>4 DEF SnapshotLocals, RunLocals
  <2>7. AnswerWorker(r)'
    BY <2>5, <2>6 DEF AnswerWorker
  <2>8. \A v \in Workers : workers'[v] = workers[v] \/ AnswerWorker(workers[v])'
    BY <2>4, <2>7 DEF IInv, TypeOK
  <2> QED
    BY <1>0, <2>3, <2>8, GrowStep
<1>2. CASE GateCall(w)
  <2>1. PICK c \in FreshCalls, p \in Payloads :
          /\ calls' = [calls EXCEPT ![c] =
                         WriteRow(old.task, p, "awaiting_approval", FALSE)]
          /\ workers' = [workers EXCEPT ![w] =
                           [@ EXCEPT !.pc = "open", !.call = c, !.params = p]]
    BY <1>2, <1>old DEF GateCall
  <2>2. c \in CallIds /\ calls[c].status = "absent" /\ ~calls[c].linked
    BY DEF FreshCalls, AnswerInv, AnswerStore
  <2> DEFINE row == WriteRow(old.task, p, "awaiting_approval", FALSE)
  <2>3. row.status = "awaiting_approval" /\ row.task = old.task
    BY DEF WriteRow
  <2>4. calls' = [calls EXCEPT ![c] = row]
    BY <2>1
  <2> HIDE DEF row
  <2>5. Grows /\ AnswerStore'
    BY <1>0, <2>2, <2>3, <2>4, CallRowWritten
  <2>6. Recorded(c, old.task)'
    BY <2>2, <2>3, <2>4 DEF Recorded, IInv, TypeOK
  <2>r. PICK r : r = [old EXCEPT !.pc = "open", !.call = c, !.params = p]
    OBVIOUS
  <2>7. /\ workers' = [workers EXCEPT ![w] = r]
        /\ r.task = old.task /\ r.todo = old.todo /\ r.issued = old.issued
        /\ r.pc = "open" /\ r.seen = "absent" /\ r.call = c
    BY <1>0, <1>old, <2>1, <2>r DEF WorkerRow
  <2>9. CallLocals(old)'
    <3>1. HeldCalls(old)
      BY <1>old, WorkerHeld
    <3> QED
      BY <1>0, <2>5, <3>1, CallsKept
  <2>10. CallLocals(r)'
    BY <2>6, <2>7, <2>9 DEF CallLocals
  <2>11. SnapshotLocals(r)' /\ RunLocals(r)'
    BY <1>0, <2>7 DEF SnapshotLocals, RunLocals
  <2>12. AnswerWorker(r)'
    BY <2>10, <2>11 DEF AnswerWorker
  <2>13. \A v \in Workers : workers'[v] = workers[v] \/ AnswerWorker(workers[v])'
    BY <2>7, <2>12 DEF IInv, TypeOK
  <2> QED
    BY <1>0, <2>5, <2>13, GrowStep
<1> QED
  BY <1>1, <1>2

\* The row of the call a worker holds is written back: linked to its record,
\* or settled.
LEMMA HeldCallAnswers ==
  ASSUME IInv, AnswerInv, NEW w \in Workers,
         LinkApproval(w) \/ MarkExecuted(w) \/ MarkRejected(w)
  PROVE  AnswerInv'
<1>old. PICK old : old = workers[w]
  OBVIOUS
<1> DEFINE c == old.call
           t == old.task
<1>0. /\ old \in WorkerRow /\ CallLocals(old)
      /\ old.pc \in {"link", "mark", "reject"}
      /\ old.seen = "absent" /\ state[t] \notin Early
      /\ UNCHANGED <<state, metadata, granted, executions, handlers, ingress>>
  BY <1>old, WorkerHeld
  DEF AnswerInv, AnswerWorker, SnapshotLocals, RunLocals, TransitionSteps, Outside,
      LinkApproval, MarkExecuted, MarkRejected, SettleCall, At, history
<1>1. c \in CallIds /\ Recorded(c, t)
  BY <1>0, <1>old, WorkerHeld DEF CallLocals, HeldCalls
<1>2. PICK status \in {"awaiting_approval", "executed", "rejected"} :
        /\ calls' = [calls EXCEPT ![c] = WriteRow(t, old.params, status, TRUE)]
        /\ status = "executed" => old.pc = "mark"
  BY <1>old DEF LinkApproval, MarkExecuted, MarkRejected, SettleCall, At
<1> DEFINE row == WriteRow(t, old.params, status, TRUE)
<1>3. row.status = status /\ row.task = t /\ row.linked
  BY DEF WriteRow
<1>4. calls' = [calls EXCEPT ![c] = row]
  BY <1>2
<1> HIDE DEF row
<1>5. Grows /\ AnswerStore'
  <2>1. row.status = "executed" => executions[c] # <<>>
    BY <1>0, <1>2, <1>3 DEF CallLocals
  <2>2. row.status # "absent" /\ row.task = calls[c].task /\ row.linked
    BY <1>1, <1>2, <1>3 DEF Recorded
  <2> QED
    BY <1>0, <1>1, <1>4, <2>1, <2>2, CallRowWritten
<1>6. Recorded(c, t)' /\ calls'[c].linked
  BY <1>1, <1>2, <1>3, <1>4 DEF Recorded, IInv, TypeOK
<1>7. CallLocals(old)'
  <2>1. HeldCalls(old)
    BY <1>old, WorkerHeld
  <2> QED
    BY <1>0, <1>5, <2>1, CallsKept
<1>8. PICK r : /\ workers' = [workers EXCEPT ![w] = r]
               /\ r.task = t /\ r.todo = old.todo /\ r.issued \subseteq old.issued \cup {c}
               /\ r.seen = "absent" /\ r.pc \in {"stash", "gate", "calls"}
               /\ r.pc = "stash" => r.issued # {}
  <2>1. CASE LinkApproval(w)
    <3> DEFINE r == [old EXCEPT !.pc = AfterGate(old.writes),
                                !.writes = old.writes - 1,
                                !.issued = IssueToken(old.issued, c),
                                !.call = None, !.params = None]
    <3>1. workers' = [workers EXCEPT ![w] = r]
      BY <1>old, <2>1 DEF LinkApproval
    <3>2. /\ r.task = t /\ r.todo = old.todo /\ r.issued = old.issued \cup {c}
          /\ r.seen = "absent" /\ r.pc \in {"stash", "gate"}
      BY <1>0 DEF WorkerRow, IssueToken, AfterGate
    <3> QED
      BY <3>1, <3>2
  <2>2. CASE MarkExecuted(w) \/ MarkRejected(w)
    <3> DEFINE r == [old EXCEPT !.pc = "calls", !.call = None, !.params = None]
    <3>1. workers' = [workers EXCEPT ![w] = r]
      BY <1>old, <2>2 DEF MarkExecuted, MarkRejected, SettleCall
    <3>2. /\ r.task = t /\ r.todo = old.todo /\ r.issued = old.issued
          /\ r.seen = "absent" /\ r.pc = "calls"
      BY <1>0 DEF WorkerRow
    <3> QED
      BY <3>1, <3>2
  <2> QED
    BY <2>1, <2>2
<1>9. CallLocals(r)'
  BY <1>6, <1>7, <1>8 DEF CallLocals
<1>10. SnapshotLocals(r)' /\ RunLocals(r)'
  BY <1>0, <1>8 DEF SnapshotLocals, RunLocals
<1>11. AnswerWorker(r)'
  BY <1>9, <1>10 DEF AnswerWorker
<1>12. \A v \in Workers : workers'[v] = workers[v] \/ AnswerWorker(workers[v])'
  BY <1>8, <1>11 DEF IInv, TypeOK
<1> QED
  BY <1>0, <1>5, <1>12, GrowStep

\* A call goes out; the worker marks it next.
LEMMA ExecuteAnswers ==
  ASSUME IInv, AnswerInv, NEW w \in Workers, ExecuteCall(w)
  PROVE  AnswerInv'
<1>old. PICK old : old = workers[w]
  OBVIOUS
<1> DEFINE c == old.call
<1>r. PICK r : r = [old EXCEPT !.pc = "mark"]
  OBVIOUS
<1>0. /\ old \in WorkerRow /\ CallLocals(old) /\ old.pc = "exec"
      /\ old.seen = "absent" /\ state[old.task] \notin Early
      /\ UNCHANGED <<state, metadata, calls, granted, handlers, ingress>>
      /\ executions' = [executions EXCEPT ![c] = Append(@, old.params)]
  BY <1>old, WorkerHeld
  DEF AnswerInv, AnswerWorker, SnapshotLocals, RunLocals, TransitionSteps, Outside,
      ExecuteCall, At, store
<1>1. c \in CallIds /\ old.params \in Payloads /\ executions[c] \in Seq(Payloads)
  BY <1>0, <1>old DEF IInv, WorkerInv, TypeOK
<1>2. /\ executions'[c] # <<>>
      /\ \A k \in CallIds : k # c => executions'[k] = executions[k]
  <2>1. Append(executions[c], old.params) # <<>>
    BY <1>1
  <2> QED
    BY <1>0, <1>1, <2>1 DEF IInv, TypeOK
<1>3. Grows
  BY <1>0, <1>2 DEF Grows
<1>4. AnswerStore'
  BY <1>0, <1>2 DEF AnswerInv, AnswerStore, ExecutedRowsWereSent
<1>5. /\ workers' = [workers EXCEPT ![w] = r]
      /\ r.task = old.task /\ r.todo = old.todo /\ r.issued = old.issued
      /\ r.call = c /\ r.pc = "mark" /\ r.seen = "absent"
  BY <1>0, <1>old, <1>r DEF ExecuteCall, Goto, WorkerRow
<1>6. CallLocals(old)'
  <2>1. HeldCalls(old)
    BY <1>old, WorkerHeld
  <2> QED
    BY <1>0, <1>3, <2>1, CallsKept
<1>7. CallLocals(r)'
  BY <1>0, <1>2, <1>5, <1>6 DEF CallLocals
<1>8. SnapshotLocals(r)' /\ RunLocals(r)'
  BY <1>0, <1>5 DEF SnapshotLocals, RunLocals
<1>9. AnswerWorker(r)'
  BY <1>7, <1>8 DEF AnswerWorker
<1>10. \A v \in Workers : workers'[v] = workers[v] \/ AnswerWorker(workers[v])'
  BY <1>5, <1>9 DEF IInv, TypeOK
<1> QED
  BY <1>0, <1>3, <1>4, <1>10, GrowStep

\* Somebody rewrites the parameters of a call.
LEMMA AmendAnswers ==
  ASSUME IInv, AnswerInv, NEW c \in CallIds, NEW p \in Payloads,
         AmendParameters(c, p)
  PROVE  AnswerInv'
<1> DEFINE row == [calls[c] EXCEPT !.params = p]
<1>1. /\ calls' = [calls EXCEPT ![c] = row]
      /\ calls[c].status # "absent"
      /\ UNCHANGED <<state, metadata, granted, executions, handlers, ingress, workers>>
  BY DEF AmendParameters, history
<1>2. /\ row.status = calls[c].status /\ row.task = calls[c].task
      /\ row.linked = calls[c].linked /\ row.is_read = calls[c].is_read
  BY DEF IInv, TypeOK, ToolCallRow
<1> HIDE DEF row
<1>3. Grows /\ AnswerStore'
  <2>1. row.status = "executed" /\ ~row.is_read => executions[c] # <<>>
    BY <1>2 DEF AnswerInv, AnswerStore, ExecutedRowsWereSent
  <2> QED
    BY <1>1, <1>2, <2>1, CallRowWritten
<1> QED
  BY <1>1, <1>3, GrowStep

---------------------------------------------------------------------------
(* Approval requests and the ingress, as long as the task row stands *)

\* A request stores a decision: an approval is on record before the request
\* moves on to the task.
LEMMA SubmitAnswers ==
  ASSUME IInv, AnswerInv, NEW h \in Handlers, NEW c \in CallIds,
         NEW d \in Decisions, SubmitDecision(h, c, d)
  PROVE  AnswerInv'
<1>1. /\ UNCHANGED <<state, metadata, calls, executions, ingress, workers>>
      /\ granted' = IF d = "approved" THEN granted \cup {c} ELSE granted
      /\ c \in tokens
  BY DEF SubmitDecision, RecordDecision, TokenAccepted
<1>2. Grows /\ AnswerStore'
  BY <1>1 DEF Grows, AnswerInv, AnswerStore, ExecutedRowsWereSent
<1>3. PICK t : t = calls[c].task
  OBVIOUS
<1>4. PICK r : /\ handlers' = [handlers EXCEPT ![h] = r]
               /\ r.seen = "absent"
               /\ r.pc = "publish" => FALSE
               /\ r.pc = "approve" => d = "approved" /\ r.task = t
  <2> DEFINE r == CASE d = "approved" -> [IdleHandler EXCEPT !.pc = "approve", !.task = t]
                    [] d = "rejected" -> [IdleHandler EXCEPT !.pc = "reject", !.task = t]
                    [] OTHER -> IdleHandler
  <2>1. handlers' = [handlers EXCEPT ![h] = r]
    BY <1>3 DEF SubmitDecision
  <2>2. /\ r.seen = "absent" /\ r.pc # "publish"
        /\ r.pc = "approve" => d = "approved" /\ r.task = t
    BY DEF IdleHandler
  <2> QED
    BY <2>1, <2>2
<1>5. d = "approved" => HasGrant(t)'
  <2>1. approvals[c].decision # "absent"
    BY <1>1 DEF IInv, StoreInv
  <2>2. calls[c].status # "absent"
    BY <2>1 DEF IInv, StoreInv
  <2>3. Recorded(c, t)'
    BY <1>1, <1>3, <2>2 DEF Recorded
  <2> QED
    BY <1>1, <2>3 DEF HasGrant
<1>6. AnswerHandler(r)'
  BY <1>4, <1>5 DEF AnswerHandler
<1>7. \A k \in Handlers : handlers'[k] = handlers[k] \/ AnswerHandler(handlers[k])'
  BY <1>4, <1>6 DEF IInv, TypeOK
<1> QED
  BY <1>1, <1>2, <1>7, GrowStep

\* A request reads the task, gives up, dies or re-dispatches the task.
LEMMA RequestAnswers ==
  ASSUME IInv, AnswerInv, NEW h \in Handlers,
         \/ ReadForDecision(h) \/ RefuseDecision(h) \/ LoseDecision(h)
         \/ PublishResume(h) \/ HandlerFault(h)
  PROVE  AnswerInv'
<1>1. UNCHANGED <<state, metadata, calls, granted, executions, ingress, workers>>
  BY DEF ReadForDecision, RefuseDecision, LoseDecision, PublishResume,
         HandlerFault, store, history
<1>2. Grows /\ AnswerStore'
  BY <1>1 DEF Grows, AnswerInv, AnswerStore, ExecutedRowsWereSent
<1>3. PICK r : handlers' = [handlers EXCEPT ![h] = r] /\ AnswerHandler(r)
  <2>1. AnswerHandler(IdleHandler)
    BY DEF AnswerHandler, IdleHandler
  <2>2. CASE ReadForDecision(h)
    <3> DEFINE old == handlers[h]
               r == [old EXCEPT !.seen = state[old.task]]
    <3>1. old \in HandlerRow /\ AnswerHandler(old)
      BY DEF IInv, TypeOK, AnswerInv
    <3>2. /\ old.pc \in {"approve", "reject"}
          /\ CanTransition(state[old.task], HandlerTarget(old.pc))
          /\ handlers' = [handlers EXCEPT ![h] = r]
      BY <2>2, <3>1 DEF ReadForDecision, HandlerRow
    <3>3. r.pc = old.pc /\ r.task = old.task /\ r.seen = state[old.task]
      BY <3>1 DEF HandlerRow
    <3> HIDE DEF r
    <3>4. AnswerHandler(r)
      BY <3>1, <3>2, <3>3 DEF AnswerHandler
    <3> QED
      BY <3>2, <3>4
  <2> QED
    BY <2>1, <2>2 DEF RefuseDecision, LoseDecision, PublishResume, HandlerFault
<1>4. AnswerHandler(r)'
  BY <1>2, <1>3, HandlerKept
<1>5. \A k \in Handlers : handlers'[k] = handlers[k] \/ AnswerHandler(handlers[k])'
  BY <1>3, <1>4 DEF IInv, TypeOK
<1> QED
  BY <1>1, <1>2, <1>5, GrowStep

\* The ingress publishes the task, or dies.
LEMMA IngressAnswers ==
  ASSUME IInv, AnswerInv, NEW t \in Tasks, PublishTask(t) \/ IngressFault(t)
  PROVE  AnswerInv'
<1>1. /\ UNCHANGED <<state, metadata, calls, granted, executions, handlers, workers>>
      /\ ingress' = [ingress EXCEPT ![t] = "done"]
  BY DEF PublishTask, IngressFault, store, history
<1>2. Grows /\ AnswerStore'
  BY <1>1 DEF Grows, AnswerInv, AnswerStore, ExecutedRowsWereSent
<1>3. \A u \in Tasks : ingress'[u] = "new" => ingress[u] = "new"
  BY <1>1 DEF IInv, TypeOK
<1> QED
  BY <1>1, <1>2, <1>3, GrowStep

---------------------------------------------------------------------------
(* Steps that write a task row *)

\* A step keeps AnswerInv that writes the row of task t alone, does not take
\* the task back before its claim, leaves it running only with tokens in the
\* row or when no worker is past the claim, and leaves whoever moved well
\* informed.
LEMMA StateStep ==
  ASSUME IInv, AnswerInv, NEW t \in Tasks,
         UNCHANGED <<calls, granted, executions>>,
         \A u \in Tasks : u # t => /\ state'[u] = state[u]
                                   /\ metadata'[u] = metadata[u]
                                   /\ ingress'[u] = ingress[u],
         state[t] \notin Early => state'[t] \notin Early,
         \/ state[t] \in Early
         \/ state'[t] = "running" => Answerable(metadata'[t], t),
         AnswerTask(t)',
         \A v \in Workers : workers'[v] = workers[v] \/ AnswerWorker(workers[v])',
         \A h \in Handlers : handlers'[h] = handlers[h] \/ AnswerHandler(handlers[h])'
  PROVE  AnswerInv'
<1>1. Grows
  BY DEF Grows
<1>2. AnswerStore'
  BY DEF AnswerInv, AnswerStore, ExecutedRowsWereSent
<1>3. \A md, u : Answerable(md, u) => Answerable(md, u)'
  BY <1>1, RecordsGrow
<1>4. ASSUME NEW v \in Workers PROVE AnswerWorker(workers[v])'
  <2>1. CASE workers'[v] # workers[v]
    BY <2>1
  <2>2. CASE workers'[v] = workers[v]
    <3>1. PICK r \in WorkerRow : r = workers[v]
      BY WorkerHeld
    <3>2. HeldCalls(r) /\ AnswerWorker(r)
      BY <3>1, WorkerHeld DEF AnswerInv
    <3>3. CallLocals(r)' /\ SnapshotLocals(r)'
      BY <1>1, <3>2, CallsKept, SnapshotKept DEF AnswerWorker
    <3>4. RunLocals(r)'
      <4>1. RunLocals(r)
        BY <3>2 DEF AnswerWorker
      <4>2. CASE r.pc \in Outside
        BY <4>2 DEF RunLocals, Outside
      <4>3. CASE r.pc \notin Outside /\ r.task = t
        <5>1. state[t] \notin Early
          BY <4>1, <4>3 DEF RunLocals
        <5>2. state'[t] \notin Early
          BY <5>1
        <5>3. state'[t] = "running" => Answerable(metadata[t], t)'
          BY <5>1 DEF Answerable, Recorded
        <5> QED
          BY <4>3, <5>2, <5>3 DEF RunLocals
      <4>4. CASE r.pc \notin Outside /\ r.task # t
        <5>1. r.task \in Tasks
          <6>1. WorkerInv(r) /\ r.pc # "idle"
            BY <3>1, <4>4 DEF IInv, Outside
          <6> QED
            BY <6>1 DEF WorkerInv
        <5>2. PICK u \in Tasks : u = r.task
          BY <5>1
        <5>3. state'[u] = state[u] /\ metadata'[u] = metadata[u]
          BY <4>4, <5>2
        <5>4. Answerable(metadata[u], u) => Answerable(metadata[u], u)'
          BY <5>3 DEF Answerable, Recorded
        <5> QED
          BY <4>1, <5>2, <5>3, <5>4 DEF RunLocals
      <4> QED
        BY <4>2, <4>3, <4>4
    <3>5. AnswerWorker(r)'
      BY <3>3, <3>4 DEF AnswerWorker
    <3>6. r = workers'[v]
      BY <2>2, <3>1
    <3> QED
      BY <3>5, <3>6
  <2> QED
    BY <2>1, <2>2
<1>5. ASSUME NEW h \in Handlers PROVE AnswerHandler(handlers[h])'
  <2>1. CASE handlers'[h] # handlers[h]
    BY <2>1
  <2>2. CASE handlers'[h] = handlers[h]
    <3>1. PICK r : r = handlers[h]
      OBVIOUS
    <3>2. AnswerHandler(r)'
      BY <1>1, <3>1, HandlerKept DEF AnswerInv
    <3>3. r = handlers'[h]
      BY <2>2, <3>1
    <3> QED
      BY <3>2, <3>3
  <2> QED
    BY <2>1, <2>2
<1>6. ASSUME NEW u \in Tasks PROVE AnswerTask(u)'
  <2>1. CASE u = t
    BY <2>1
  <2>2. CASE u # t
    <3>1. /\ state'[u] = state[u] /\ metadata'[u] = metadata[u]
          /\ ingress'[u] = ingress[u] /\ AnswerTask(u)
      BY <2>2 DEF AnswerInv
    <3>2. HasGrant(u) => HasGrant(u)'
      BY <1>1, RecordsGrow
    <3>3. Answerable(metadata[u], u) => Answerable(metadata[u], u)'
      BY <3>1 DEF Answerable, Recorded
    <3> QED
      BY <3>1, <3>2, <3>3 DEF AnswerTask
  <2> QED
    BY <2>1, <2>2
<1> QED
  BY <1>2, <1>4, <1>5, <1>6 DEF AnswerInv

\* The ingress writes the row of a new task and queues it: nobody else knows
\* the task yet.
LEMMA NewTaskAnswers ==
  ASSUME IInv, AnswerInv, NEW t \in Tasks, CreateTask(t) \/ EnqueueTask(t)
  PROVE  AnswerInv'
<1>1. /\ UNCHANGED <<calls, granted, executions, handlers, workers>>
      /\ state[t] \in {"absent", "received"}
  BY DEF CreateTask, EnqueueTask, Transition, AnswerInv, AnswerTask, history
<1>2. /\ state'[t] \in {"received", "queued"}
      /\ ingress'[t] # "new"
      /\ \A u \in Tasks : u # t => /\ state'[u] = state[u]
                                   /\ metadata'[u] = metadata[u]
                                   /\ ingress'[u] = ingress[u]
  BY DEF CreateTask, EnqueueTask, Transition, UpsertTask, IInv, TypeOK
<1>3. AnswerTask(t)'
  BY <1>2 DEF AnswerTask
<1>4. state[t] \in Early
  BY <1>1 DEF Early
<1> QED
  BY <1>1, <1>2, <1>3, <1>4, StateStep

\* A worker moves the task.
LEMMA CommitAnswers ==
  ASSUME IInv, AnswerInv, NEW w \in Workers, CommitTransition(w)
  PROVE  AnswerInv'
<1>old. PICK old : old = workers[w]
  OBVIOUS
<1> DEFINE target == TransitionTarget(old.pc)
<1>0. /\ old \in WorkerRow /\ CallLocals(old) /\ SnapshotLocals(old) /\ RunLocals(old)
      /\ old.pc \in TransitionSteps /\ old.seen # "absent"
      /\ UNCHANGED <<calls, granted, executions, handlers, metadata, ingress>>
  BY <1>old, WorkerHeld DEF AnswerInv, AnswerWorker, CommitTransition, history
<1>1. PICK t \in Tasks : t = old.task
  BY <1>0, <1>old DEF IInv, WorkerInv, TransitionSteps
<1>2. /\ state[t] = old.seen
      /\ CanTransition(state[t], target)
      /\ state'[t] = target
      /\ \A u \in Tasks : u # t => state'[u] = state[u]
  BY <1>0, <1>1, <1>old
  DEF CommitTransition, Transition, SnapshotLocals, IInv, TypeOK
<1>3. AnswerTask(t)
  BY DEF AnswerInv
<1>4. /\ target \in {"running", "failed", "awaiting_approval", "completed"}
      /\ target = "running" => old.pc = "claim"
      /\ target = "awaiting_approval" => old.pc = "pause"
  BY <1>0 DEF TransitionTarget, TransitionSteps
<1>5. /\ target = "running" => state[t] \in {"queued", "planning", "approved"}
      /\ target = "awaiting_approval" => state[t] \in {"planning", "running"}
      /\ state[t] # "absent"
  BY <1>2, <1>4 DEF CanTransition, Allowed
<1>6. target = "awaiting_approval" => Answerable(metadata[t], t)
  BY <1>0, <1>1, <1>4, <1>5 DEF RunLocals, Outside, Early
<1>7. target = "running" => state[t] \in Early \/ Answerable(metadata[t], t)
  BY <1>3, <1>5 DEF AnswerTask, Early
<1>8. AnswerTask(t)'
  <2>1. Answerable(metadata[t], t) => Answerable(metadata[t], t)'
    BY <1>0 DEF Answerable, Recorded
  <2>2. ingress'[t] # "new"
    BY <1>0, <1>3, <1>5 DEF AnswerTask
  <2> QED
    BY <1>2, <1>4, <1>6, <2>1, <2>2 DEF AnswerTask
<1>9. state'[t] \notin Early
  BY <1>2, <1>4 DEF Early
<1>10. PICK r : /\ workers' = [workers EXCEPT ![w] = r]
                /\ r.task = t /\ r.todo = old.todo /\ r.issued = old.issued
                /\ r.seen = "absent" /\ r.pc = AfterTransition(old.pc)
  <2> DEFINE r == [old EXCEPT !.pc = AfterTransition(old.pc), !.seen = "absent"]
  <2>1. workers' = [workers EXCEPT ![w] = r]
    BY <1>old DEF CommitTransition
  <2>2. /\ r.task = t /\ r.todo = old.todo /\ r.issued = old.issued
        /\ r.seen = "absent" /\ r.pc = AfterTransition(old.pc)
    BY <1>0, <1>1 DEF WorkerRow
  <2> QED
    BY <2>1, <2>2
<1>11. /\ r.pc \in {"mesh", "recheck", "summary", "ack"}
       /\ r.pc = "summary" => target = "completed"
  BY <1>0, <1>10 DEF AfterTransition, TransitionTarget, TransitionSteps
<1>12. AnswerWorker(r)'
  <2>1. CallLocals(old)'
    <3>1. HeldCalls(old) /\ Grows
      BY <1>0, <1>old, WorkerHeld DEF Grows
    <3> QED
      BY <1>0, <3>1, CallsKept
  <2>2. CallLocals(r)'
    BY <1>1, <1>10, <1>11, <2>1 DEF CallLocals
  <2>3. SnapshotLocals(r)' /\ RunLocals(r)'
    BY <1>2, <1>9, <1>10, <1>11 DEF SnapshotLocals, RunLocals
  <2> QED
    BY <2>2, <2>3 DEF AnswerWorker
<1>13. \A v \in Workers : workers'[v] = workers[v] \/ AnswerWorker(workers[v])'
  BY <1>10, <1>12 DEF IInv, TypeOK
<1>14. \/ state[t] \in Early
       \/ state'[t] = "running" => Answerable(metadata'[t], t)
  BY <1>0, <1>2, <1>7
<1>15. \A u \in Tasks : u # t => /\ state'[u] = state[u]
                                 /\ metadata'[u] = metadata[u]
                                 /\ ingress'[u] = ingress[u]
  BY <1>0, <1>2
<1> QED
  BY <1>0, <1>8, <1>9, <1>13, <1>14, <1>15, StateStep

\* A worker writes a whole row back from its snapshot: the task is still past
\* its claim, and where it is written back as open or running the tokens in
\* the written row answer it.
LEMMA UpsertAnswers ==
  ASSUME IInv, AnswerInv, NEW w \in Workers, StashTokens(w) \/ WriteSummary(w)
  PROVE  AnswerInv'
<1>old. PICK old : old = workers[w]
  OBVIOUS
<1>0. /\ old \in WorkerRow /\ CallLocals(old) /\ SnapshotLocals(old) /\ RunLocals(old)
      /\ old.pc \in {"stash", "summary"} /\ old.seen # "absent"
      /\ UNCHANGED <<calls, granted, executions, handlers, ingress>>
  BY <1>old, WorkerHeld
  DEF AnswerInv, AnswerWorker, StashTokens, WriteSummary, At, history
<1>1. PICK t \in Tasks : t = old.task
  BY <1>0, <1>old DEF IInv, WorkerInv
<1>2. PICK md : /\ UpsertTask(t, old.seen, md)
                /\ old.pc = "stash" => md = old.held \cup old.issued
                /\ old.pc = "summary" => md = old.held
  BY <1>1, <1>old DEF StashTokens, WriteSummary, At
<1>3. /\ state'[t] = old.seen
      /\ metadata'[t] = md \/ md = {}
      /\ \A u \in Tasks : u # t => /\ state'[u] = state[u]
                                   /\ metadata'[u] = metadata[u]
                                   /\ ingress'[u] = ingress[u]
  BY <1>0, <1>2 DEF UpsertTask, IInv, TypeOK
<1>4. /\ old.seen \notin Early
      /\ old.seen = "approved" => HasGrant(t)
      /\ state[t] \notin Early
  BY <1>0, <1>1 DEF SnapshotLocals, RunLocals, Outside
<1>5. old.seen \in {"running", "awaiting_approval", "approved"} \/ old.pc = "stash"
        => Answerable(md, t)
  <2>1. CASE old.pc = "stash"
    <3>1. PICK c \in old.issued : Recorded(c, t) /\ calls[c].linked
      BY <1>0, <1>1, <2>1 DEF CallLocals
    <3>2. c \in CallIds /\ c \in md
      BY <1>0, <1>2, <2>1, <3>1 DEF WorkerRow
    <3> QED
      BY <3>1, <3>2 DEF Answerable
  <2>2. CASE old.pc = "summary"
    BY <1>0, <1>1, <1>2, <2>2 DEF SnapshotLocals
  <2> QED
    BY <1>0, <2>1, <2>2
<1>6. Answerable(md, t) => Answerable(metadata[t], t)'
  BY <1>0, <1>3 DEF Answerable, Recorded
<1>7. AnswerTask(t)'
  <2>1. HasGrant(t) => HasGrant(t)'
    BY <1>0 DEF HasGrant, Recorded
  <2>2. ingress'[t] # "new"
    BY <1>0, <1>4 DEF AnswerInv, AnswerTask, Early
  <2> QED
    BY <1>3, <1>4, <1>5, <1>6, <2>1, <2>2 DEF AnswerTask
<1>8. PICK r : /\ workers' = [workers EXCEPT ![w] = r]
               /\ r.task = t /\ r.todo = old.todo /\ r.issued = old.issued
               /\ r.seen = "absent" /\ r.pc \in {"pause", "ack"}
               /\ r.pc = "pause" => old.pc = "stash"
  <2>1. CASE StashTokens(w)
    <3> DEFINE r == [old EXCEPT !.pc = "pause", !.seen = "absent", !.held = {}]
    <3>1. workers' = [workers EXCEPT ![w] = r] /\ old.pc = "stash"
      BY <1>old, <2>1 DEF StashTokens, At
    <3>2. /\ r.task = t /\ r.todo = old.todo /\ r.issued = old.issued
          /\ r.seen = "absent" /\ r.pc = "pause"
      BY <1>0, <1>1 DEF WorkerRow
    <3> QED
      BY <3>1, <3>2
  <2>2. CASE WriteSummary(w)
    <3> DEFINE r == [old EXCEPT !.pc = "ack", !.seen = "absent", !.held = {}]
    <3>1. workers' = [workers EXCEPT ![w] = r]
      BY <1>old, <2>2 DEF WriteSummary
    <3>2. /\ r.task = t /\ r.todo = old.todo /\ r.issued = old.issued
          /\ r.seen = "absent" /\ r.pc = "ack"
      BY <1>0, <1>1 DEF WorkerRow
    <3> QED
      BY <3>1, <3>2
  <2> QED
    BY <2>1, <2>2
<1>9. AnswerWorker(r)'
  <2>1. CallLocals(old)'
    <3>1. HeldCalls(old) /\ Grows
      BY <1>0, <1>old, WorkerHeld DEF Grows
    <3> QED
      BY <1>0, <3>1, CallsKept
  <2>2. CallLocals(r)'
    BY <1>1, <1>8, <2>1 DEF CallLocals
  <2>3. SnapshotLocals(r)'
    BY <1>8 DEF SnapshotLocals
  <2>4. RunLocals(r)'
    BY <1>3, <1>4, <1>5, <1>6, <1>8 DEF RunLocals
  <2> QED
    BY <2>2, <2>3, <2>4 DEF AnswerWorker
<1>10. \A v \in Workers : workers'[v] = workers[v] \/ AnswerWorker(workers[v])'
  BY <1>8, <1>9 DEF IInv, TypeOK
<1>11. state'[t] = "running" => Answerable(metadata'[t], t)
  BY <1>3, <1>5 DEF Answerable
<1>12. state'[t] \notin Early
  BY <1>3, <1>4
<1> QED
  BY <1>0, <1>3, <1>7, <1>10, <1>11, <1>12, StateStep

\* A request moves an open task: its answer is on record.
LEMMA DecisionAnswers ==
  ASSUME IInv, AnswerInv, NEW h \in Handlers, CommitDecision(h)
  PROVE  AnswerInv'
<1>old. PICK old : old = handlers[h]
  OBVIOUS
<1> DEFINE target == HandlerTarget(old.pc)
<1>0. /\ old \in HandlerRow /\ AnswerHandler(old)
      /\ old.pc \in {"approve", "reject"} /\ old.seen # "absent"
      /\ UNCHANGED <<calls, granted, executions, workers, metadata, ingress>>
  BY <1>old DEF AnswerInv, CommitDecision, history, IInv, TypeOK
<1>1. PICK t \in Tasks : t = old.task
  BY <1>0, <1>old DEF IInv
<1>2. /\ state[t] = old.seen
      /\ CanTransition(state[t], target)
      /\ state'[t] = target
      /\ \A u \in Tasks : u # t => state'[u] = state[u]
  BY <1>0, <1>1, <1>old
  DEF CommitDecision, Transition, AnswerHandler, IInv, TypeOK
<1>3. AnswerTask(t)
  BY DEF AnswerInv
<1>4. /\ target \in {"approved", "rejected"}
      /\ target = "approved" => old.pc = "approve"
      /\ state[t] = "awaiting_approval"
  BY <1>0, <1>2 DEF HandlerTarget, CanTransition, Allowed
<1>5. Answerable(metadata[t], t) /\ ingress[t] # "new"
  BY <1>3, <1>4 DEF AnswerTask
<1>6. target = "approved" => HasGrant(t)
  BY <1>0, <1>1, <1>4 DEF AnswerHandler
<1>7. AnswerTask(t)'
  <2>1. Answerable(metadata[t], t)'
    BY <1>0, <1>5 DEF Answerable, Recorded
  <2>2. HasGrant(t) => HasGrant(t)'
    BY <1>0 DEF HasGrant, Recorded
  <2> QED
    BY <1>0, <1>2, <1>4, <1>5, <1>6, <2>1, <2>2 DEF AnswerTask
<1>8. PICK r : /\ handlers' = [handlers EXCEPT ![h] = r]
               /\ \/ r = IdleHandler
                  \/ /\ old.pc = "approve"
                     /\ r.seen = "absent" /\ r.pc = "publish" /\ r.task = t
  <2> DEFINE r == IF old.pc = "approve"
                  THEN [old EXCEPT !.pc = "publish", !.seen = "absent"]
                  ELSE IdleHandler
  <2>1. handlers' = [handlers EXCEPT ![h] = r]
    BY <1>old DEF CommitDecision
  <2>2. \/ r = IdleHandler
        \/ /\ old.pc = "approve"
           /\ r.seen = "absent" /\ r.pc = "publish" /\ r.task = t
    BY <1>0, <1>1 DEF HandlerRow
  <2> QED
    BY <2>1, <2>2
<1>9. AnswerHandler(r)'
  <2>1. old.pc = "approve" => HasGrant(t)'
    BY <1>0, <1>1 DEF AnswerHandler, HasGrant, Recorded
  <2> QED
    BY <1>8, <2>1 DEF AnswerHandler, IdleHandler
<1>10. \A k \in Handlers : handlers'[k] = handlers[k] \/ AnswerHandler(handlers[k])'
  BY <1>8, <1>9 DEF IInv, TypeOK
<1>11. /\ state'[t] \notin Early /\ state'[t] # "running"
       /\ \A u \in Tasks : u # t => /\ state'[u] = state[u]
                                    /\ metadata'[u] = metadata[u]
                                    /\ ingress'[u] = ingress[u]
  BY <1>0, <1>2, <1>4 DEF Early
<1> QED
  BY <1>0, <1>7, <1>10, <1>11, StateStep

---------------------------------------------------------------------------

LEMMA InitAnswer == Init => AnswerInv
<1> SUFFICES ASSUME Init PROVE AnswerInv
  OBVIOUS
<1>1. \A w \in Workers : AnswerWorker(workers[w])
  BY IdleAnswers DEF Init
<1>2. \A h \in Handlers : AnswerHandler(handlers[h])
  BY DEF Init, AnswerHandler, IdleHandler
<1>3. \A t \in Tasks : AnswerTask(t)
  BY DEF Init, AnswerTask
<1>4. AnswerStore
  BY DEF Init, AnswerStore, ExecutedRowsWereSent, NoCallRow
<1> QED
  BY <1>1, <1>2, <1>3, <1>4 DEF AnswerInv

LEMMA NextAnswer == IInv /\ AnswerInv /\ [Next]_vars => AnswerInv'
<1> SUFFICES ASSUME IInv, AnswerInv, [Next]_vars PROVE AnswerInv'
  OBVIOUS
<1>1. CASE UNCHANGED vars
  <2>1. Grows /\ AnswerStore'
    BY <1>1 DEF vars, Grows, AnswerInv, AnswerStore, ExecutedRowsWereSent
  <2> QED
    BY <1>1, <2>1, GrowStep DEF vars
<1>2. ASSUME NEW t \in Tasks, IngressNext(t) \/ IngressFault(t)
      PROVE  AnswerInv'
  BY <1>2, NewTaskAnswers, IngressAnswers DEF IngressNext
<1>3. ASSUME NEW h \in Handlers, HandlerNext(h) \/ HandlerFault(h)
      PROVE  AnswerInv'
  BY <1>3, RequestAnswers, DecisionAnswers DEF HandlerNext
<1>4. ASSUME NEW w \in Workers,
             Deliver(w) \/ WorkerNext(w) \/ HaltOnBudget(w) \/ WorkerFault(w)
      PROVE  AnswerInv'
  <2>1. CASE Deliver(w) \/ Ack(w) \/ WorkerFault(w)
    BY <2>1, DeliveryAnswers, ControlAnswers
  <2>2. CASE TransitionStep(w)
    BY <2>2, ControlAnswers, ReadAnswers, CommitAnswers DEF TransitionStep
  <2>3. CASE FreshRunStep(w)
    BY <2>3, ControlAnswers, ReadAnswers, FreshCallAnswers, OpenAnswers,
       HeldCallAnswers, UpsertAnswers DEF FreshRunStep
  <2>4. CASE ResumeStep(w)
    BY <2>4, ControlAnswers, JudgeAnswers, ExecuteAnswers, HeldCallAnswers
    DEF ResumeStep
  <2>5. CASE HaltOnBudget(w)
    BY <2>5, ControlAnswers
  <2> QED
    BY <1>4, <2>1, <2>2, <2>3, <2>4, <2>5 DEF WorkerNext
<1>5. ASSUME NEW h \in Handlers, NEW c \in CallIds, NEW d \in Decisions,
             SubmitDecision(h, c, d)
      PROVE  AnswerInv'
  BY <1>5, SubmitAnswers
<1>6. ASSUME NEW c \in CallIds, NEW p \in Payloads, AmendParameters(c, p)
      PROVE  AnswerInv'
  BY <1>6, AmendAnswers
<1> QED
  BY <1>1, <1>2, <1>3, <1>4, <1>5, <1>6 DEF Next, Environment

LEMMA AnswerInvariance == Spec => [](IInv /\ AnswerInv)
<1>1. Init => IInv /\ AnswerInv
  BY InitInv, InitAnswer
<1>2. IInv /\ AnswerInv /\ [Next]_vars => (IInv /\ AnswerInv)'
  BY NextInv, NextAnswer
<1> QED
  BY <1>1, <1>2, PTL DEF Spec

\* The tool-call ledger never claims a write that did not go out, although
\* whole call rows are written back from snapshots and anybody may amend their
\* parameters: only the worker that handed the call to the Tool Gateway marks
\* it executed.
THEOREM LedgerClaimsOnlySends == Spec => []ExecutedRowsWereSent
<1>1. AnswerInv => ExecutedRowsWereSent
  BY DEF AnswerInv, AnswerStore
<1> QED
  BY <1>1, AnswerInvariance, PTL

\* A task that stands approved has an approval of one of its own calls behind
\* it, for any number of redeliveries: also where a summary or the tokens of a
\* concurrent run write an old row back.
THEOREM ApprovedMeansGranted == Spec => []ApprovedStateHasDecision
<1>1. AnswerInv => ApprovedStateHasDecision
  BY DEF AnswerInv, AnswerTask, HasGrant, Recorded, ApprovedStateHasDecision, CallsOf
<1> QED
  BY <1>1, AnswerInvariance, PTL

\* A parked task never loses its last token: its row holds the token of a
\* recorded, linked call, whatever runs of the same task overwrite each
\* other's metadata.
THEOREM ParkedTasksCanBeAnswered == Spec => []ParkedIsAnswerable
<1>1. AnswerInv => ParkedIsAnswerable
  BY DEF AnswerInv, AnswerTask, Answerable, Recorded, ParkedIsAnswerable, CallsOf
<1> QED
  BY <1>1, AnswerInvariance, PTL

---------------------------------------------------------------------------
(* A write goes out fewer times than its task's messages are delivered *)

\* The deliveries still to come of messages of task t: message and attempt.
Chances(t) ==
    {d \in (1..published[t]) \X (1..MaxDeliveries) :
        \E m \in queue : m.task = t /\ m.seq = d[1] /\ m.attempts < d[2]}

\* A worker that may still send call c: it has not listed the calls, c is in
\* the list, or in its hands.
MaySend(r, c) ==
    \/ r.pc \in {"start", "resume", "list"}
    \/ \E row \in r.todo : row[1] = c
    \/ r.pc = "exec" /\ r.call = c

\* The workers whose delivery of a message of t may still be used for c: to
\* send it or, as long as nobody did, to propose it.
Holders(t, c) ==
    {w \in Workers : /\ workers[w].pc # "idle" /\ workers[w].task = t
                     /\ calls[c].status = "absent" \/ MaySend(workers[w], c)}

\* The deliveries that were used for c, if it is a call of t: one proposed it,
\* the others sent it.
Used(t, c) == IF Recorded(c, t) THEN Len(executions[c]) + 1 ELSE 0

\* The list of calls names each call once, and not the one in hand.
TodoRows(r) ==
    /\ \A x, y \in r.todo : x[1] = y[1] => x = y
    /\ r.pc = "exec" => \A x \in r.todo : x[1] # r.call

QueueInv ==
    /\ \A m \in queue : m.seq \in 1..published[m.task]
    /\ \A m, k \in queue : m.task = k.task /\ m.seq = k.seq => m = k

\* What was delivered and what can be covers what was used and what may be.
Covered(t, c) ==
    /\ IsFiniteSet(Holders(t, c))
    /\ Used(t, c) + Cardinality(Chances(t)) + Cardinality(Holders(t, c))
         <= MaxDeliveries * published[t]

SendInv ==
    /\ QueueInv
    /\ \A w \in Workers : TodoRows(workers[w])
    /\ \A t \in Tasks, c \in CallIds : Covered(t, c)

---------------------------------------------------------------------------

LEMMA ChancesFinite ==
  ASSUME TypeOK, NEW t \in Tasks
  PROVE  IsFiniteSet(Chances(t)) /\ Cardinality(Chances(t)) \in Nat
<1>1. published[t] \in Nat /\ MaxDeliveries \in Nat
  BY ConstantsAssumption DEF TypeOK
<1>2. IsFiniteSet(1..published[t]) /\ IsFiniteSet(1..MaxDeliveries)
  BY <1>1, FS_Interval
<1>3. IsFiniteSet((1..published[t]) \X (1..MaxDeliveries))
  BY <1>2, FS_Product
<1>4. Chances(t) \in SUBSET ((1..published[t]) \X (1..MaxDeliveries))
  BY DEF Chances
<1>5. IsFiniteSet(Chances(t))
  BY <1>3, <1>4, FS_Subset
<1> QED
  BY <1>5, FS_CardinalityType

\* A call that nobody recorded was not sent.
LEMMA FreshUnsent ==
  ASSUME IInv, NEW c \in CallIds, calls[c].status = "absent"
  PROVE  Len(executions[c]) = 0
<1>1. c \notin granted
  BY DEF IInv, StoreInv
<1>2. \A i : i \notin DOMAIN executions[c]
  BY <1>1 DEF IInv, OnlyApprovedPayloadsSent
<1>3. executions[c] \in Seq(Payloads)
  BY DEF IInv, TypeOK
<1>4. Len(executions[c]) \in Nat /\ DOMAIN executions[c] = 1..Len(executions[c])
  BY <1>3
<1>5. CASE Len(executions[c]) > 0
  <2>1. 1 \in 1..Len(executions[c])
    BY <1>4, <1>5
  <2> QED
    BY <1>2, <1>4, <2>1
<1> QED
  BY <1>4, <1>5

LEMMA UsedType ==
  ASSUME TypeOK, NEW t \in Tasks, NEW c \in CallIds
  PROVE  Used(t, c) \in Nat
<1>1. executions[c] \in Seq(Payloads)
  BY DEF TypeOK
<1>2. Len(executions[c]) \in Nat
  BY <1>1
<1> QED
  BY <1>2 DEF Used

\* Any step keeps SendInv that publishes nothing, brings nobody back to a call,
\* and takes a worker off a call when it uses the call.
LEMMA UseStep ==
  ASSUME IInv, IInv', SendInv, UNCHANGED published, queue' \subseteq queue,
         \A w \in Workers : TodoRows(workers[w])',
         \A t \in Tasks, c \in CallIds :
            /\ Holders(t, c)' \subseteq Holders(t, c)
            /\ \/ Used(t, c)' = Used(t, c)
               \/ /\ Used(t, c)' = Used(t, c) + 1
                  /\ \E w \in Holders(t, c) : w \notin Holders(t, c)'
  PROVE  SendInv'
<1>1. QueueInv'
  BY DEF SendInv, QueueInv
<1>2. ASSUME NEW t \in Tasks, NEW c \in CallIds
      PROVE  Covered(t, c)'
  <2> DEFINE old == Holders(t, c)
             new == Holders(t, c)'
             before == Chances(t)
             after == Chances(t)'
  <2>1. /\ IsFiniteSet(before) /\ Cardinality(before) \in Nat
    BY ChancesFinite DEF IInv
  <2>2. after \in SUBSET before
    BY DEF Chances
  <2>3. Cardinality(after) \in Nat /\ Cardinality(after) <= Cardinality(before)
    <3> HIDE DEF before, after
    <3>1. IsFiniteSet(after) /\ Cardinality(after) <= Cardinality(before)
      BY <2>1, <2>2, FS_Subset
    <3> QED
      BY <3>1, FS_CardinalityType
  <2>4. IsFiniteSet(old)
    BY DEF SendInv, Covered
  <2>5. new \in SUBSET old
    OBVIOUS
  <2>6. /\ IsFiniteSet(new) /\ Cardinality(new) \in Nat /\ Cardinality(old) \in Nat
        /\ Cardinality(new) <= Cardinality(old)
        /\ new # old => Cardinality(new) # Cardinality(old)
    <3> HIDE DEF old, new
    <3>1. /\ IsFiniteSet(new) /\ Cardinality(new) <= Cardinality(old)
          /\ Cardinality(old) = Cardinality(new) => old = new
      BY <2>4, <2>5, FS_Subset
    <3> QED
      BY <2>4, <3>1, FS_CardinalityType
  <2>7. /\ Used(t, c) \in Nat
        /\ \/ Used(t, c)' = Used(t, c)
           \/ Used(t, c)' = Used(t, c) + 1 /\ new # old
    <3>1. Used(t, c) \in Nat
      BY UsedType DEF IInv
    <3>2. (\E w \in old : w \notin new) => new # old
      OBVIOUS
    <3> QED
      BY <3>1, <3>2
  <2>8. Used(t, c) + Cardinality(before) + Cardinality(old)
          <= MaxDeliveries * published[t]
    BY DEF SendInv, Covered
  <2>9. /\ published' = published /\ published[t] \in Nat /\ MaxDeliveries \in Nat
        /\ MaxDeliveries * published[t] \in Nat
    BY ConstantsAssumption DEF IInv, TypeOK
  <2>10. Used(t, c)' + Cardinality(after) + Cardinality(new)
           <= MaxDeliveries * published[t]
    <3> HIDE DEF old, new, before, after
    <3> QED
      BY <2>1, <2>3, <2>6, <2>7, <2>8, <2>9
  <2> QED
    BY <2>6, <2>9, <2>10 DEF Covered
<1> QED
  BY <1>1, <1>2 DEF SendInv

---------------------------------------------------------------------------
(* Steps of a worker *)

\* What a worker must not do with its delivery: come back to a call.
Passes(old, r) ==
    r.pc # "idle" => /\ old.pc # "idle" /\ r.task = old.task
                     /\ \A c \in CallIds : MaySend(r, c) => MaySend(old, c)

\* A step of one worker that uses no call.
LEMMA PassStep ==
  ASSUME IInv, IInv', SendInv, UNCHANGED <<published, executions>>,
         queue' \subseteq queue, NEW w \in Workers, NEW r,
         workers' = [workers EXCEPT ![w] = r], Passes(workers[w], r), TodoRows(r),
         \A c \in CallIds : /\ calls[c].status # "absent" => calls'[c].status # "absent"
                            /\ \A t \in Tasks : Recorded(c, t)' = Recorded(c, t)
  PROVE  SendInv'
<1>1. workers'[w] = r /\ \A v \in Workers : v # w => workers'[v] = workers[v]
  BY DEF IInv, TypeOK
<1>2. \A v \in Workers : TodoRows(workers[v])'
  BY <1>1 DEF SendInv, TodoRows
<1>3. ASSUME NEW t \in Tasks, NEW c \in CallIds
      PROVE  Holders(t, c)' \subseteq Holders(t, c) /\ Used(t, c)' = Used(t, c)
  <2>1. ASSUME NEW v \in Holders(t, c)' PROVE v \in Holders(t, c)
    <3>1. /\ v \in Workers /\ workers'[v].pc # "idle" /\ workers'[v].task = t
          /\ calls'[c].status = "absent" \/ MaySend(workers'[v], c)
      BY <2>1 DEF Holders, MaySend
    <3>2. calls'[c].status = "absent" => calls[c].status = "absent"
      OBVIOUS
    <3>3. CASE v = w
      BY <1>1, <3>1, <3>2, <3>3 DEF Holders, Passes
    <3>4. CASE v # w
      BY <1>1, <3>1, <3>2, <3>4 DEF Holders
    <3> QED
      BY <3>3, <3>4
  <2> QED
    BY <2>1 DEF Used
<1> QED
  BY <1>2, <1>3, UseStep

LEMMA WorkerSends ==
  ASSUME IInv, AnswerInv, SendInv, NEW w \in Workers
  PROVE  /\ workers[w] \in WorkerRow /\ TodoRows(workers[w])
         /\ CallLocals(workers[w])
         /\ workers[w].pc # "idle" => workers[w].task \in Tasks
  BY DEF IInv, TypeOK, WorkerInv, AnswerInv, AnswerWorker, SendInv

\* A worker that keeps its task and its list, and does not come to a call.
LEMMA QuietPasses ==
  ASSUME NEW old, NEW r, TodoRows(old), old.pc # "idle",
         r.task = old.task, r.todo = old.todo, r.pc \notin {"start", "exec"},
         r.pc \in {"resume", "list"} => old.pc \in {"start", "resume"}
  PROVE  Passes(old, r) /\ TodoRows(r)
  BY DEF Passes, TodoRows, MaySend

LEMMA IdlePasses ==
  ASSUME NEW old
  PROVE  Passes(old, IdleWorker) /\ TodoRows(IdleWorker)
  BY DEF Passes, TodoRows, IdleWorker

\* The end of a delivery: acknowledged, given back or lost.
LEMMA EndsPass ==
  ASSUME IInv, AnswerInv, SendInv, NEW w \in Workers,
         \/ Ack(w) \/ WorkerFault(w) \/ RefuseTransition(w) \/ LoseRace(w)
  PROVE  \E r : /\ workers' = [workers EXCEPT ![w] = r]
                /\ Passes(workers[w], r) /\ TodoRows(r)
<1>1. CASE workers' = [workers EXCEPT ![w] = IdleWorker]
  BY <1>1, IdlePasses
<1>2. CASE At(w, "halt") /\ Raise(w)
  <2>1. PICK old : old = workers[w]
    OBVIOUS
  <2>2. PICK r : r = [old EXCEPT !.pc = "recheck", !.seen = "absent"]
    OBVIOUS
  <2>3. /\ old \in WorkerRow /\ TodoRows(old) /\ old.pc = "halt"
    BY <1>2, <2>1, WorkerSends DEF At
  <2>4. r.pc = "recheck" /\ r.task = old.task /\ r.todo = old.todo
    BY <2>2, <2>3 DEF WorkerRow
  <2>5. workers' = [workers EXCEPT ![w] = r]
    BY <1>2, <2>1, <2>2 DEF Raise
  <2>6. Passes(old, r) /\ TodoRows(r)
    BY <2>3, <2>4, QuietPasses
  <2> QED
    BY <2>1, <2>5, <2>6
<1> QED
  BY <1>1, <1>2 DEF Ack, WorkerFault, RefuseTransition, LoseRace, Raise, At

\* The steps of process() between one delivery and the list of calls.
LEMMA MovesPass ==
  ASSUME IInv, AnswerInv, SendInv, NEW w \in Workers,
         \/ ReadForTransition(w) \/ CommitTransition(w) \/ HaltOnBudget(w)
         \/ LoadTask(w) \/ RunMesh(w) \/ Recheck(w) \/ EndReads(w)
         \/ OpenApproval(w) \/ LinkApproval(w)
         \/ ReadRowSnapshot(w) \/ StashTokens(w) \/ WriteSummary(w)
         \/ MarkExecuted(w) \/ MarkRejected(w) \/ EndCalls(w)
  PROVE  \E r : /\ workers' = [workers EXCEPT ![w] = r]
                /\ Passes(workers[w], r) /\ TodoRows(r)
<1>1. PICK old : old = workers[w]
  OBVIOUS
<1>2. old \in WorkerRow /\ TodoRows(old)
  BY <1>1, WorkerSends
<1> DEFINE Quiet ==
      \E r : /\ workers' = [workers EXCEPT ![w] = r]
             /\ old.pc # "idle"
             /\ r.task = old.task /\ r.todo = old.todo
             /\ r.pc \notin {"start", "exec"}
             /\ r.pc \in {"resume", "list"} => old.pc \in {"start", "resume"}
<1>3. SUFFICES Quiet
  BY <1>1, <1>2, QuietPasses
<1>4. ASSUME NEW pc, Goto(w, pc), old.pc # "idle", pc \notin {"start", "exec"},
             pc \in {"resume", "list"} => old.pc \in {"start", "resume"}
      PROVE  Quiet
  <2>1. PICK r : r = [old EXCEPT !.pc = pc]
    OBVIOUS
  <2>2. r.pc = pc /\ r.task = old.task /\ r.todo = old.todo
    BY <1>2, <2>1 DEF WorkerRow
  <2> QED
    BY <1>1, <1>4, <2>1, <2>2 DEF Goto
<1>5. CASE \/ HaltOnBudget(w) \/ LoadTask(w) \/ Recheck(w) \/ EndReads(w)
           \/ OpenApproval(w) \/ EndCalls(w)
  <2>1. PICK pc \in {"halt", "ack", "resume", "claim", "list", "reads", "complete",
                     "gate", "link", "finish"} :
          /\ Goto(w, pc)
          /\ old.pc # "idle"
          /\ pc \in {"resume", "list"} => old.pc \in {"start", "resume"}
    BY <1>1, <1>5 DEF HaltOnBudget, LoadTask, Recheck, EndReads, OpenApproval,
                      EndCalls, At
  <2> QED
    BY <2>1, <1>4
<1>6. CASE ReadForTransition(w) \/ CommitTransition(w)
  <2>1. old.pc \in TransitionSteps
    BY <1>1, <1>6 DEF ReadForTransition, CommitTransition
  <2>2. CASE ReadForTransition(w)
    <3>1. PICK r : r = [old EXCEPT !.seen = state[old.task]]
      OBVIOUS
    <3>2. r.pc = old.pc /\ r.task = old.task /\ r.todo = old.todo
      BY <1>2, <3>1 DEF WorkerRow
    <3>3. workers' = [workers EXCEPT ![w] = r]
      BY <1>1, <2>2, <3>1 DEF ReadForTransition
    <3> QED
      BY <2>1, <3>2, <3>3 DEF TransitionSteps
  <2>3. CASE CommitTransition(w)
    <3>1. PICK r : r = [old EXCEPT !.pc = AfterTransition(old.pc), !.seen = "absent"]
      OBVIOUS
    <3>2. r.pc = AfterTransition(old.pc) /\ r.task = old.task /\ r.todo = old.todo
      BY <1>2, <3>1 DEF WorkerRow
    <3>3. workers' = [workers EXCEPT ![w] = r]
      BY <1>1, <2>3, <3>1 DEF CommitTransition
    <3>4. r.pc \in {"mesh", "recheck", "summary", "ack"}
      BY <3>2 DEF AfterTransition
    <3> QED
      BY <2>1, <3>2, <3>3, <3>4 DEF TransitionSteps
  <2> QED
    BY <1>6, <2>2, <2>3
<1>7. CASE RunMesh(w) \/ ReadRowSnapshot(w) \/ StashTokens(w) \/ WriteSummary(w)
  <2>1. CASE RunMesh(w)
    <3>1. PICK r : r = [old EXCEPT !.pc = "recheck", !.reads = Reads[old.task],
                                   !.writes = Writes[old.task]]
      OBVIOUS
    <3>2. r.pc = "recheck" /\ r.task = old.task /\ r.todo = old.todo
      BY <1>2, <3>1 DEF WorkerRow
    <3> QED
      BY <1>1, <2>1, <3>1, <3>2 DEF RunMesh, At
  <2>2. CASE ReadRowSnapshot(w)
    <3>1. PICK r : r = [old EXCEPT !.seen = state[old.task],
                                   !.held = metadata[old.task]]
      OBVIOUS
    <3>2. r.pc = old.pc /\ r.task = old.task /\ r.todo = old.todo
      BY <1>2, <3>1 DEF WorkerRow
    <3> QED
      BY <1>1, <2>2, <3>1, <3>2 DEF ReadRowSnapshot, At
  <2>3. ASSUME NEW pc \in {"pause", "ack"}, StashTokens(w) \/ WriteSummary(w),
               workers' = [workers EXCEPT ![w] =
                             [@ EXCEPT !.pc = pc, !.seen = "absent", !.held = {}]]
        PROVE  Quiet
    <3>1. PICK r : r = [old EXCEPT !.pc = pc, !.seen = "absent", !.held = {}]
      OBVIOUS
    <3>2. r.pc = pc /\ r.task = old.task /\ r.todo = old.todo
      BY <1>2, <3>1 DEF WorkerRow
    <3> QED
      BY <1>1, <2>3, <3>1, <3>2 DEF StashTokens, WriteSummary, At
  <2> QED
    BY <1>7, <2>1, <2>2, <2>3 DEF StashTokens, WriteSummary
<1>8. CASE LinkApproval(w) \/ MarkExecuted(w) \/ MarkRejected(w)
  <2>1. CASE LinkApproval(w)
    <3>1. PICK r : r = [old EXCEPT !.pc = AfterGate(old.writes),
                                   !.writes = old.writes - 1,
                                   !.issued = IssueToken(old.issued, old.call),
                                   !.call = None, !.params = None]
      OBVIOUS
    <3>2. r.pc = AfterGate(old.writes) /\ r.task = old.task /\ r.todo = old.todo
      BY <1>2, <3>1 DEF WorkerRow
    <3>3. r.pc \in {"stash", "gate"}
      BY <3>2 DEF AfterGate
    <3> QED
      BY <1>1, <2>1, <3>1, <3>2, <3>3 DEF LinkApproval, At
  <2>2. CASE MarkExecuted(w) \/ MarkRejected(w)
    <3>1. PICK r : r = [old EXCEPT !.pc = "calls", !.call = None, !.params = None]
      OBVIOUS
    <3>2. r.pc = "calls" /\ r.task = old.task /\ r.todo = old.todo
      BY <1>2, <3>1 DEF WorkerRow
    <3> QED
      BY <1>1, <2>2, <3>1, <3>2 DEF MarkExecuted, MarkRejected, SettleCall, At
  <2> QED
    BY <1>8, <2>1, <2>2
<1> QED
  BY <1>5, <1>6, <1>7, <1>8

\* The list of calls, as a worker about to resume the task reads it.
LEMMA ListPasses ==
  ASSUME IInv, AnswerInv, SendInv, NEW w \in Workers, ListCalls(w)
  PROVE  \E r : /\ workers' = [workers EXCEPT ![w] = r]
                /\ Passes(workers[w], r) /\ TodoRows(r)
<1>1. PICK old : old = workers[w]
  OBVIOUS
<1>2. PICK rows : rows = {<<c, calls[c].params>> :
                            c \in {k \in CallsOf(old.task) : calls[k].linked}}
  OBVIOUS
<1>3. PICK r : r = [old EXCEPT !.pc = "calls", !.todo = rows]
  OBVIOUS
<1>4. old \in WorkerRow /\ old.pc = "list"
  BY <1>1, WorkerSends DEF ListCalls, At
<1>5. r.pc = "calls" /\ r.task = old.task /\ r.todo = rows
  BY <1>3, <1>4 DEF WorkerRow
<1>6. workers' = [workers EXCEPT ![w] = r]
  BY <1>1, <1>2, <1>3 DEF ListCalls
<1>7. \A x, y \in rows : x[1] = y[1] => x = y
  BY <1>2
<1>8. Passes(old, r) /\ TodoRows(r)
  BY <1>4, <1>5, <1>7 DEF Passes, TodoRows, MaySend
<1> QED
  BY <1>1, <1>6, <1>8

\* A row leaves the list as it is taken, so the call is not met again.
LEMMA JudgePasses ==
  ASSUME IInv, AnswerInv, SendInv, NEW w \in Workers, JudgeCall(w)
  PROVE  \E r : /\ workers' = [workers EXCEPT ![w] = r]
                /\ Passes(workers[w], r) /\ TodoRows(r)
<1>1. PICK old : old = workers[w]
  OBVIOUS
<1>2. old \in WorkerRow /\ TodoRows(old) /\ old.pc = "calls"
  BY <1>1, WorkerSends DEF JudgeCall, At
<1>3. PICK row \in old.todo :
        \/ TakeCall(w, row, "exec") \/ TakeCall(w, row, "reject")
        \/ workers' = [workers EXCEPT ![w].todo = @ \ {row}]
  BY <1>1 DEF JudgeCall
<1>4. ASSUME NEW step \in {"exec", "reject"}, TakeCall(w, row, step)
      PROVE  \E r : /\ workers' = [workers EXCEPT ![w] = r]
                    /\ Passes(old, r) /\ TodoRows(r)
  <2>1. PICK r : r = [old EXCEPT !.pc = step, !.todo = old.todo \ {row},
                                 !.call = row[1], !.params = row[2]]
    OBVIOUS
  <2>2. /\ r.pc = step /\ r.task = old.task /\ r.todo = old.todo \ {row}
        /\ r.call = row[1]
    BY <1>2, <2>1 DEF WorkerRow
  <2>3. workers' = [workers EXCEPT ![w] = r]
    BY <1>1, <1>4, <2>1 DEF TakeCall
  <2>4. Passes(old, r)
    BY <1>2, <2>2 DEF Passes, MaySend
  <2>5. TodoRows(r)
    BY <1>2, <2>2 DEF TodoRows
  <2> QED
    BY <2>3, <2>4, <2>5
<1>5. CASE workers' = [workers EXCEPT ![w].todo = @ \ {row}]
  <2>1. PICK r : r = [old EXCEPT !.todo = old.todo \ {row}]
    OBVIOUS
  <2>2. r.pc = "calls" /\ r.task = old.task /\ r.todo = old.todo \ {row}
    BY <1>2, <2>1 DEF WorkerRow
  <2>3. workers' = [workers EXCEPT ![w] = r]
    BY <1>1, <1>5, <2>1
  <2>4. Passes(old, r) /\ TodoRows(r)
    BY <1>2, <2>2 DEF Passes, MaySend, TodoRows
  <2> QED
    BY <1>1, <2>3, <2>4
<1> QED
  BY <1>1, <1>3, <1>4, <1>5

\* A worker's steps that use no call keep the count.
LEMMA WorkerStepSends ==
  ASSUME IInv, IInv', AnswerInv, SendInv, NEW w \in Workers,
         \/ TransitionStep(w) \/ Ack(w) \/ WorkerFault(w) \/ HaltOnBudget(w)
         \/ FreshRunStep(w) /\ ~ReadTool(w) /\ ~GateCall(w)
         \/ ResumeStep(w) /\ ~ExecuteCall(w)
  PROVE  SendInv'
<1>1. \E r : /\ workers' = [workers EXCEPT ![w] = r]
             /\ Passes(workers[w], r) /\ TodoRows(r)
  <2>1. CASE TransitionStep(w) \/ Ack(w) \/ WorkerFault(w) \/ HaltOnBudget(w)
    BY <2>1, EndsPass, MovesPass DEF TransitionStep
  <2>2. CASE FreshRunStep(w) /\ ~ReadTool(w) /\ ~GateCall(w)
    BY <2>2, MovesPass DEF FreshRunStep
  <2>3. CASE ResumeStep(w) /\ ~ExecuteCall(w)
    BY <2>3, MovesPass, ListPasses, JudgePasses DEF ResumeStep
  <2> QED
    BY <2>1, <2>2, <2>3
<1>2. /\ UNCHANGED <<published, executions>>
      /\ queue' \subseteq queue
      /\ \/ UNCHANGED calls
         \/ LinkApproval(w) \/ MarkExecuted(w) \/ MarkRejected(w)
  <2>1. CASE TransitionStep(w) \/ Ack(w) \/ WorkerFault(w) \/ HaltOnBudget(w)
    BY <2>1 DEF TransitionStep, ReadForTransition, RefuseTransition,
                CommitTransition, LoseRace, Ack, WorkerFault, HaltOnBudget,
                store, history
  <2>2. CASE FreshRunStep(w) /\ ~ReadTool(w) /\ ~GateCall(w)
    BY <2>2 DEF FreshRunStep, LoadTask, RunMesh, Recheck, EndReads, OpenApproval,
                LinkApproval, ReadRowSnapshot, StashTokens, WriteSummary,
                store, history
  <2>3. CASE ResumeStep(w) /\ ~ExecuteCall(w)
    BY <2>3 DEF ResumeStep, ListCalls, JudgeCall, MarkExecuted, MarkRejected,
                SettleCall, EndCalls, store, history
  <2> QED
    BY <2>1, <2>2, <2>3
<1>3. ASSUME NEW c \in CallIds
      PROVE  /\ calls[c].status # "absent" => calls'[c].status # "absent"
             /\ \A t \in Tasks : Recorded(c, t)' = Recorded(c, t)
  <2>1. CASE UNCHANGED calls
    BY <2>1 DEF Recorded
  <2>2. CASE LinkApproval(w) \/ MarkExecuted(w) \/ MarkRejected(w)
    <3>0. PICK old : old = workers[w]
      OBVIOUS
    <3>1. PICK status \in {"awaiting_approval", "executed", "rejected"} :
            calls' = [calls EXCEPT ![old.call] =
                        WriteRow(old.task, old.params, status, TRUE)]
      BY <2>2, <3>0 DEF LinkApproval, MarkExecuted, MarkRejected, SettleCall
    <3>2. Recorded(old.call, old.task) /\ old.call \in CallIds
      BY <2>2, <3>0, WorkerSends, WorkerHeld
      DEF CallLocals, HeldCalls, LinkApproval, MarkExecuted, MarkRejected, At
    <3>3. /\ WriteRow(old.task, old.params, status, TRUE).status # "absent"
          /\ WriteRow(old.task, old.params, status, TRUE).task = old.task
      BY DEF WriteRow
    <3>4. calls \in [CallIds -> ToolCallRow]
      BY DEF IInv, TypeOK
    <3> QED
      BY <3>1, <3>2, <3>3, <3>4 DEF Recorded
  <2> QED
    BY <1>2, <2>1, <2>2
<1> QED
  BY <1>1, <1>2, <1>3, PassStep

---------------------------------------------------------------------------
(* Steps that use a delivery for a call *)

\* One worker uses its delivery for call c: it held c and holds it no longer.
LEMMA OneUse ==
  ASSUME IInv, IInv', SendInv, UNCHANGED <<published, queue>>,
         NEW w \in Workers, NEW old, NEW r, old = workers[w],
         workers' = [workers EXCEPT ![w] = r], Passes(old, r), TodoRows(r),
         NEW c \in CallIds, NEW u \in Tasks, w \in Holders(u, c),
         calls'[c].status # "absent" /\ ~MaySend(r, c),
         \A k \in CallIds : calls[k].status # "absent" => calls'[k].status # "absent",
         Used(u, c)' = Used(u, c) + 1,
         \A t \in Tasks, k \in CallIds :
            t # u \/ k # c => Used(t, k)' = Used(t, k)
  PROVE  SendInv'
<1>1. workers'[w] = r /\ \A v \in Workers : v # w => workers'[v] = workers[v]
  BY DEF IInv, TypeOK
<1>2. \A v \in Workers : TodoRows(workers[v])'
  BY <1>1 DEF SendInv, TodoRows
<1>3. ASSUME NEW t \in Tasks, NEW k \in CallIds, NEW v \in Holders(t, k)'
      PROVE  v \in Holders(t, k)
  <2>1. /\ v \in Workers /\ workers'[v].pc # "idle" /\ workers'[v].task = t
        /\ calls'[k].status = "absent" \/ MaySend(workers'[v], k)
    BY <1>3 DEF Holders, MaySend
  <2>2. calls'[k].status = "absent" => calls[k].status = "absent"
    OBVIOUS
  <2>3. CASE v = w
    BY <1>1, <2>1, <2>2, <2>3 DEF Holders, Passes
  <2>4. CASE v # w
    BY <1>1, <2>1, <2>2, <2>4 DEF Holders
  <2> QED
    BY <2>3, <2>4
<1>4. w \notin Holders(u, c)'
  BY <1>1 DEF Holders, MaySend
<1> QED
  BY <1>2, <1>3, <1>4, UseStep

\* A call row is written for a fresh call: one delivery proposes it.
LEMMA ProposeStep ==
  ASSUME IInv, IInv', AnswerInv, SendInv, NEW w \in Workers,
         ReadTool(w) \/ GateCall(w)
  PROVE  SendInv'
<1>1. PICK old : old = workers[w]
  OBVIOUS
<1>2. /\ old \in WorkerRow /\ TodoRows(old) /\ CallLocals(old)
      /\ old.pc \in {"reads", "gate"} /\ old.task \in Tasks
  BY <1>1, WorkerSends DEF ReadTool, GateCall, At
<1>3. PICK c \in FreshCalls, row \in ToolCallRow :
        /\ calls' = [calls EXCEPT ![c] = row]
        /\ row.status # "absent" /\ row.task = old.task
  <2>1. CASE ReadTool(w)
    <3>1. PICK c \in FreshCalls : calls' = [calls EXCEPT ![c] = ReadRow(old.task)]
      BY <1>1, <2>1 DEF ReadTool
    <3>2. /\ ReadRow(old.task) \in ToolCallRow
          /\ ReadRow(old.task).status # "absent"
          /\ ReadRow(old.task).task = old.task
      BY <1>2 DEF ReadRow, ToolCallRow
    <3> QED
      BY <3>1, <3>2
  <2>2. CASE GateCall(w)
    <3>1. PICK c \in FreshCalls, p \in Payloads :
            calls' = [calls EXCEPT ![c] =
                        WriteRow(old.task, p, "awaiting_approval", FALSE)]
      BY <1>1, <2>2 DEF GateCall
    <3>2. /\ WriteRow(old.task, p, "awaiting_approval", FALSE) \in ToolCallRow
          /\ WriteRow(old.task, p, "awaiting_approval", FALSE).status # "absent"
          /\ WriteRow(old.task, p, "awaiting_approval", FALSE).task = old.task
      BY <1>2 DEF WriteRow, ToolCallRow
    <3> QED
      BY <3>1, <3>2
  <2> QED
    BY <2>1, <2>2
<1>4. c \in CallIds /\ calls[c].status = "absent"
  BY DEF FreshCalls
<1>5. PICK r : /\ workers' = [workers EXCEPT ![w] = r]
               /\ r.pc \in {"reads", "open"}
               /\ r.task = old.task /\ r.todo = old.todo
  <2>1. CASE ReadTool(w)
    <3>1. PICK r : r = [old EXCEPT !.reads = old.reads - 1]
      OBVIOUS
    <3>2. r.pc = old.pc /\ r.task = old.task /\ r.todo = old.todo
      BY <1>2, <3>1 DEF WorkerRow
    <3>3. workers' = [workers EXCEPT ![w] = r] /\ old.pc = "reads"
      BY <1>1, <2>1, <3>1 DEF ReadTool, At
    <3> QED
      BY <3>2, <3>3
  <2>2. CASE GateCall(w)
    <3>1. PICK k \in FreshCalls, p \in Payloads :
            workers' = [workers EXCEPT ![w] =
                          [old EXCEPT !.pc = "open", !.call = k, !.params = p]]
      BY <1>1, <2>2 DEF GateCall
    <3>2. PICK r : r = [old EXCEPT !.pc = "open", !.call = k, !.params = p]
      OBVIOUS
    <3>3. r.pc = "open" /\ r.task = old.task /\ r.todo = old.todo
      BY <1>2, <3>2 DEF WorkerRow
    <3> QED
      BY <3>1, <3>2, <3>3
  <2> QED
    BY <2>1, <2>2
<1>6. /\ UNCHANGED <<published, queue, executions>>
  BY DEF ReadTool, GateCall, history
<1>7. Passes(old, r) /\ TodoRows(r)
  BY <1>2, <1>5, QuietPasses
<1>8. /\ calls'[c] = row
      /\ \A k \in CallIds : k # c => calls'[k] = calls[k]
  BY <1>3, <1>4 DEF IInv, TypeOK
<1>9. ~MaySend(r, c)
  <2>1. \A x \in old.todo : x[1] # c
    BY <1>2, <1>4 DEF CallLocals, Recorded
  <2> QED
    BY <1>5, <2>1 DEF MaySend
<1>10. w \in Holders(old.task, c)
  BY <1>1, <1>2, <1>4 DEF Holders
<1>11. Len(executions[c]) = 0
  BY <1>4, FreshUnsent
<1>12. /\ Used(old.task, c) = 0
       /\ Used(old.task, c)' = 1
  BY <1>3, <1>4, <1>6, <1>8, <1>11 DEF Used, Recorded
<1>13. ASSUME NEW t \in Tasks, NEW k \in CallIds, t # old.task \/ k # c
       PROVE  Used(t, k)' = Used(t, k)
  BY <1>3, <1>4, <1>6, <1>8, <1>13 DEF Used, Recorded
<1>14. /\ calls'[c].status # "absent"
       /\ \A k \in CallIds : calls[k].status # "absent" => calls'[k].status # "absent"
       /\ Used(old.task, c)' = Used(old.task, c) + 1
  BY <1>3, <1>8, <1>12
<1> QED
  BY <1>1, <1>2, <1>4, <1>5, <1>6, <1>7, <1>9, <1>10, <1>13, <1>14, OneUse

\* A call is handed to the Tool Gateway: the delivery of this worker is used.
LEMMA ExecuteSends ==
  ASSUME IInv, IInv', AnswerInv, SendInv, NEW w \in Workers, ExecuteCall(w)
  PROVE  SendInv'
<1>1. PICK old : old = workers[w]
  OBVIOUS
<1>2. /\ old \in WorkerRow /\ TodoRows(old) /\ CallLocals(old)
      /\ old.pc = "exec" /\ old.task \in Tasks
  BY <1>1, WorkerSends DEF ExecuteCall, At
<1>3. PICK c \in CallIds : c = old.call
  BY <1>1, <1>2, WorkerHeld DEF HeldCalls
<1>4. Recorded(c, old.task)
  BY <1>2, <1>3 DEF CallLocals
<1>5. PICK r : r = [old EXCEPT !.pc = "mark"]
  OBVIOUS
<1>6. /\ r.pc = "mark" /\ r.task = old.task /\ r.todo = old.todo
  BY <1>2, <1>5 DEF WorkerRow
<1>7. /\ workers' = [workers EXCEPT ![w] = r]
      /\ executions' = [executions EXCEPT ![c] = Append(@, old.params)]
      /\ UNCHANGED <<published, queue, calls>>
  BY <1>1, <1>3, <1>5 DEF ExecuteCall, Goto, store
<1>8. Passes(old, r) /\ TodoRows(r)
  BY <1>2, <1>6, QuietPasses
<1>9. ~MaySend(r, c)
  BY <1>2, <1>3, <1>6 DEF MaySend, TodoRows
<1>10. w \in Holders(old.task, c)
  BY <1>1, <1>2, <1>3 DEF Holders, MaySend
<1>11. /\ executions \in [CallIds -> Seq(Payloads)]
  BY DEF IInv, TypeOK
<1>12. /\ Len(executions'[c]) = Len(executions[c]) + 1
       /\ \A k \in CallIds : k # c => executions'[k] = executions[k]
  BY <1>7, <1>11
<1>13. Len(executions[c]) \in Nat
  BY <1>11
<1>14. Used(old.task, c)' = Used(old.task, c) + 1
  BY <1>4, <1>7, <1>12, <1>13 DEF Used, Recorded
<1>15. ASSUME NEW t \in Tasks, NEW k \in CallIds, t # old.task \/ k # c
       PROVE  Used(t, k)' = Used(t, k)
  BY <1>4, <1>7, <1>12, <1>15 DEF Used, Recorded
<1>16. /\ calls'[c].status # "absent"
       /\ \A k \in CallIds : calls[k].status # "absent" => calls'[k].status # "absent"
  BY <1>4, <1>7 DEF Recorded
<1> QED
  BY <1>1, <1>2, <1>7, <1>8, <1>9, <1>10, <1>14, <1>15, <1>16, OneUse

---------------------------------------------------------------------------
(* Deliveries and new messages *)

\* A delivery takes a chance and makes the worker a holder of every call.
LEMMA DeliverSends ==
  ASSUME IInv, IInv', SendInv, NEW w \in Workers, Deliver(w)
  PROVE  SendInv'
<1>1. PICK m \in queue :
        /\ m.attempts < MaxDeliveries
        /\ queue' = (queue \ {m}) \cup {[m EXCEPT !.attempts = @ + 1]}
        /\ workers' = [workers EXCEPT ![w] =
                         [IdleWorker EXCEPT !.pc = "start",
                                            !.task = m.task, !.seq = m.seq]]
  BY DEF Deliver
<1>2. PICK r : r = [IdleWorker EXCEPT !.pc = "start", !.task = m.task, !.seq = m.seq]
  OBVIOUS
<1>3. PICK n : n = [m EXCEPT !.attempts = @ + 1]
  OBVIOUS
<1>4. /\ m \in Message /\ workers \in [Workers -> WorkerRow]
      /\ UNCHANGED <<published, calls, executions>>
      /\ workers[w].pc = "idle"
      /\ MaxDeliveries \in Nat /\ published \in [Tasks -> Nat]
  BY ConstantsAssumption DEF IInv, TypeOK, Deliver, At, store, history
<1>5. /\ m.task \in Tasks /\ m.attempts \in Nat /\ m.seq \in Nat
      /\ n.task = m.task /\ n.seq = m.seq /\ n.attempts = m.attempts + 1
  BY <1>3, <1>4 DEF Message
<1>6. /\ workers'[w] = r /\ r.pc = "start" /\ r.todo = {} /\ r.task = m.task
      /\ \A v \in Workers : v # w => workers'[v] = workers[v]
      /\ queue' = (queue \ {m}) \cup {n}
  BY <1>1, <1>2, <1>3, <1>4 DEF IdleWorker
<1>7. QueueInv'
  BY <1>4, <1>5, <1>6 DEF SendInv, QueueInv
<1>8. \A v \in Workers : TodoRows(workers[v])'
  BY <1>6 DEF SendInv, TodoRows
<1>9. ASSUME NEW t \in Tasks
      PROVE  /\ Cardinality(Chances(t)') \in Nat
             /\ Cardinality(Chances(t)')
                  <= Cardinality(Chances(t)) - (IF t = m.task THEN 1 ELSE 0)
  <2> DEFINE before == Chances(t)
             after == Chances(t)'
             d == <<m.seq, m.attempts + 1>>
  <2>1. IsFiniteSet(before) /\ Cardinality(before) \in Nat
    BY ChancesFinite DEF IInv
  <2>2. after \in SUBSET before
    <3> SUFFICES ASSUME NEW e \in after PROVE e \in before
      OBVIOUS
    <3>1. /\ e \in (1..published[t]) \X (1..MaxDeliveries)
          /\ \E k \in queue' : k.task = t /\ k.seq = e[1] /\ k.attempts < e[2]
      BY <1>4 DEF Chances
    <3>2. PICK k \in queue' : k.task = t /\ k.seq = e[1] /\ k.attempts < e[2]
      BY <3>1
    <3>3. CASE k = n
      <4>1. m.task = t /\ m.seq = e[1] /\ m.attempts < e[2]
        BY <1>5, <3>1, <3>2, <3>3
      <4> QED
        BY <3>1, <4>1 DEF Chances
    <3>4. CASE k \in queue
      BY <3>1, <3>2, <3>4 DEF Chances
    <3> QED
      BY <1>6, <3>3, <3>4
  <2>3. CASE t = m.task
    <3>1. d \in before
      <4>1. m.seq \in 1..published[t]
        BY <2>3 DEF SendInv, QueueInv
      <4>2. m.attempts + 1 \in 1..MaxDeliveries /\ m.attempts < m.attempts + 1
        BY <1>1, <1>4, <1>5
      <4> QED
        BY <2>3, <4>1, <4>2 DEF Chances
    <3>2. d \notin after
      <4>1. SUFFICES ASSUME d \in after PROVE FALSE
        OBVIOUS
      <4>2. PICK k \in queue' : k.task = t /\ k.seq = m.seq /\ k.attempts < m.attempts + 1
        BY <4>1 DEF Chances
      <4>3. k # n
        BY <1>5, <4>2
      <4>4. k \in queue /\ k # m
        BY <1>6, <4>2, <4>3
      <4> QED
        BY <2>3, <4>2, <4>4 DEF SendInv, QueueInv
    <3> HIDE DEF before, after, d
    <3>3. after \in SUBSET (before \ {d})
      BY <2>2, <3>2
    <3>4. /\ IsFiniteSet(before \ {d})
          /\ Cardinality(before \ {d}) = Cardinality(before) - 1
      BY <2>1, <3>1, FS_RemoveElement
    <3>5. IsFiniteSet(after) /\ Cardinality(after) <= Cardinality(before \ {d})
      BY <3>3, <3>4, FS_Subset
    <3>6. Cardinality(after) \in Nat
      BY <3>5, FS_CardinalityType
    <3>7. Cardinality(after) <= Cardinality(before) - 1
      BY <3>4, <3>5
    <3> QED
      BY <2>3, <3>6, <3>7 DEF before, after
  <2>4. CASE t # m.task
    <3> HIDE DEF before, after
    <3>1. IsFiniteSet(after) /\ Cardinality(after) <= Cardinality(before)
      BY <2>1, <2>2, FS_Subset
    <3>2. Cardinality(after) \in Nat
      BY <3>1, FS_CardinalityType
    <3>3. Cardinality(after) <= Cardinality(before) - 0
      BY <2>1, <3>1, <3>2
    <3> QED
      BY <2>4, <3>2, <3>3 DEF before, after
  <2> QED
    BY <2>3, <2>4
<1>10. ASSUME NEW t \in Tasks, NEW c \in CallIds
       PROVE  /\ IsFiniteSet(Holders(t, c)')
              /\ Cardinality(Holders(t, c)') \in Nat /\ Cardinality(Holders(t, c)) \in Nat
              /\ Cardinality(Holders(t, c)')
                   <= Cardinality(Holders(t, c)) + (IF t = m.task THEN 1 ELSE 0)
  <2> DEFINE before == Holders(t, c)
             after == Holders(t, c)'
  <2>1. IsFiniteSet(before)
    BY DEF SendInv, Covered
  <2>2. \A v \in after : v \in before \/ v = w
    BY <1>4, <1>6 DEF Holders, MaySend
  <2>3. t # m.task => w \notin after
    BY <1>6 DEF Holders
  <2> HIDE DEF before, after
  <2>4. Cardinality(before) \in Nat
    BY <2>1, FS_CardinalityType
  <2>5. CASE t = m.task
    <3>1. after \in SUBSET (before \cup {w})
      BY <2>2
    <3>2. /\ IsFiniteSet(before \cup {w})
          /\ Cardinality(before \cup {w}) =
               IF w \in before THEN Cardinality(before) ELSE Cardinality(before) + 1
      BY <2>1, FS_AddElement
    <3>3. IsFiniteSet(after) /\ Cardinality(after) <= Cardinality(before \cup {w})
      BY <3>1, <3>2, FS_Subset
    <3>4. Cardinality(after) \in Nat
      BY <3>3, FS_CardinalityType
    <3>5. Cardinality(after) <= Cardinality(before) + 1
      BY <2>4, <3>2, <3>3, <3>4
    <3> QED
      BY <2>4, <2>5, <3>3, <3>4, <3>5 DEF before, after
  <2>6. CASE t # m.task
    <3>1. after \in SUBSET before
      BY <2>2, <2>3, <2>6
    <3>2. IsFiniteSet(after) /\ Cardinality(after) <= Cardinality(before)
      BY <2>1, <3>1, FS_Subset
    <3>3. Cardinality(after) \in Nat
      BY <3>2, FS_CardinalityType
    <3>4. Cardinality(after) <= Cardinality(before) + 0
      BY <2>4, <3>2, <3>3
    <3> QED
      BY <2>4, <2>6, <3>2, <3>3, <3>4 DEF before, after
  <2> QED
    BY <2>5, <2>6
<1>11. ASSUME NEW t \in Tasks, NEW c \in CallIds
       PROVE  Covered(t, c)'
  <2>1. Used(t, c)' = Used(t, c) /\ Used(t, c) \in Nat
    BY <1>4, UsedType DEF Used, Recorded, IInv
  <2>2. Cardinality(Chances(t)) \in Nat
    BY ChancesFinite DEF IInv
  <2>3. Used(t, c) + Cardinality(Chances(t)) + Cardinality(Holders(t, c))
          <= MaxDeliveries * published[t]
    BY DEF SendInv, Covered
  <2>4. MaxDeliveries * published[t] \in Nat
    BY <1>4
  <2>5. PICK u, a, b, h, g : /\ u = Used(t, c)
                             /\ a = Cardinality(Chances(t))
                             /\ b = Cardinality(Chances(t)')
                             /\ h = Cardinality(Holders(t, c))
                             /\ g = Cardinality(Holders(t, c)')
    OBVIOUS
  <2>6. /\ u \in Nat /\ a \in Nat /\ b \in Nat /\ h \in Nat /\ g \in Nat
        /\ b <= a - (IF t = m.task THEN 1 ELSE 0)
        /\ g <= h + (IF t = m.task THEN 1 ELSE 0)
    BY <1>9, <1>10, <2>1, <2>2, <2>5
  <2>7. u + b + g <= MaxDeliveries * published[t]
    <3>1. u + b + g <= u + a + h
      BY <2>6
    <3> QED
      BY <2>3, <2>4, <2>5, <2>6, <3>1
  <2>8. Used(t, c)' + Cardinality(Chances(t)') + Cardinality(Holders(t, c)')
          <= MaxDeliveries * published'[t]
    BY <1>4, <2>1, <2>5, <2>7
  <2> QED
    BY <1>10, <2>8 DEF Covered
<1> QED
  BY <1>7, <1>8, <1>11 DEF SendInv

\* A new message brings MaxDeliveries chances, and raises the bound as much.
LEMMA PublishSends ==
  ASSUME IInv, IInv', SendInv, NEW u \in Tasks, Publish(u),
         UNCHANGED <<workers, calls, executions>>
  PROVE  SendInv'
<1>1. PICK s : s = published[u] + 1
  OBVIOUS
<1>2. PICK n : n = [task |-> u, seq |-> s, attempts |-> 0]
  OBVIOUS
<1>3. /\ MaxDeliveries \in Nat /\ published \in [Tasks -> Nat]
      /\ \A m \in queue : m \in Message
  BY ConstantsAssumption DEF IInv, TypeOK
<1>4. /\ published'[u] = s /\ s \in Nat /\ s = published[u] + 1
      /\ \A t \in Tasks : t # u => published'[t] = published[t]
      /\ queue' = queue \cup {n}
      /\ n.task = u /\ n.seq = s /\ n.attempts = 0
  BY <1>1, <1>2, <1>3 DEF Publish
<1>5. \A m \in queue : m.task \in Tasks /\ published[m.task] \in Nat
  BY <1>3 DEF Message
<1>6. QueueInv'
  <2>1. \A m \in queue : m.task = u => m.seq # s
    BY <1>3, <1>4 DEF SendInv, QueueInv
  <2>2. \A m \in queue' : m.seq \in 1..published'[m.task]
    <3>1. \A m \in queue : m.seq \in 1..published'[m.task]
      BY <1>4, <1>5 DEF SendInv, QueueInv
    <3>2. n.seq \in 1..published'[n.task]
      BY <1>3, <1>4
    <3> QED
      BY <1>4, <3>1, <3>2
  <2>3. \A m, k \in queue' : m.task = k.task /\ m.seq = k.seq => m = k
    BY <1>4, <2>1 DEF SendInv, QueueInv
  <2> QED
    BY <2>2, <2>3 DEF QueueInv
<1>7. \A v \in Workers : TodoRows(workers[v])'
  BY DEF SendInv, TodoRows
<1>8. ASSUME NEW t \in Tasks, NEW c \in CallIds
      PROVE  Covered(t, c)'
  <2> DEFINE before == Chances(t)
             after == Chances(t)'
             fresh == {s} \X (1..MaxDeliveries)
  <2>1. Used(t, c)' = Used(t, c) /\ Used(t, c) \in Nat
    BY UsedType DEF Used, Recorded, IInv
  <2>2. IsFiniteSet(Holders(t, c)) /\ Holders(t, c)' = Holders(t, c)
    BY DEF SendInv, Covered, Holders, MaySend
  <2>3. Cardinality(Holders(t, c)) \in Nat
    BY <2>2, FS_CardinalityType
  <2>4. IsFiniteSet(before) /\ Cardinality(before) \in Nat
    BY ChancesFinite DEF IInv
  <2>5. Used(t, c) + Cardinality(before) + Cardinality(Holders(t, c))
          <= MaxDeliveries * published[t]
    BY DEF SendInv, Covered
  <2>6. CASE t = u
    <3>1. after \in SUBSET (before \cup fresh)
      <4> SUFFICES ASSUME NEW e \in after PROVE e \in before \cup fresh
        OBVIOUS
      <4>1. /\ e \in (1..s) \X (1..MaxDeliveries)
            /\ \E k \in queue' : k.task = t /\ k.seq = e[1] /\ k.attempts < e[2]
        BY <1>4, <2>6 DEF Chances
      <4>2. PICK k \in queue' : k.task = t /\ k.seq = e[1] /\ k.attempts < e[2]
        BY <4>1
      <4>3. CASE k = n
        BY <1>4, <4>1, <4>2, <4>3
      <4>4. CASE k \in queue
        <5>1. e[1] \in 1..published[t]
          BY <4>2, <4>4 DEF SendInv, QueueInv
        <5> QED
          BY <4>1, <4>2, <4>4, <5>1 DEF Chances
      <4> QED
        BY <1>4, <4>3, <4>4
    <3>2. /\ IsFiniteSet(fresh)
          /\ Cardinality(fresh) = MaxDeliveries
      <4> DEFINE one == {s}
                 attempts == 1..MaxDeliveries
      <4>1. IsFiniteSet(one) /\ Cardinality(one) = 1
        BY FS_Singleton
      <4>2. 1 \in Int /\ MaxDeliveries \in Int
        BY <1>3
      <4>3. /\ IsFiniteSet(attempts)
            /\ Cardinality(attempts) =
                 IF 1 > MaxDeliveries THEN 0 ELSE MaxDeliveries - 1 + 1
        BY <4>2, FS_Interval
      <4> HIDE DEF one, attempts
      <4>4. /\ IsFiniteSet(one \X attempts)
            /\ Cardinality(one \X attempts) = Cardinality(one) * Cardinality(attempts)
        BY <4>1, <4>3, FS_Product
      <4>5. Cardinality(attempts) = MaxDeliveries
        BY <1>3, <4>3
      <4>6. Cardinality(one \X attempts) = MaxDeliveries
        BY <1>3, <4>1, <4>4, <4>5
      <4> QED
        BY <4>4, <4>6 DEF one, attempts
    <3> HIDE DEF before, after, fresh
    <3>3. /\ IsFiniteSet(before \cup fresh)
          /\ Cardinality(before \cup fresh) =
               Cardinality(before) + Cardinality(fresh) - Cardinality(before \cap fresh)
      BY <2>4, <3>2, FS_Union
    <3>4. Cardinality(before \cap fresh) \in Nat
      BY <2>4, FS_Intersection, FS_CardinalityType
    <3>5. IsFiniteSet(after) /\ Cardinality(after) <= Cardinality(before \cup fresh)
      BY <3>1, <3>3, FS_Subset
    <3>6. Cardinality(after) \in Nat
      BY <3>5, FS_CardinalityType
    <3>7. Cardinality(after) <= Cardinality(before) + MaxDeliveries
      BY <1>3, <2>4, <3>2, <3>3, <3>4, <3>5, <3>6
    <3>8. MaxDeliveries * s = MaxDeliveries * published[t] + MaxDeliveries
      BY <1>3, <1>4, <2>6
    <3>9. MaxDeliveries * published[t] \in Nat
      BY <1>3
    <3>10. Used(t, c) + Cardinality(after) + Cardinality(Holders(t, c))
            <= MaxDeliveries * s
      BY <1>3, <2>1, <2>3, <2>4, <2>5, <3>7, <3>8, <3>9, <3>6
    <3>11. Used(t, c)' + Cardinality(after) + Cardinality(Holders(t, c)')
             <= MaxDeliveries * published'[t]
      BY <1>4, <2>1, <2>2, <2>6, <3>10
    <3> QED
      BY <2>2, <3>11 DEF Covered, after
  <2>7. CASE t # u
    <3>1. after = before
      BY <1>4, <2>7 DEF Chances
    <3>2. Used(t, c)' + Cardinality(after) + Cardinality(Holders(t, c)')
            <= MaxDeliveries * published'[t]
      BY <1>4, <2>1, <2>2, <2>5, <2>7, <3>1
    <3> QED
      BY <2>2, <3>2 DEF Covered
  <2> QED
    BY <2>6, <2>7
<1> QED
  BY <1>6, <1>7, <1>8 DEF SendInv

\* Ingress, approval requests and amendments: they publish, or touch nothing
\* that is counted.
LEMMA OtherSends ==
  ASSUME IInv, IInv', SendInv,
         \/ \E t \in Tasks : IngressNext(t) \/ IngressFault(t)
         \/ \E h \in Handlers : HandlerNext(h) \/ HandlerFault(h)
         \/ \E h \in Handlers, c \in CallIds, d \in Decisions : SubmitDecision(h, c, d)
         \/ \E c \in CallIds, p \in Payloads : AmendParameters(c, p)
         \/ UNCHANGED vars
  PROVE  SendInv'
<1>1. ASSUME UNCHANGED <<workers, executions, queue, published>>,
             \A c \in CallIds : /\ calls'[c].status = calls[c].status
                                /\ calls'[c].task = calls[c].task
      PROVE  SendInv'
  <2>1. \A w \in Workers : TodoRows(workers[w])'
    BY <1>1 DEF SendInv, TodoRows
  <2>2. \A t \in Tasks, c \in CallIds :
          Holders(t, c)' \subseteq Holders(t, c) /\ Used(t, c)' = Used(t, c)
    BY <1>1 DEF Holders, MaySend, Used, Recorded
  <2> QED
    BY <1>1, <2>1, <2>2, UseStep
<1>2. ASSUME NEW u \in Tasks, Publish(u), UNCHANGED <<workers, calls, executions>>
      PROVE  SendInv'
  BY <1>2, PublishSends
<1>3. ASSUME NEW t \in Tasks, IngressNext(t) \/ IngressFault(t)
      PROVE  SendInv'
  <2>1. CASE PublishTask(t)
    BY <1>2, <2>1 DEF PublishTask, store, history
  <2>2. CASE CreateTask(t) \/ EnqueueTask(t) \/ IngressFault(t)
    BY <1>1, <2>2 DEF CreateTask, EnqueueTask, IngressFault, store, history
  <2> QED
    BY <1>3, <2>1, <2>2 DEF IngressNext
<1>4. ASSUME NEW h \in Handlers, HandlerNext(h) \/ HandlerFault(h)
      PROVE  SendInv'
  <2>1. CASE PublishResume(h)
    <3>1. PICK u : u = handlers[h].task
      OBVIOUS
    <3>2. u \in Tasks
      BY <2>1, <3>1 DEF PublishResume, IInv
    <3>3. Publish(u) /\ UNCHANGED <<workers, calls, executions>>
      BY <2>1, <3>1 DEF PublishResume, Publish, store, history
    <3> QED
      BY <1>2, <3>2, <3>3
  <2>2. CASE ReadForDecision(h) \/ RefuseDecision(h) \/ CommitDecision(h)
             \/ LoseDecision(h) \/ HandlerFault(h)
    BY <1>1, <2>2 DEF ReadForDecision, RefuseDecision, CommitDecision,
                      LoseDecision, HandlerFault, store, history
  <2> QED
    BY <1>4, <2>1, <2>2 DEF HandlerNext
<1>5. ASSUME NEW h \in Handlers, NEW c \in CallIds, NEW d \in Decisions,
             SubmitDecision(h, c, d)
      PROVE  SendInv'
  BY <1>1, <1>5 DEF SubmitDecision
<1>6. ASSUME NEW c \in CallIds, NEW p \in Payloads, AmendParameters(c, p)
      PROVE  SendInv'
  <2>1. calls \in [CallIds -> ToolCallRow]
    BY DEF IInv, TypeOK
  <2>2. \A k \in CallIds : /\ calls'[k].status = calls[k].status
                           /\ calls'[k].task = calls[k].task
    BY <1>6, <2>1 DEF AmendParameters, ToolCallRow
  <2> QED
    BY <1>1, <1>6, <2>2 DEF AmendParameters, history
<1>7. CASE UNCHANGED vars
  BY <1>1, <1>7 DEF vars
<1> QED
  BY <1>3, <1>4, <1>5, <1>6, <1>7

LEMMA NextSends ==
  IInv /\ AnswerInv /\ SendInv /\ [Next]_vars /\ IInv' => SendInv'
<1> SUFFICES ASSUME IInv, AnswerInv, SendInv, [Next]_vars, IInv' PROVE SendInv'
  OBVIOUS
<1>1. ASSUME NEW w \in Workers,
             Deliver(w) \/ WorkerNext(w) \/ HaltOnBudget(w) \/ WorkerFault(w)
      PROVE  SendInv'
  <2>1. CASE Deliver(w)
    BY <2>1, DeliverSends
  <2>2. CASE ReadTool(w) \/ GateCall(w)
    BY <2>2, ProposeStep
  <2>3. CASE ExecuteCall(w)
    BY <2>3, ExecuteSends
  <2>4. CASE ~Deliver(w) /\ ~ReadTool(w) /\ ~GateCall(w) /\ ~ExecuteCall(w)
    BY <1>1, <2>4, WorkerStepSends DEF WorkerNext
  <2> QED
    BY <2>1, <2>2, <2>3, <2>4
<1> QED
  BY <1>1, OtherSends DEF Next, Environment

LEMMA InitSends == Init => SendInv
<1> SUFFICES ASSUME Init PROVE SendInv
  OBVIOUS
<1>1. QueueInv
  BY DEF Init, QueueInv
<1>2. \A w \in Workers : TodoRows(workers[w])
  BY DEF Init, TodoRows, IdleWorker
<1>3. ASSUME NEW t \in Tasks, NEW c \in CallIds PROVE Covered(t, c)
  <2>1. Holders(t, c) = {} /\ Chances(t) = {} /\ Used(t, c) = 0
    BY DEF Init, Holders, IdleWorker, Chances, Used, Recorded, NoCallRow
  <2>2. published[t] = 0 /\ MaxDeliveries * 0 = 0
    BY ConstantsAssumption DEF Init
  <2> QED
    BY <2>1, <2>2, FS_EmptySet DEF Covered
<1> QED
  BY <1>1, <1>2, <1>3 DEF SendInv

\* For any number of deliveries a message may have, threads, requests and
\* deaths: a call goes out fewer times than the messages of its task can be
\* delivered.  What repeats a write is redelivery, one send for each delivery,
\* and a delivery that proposed the write does not send it.
THEOREM RedeliveryAloneRepeats == Spec => []SendsBelowDeliveries
<1>1. Init => SendInv
  BY InitSends
<1>2. IInv /\ AnswerInv /\ SendInv /\ [Next]_vars /\ IInv' => SendInv'
  BY NextSends
<1>3. IInv /\ SendInv => SendsBelowDeliveries
  <2> SUFFICES ASSUME IInv, SendInv, NEW c \in CallIds, calls[c].status # "absent"
               PROVE  Len(executions[c]) < MaxDeliveries * published[calls[c].task]
    BY DEF SendsBelowDeliveries
  <2>1. PICK t \in Tasks : t = calls[c].task
    BY DEF IInv, StoreInv
  <2>2. Used(t, c) = Len(executions[c]) + 1
    BY <2>1 DEF Used, Recorded
  <2>3. IsFiniteSet(Holders(t, c))
    BY DEF SendInv, Covered
  <2>4. Cardinality(Holders(t, c)) \in Nat /\ Cardinality(Chances(t)) \in Nat
    BY <2>3, ChancesFinite, FS_CardinalityType DEF IInv
  <2>5. Used(t, c) + Cardinality(Chances(t)) + Cardinality(Holders(t, c))
          <= MaxDeliveries * published[t]
    BY DEF SendInv, Covered
  <2>6. /\ executions[c] \in Seq(Payloads) /\ published[t] \in Nat
        /\ MaxDeliveries \in Nat
    BY ConstantsAssumption DEF IInv, TypeOK
  <2>7. Len(executions[c]) \in Nat /\ MaxDeliveries * published[t] \in Nat
    BY <2>6
  <2> QED
    BY <2>1, <2>2, <2>4, <2>5, <2>7
<1> QED
  BY <1>1, <1>2, <1>3, AnswerInvariance, PTL DEF Spec

=============================================================================
