------------------------ MODULE SingleDeliveryProofs ------------------------
(***************************************************************************)
(* Theorems about ApprovalMesh when every message is delivered once        *)
(* (MaxDeliveries = 1), for any number of tasks, worker threads, requests  *)
(* and faults, and with anybody amending call rows: a write goes out at    *)
(* most once, only while its task stands approved, and never after a       *)
(* rejection; no approval token is lost; and the store implements          *)
(* TaskLifecycle although workers upsert whole rows.                       *)
(*                                                                         *)
(* The argument: a task is published twice at most, by its ingress and by  *)
(* the one request that wins its approval.  Each message makes one run,    *)
(* and the state of the task tells which of the two runs may still act on  *)
(* it: the first while it is queued or running, the second while it is     *)
(* approved.  So nobody ever acts on a task at the same time as somebody   *)
(* else, and every snapshot a worker writes back is up to date.            *)
(***************************************************************************)
EXTENDS ApprovalAnswerProofs

FirstRunSteps ==
    {"start", "claim", "mesh", "halt", "recheck", "reads", "gate", "open",
     "link", "stash", "pause", "complete", "summary", "ack"}

SecondRunSteps ==
    {"start", "resume", "list", "calls", "exec", "mark", "reject", "finish",
     "ack"}

\* The writes recorded for task t.
Gated(t) == {c \in CallIds : Recorded(c, t) /\ ~calls[c].is_read}

\* Call c was neither sent nor turned down.
Untouched(c) == executions[c] = <<>> /\ calls[c].status # "rejected"

AllUntouched(t) == \A c \in CallIds : Recorded(c, t) => Untouched(c)

\* The run of the ingress's message: the only one to act on a queued or
\* running task, and the only one to record its writes.
FirstRun(r) ==
    /\ r.pc \in FirstRunSteps
    /\ r.pc \in {"start", "claim"} => state[r.task] = "queued"
    /\ r.pc \in {"mesh", "halt", "reads", "gate", "open", "link", "stash",
                 "pause", "complete"} => state[r.task] = "running"
    /\ r.pc = "recheck" => state[r.task] \in {"running", "failed"}
    /\ r.pc = "summary" => state[r.task] = "completed"
    /\ r.pc \in {"stash", "summary"} /\ r.seen # "absent" =>
         r.seen = state[r.task]
    /\ r.pc \in {"mesh", "halt", "recheck", "reads"} => Gated(r.task) = {}
    /\ r.pc \in {"gate", "stash"} => Gated(r.task) \subseteq r.issued
    /\ r.pc \in {"open", "link"} => Gated(r.task) \subseteq r.issued \cup {r.call}
    /\ r.pc = "pause" => Gated(r.task) \subseteq metadata[r.task]

\* The run of the approval's message: what it has yet to handle is untouched.
SecondRun(r) ==
    /\ r.pc \in SecondRunSteps
    /\ r.pc # "ack" => state[r.task] = "approved"
    /\ r.pc \in {"start", "resume", "list"} => AllUntouched(r.task)
    /\ r.pc \in {"calls", "exec", "mark", "reject"} =>
         /\ \A row \in r.todo : Untouched(row[1])
         /\ \A a, b \in r.todo : a[1] = b[1] => a = b
    /\ r.pc \in {"exec", "mark", "reject"} => \A row \in r.todo : row[1] # r.call
    /\ r.pc \in {"exec", "reject"} => Untouched(r.call)

OnceWorker(r) ==
    r.pc # "idle" =>
        /\ r.seq \in {1, 2}
        /\ r.seq <= published[r.task]
        /\ r.seq = 1 => FirstRun(r)
        /\ r.seq = 2 => SecondRun(r)

\* A message that nobody got yet finds the task as its publisher left it.
OnceMessage(m) ==
    /\ m.seq \in {1, 2}
    /\ m.seq <= published[m.task]
    /\ m.attempts = 0 /\ m.seq = 1 => state[m.task] = "queued"
    /\ m.attempts = 0 /\ m.seq = 2 =>
         state[m.task] = "approved" /\ AllUntouched(m.task)

Holds(r, m) == r.pc # "idle" /\ r.task = m.task /\ r.seq = m.seq

OnceTask(t) ==
    /\ published[t] \in {0, 1, 2}
    /\ ingress[t] # "done" => published[t] = 0
    /\ ingress[t] = "queued" => state[t] = "queued"
    /\ published[t] = 0 => state[t] \in Early
    /\ published[t] = 2 => state[t] \in {"approved", "completed"}
    /\ state[t] \in Early => \A c \in CallIds : ~Recorded(c, t)
    /\ state[t] = "awaiting_approval" => Gated(t) \subseteq metadata[t]

\* The request that won the approval is about to publish the second message.
OnceHandler(r) ==
    r.pc = "publish" => state[r.task] = "approved" /\ published[r.task] = 1

OnceCall(c) ==
    /\ ~Untouched(c) => calls[c].status # "absent" /\ published[calls[c].task] = 2
    /\ calls[c].status = "rejected" => executions[c] = <<>>
    /\ Len(executions[c]) <= 1

\* No message is there twice, and none is in anybody's hands before it is
\* delivered.
Separate ==
    /\ \A v, w \in Workers : v # w => ~Holds(workers[v], workers[w])
                                      \/ workers[w].pc = "idle"
    /\ \A m, k \in queue : m.task = k.task /\ m.seq = k.seq => m = k
    /\ \A m \in queue, w \in Workers : m.attempts = 0 => ~Holds(workers[w], m)
    /\ \A g, h \in Handlers :
         /\ g # h
         /\ handlers[g].pc = "publish"
         /\ handlers[h].pc = "publish"
         => handlers[g].task # handlers[h].task

OnceInv ==
    /\ \A w \in Workers : OnceWorker(workers[w])
    /\ \A m \in queue : OnceMessage(m)
    /\ \A t \in Tasks : OnceTask(t)
    /\ \A h \in Handlers : OnceHandler(handlers[h])
    /\ \A c \in CallIds : OnceCall(c)
    /\ Separate

---------------------------------------------------------------------------
(* What a step does not touch *)

\* What the runs, messages and requests of task t rely on is as it was.
KeepsTask(t) ==
    /\ state'[t] = state[t]
    /\ state[t] # "completed" => metadata'[t] = metadata[t]
    /\ \A c \in CallIds :
         /\ Recorded(c, t)' <=> Recorded(c, t)
         /\ Recorded(c, t) => /\ calls'[c].is_read = calls[c].is_read
                              /\ Untouched(c)' <=> Untouched(c)

LEMMA GatedKept ==
  ASSUME NEW t, KeepsTask(t)
  PROVE  Gated(t)' = Gated(t) /\ (AllUntouched(t) => AllUntouched(t)')
<1>1. \A c \in CallIds : (Recorded(c, t) /\ ~calls[c].is_read)'
                         <=> Recorded(c, t) /\ ~calls[c].is_read
  BY DEF KeepsTask
<1>2. Gated(t)' = Gated(t)
  BY <1>1 DEF Gated
<1>3. AllUntouched(t) => AllUntouched(t)'
  BY DEF KeepsTask, AllUntouched
<1> QED
  BY <1>2, <1>3

LEMMA RunKept ==
  ASSUME NEW r \in WorkerRow, KeepsTask(r.task),
         r.pc # "idle" => r.seq <= published'[r.task],
         HeldCalls(r), CallLocals(r), OnceWorker(r)
  PROVE  OnceWorker(r)'
<1>1. FirstRun(r) => FirstRun(r)'
  <2>1. Gated(r.task)' = Gated(r.task)
    BY GatedKept
  <2>2. /\ state'[r.task] = state[r.task]
        /\ state[r.task] # "completed" => metadata'[r.task] = metadata[r.task]
    BY DEF KeepsTask
  <2> QED
    BY <2>1, <2>2 DEF FirstRun
<1>2. SecondRun(r) => SecondRun(r)'
  <2> SUFFICES ASSUME SecondRun(r) PROVE SecondRun(r)'
    OBVIOUS
  <2>1. AllUntouched(r.task) => AllUntouched(r.task)'
    BY GatedKept
  <2>2. \A c \in CallIds : Recorded(c, r.task) /\ Untouched(c) => Untouched(c)'
    BY DEF KeepsTask
  <2>3. \A row \in r.todo : row[1] \in CallIds /\ Recorded(row[1], r.task)
    BY DEF WorkerRow, CallLocals
  <2>4. r.pc \in {"exec", "reject"} => r.call \in CallIds /\ Recorded(r.call, r.task)
    BY DEF HeldCalls, CallLocals
  <2>5. state'[r.task] = state[r.task]
    BY DEF KeepsTask
  <2>6. r.pc \in {"calls", "exec", "mark", "reject"} =>
          \A row \in r.todo : Untouched(row[1])'
    BY <2>2, <2>3 DEF SecondRun
  <2>7. r.pc \in {"exec", "reject"} => Untouched(r.call)'
    BY <2>2, <2>4 DEF SecondRun
  <2> QED
    BY <2>1, <2>5, <2>6, <2>7 DEF SecondRun
<1> QED
  BY <1>1, <1>2 DEF OnceWorker

LEMMA MessageKept ==
  ASSUME NEW m, KeepsTask(m.task), m.seq <= published'[m.task], OnceMessage(m)
  PROVE  OnceMessage(m)'
  BY GatedKept DEF OnceMessage, KeepsTask

LEMMA TaskKept ==
  ASSUME NEW t, KeepsTask(t), published'[t] = published[t],
         ingress'[t] \in {ingress[t], "done"}, OnceTask(t)
  PROVE  OnceTask(t)'
<1>1. Gated(t)' = Gated(t)
  BY GatedKept
<1>2. \A c \in CallIds : Recorded(c, t)' <=> Recorded(c, t)
  BY DEF KeepsTask
<1>3. /\ state'[t] = state[t]
      /\ state[t] # "completed" => metadata'[t] = metadata[t]
  BY DEF KeepsTask
<1> QED
  BY <1>1, <1>2, <1>3 DEF OnceTask

LEMMA WorkerFacts ==
  ASSUME IInv, AnswerInv, OnceInv, NEW w \in Workers
  PROVE  /\ workers[w] \in WorkerRow /\ WorkerInv(workers[w])
         /\ HeldCalls(workers[w])
         /\ CallLocals(workers[w]) /\ SnapshotLocals(workers[w])
         /\ OnceWorker(workers[w])
         /\ workers[w].pc # "idle" => workers[w].task \in Tasks
<1>1. workers[w] \in WorkerRow /\ HeldCalls(workers[w])
  BY WorkerHeld
<1>2. WorkerInv(workers[w])
  BY DEF IInv
<1>3. CallLocals(workers[w]) /\ SnapshotLocals(workers[w])
  BY DEF AnswerInv, AnswerWorker
<1> QED
  BY <1>1, <1>2, <1>3 DEF OnceInv, WorkerInv

\* A step that touches no task at all, and leaves the worker or request that
\* moved in the same run and well informed.
LEMMA KeptStep ==
  ASSUME IInv, AnswerInv, OnceInv, queue' \subseteq queue, UNCHANGED published,
         \A u \in Tasks : KeepsTask(u) /\ ingress'[u] \in {ingress[u], "done"},
         \A v \in Workers :
            \/ workers'[v] = workers[v]
            \/ workers'[v].pc = "idle"
            \/ /\ OnceWorker(workers[v])'
               /\ workers[v].pc # "idle"
               /\ workers'[v].task = workers[v].task
               /\ workers'[v].seq = workers[v].seq,
         \A h \in Handlers : \/ handlers'[h] = handlers[h]
                             \/ handlers'[h].pc # "publish",
         \A c \in CallIds : OnceCall(c)'
  PROVE  OnceInv'
<1>1. ASSUME NEW v \in Workers PROVE OnceWorker(workers[v])'
  <2>1. CASE workers'[v] = workers[v] /\ workers[v].pc # "idle"
    <3>1. PICK r \in WorkerRow : r = workers[v]
      BY WorkerFacts
    <3>2. r.task \in Tasks /\ HeldCalls(r) /\ CallLocals(r) /\ OnceWorker(r)
      BY <2>1, <3>1, WorkerFacts
    <3>3. OnceWorker(r)'
      <4>1. r.pc # "idle" => r.seq <= published'[r.task]
        BY <3>2 DEF OnceWorker
      <4> QED
        BY <3>2, <4>1, RunKept
    <3>4. r = workers'[v]
      BY <2>1, <3>1
    <3> QED
      BY <3>3, <3>4
  <2>2. CASE workers'[v].pc = "idle"
    BY <2>2 DEF OnceWorker
  <2> QED
    BY <2>1, <2>2
<1>2. ASSUME NEW m \in queue' PROVE OnceMessage(m)'
  <2>1. m \in queue /\ m.task \in Tasks
    BY DEF IInv, TypeOK, Message
  <2>2. OnceMessage(m) /\ m.seq <= published'[m.task]
    BY <2>1 DEF OnceInv, OnceMessage
  <2> QED
    BY <2>1, <2>2, MessageKept
<1>3. ASSUME NEW t \in Tasks PROVE OnceTask(t)'
  BY TaskKept DEF OnceInv
<1>4. ASSUME NEW h \in Handlers PROVE OnceHandler(handlers[h])'
  <2>1. CASE handlers'[h].pc # "publish"
    BY <2>1 DEF OnceHandler
  <2>2. CASE handlers'[h] = handlers[h] /\ handlers[h].pc = "publish"
    <3>1. PICK u \in Tasks : u = handlers[h].task
      BY <2>2 DEF IInv
    <3>2. state'[u] = state[u] /\ published'[u] = published[u]
      BY DEF KeepsTask
    <3>3. state[u] = "approved" /\ published[u] = 1
      BY <2>2, <3>1 DEF OnceInv, OnceHandler
    <3> QED
      BY <2>2, <3>1, <3>2, <3>3 DEF OnceHandler
  <2> QED
    BY <2>1, <2>2
<1>5. Separate'
  <2>1. \A v \in Workers : workers'[v].pc # "idle" =>
          /\ workers[v].pc # "idle"
          /\ workers'[v].task = workers[v].task
          /\ workers'[v].seq = workers[v].seq
    OBVIOUS
  <2>2. \A v, w \in Workers : v # w => ~Holds(workers'[v], workers'[w])
                                       \/ workers'[w].pc = "idle"
    BY <2>1 DEF OnceInv, Separate, Holds
  <2>3. \A m \in queue, w \in Workers : m.attempts = 0 => ~Holds(workers'[w], m)
    BY <2>1 DEF OnceInv, Separate, Holds
  <2>4. \A g, h \in Handlers :
          /\ g # h
          /\ handlers'[g].pc = "publish"
          /\ handlers'[h].pc = "publish"
          => handlers'[g].task # handlers'[h].task
    BY DEF OnceInv, Separate
  <2> QED
    BY <2>2, <2>3, <2>4 DEF OnceInv, Separate, Holds
<1> QED
  BY <1>1, <1>2, <1>3, <1>4, <1>5 DEF OnceInv

\* A step on task t alone, with nobody else at work on t: other runs of t are
\* about to be acknowledged, and no message or request waits to be acted on.
LEMMA ActStep ==
  ASSUME IInv, AnswerInv, OnceInv, NEW t \in Tasks, UNCHANGED <<queue, published>>,
         \A u \in Tasks : u # t => KeepsTask(u) /\ ingress'[u] = ingress[u],
         \A v \in Workers :
            \/ /\ workers'[v] = workers[v]
               /\ workers[v].task = t => workers[v].pc \in {"idle", "ack"}
            \/ /\ OnceWorker(workers[v])'
               /\ workers[v].pc # "idle"
               /\ workers'[v].task = workers[v].task
               /\ workers'[v].seq = workers[v].seq,
         \A m \in queue : m.task = t => m.attempts # 0,
         \A h \in Handlers :
            handlers[h].pc = "publish" => handlers[h].task # t,
         \A h \in Handlers :
            \/ handlers'[h] = handlers[h]
            \/ handlers'[h].pc = "publish" =>
                 /\ OnceHandler(handlers[h])'
                 /\ handlers'[h].task = t
                 /\ \A g \in Handlers : g # h => handlers'[g] = handlers[g],
         OnceTask(t)',
         \A c \in CallIds : OnceCall(c)'
  PROVE  OnceInv'
<1>1. ASSUME NEW v \in Workers PROVE OnceWorker(workers[v])'
  <2>1. CASE workers'[v] = workers[v] /\ workers[v].pc # "idle"
    <3>1. PICK r \in WorkerRow : r = workers[v]
      BY WorkerFacts
    <3>2. r.task \in Tasks /\ HeldCalls(r) /\ CallLocals(r) /\ OnceWorker(r)
      BY <2>1, <3>1, WorkerFacts
    <3>3. r = workers'[v]
      BY <2>1, <3>1
    <3>4. CASE r.task # t
      <4>1. KeepsTask(r.task) /\ (r.pc # "idle" => r.seq <= published'[r.task])
        BY <3>2, <3>4 DEF OnceWorker
      <4>2. OnceWorker(r)'
        BY <3>2, <4>1, RunKept
      <4> QED
        BY <3>3, <4>2
    <3>5. CASE r.task = t
      <4>1. r.pc = "ack" \/ OnceWorker(workers[v])'
        BY <2>1, <3>1, <3>5
      <4>2. ASSUME r.pc = "ack" PROVE OnceWorker(r)'
        <5>1. r.seq \in {1, 2} /\ r.seq <= published[r.task]
          BY <3>2, <4>2 DEF OnceWorker
        <5>2. FirstRun(r)' /\ SecondRun(r)'
          BY <4>2 DEF FirstRun, SecondRun, FirstRunSteps, SecondRunSteps
        <5> QED
          BY <5>1, <5>2 DEF OnceWorker
      <4> QED
        BY <3>3, <4>1, <4>2
    <3> QED
      BY <3>4, <3>5
  <2>2. CASE workers'[v].pc = "idle"
    BY <2>2 DEF OnceWorker
  <2> QED
    BY <2>1, <2>2
<1>2. ASSUME NEW m \in queue' PROVE OnceMessage(m)'
  <2>1. m \in queue /\ m.task \in Tasks /\ OnceMessage(m)
    BY DEF IInv, TypeOK, Message, OnceInv
  <2>2. CASE m.task # t
    <3>1. m.seq <= published'[m.task]
      BY <2>1 DEF OnceMessage
    <3> QED
      BY <2>1, <2>2, <3>1, MessageKept
  <2>3. CASE m.task = t
    BY <2>1, <2>3 DEF OnceMessage
  <2> QED
    BY <2>2, <2>3
<1>3. ASSUME NEW u \in Tasks PROVE OnceTask(u)'
  <2>1. CASE u # t
    BY <2>1, TaskKept DEF OnceInv
  <2> QED
    BY <2>1
<1>4. ASSUME NEW h \in Handlers PROVE OnceHandler(handlers[h])'
  <2>1. CASE handlers'[h].pc # "publish"
    BY <2>1 DEF OnceHandler
  <2>2. CASE handlers'[h] = handlers[h] /\ handlers[h].pc = "publish"
    <3>1. PICK u \in Tasks : u = handlers[h].task
      BY <2>2 DEF IInv
    <3>2. u # t
      BY <2>2, <3>1
    <3>3. state'[u] = state[u] /\ published'[u] = published[u]
      BY <3>2 DEF KeepsTask
    <3>4. state[u] = "approved" /\ published[u] = 1
      BY <2>2, <3>1 DEF OnceInv, OnceHandler
    <3> QED
      BY <2>2, <3>1, <3>3, <3>4 DEF OnceHandler
  <2> QED
    BY <2>1, <2>2
<1>5. Separate'
  <2>1. \A v \in Workers : workers'[v].pc # "idle" =>
          /\ workers[v].pc # "idle"
          /\ workers'[v].task = workers[v].task
          /\ workers'[v].seq = workers[v].seq
    OBVIOUS
  <2>2. \A v, w \in Workers : v # w => ~Holds(workers'[v], workers'[w])
                                       \/ workers'[w].pc = "idle"
    BY <2>1 DEF OnceInv, Separate, Holds
  <2>3. \A m \in queue, w \in Workers : m.attempts = 0 => ~Holds(workers'[w], m)
    BY <2>1 DEF OnceInv, Separate, Holds
  <2>4. \A g, h \in Handlers :
          /\ g # h
          /\ handlers'[g].pc = "publish"
          /\ handlers'[h].pc = "publish"
          => handlers'[g].task # handlers'[h].task
    BY DEF OnceInv, Separate
  <2> QED
    BY <2>2, <2>3, <2>4 DEF OnceInv, Separate, Holds
<1> QED
  BY <1>1, <1>2, <1>3, <1>4, <1>5 DEF OnceInv

---------------------------------------------------------------------------
(* Steps that leave every task alone *)

LEMMA LocalOnce ==
  ASSUME IInv, AnswerInv, OnceInv, NEW w \in Workers, NEW r,
         workers' = [workers EXCEPT ![w] = r],
         \/ r.pc = "idle"
         \/ /\ OnceWorker(r) /\ workers[w].pc # "idle"
            /\ r.task = workers[w].task /\ r.seq = workers[w].seq,
         queue' \subseteq queue,
         UNCHANGED <<state, metadata, calls, executions, published, handlers,
                     ingress>>
  PROVE  OnceInv'
<1>1. /\ \A c \in CallIds : Untouched(c)' = Untouched(c)
      /\ \A c, t : Recorded(c, t)' = Recorded(c, t)
  BY DEF Untouched, Recorded
<1>2. \A u \in Tasks : KeepsTask(u) /\ ingress'[u] = ingress[u]
  BY <1>1 DEF KeepsTask
<1>3. \A c \in CallIds : OnceCall(c)'
  BY DEF OnceInv, OnceCall, Untouched
<1>4. OnceWorker(r) => OnceWorker(r)'
  <2>1. Gated(r.task)' = Gated(r.task)
    BY DEF Gated, Recorded
  <2>2. AllUntouched(r.task)' = AllUntouched(r.task)
    BY DEF AllUntouched, Recorded, Untouched
  <2>3. FirstRun(r) => FirstRun(r)'
    BY <2>1 DEF FirstRun
  <2>4. SecondRun(r) => SecondRun(r)'
    BY <2>2 DEF SecondRun, Untouched
  <2> QED
    BY <2>3, <2>4 DEF OnceWorker
<1>5. workers'[w] = r /\ \A v \in Workers : v # w => workers'[v] = workers[v]
  BY DEF IInv, TypeOK
<1>6. \A v \in Workers :
        \/ workers'[v] = workers[v]
        \/ workers'[v].pc = "idle"
        \/ /\ OnceWorker(workers[v])'
           /\ workers[v].pc # "idle"
           /\ workers'[v].task = workers[v].task
           /\ workers'[v].seq = workers[v].seq
  BY <1>4, <1>5
<1> QED
  BY <1>2, <1>3, <1>6, KeptStep

\* A worker reads the row it is about to change or to write back.
LEMMA ReadOnce ==
  ASSUME IInv, AnswerInv, OnceInv, NEW w \in Workers,
         ReadForTransition(w) \/ ReadRowSnapshot(w)
  PROVE  OnceInv'
<1> DEFINE old == workers[w]
<1>0. /\ old \in WorkerRow /\ OnceWorker(old)
      /\ UNCHANGED <<state, metadata, calls, executions, queue, published,
                     handlers, ingress>>
  BY WorkerFacts DEF ReadForTransition, ReadRowSnapshot, store, history
<1>1. PICK r : /\ workers' = [workers EXCEPT ![w] = r]
               /\ r.task = old.task /\ r.seq = old.seq /\ r.pc = old.pc
               /\ r.todo = old.todo /\ r.issued = old.issued /\ r.call = old.call
               /\ r.seen = state[old.task]
  <2>1. CASE ReadForTransition(w)
    <3> DEFINE r == [old EXCEPT !.seen = state[old.task]]
    <3>1. workers' = [workers EXCEPT ![w] = r]
      BY <2>1 DEF ReadForTransition
    <3>2. /\ r.task = old.task /\ r.seq = old.seq /\ r.pc = old.pc
          /\ r.todo = old.todo /\ r.issued = old.issued /\ r.call = old.call
          /\ r.seen = state[old.task]
      BY <1>0 DEF WorkerRow
    <3> QED
      BY <3>1, <3>2
  <2>2. CASE ReadRowSnapshot(w)
    <3> DEFINE r == [old EXCEPT !.seen = state[old.task],
                                !.held = metadata[old.task]]
    <3>1. workers' = [workers EXCEPT ![w] = r]
      BY <2>2 DEF ReadRowSnapshot
    <3>2. /\ r.task = old.task /\ r.seq = old.seq /\ r.pc = old.pc
          /\ r.todo = old.todo /\ r.issued = old.issued /\ r.call = old.call
          /\ r.seen = state[old.task]
      BY <1>0 DEF WorkerRow
    <3> QED
      BY <3>1, <3>2
  <2> QED
    BY <2>1, <2>2
<1>2. old.pc # "idle"
  BY DEF ReadForTransition, ReadRowSnapshot, At, TransitionSteps
<1>3. FirstRun(old) => FirstRun(r)
  BY <1>1 DEF FirstRun
<1>4. SecondRun(old) => SecondRun(r)
  BY <1>1 DEF SecondRun
<1>5. OnceWorker(r)
  BY <1>0, <1>1, <1>2, <1>3, <1>4 DEF OnceWorker
<1> QED
  BY <1>0, <1>1, <1>2, <1>5, LocalOnce

\* A worker gives up: its message is not acknowledged.  Only a worker at
\* "halt" goes on, in the state it was in.
LEMMA GiveUpOnce ==
  ASSUME IInv, AnswerInv, OnceInv, NEW w \in Workers,
         RefuseTransition(w) \/ LoseRace(w) \/ WorkerFault(w)
  PROVE  OnceInv'
<1> DEFINE old == workers[w]
<1>0. /\ old \in WorkerRow /\ OnceWorker(old) /\ old.pc # "idle"
      /\ UNCHANGED <<state, metadata, calls, executions, queue, published,
                     handlers, ingress>>
  BY WorkerFacts
  DEF RefuseTransition, LoseRace, WorkerFault, At, TransitionSteps, store, history
<1>1. CASE workers' = [workers EXCEPT ![w] = IdleWorker]
  <2>1. IdleWorker.pc = "idle"
    BY DEF IdleWorker
  <2> QED
    BY <1>0, <1>1, <2>1, LocalOnce
<1>2. CASE old.pc = "halt" /\ Raise(w)
  <2> DEFINE r == [old EXCEPT !.pc = "recheck", !.seen = "absent"]
  <2>1. workers' = [workers EXCEPT ![w] = r]
    BY <1>2 DEF Raise, At
  <2>2. /\ r.task = old.task /\ r.seq = old.seq /\ r.pc = "recheck"
        /\ r.seen = "absent"
    BY <1>0 DEF WorkerRow
  <2> HIDE DEF r
  <2>3. old.seq = 1 /\ FirstRun(old) /\ old.seq <= published[old.task]
    BY <1>0, <1>2 DEF OnceWorker, SecondRun, SecondRunSteps
  <2>4. FirstRun(r)
    BY <1>2, <2>2, <2>3 DEF FirstRun, FirstRunSteps
  <2>5. OnceWorker(r)
    BY <2>2, <2>3, <2>4 DEF OnceWorker
  <2> QED
    BY <1>0, <2>1, <2>2, <2>5, LocalOnce
<1> QED
  BY <1>1, <1>2 DEF RefuseTransition, LoseRace, WorkerFault, Raise, At

\* The first run goes from step to step of its own.
LEMMA FirstRunMoves ==
  ASSUME IInv, AnswerInv, OnceInv, NEW w \in Workers,
         \/ RunMesh(w) \/ HaltOnBudget(w) \/ EndReads(w) \/ OpenApproval(w)
  PROVE  OnceInv'
<1> DEFINE old == workers[w]
<1>0. /\ old \in WorkerRow /\ OnceWorker(old) /\ old.seen = "absent"
      /\ old.pc \in {"mesh", "reads", "open"}
      /\ UNCHANGED <<state, metadata, calls, executions, queue, published,
                     handlers, ingress>>
  BY WorkerFacts
  DEF RunMesh, HaltOnBudget, EndReads, OpenApproval, At, store, history,
      SnapshotLocals, TransitionSteps
<1>1. old.seq = 1 /\ FirstRun(old) /\ old.seq <= published[old.task]
  BY <1>0 DEF OnceWorker, SecondRun, SecondRunSteps
<1>2. PICK r : /\ workers' = [workers EXCEPT ![w] = r]
               /\ r.task = old.task /\ r.seq = old.seq /\ r.seen = "absent"
               /\ r.issued = old.issued /\ r.call = old.call
               /\ \/ old.pc = "mesh" /\ r.pc \in {"recheck", "halt"}
                  \/ old.pc = "reads" /\ r.pc \in {"complete", "gate"}
                  \/ old.pc = "open" /\ r.pc = "link"
  <2>1. CASE RunMesh(w)
    <3> DEFINE r == [old EXCEPT !.pc = "recheck", !.reads = Reads[old.task],
                                !.writes = Writes[old.task]]
    <3>1. workers' = [workers EXCEPT ![w] = r] /\ old.pc = "mesh"
      BY <2>1 DEF RunMesh, At
    <3>2. /\ r.task = old.task /\ r.seq = old.seq /\ r.seen = "absent"
          /\ r.issued = old.issued /\ r.call = old.call /\ r.pc = "recheck"
      BY <1>0 DEF WorkerRow
    <3> QED
      BY <3>1, <3>2
  <2>2. CASE HaltOnBudget(w) \/ EndReads(w) \/ OpenApproval(w)
    <3>1. PICK pc : /\ workers' = [workers EXCEPT ![w].pc = pc]
                    /\ \/ old.pc = "mesh" /\ pc = "halt"
                       \/ old.pc = "reads" /\ pc \in {"complete", "gate"}
                       \/ old.pc = "open" /\ pc = "link"
      BY <2>2 DEF HaltOnBudget, EndReads, OpenApproval, Goto, At
    <3> DEFINE r == [old EXCEPT !.pc = pc]
    <3>2. workers' = [workers EXCEPT ![w] = r]
      BY <3>1
    <3>3. /\ r.task = old.task /\ r.seq = old.seq /\ r.seen = "absent"
          /\ r.issued = old.issued /\ r.call = old.call /\ r.pc = pc
      BY <1>0 DEF WorkerRow
    <3> QED
      BY <3>1, <3>2, <3>3
  <2> QED
    BY <2>1, <2>2
<1>3. FirstRun(r)
  BY <1>1, <1>2 DEF FirstRun, FirstRunSteps
<1>4. OnceWorker(r)
  BY <1>1, <1>2, <1>3 DEF OnceWorker
<1> QED
  BY <1>0, <1>2, <1>4, LocalOnce

\* The first read of the row tells the first run from the second, and the
\* next one tells whether the task still runs.
LEMMA ForkOnce ==
  ASSUME IInv, AnswerInv, OnceInv, NEW w \in Workers, LoadTask(w) \/ Recheck(w)
  PROVE  OnceInv'
<1> DEFINE old == workers[w]
<1>0. /\ old \in WorkerRow /\ OnceWorker(old) /\ old.seen = "absent"
      /\ old.pc \in {"start", "recheck", "resume"}
      /\ UNCHANGED <<state, metadata, calls, executions, queue, published,
                     handlers, ingress>>
  BY WorkerFacts
  DEF LoadTask, Recheck, At, store, history, SnapshotLocals, TransitionSteps
<1>1. PICK pc : /\ workers' = [workers EXCEPT ![w].pc = pc]
                /\ old.pc = "start" =>
                     \/ IsTerminal(state[old.task]) /\ pc = "ack"
                     \/ state[old.task] = "approved" /\ pc = "resume"
                     \/ state[old.task] # "approved" /\ pc = "claim"
                /\ old.pc = "recheck" => pc \in {"ack", "reads"}
                /\ old.pc = "recheck" /\ pc = "reads" => ~IsTerminal(state[old.task])
                /\ old.pc = "resume" => pc \in {"ack", "list"}
  BY DEF LoadTask, Recheck, Goto, At
<1> DEFINE r == [old EXCEPT !.pc = pc]
<1>2. /\ workers' = [workers EXCEPT ![w] = r]
      /\ r.task = old.task /\ r.seq = old.seq /\ r.seen = "absent" /\ r.pc = pc
      /\ r.issued = old.issued
  BY <1>0, <1>1 DEF WorkerRow
<1> HIDE DEF r
<1>3. FirstRun(old) => FirstRun(r)
  BY <1>0, <1>1, <1>2 DEF FirstRun, FirstRunSteps, IsTerminal, TERMINAL_STATES
<1>4. SecondRun(old) => SecondRun(r)
  BY <1>0, <1>1, <1>2 DEF SecondRun, SecondRunSteps, IsTerminal, TERMINAL_STATES
<1>5. OnceWorker(r)
  BY <1>0, <1>2, <1>3, <1>4 DEF OnceWorker
<1> QED
  BY <1>0, <1>2, <1>5, LocalOnce

\* The second run lists the calls, one row per call, and judges row by row.
LEMMA SecondRunMoves ==
  ASSUME IInv, AnswerInv, OnceInv, NEW w \in Workers,
         ListCalls(w) \/ JudgeCall(w) \/ EndCalls(w)
  PROVE  OnceInv'
<1> DEFINE old == workers[w]
<1>0. /\ old \in WorkerRow /\ OnceWorker(old)
      /\ old.pc \in {"list", "calls"}
      /\ UNCHANGED <<state, metadata, calls, executions, queue, published,
                     handlers, ingress>>
  BY WorkerFacts DEF ListCalls, JudgeCall, EndCalls, At, store, history
<1>1. old.seq = 2 /\ SecondRun(old) /\ old.seq <= published[old.task]
  BY <1>0 DEF OnceWorker, FirstRun, FirstRunSteps
<1>2. CASE ListCalls(w)
  <2> DEFINE rows == {<<c, calls[c].params>> :
                        c \in {k \in CallsOf(old.task) : calls[k].linked}}
             r == [old EXCEPT !.pc = "calls", !.todo = rows]
  <2>1. workers' = [workers EXCEPT ![w] = r] /\ old.pc = "list"
    BY <1>2 DEF ListCalls, At
  <2>2. r.task = old.task /\ r.seq = old.seq /\ r.pc = "calls" /\ r.todo = rows
    BY <1>0 DEF WorkerRow
  <2>3. \A row \in rows : Untouched(row[1])
    BY <1>1, <2>1 DEF SecondRun, AllUntouched, Recorded, CallsOf
  <2>4. \A a, b \in rows : a[1] = b[1] => a = b
    OBVIOUS
  <2> HIDE DEF r, rows
  <2>5. SecondRun(r)
    BY <1>1, <2>1, <2>2, <2>3, <2>4 DEF SecondRun, SecondRunSteps
  <2>6. OnceWorker(r)
    BY <1>1, <2>2, <2>5 DEF OnceWorker
  <2> QED
    BY <1>0, <2>1, <2>2, <2>6, LocalOnce
<1>3. CASE JudgeCall(w)
  <2>0. old.pc = "calls"
    BY <1>3 DEF JudgeCall, At
  <2>1. PICK row \in old.todo :
          \/ TakeCall(w, row, "exec") \/ TakeCall(w, row, "reject")
          \/ workers' = [workers EXCEPT ![w].todo = @ \ {row}]
    BY <1>3 DEF JudgeCall
  <2>2. PICK r : /\ workers' = [workers EXCEPT ![w] = r]
                 /\ r.task = old.task /\ r.seq = old.seq
                 /\ r.todo = old.todo \ {row}
                 /\ \/ r.pc \in {"exec", "reject"} /\ r.call = row[1]
                    \/ r.pc = "calls"
    <3>1. ASSUME NEW step \in {"exec", "reject"}, TakeCall(w, row, step)
          PROVE  \E r : /\ workers' = [workers EXCEPT ![w] = r]
                        /\ r.task = old.task /\ r.seq = old.seq
                        /\ r.todo = old.todo \ {row}
                        /\ r.pc = step /\ r.call = row[1]
      <4> DEFINE r == [old EXCEPT !.pc = step, !.todo = old.todo \ {row},
                                  !.call = row[1], !.params = row[2]]
      <4>1. workers' = [workers EXCEPT ![w] = r]
        BY <3>1 DEF TakeCall
      <4>2. /\ r.task = old.task /\ r.seq = old.seq
            /\ r.todo = old.todo \ {row} /\ r.pc = step /\ r.call = row[1]
        BY <1>0 DEF WorkerRow
      <4> QED
        BY <4>1, <4>2
    <3>2. CASE workers' = [workers EXCEPT ![w].todo = @ \ {row}]
      <4> DEFINE r == [old EXCEPT !.todo = old.todo \ {row}]
      <4>1. workers' = [workers EXCEPT ![w] = r]
        BY <3>2
      <4>2. /\ r.task = old.task /\ r.seq = old.seq
            /\ r.todo = old.todo \ {row} /\ r.pc = "calls"
        BY <1>0, <2>0 DEF WorkerRow
      <4> QED
        BY <4>1, <4>2
    <3> QED
      BY <2>1, <3>1, <3>2
  <2>3. /\ Untouched(row[1])
        /\ \A k \in r.todo : k[1] # row[1] /\ Untouched(k[1])
        /\ \A a, b \in r.todo : a[1] = b[1] => a = b
    BY <1>1, <2>0, <2>1, <2>2 DEF SecondRun
  <2>4. SecondRun(r)
    BY <1>1, <2>0, <2>2, <2>3 DEF SecondRun, SecondRunSteps
  <2>5. OnceWorker(r)
    BY <1>1, <2>2, <2>4 DEF OnceWorker
  <2> QED
    BY <1>0, <2>2, <2>5, LocalOnce
<1>4. CASE EndCalls(w)
  <2> DEFINE r == [old EXCEPT !.pc = "finish"]
  <2>1. workers' = [workers EXCEPT ![w] = r] /\ old.pc = "calls"
    BY <1>4 DEF EndCalls, Goto, At
  <2>2. r.task = old.task /\ r.seq = old.seq /\ r.pc = "finish"
    BY <1>0 DEF WorkerRow
  <2> HIDE DEF r
  <2>3. SecondRun(r)
    BY <1>1, <2>1, <2>2 DEF SecondRun, SecondRunSteps
  <2>4. OnceWorker(r)
    BY <1>1, <2>2, <2>3 DEF OnceWorker
  <2> QED
    BY <1>0, <2>1, <2>2, <2>4, LocalOnce
<1> QED
  BY <1>2, <1>3, <1>4

\* process() returned: the message is gone, and its run is over.
LEMMA AckOnce ==
  ASSUME IInv, AnswerInv, OnceInv, NEW w \in Workers, Ack(w)
  PROVE  OnceInv'
<1>1. /\ queue' \subseteq queue
      /\ workers' = [workers EXCEPT ![w] = IdleWorker]
      /\ IdleWorker.pc = "idle"
      /\ UNCHANGED <<state, metadata, calls, executions, published, handlers,
                     ingress>>
  BY DEF Ack, IdleWorker, store, history
<1> QED
  BY <1>1, LocalOnce

\* The summary is written into a completed row that is still as it was read.
LEMMA SummaryOnce ==
  ASSUME IInv, AnswerInv, OnceInv, NEW w \in Workers, WriteSummary(w)
  PROVE  OnceInv'
<1>old. PICK old : old = workers[w]
  OBVIOUS
<1>0. /\ old \in WorkerRow /\ OnceWorker(old)
      /\ old.pc = "summary" /\ old.seen # "absent" /\ old.task \in Tasks
      /\ UpsertTask(old.task, old.seen, old.held)
      /\ UNCHANGED <<calls, executions, queue, published, handlers, ingress>>
  BY <1>old, WorkerFacts DEF WriteSummary, At, history
<1>1. /\ old.seq = 1 /\ old.seq <= published[old.task]
      /\ state[old.task] = "completed" /\ old.seen = "completed"
  BY <1>0 DEF OnceWorker, FirstRun, SecondRun, SecondRunSteps
<1>2. \A u \in Tasks : /\ state'[u] = state[u]
                       /\ u # old.task => metadata'[u] = metadata[u]
  BY <1>0, <1>1 DEF UpsertTask, IInv, TypeOK
<1>3. \A u \in Tasks : KeepsTask(u) /\ ingress'[u] = ingress[u]
  BY <1>0, <1>1, <1>2 DEF KeepsTask, Recorded, Untouched
<1>4. \A c \in CallIds : OnceCall(c)'
  BY <1>0 DEF OnceInv, OnceCall, Untouched
<1>5. PICK r : /\ workers' = [workers EXCEPT ![w] = r]
               /\ r.task = old.task /\ r.seq = 1 /\ r.pc = "ack"
  <2> DEFINE r == [old EXCEPT !.pc = "ack", !.seen = "absent", !.held = {}]
  <2>1. workers' = [workers EXCEPT ![w] = r]
    BY <1>old DEF WriteSummary
  <2>2. r.task = old.task /\ r.seq = 1 /\ r.pc = "ack"
    BY <1>0, <1>1 DEF WorkerRow
  <2> QED
    BY <2>1, <2>2
<1>6. OnceWorker(r)'
  <2>1. FirstRun(r)'
    BY <1>5 DEF FirstRun, FirstRunSteps
  <2> QED
    BY <1>0, <1>1, <1>5, <2>1 DEF OnceWorker
<1>7. \A v \in Workers :
        \/ workers'[v] = workers[v]
        \/ /\ OnceWorker(workers[v])'
           /\ workers[v].pc # "idle"
           /\ workers'[v].task = workers[v].task
           /\ workers'[v].seq = workers[v].seq
  BY <1>0, <1>1, <1>5, <1>6, <1>old DEF IInv, TypeOK
<1> QED
  BY <1>0, <1>3, <1>4, <1>7, KeptStep

\* A request reads the task, gives up, or has just recorded its decision; the
\* ingress dies; somebody amends a call.
LEMMA RequestOnce ==
  ASSUME IInv, AnswerInv, OnceInv,
         \/ \E h \in Handlers : \/ ReadForDecision(h) \/ RefuseDecision(h)
                                \/ LoseDecision(h) \/ HandlerFault(h)
         \/ \E h \in Handlers, c \in CallIds, d \in Decisions :
              SubmitDecision(h, c, d)
         \/ \E t \in Tasks : IngressFault(t)
         \/ \E c \in CallIds, p \in Payloads : AmendParameters(c, p)
  PROVE  OnceInv'
<1>1. UNCHANGED <<state, metadata, executions, queue, published, workers>>
  BY DEF ReadForDecision, RefuseDecision, LoseDecision, HandlerFault,
         SubmitDecision, IngressFault, AmendParameters, store, history
<1>2. \A c \in CallIds : /\ calls'[c].task = calls[c].task
                         /\ calls'[c].status = calls[c].status
                         /\ calls'[c].is_read = calls[c].is_read
  <2>1. CASE UNCHANGED calls
    BY <2>1
  <2>2. ASSUME NEW c \in CallIds, NEW p \in Payloads, AmendParameters(c, p)
        PROVE  \A k \in CallIds : /\ calls'[k].task = calls[k].task
                                  /\ calls'[k].status = calls[k].status
                                  /\ calls'[k].is_read = calls[k].is_read
    <3>1. calls' = [calls EXCEPT ![c] = [calls[c] EXCEPT !.params = p]]
      BY <2>2 DEF AmendParameters
    <3> QED
      BY <3>1 DEF IInv, TypeOK, ToolCallRow
  <2> QED
    BY <2>1, <2>2
    DEF ReadForDecision, RefuseDecision, LoseDecision, HandlerFault,
        SubmitDecision, IngressFault, store
<1>3. \A t \in Tasks : ingress'[t] \in {ingress[t], "done"}
  BY DEF ReadForDecision, RefuseDecision, LoseDecision, HandlerFault,
         SubmitDecision, IngressFault, AmendParameters, IInv, TypeOK
<1>4. \A u \in Tasks : KeepsTask(u)
  BY <1>1, <1>2 DEF KeepsTask, Recorded, Untouched
<1>5. \A c \in CallIds : OnceCall(c)'
  BY <1>1, <1>2 DEF OnceInv, OnceCall, Untouched
<1>6. \A h \in Handlers : handlers'[h] = handlers[h] \/ handlers'[h].pc # "publish"
  <2>1. CASE UNCHANGED handlers
    BY <2>1
  <2>2. ASSUME NEW h \in Handlers,
               \/ ReadForDecision(h) \/ RefuseDecision(h)
               \/ LoseDecision(h) \/ HandlerFault(h)
               \/ \E c \in CallIds, d \in Decisions : SubmitDecision(h, c, d)
        PROVE  \A g \in Handlers : handlers'[g] = handlers[g]
                                   \/ handlers'[g].pc # "publish"
    <3>1. PICK r : handlers' = [handlers EXCEPT ![h] = r] /\ r.pc # "publish"
      <4>1. CASE ReadForDecision(h)
        <5> DEFINE r == [handlers[h] EXCEPT !.seen = state[handlers[h].task]]
        <5>1. handlers' = [handlers EXCEPT ![h] = r]
          BY <4>1 DEF ReadForDecision
        <5>2. r.pc # "publish"
          BY <4>1 DEF ReadForDecision, IInv, TypeOK, HandlerRow
        <5> QED
          BY <5>1, <5>2
      <4>2. CASE RefuseDecision(h) \/ LoseDecision(h) \/ HandlerFault(h)
        <5>1. handlers' = [handlers EXCEPT ![h] = IdleHandler]
          BY <4>2 DEF RefuseDecision, LoseDecision, HandlerFault
        <5>2. IdleHandler.pc # "publish"
          BY DEF IdleHandler
        <5> QED
          BY <5>1, <5>2
      <4>3. ASSUME NEW c \in CallIds, NEW d \in Decisions, SubmitDecision(h, c, d)
            PROVE  \E r : handlers' = [handlers EXCEPT ![h] = r] /\ r.pc # "publish"
        <5> DEFINE r == CASE d = "approved" ->
                               [IdleHandler EXCEPT !.pc = "approve",
                                                   !.task = calls[c].task]
                          [] d = "rejected" ->
                               [IdleHandler EXCEPT !.pc = "reject",
                                                   !.task = calls[c].task]
                          [] OTHER -> IdleHandler
        <5>1. handlers' = [handlers EXCEPT ![h] = r]
          BY <4>3 DEF SubmitDecision
        <5>2. r.pc # "publish"
          BY DEF IdleHandler
        <5> QED
          BY <5>1, <5>2
      <4> QED
        BY <2>2, <4>1, <4>2, <4>3
    <3> QED
      BY <3>1 DEF IInv, TypeOK
  <2> QED
    BY <2>1, <2>2 DEF IngressFault, AmendParameters
<1> QED
  BY <1>1, <1>3, <1>4, <1>5, <1>6, KeptStep

---------------------------------------------------------------------------
(* Who may act on a task *)

\* While a task is queued or running nobody but its first run is at work.
LEMMA FirstRunIsAlone ==
  ASSUME IInv, AnswerInv, OnceInv, NEW w \in Workers, NEW t \in Tasks,
         workers[w].pc # "idle", workers[w].task = t, workers[w].seq = 1,
         state[t] \in {"queued", "running"}
  PROVE  /\ published[t] = 1 /\ ingress[t] = "done"
         /\ \A v \in Workers : v # w /\ workers[v].task = t => workers[v].pc = "idle"
         /\ \A m \in queue : m.task = t => m.attempts # 0
         /\ \A h \in Handlers : handlers[h].pc = "publish" => handlers[h].task # t
<1>1. OnceTask(t) /\ OnceWorker(workers[w])
  BY DEF OnceInv
<1>2. published[t] = 1
  BY <1>1 DEF OnceTask, OnceWorker
<1>3. ingress[t] = "done"
  BY <1>1, <1>2 DEF OnceTask
<1>4. ASSUME NEW v \in Workers, v # w, workers[v].task = t
      PROVE  workers[v].pc = "idle"
  <2>1. OnceWorker(workers[v]) /\ (~Holds(workers[v], workers[w]))
    BY <1>4 DEF OnceInv, Separate
  <2> QED
    BY <1>2, <1>4, <2>1 DEF OnceWorker, Holds
<1>5. ASSUME NEW m \in queue, m.task = t PROVE m.attempts # 0
  <2>1. m.seq = 1
    BY <1>2, <1>5 DEF OnceInv, OnceMessage
  <2>2. Holds(workers[w], m)
    BY <1>5, <2>1 DEF Holds
  <2> QED
    BY <2>2 DEF OnceInv, Separate
<1>6. \A h \in Handlers : handlers[h].pc = "publish" => handlers[h].task # t
  BY DEF OnceInv, OnceHandler
<1> QED
  BY <1>2, <1>3, <1>4, <1>5, <1>6

\* While a task stands approved nobody but its second run is at work: what is
\* left of the first is to be acknowledged.
LEMMA SecondRunIsAlone ==
  ASSUME IInv, AnswerInv, OnceInv, NEW w \in Workers, NEW t \in Tasks,
         workers[w].pc # "idle", workers[w].task = t, workers[w].seq = 2,
         state[t] = "approved"
  PROVE  /\ published[t] = 2 /\ ingress[t] = "done"
         /\ \A v \in Workers : v # w /\ workers[v].task = t =>
              workers[v].pc \in {"idle", "ack"}
         /\ \A m \in queue : m.task = t => m.attempts # 0
         /\ \A h \in Handlers : handlers[h].pc = "publish" => handlers[h].task # t
<1>1. OnceTask(t) /\ OnceWorker(workers[w])
  BY DEF OnceInv
<1>2. published[t] = 2
  BY <1>1 DEF OnceTask, OnceWorker
<1>3. ingress[t] = "done"
  BY <1>1, <1>2 DEF OnceTask
<1>4. ASSUME NEW v \in Workers, v # w, workers[v].task = t
      PROVE  workers[v].pc \in {"idle", "ack"}
  <2>1. OnceWorker(workers[v]) /\ (~Holds(workers[v], workers[w]))
    BY <1>4 DEF OnceInv, Separate
  <2>2. workers[v].pc # "idle" => workers[v].seq = 1 /\ FirstRun(workers[v])
    BY <1>4, <2>1 DEF OnceWorker, Holds
  <2> QED
    BY <1>4, <2>2 DEF FirstRun, FirstRunSteps
<1>5. ASSUME NEW m \in queue, m.task = t PROVE m.attempts # 0
  <2>1. OnceMessage(m)
    BY DEF OnceInv
  <2>2. m.seq = 2 => m.attempts # 0
    BY <1>5 DEF OnceInv, Separate, Holds
  <2> QED
    BY <1>5, <2>1, <2>2 DEF OnceMessage
<1>6. \A h \in Handlers : handlers[h].pc = "publish" => handlers[h].task # t
  BY <1>2 DEF OnceInv, OnceHandler
<1> QED
  BY <1>2, <1>3, <1>4, <1>5, <1>6

\* A worker acts on its task, and nobody else is at work on it.
LEMMA WorkerActs ==
  ASSUME IInv, AnswerInv, OnceInv, NEW w \in Workers, NEW t \in Tasks,
         workers[w].pc # "idle", workers[w].task = t,
         \/ workers[w].seq = 1 /\ state[t] \in {"queued", "running"}
         \/ workers[w].seq = 2 /\ state[t] = "approved",
         UNCHANGED <<queue, published, handlers, ingress>>,
         \A u \in Tasks : u # t => KeepsTask(u),
         NEW r, workers' = [workers EXCEPT ![w] = r],
         r.task = t, r.seq = workers[w].seq,
         OnceWorker(r)', OnceTask(t)', \A c \in CallIds : OnceCall(c)'
  PROVE  OnceInv'
<1>1. /\ \A v \in Workers : v # w /\ workers[v].task = t =>
           workers[v].pc \in {"idle", "ack"}
      /\ \A m \in queue : m.task = t => m.attempts # 0
      /\ \A h \in Handlers : handlers[h].pc = "publish" => handlers[h].task # t
  BY FirstRunIsAlone, SecondRunIsAlone
<1>2. workers'[w] = r /\ \A v \in Workers : v # w => workers'[v] = workers[v]
  BY DEF IInv, TypeOK
<1>3. OnceWorker(workers[w])'
  BY <1>2
<1>4. \A v \in Workers :
        \/ /\ workers'[v] = workers[v]
           /\ workers[v].task = t => workers[v].pc \in {"idle", "ack"}
        \/ /\ OnceWorker(workers[v])'
           /\ workers[v].pc # "idle"
           /\ workers'[v].task = workers[v].task
           /\ workers'[v].seq = workers[v].seq
  BY <1>1, <1>2, <1>3
<1> QED
  BY <1>1, <1>4, ActStep

\* The row of a call of task t, or of a fresh call, tells other tasks nothing.
LEMMA CallRowKeeps ==
  ASSUME IInv, NEW c \in CallIds, NEW t, NEW row,
         calls' = [calls EXCEPT ![c] = row],
         row.task = t,
         calls[c].status = "absent" \/ calls[c].task = t,
         UNCHANGED <<state, metadata, executions>>
  PROVE  /\ calls'[c] = row
         /\ \A k \in CallIds : k # c => calls'[k] = calls[k]
         /\ \A u \in Tasks : u # t => KeepsTask(u)
<1>1. calls'[c] = row /\ \A k \in CallIds : k # c => calls'[k] = calls[k]
  BY DEF IInv, TypeOK
<1>2. ASSUME NEW u \in Tasks, u # t PROVE KeepsTask(u)
  <2>1. ASSUME NEW k \in CallIds
        PROVE  /\ Recorded(k, u)' <=> Recorded(k, u)
               /\ Recorded(k, u) => /\ calls'[k].is_read = calls[k].is_read
                                    /\ Untouched(k)' <=> Untouched(k)
    BY <1>1, <1>2 DEF Recorded, Untouched
  <2> QED
    BY <2>1 DEF KeepsTask
<1> QED
  BY <1>1, <1>2

---------------------------------------------------------------------------
(* The first run *)

\* A read or a write of its own is recorded, the row of a fresh call.
LEMMA RecordOnce ==
  ASSUME IInv, AnswerInv, OnceInv, NEW w \in Workers, ReadTool(w) \/ GateCall(w)
  PROVE  OnceInv'
<1>old. PICK old : old = workers[w]
  OBVIOUS
<1>0. /\ old \in WorkerRow /\ OnceWorker(old) /\ old.seen = "absent"
      /\ old.pc \in {"reads", "gate"} /\ old.task \in Tasks
      /\ UNCHANGED <<state, metadata, executions, queue, published, handlers,
                     ingress>>
  BY <1>old, WorkerFacts
  DEF ReadTool, GateCall, At, history, SnapshotLocals, TransitionSteps
<1> DEFINE t == old.task
<1>1. old.seq = 1 /\ FirstRun(old) /\ state[t] = "running"
  BY <1>0 DEF OnceWorker, FirstRun, SecondRun, SecondRunSteps
<1>2. published[t] = 1 /\ ingress[t] = "done"
  BY <1>0, <1>1, <1>old, FirstRunIsAlone
<1>3. PICK c, row, r :
        /\ c \in CallIds /\ calls[c].status = "absent"
        /\ calls' = [calls EXCEPT ![c] = row]
        /\ row.task = t /\ row.status \in {"executed", "awaiting_approval"}
        /\ workers' = [workers EXCEPT ![w] = r]
        /\ r.task = t /\ r.seq = 1 /\ r.seen = "absent" /\ r.issued = old.issued
        /\ \/ old.pc = "reads" /\ r.pc = "reads" /\ row.is_read
           \/ old.pc = "gate" /\ r.pc = "open" /\ r.call = c
  <2>1. CASE ReadTool(w)
    <3>1. PICK c \in FreshCalls : calls' = [calls EXCEPT ![c] = ReadRow(t)]
      BY <1>old, <2>1 DEF ReadTool
    <3> DEFINE row == ReadRow(t)
               r == [old EXCEPT !.reads = old.reads - 1]
    <3>2. workers' = [workers EXCEPT ![w] = r] /\ old.pc = "reads"
      BY <1>old, <2>1 DEF ReadTool, At
    <3>3. /\ r.task = t /\ r.seq = 1 /\ r.seen = "absent" /\ r.issued = old.issued
          /\ r.pc = old.pc
      BY <1>0, <1>1 DEF WorkerRow
    <3>4. row.task = t /\ row.status = "executed" /\ row.is_read
      BY DEF ReadRow
    <3>5. c \in CallIds /\ calls[c].status = "absent"
      BY DEF FreshCalls
    <3>6. calls' = [calls EXCEPT ![c] = row]
      BY <3>1
    <3> HIDE DEF row, r
    <3> QED
      BY <3>2, <3>3, <3>4, <3>5, <3>6
  <2>2. CASE GateCall(w)
    <3>1. PICK c \in FreshCalls, p \in Payloads :
            /\ calls' = [calls EXCEPT ![c] =
                           WriteRow(t, p, "awaiting_approval", FALSE)]
            /\ workers' = [workers EXCEPT ![w] =
                             [@ EXCEPT !.pc = "open", !.call = c, !.params = p]]
      BY <1>old, <2>2 DEF GateCall
    <3> DEFINE row == WriteRow(t, p, "awaiting_approval", FALSE)
               r == [old EXCEPT !.pc = "open", !.call = c, !.params = p]
    <3>2. workers' = [workers EXCEPT ![w] = r] /\ old.pc = "gate"
      BY <1>old, <2>2, <3>1 DEF GateCall, At
    <3>3. /\ r.task = t /\ r.seq = 1 /\ r.seen = "absent" /\ r.issued = old.issued
          /\ r.pc = "open" /\ r.call = c
      BY <1>0, <1>1 DEF WorkerRow
    <3>4. row.task = t /\ row.status = "awaiting_approval"
      BY DEF WriteRow
    <3>5. c \in CallIds /\ calls[c].status = "absent"
      BY DEF FreshCalls
    <3>6. calls' = [calls EXCEPT ![c] = row]
      BY <3>1
    <3> HIDE DEF row, r
    <3> QED
      BY <3>2, <3>3, <3>4, <3>5, <3>6
  <2> QED
    BY <2>1, <2>2
<1>4. /\ calls'[c] = row
      /\ \A k \in CallIds : k # c => calls'[k] = calls[k]
      /\ \A u \in Tasks : u # t => KeepsTask(u)
  BY <1>0, <1>3, CallRowKeeps
<1>5. \A k \in CallIds : OnceCall(k)'
  <2>1. executions[c] = <<>>
    BY <1>3 DEF OnceInv, OnceCall, Untouched
  <2>2. OnceCall(c)'
    BY <1>0, <1>3, <1>4, <2>1 DEF OnceInv, OnceCall, Untouched
  <2>3. \A k \in CallIds : k # c => OnceCall(k)'
    BY <1>0, <1>4 DEF OnceInv, OnceCall, Untouched
  <2> QED
    BY <2>2, <2>3
<1>6. OnceTask(t)'
  BY <1>0, <1>1, <1>2 DEF OnceTask, Early
<1>7. Gated(t)' \subseteq IF old.pc = "reads" THEN Gated(t) ELSE Gated(t) \cup {c}
  BY <1>3, <1>4 DEF Gated, Recorded
<1>8. FirstRun(r)'
  BY <1>0, <1>1, <1>3, <1>7 DEF FirstRun, FirstRunSteps
<1>9. OnceWorker(r)'
  BY <1>0, <1>2, <1>3, <1>8 DEF OnceWorker
<1> QED
  BY <1>0, <1>1, <1>3, <1>4, <1>5, <1>6, <1>9, <1>old, WorkerActs

\* Its write gets its approval record, and its token.
LEMMA LinkOnce ==
  ASSUME IInv, AnswerInv, OnceInv, NEW w \in Workers, LinkApproval(w)
  PROVE  OnceInv'
<1>old. PICK old : old = workers[w]
  OBVIOUS
<1>0. /\ old \in WorkerRow /\ OnceWorker(old) /\ old.seen = "absent"
      /\ old.pc = "link" /\ old.task \in Tasks
      /\ old.call \in CallIds /\ Recorded(old.call, old.task)
      /\ UNCHANGED <<state, metadata, executions, queue, published, handlers,
                     ingress>>
  BY <1>old, WorkerFacts
  DEF LinkApproval, At, history, SnapshotLocals, TransitionSteps, HeldCalls,
      CallLocals
<1> DEFINE t == old.task
           c == old.call
<1>1. old.seq = 1 /\ FirstRun(old) /\ state[t] = "running"
  BY <1>0 DEF OnceWorker, FirstRun, SecondRun, SecondRunSteps
<1>2. published[t] = 1 /\ ingress[t] = "done"
  BY <1>0, <1>1, <1>old, FirstRunIsAlone
<1>3. PICK row, r :
        /\ calls' = [calls EXCEPT ![c] = row]
        /\ row.task = t /\ row.status = "awaiting_approval"
        /\ workers' = [workers EXCEPT ![w] = r]
        /\ r.task = t /\ r.seq = 1 /\ r.seen = "absent"
        /\ r.issued = old.issued \cup {c}
        /\ r.pc \in {"gate", "stash"}
  <2> DEFINE row == WriteRow(t, old.params, "awaiting_approval", TRUE)
             r == [old EXCEPT !.pc = AfterGate(old.writes),
                              !.writes = old.writes - 1,
                              !.issued = IssueToken(old.issued, c),
                              !.call = None, !.params = None]
  <2>1. workers' = [workers EXCEPT ![w] = r] /\ calls' = [calls EXCEPT ![c] = row]
    BY <1>old DEF LinkApproval
  <2>2. /\ r.task = t /\ r.seq = 1 /\ r.seen = "absent"
        /\ r.issued = old.issued \cup {c}
        /\ r.pc \in {"gate", "stash"}
    BY <1>0, <1>1 DEF WorkerRow, IssueToken, AfterGate
  <2>3. row.task = t /\ row.status = "awaiting_approval"
    BY DEF WriteRow
  <2> HIDE DEF row, r
  <2> QED
    BY <2>1, <2>2, <2>3
<1>4. /\ calls'[c] = row
      /\ \A k \in CallIds : k # c => calls'[k] = calls[k]
      /\ \A u \in Tasks : u # t => KeepsTask(u)
  <2>1. calls[c].task = t /\ c \in CallIds
    BY <1>0 DEF Recorded
  <2>2. UNCHANGED <<state, metadata, executions>>
    BY <1>0
  <2>3. calls' = [calls EXCEPT ![c] = row] /\ row.task = t
    BY <1>3
  <2> HIDE DEF t, c
  <2> QED
    BY <2>1, <2>2, <2>3, CallRowKeeps
<1>5. \A k \in CallIds : OnceCall(k)'
  <2>1. Untouched(c)
    BY <1>0, <1>2 DEF OnceInv, OnceCall, Recorded
  <2>2. OnceCall(c)'
    BY <1>0, <1>3, <1>4, <2>1 DEF OnceInv, OnceCall, Untouched
  <2>3. \A k \in CallIds : k # c => OnceCall(k)'
    BY <1>0, <1>4 DEF OnceInv, OnceCall, Untouched
  <2> QED
    BY <2>2, <2>3
<1>6. OnceTask(t)'
  BY <1>0, <1>1, <1>2 DEF OnceTask, Early
<1>7. Gated(t)' \subseteq Gated(t) \cup {c}
  BY <1>3, <1>4 DEF Gated, Recorded
<1>8. FirstRun(r)'
  BY <1>0, <1>1, <1>3, <1>7 DEF FirstRun, FirstRunSteps
<1>9. OnceWorker(r)'
  BY <1>0, <1>2, <1>3, <1>8 DEF OnceWorker
<1> QED
  BY <1>0, <1>1, <1>3, <1>4, <1>5, <1>6, <1>9, <1>old, WorkerActs

\* The tokens of all its writes go into the row, which is as it was read.
LEMMA StashOnce ==
  ASSUME IInv, AnswerInv, OnceInv, NEW w \in Workers, StashTokens(w)
  PROVE  OnceInv'
<1>old. PICK old : old = workers[w]
  OBVIOUS
<1>0. /\ old \in WorkerRow /\ OnceWorker(old) /\ old.seen # "absent"
      /\ old.pc = "stash" /\ old.task \in Tasks
      /\ UpsertTask(old.task, old.seen, old.held \cup old.issued)
      /\ UNCHANGED <<calls, executions, queue, published, handlers, ingress>>
  BY <1>old, WorkerFacts DEF StashTokens, At, history
<1> DEFINE t == old.task
<1>1. /\ old.seq = 1 /\ FirstRun(old) /\ state[t] = "running"
      /\ old.seen = "running"
  BY <1>0 DEF OnceWorker, FirstRun, SecondRun, SecondRunSteps
<1>2. published[t] = 1 /\ ingress[t] = "done"
  BY <1>0, <1>1, <1>old, FirstRunIsAlone
<1>3. /\ \A u \in Tasks : /\ state'[u] = state[u]
                          /\ u # t => metadata'[u] = metadata[u]
      /\ old.issued \subseteq metadata'[t]
  BY <1>0, <1>1 DEF UpsertTask, IInv, TypeOK
<1>4. PICK r : /\ workers' = [workers EXCEPT ![w] = r]
               /\ r.task = t /\ r.seq = 1 /\ r.pc = "pause" /\ r.seen = "absent"
  <2> DEFINE r == [old EXCEPT !.pc = "pause", !.seen = "absent", !.held = {}]
  <2>1. workers' = [workers EXCEPT ![w] = r]
    BY <1>old DEF StashTokens
  <2>2. r.task = t /\ r.seq = 1 /\ r.pc = "pause" /\ r.seen = "absent"
    BY <1>0, <1>1 DEF WorkerRow
  <2> QED
    BY <2>1, <2>2
<1>5. \A u \in Tasks : u # t => KeepsTask(u)
  BY <1>0, <1>3 DEF KeepsTask, Recorded, Untouched
<1>6. \A c \in CallIds : OnceCall(c)'
  BY <1>0 DEF OnceInv, OnceCall, Untouched
<1>7. OnceTask(t)'
  BY <1>0, <1>1, <1>2, <1>3 DEF OnceTask, Early
<1>8. Gated(t)' \subseteq metadata'[t]
  <2>1. Gated(t)' = Gated(t)
    BY <1>0 DEF Gated, Recorded
  <2> QED
    BY <1>0, <1>1, <1>3, <2>1 DEF FirstRun
<1>9. FirstRun(r)'
  <2>1. state'[t] = "running"
    BY <1>0, <1>1, <1>3
  <2> QED
    BY <1>4, <1>8, <2>1 DEF FirstRun, FirstRunSteps
<1>10. OnceWorker(r)'
  BY <1>0, <1>2, <1>4, <1>9 DEF OnceWorker
<1> QED
  BY <1>0, <1>1, <1>4, <1>5, <1>6, <1>7, <1>10, <1>old, WorkerActs

\* Either run moves the task: only its own run could have.
LEMMA CommitOnce ==
  ASSUME IInv, AnswerInv, OnceInv, NEW w \in Workers, CommitTransition(w)
  PROVE  OnceInv'
<1>old. PICK old : old = workers[w]
  OBVIOUS
<1>0. /\ old \in WorkerRow /\ OnceWorker(old)
      /\ old.pc \in TransitionSteps /\ old.task \in Tasks
      /\ UNCHANGED <<metadata, calls, executions, queue, published, handlers,
                     ingress>>
  BY <1>old, WorkerFacts DEF CommitTransition, TransitionSteps, history
<1> DEFINE t == old.task
<1>1. /\ state'[t] = TransitionTarget(old.pc)
      /\ \A u \in Tasks : u # t => state'[u] = state[u]
  BY <1>0, <1>old DEF CommitTransition, Transition, IInv, TypeOK
<1>2. \/ /\ old.seq = 1 /\ FirstRun(old)
         /\ old.pc \in {"claim", "halt", "complete", "pause"}
         /\ state[t] \in {"queued", "running"}
      \/ /\ old.seq = 2 /\ old.pc = "finish" /\ state[t] = "approved"
  BY <1>0 DEF OnceWorker, FirstRun, SecondRun, FirstRunSteps, SecondRunSteps,
              TransitionSteps
<1>3. /\ published[t] = old.seq /\ ingress[t] = "done"
  BY <1>0, <1>2, <1>old, FirstRunIsAlone, SecondRunIsAlone DEF TransitionSteps
<1>4. PICK r : /\ workers' = [workers EXCEPT ![w] = r]
               /\ r.task = t /\ r.seq = old.seq /\ r.seen = "absent"
               /\ r.pc = AfterTransition(old.pc)
  <2> DEFINE r == [old EXCEPT !.pc = AfterTransition(old.pc), !.seen = "absent"]
  <2>1. workers' = [workers EXCEPT ![w] = r]
    BY <1>old DEF CommitTransition
  <2>2. /\ r.task = t /\ r.seq = old.seq /\ r.seen = "absent"
        /\ r.pc = AfterTransition(old.pc)
    BY <1>0 DEF WorkerRow
  <2> QED
    BY <2>1, <2>2
<1>5. \A u \in Tasks : u # t => KeepsTask(u)
  BY <1>0, <1>1 DEF KeepsTask, Recorded, Untouched
<1>6. \A c \in CallIds : OnceCall(c)'
  BY <1>0 DEF OnceInv, OnceCall, Untouched
<1>7. Gated(t)' = Gated(t)
  BY <1>0 DEF Gated, Recorded
<1>8. old.pc = "claim" => Gated(t) = {}
  <2>1. OnceTask(t)
    BY <1>0 DEF OnceInv
  <2> QED
    BY <1>2, <2>1 DEF OnceTask, FirstRun, Early, Gated
<1>9. old.pc = "halt" => Gated(t) = {}
  BY <1>2 DEF FirstRun
<1>10. old.pc = "pause" => Gated(t) \subseteq metadata[t]
  BY <1>2 DEF FirstRun
<1>11. OnceTask(t)'
  BY <1>0, <1>1, <1>2, <1>3, <1>7, <1>10 DEF OnceTask, Early, TransitionTarget
<1>12. OnceWorker(r)'
  <2>1. CASE old.seq = 1
    <3>1. FirstRun(r)'
      BY <1>1, <1>2, <1>4, <1>7, <1>8, <1>9, <2>1
      DEF FirstRun, FirstRunSteps, AfterTransition, TransitionTarget
    <3> QED
      BY <1>0, <1>3, <1>4, <2>1, <3>1 DEF OnceWorker
  <2>2. CASE old.seq = 2
    <3>1. SecondRun(r)'
      BY <1>2, <1>4, <2>2 DEF SecondRun, SecondRunSteps, AfterTransition
    <3> QED
      BY <1>0, <1>3, <1>4, <2>2, <3>1 DEF OnceWorker
  <2> QED
    BY <1>2, <2>1, <2>2
<1> QED
  BY <1>0, <1>2, <1>4, <1>5, <1>6, <1>11, <1>12, <1>old, WorkerActs DEF TransitionSteps

---------------------------------------------------------------------------
(* The second run *)

\* The approved call goes out, for the first time.
LEMMA ExecuteOnce ==
  ASSUME IInv, AnswerInv, OnceInv, NEW w \in Workers, ExecuteCall(w)
  PROVE  OnceInv'
<1>old. PICK old : old = workers[w]
  OBVIOUS
<1>0. /\ old \in WorkerRow /\ OnceWorker(old) /\ CallLocals(old)
      /\ old.pc = "exec" /\ old.task \in Tasks
      /\ old.call \in CallIds /\ Recorded(old.call, old.task)
      /\ UNCHANGED <<state, metadata, calls, queue, published, handlers, ingress>>
  BY <1>old, WorkerFacts
  DEF ExecuteCall, At, store, HeldCalls, CallLocals
<1> DEFINE t == old.task
           c == old.call
<1>1. old.seq = 2 /\ SecondRun(old) /\ state[t] = "approved"
  BY <1>0 DEF OnceWorker, SecondRun, FirstRun, FirstRunSteps
<1>2. published[t] = 2 /\ ingress[t] = "done"
  BY <1>0, <1>1, <1>old, SecondRunIsAlone
<1>3. /\ executions'[c] = Append(executions[c], old.params)
      /\ \A k \in CallIds : k # c => executions'[k] = executions[k]
  BY <1>0, <1>old DEF ExecuteCall, IInv, TypeOK
<1>4. PICK r : /\ workers' = [workers EXCEPT ![w] = r]
               /\ r.task = t /\ r.seq = 2 /\ r.pc = "mark"
               /\ r.call = c /\ r.todo = old.todo
  <2> DEFINE r == [old EXCEPT !.pc = "mark"]
  <2>1. workers' = [workers EXCEPT ![w] = r]
    BY <1>old DEF ExecuteCall, Goto
  <2>2. /\ r.task = t /\ r.seq = 2 /\ r.pc = "mark"
        /\ r.call = c /\ r.todo = old.todo
    BY <1>0, <1>1 DEF WorkerRow
  <2> QED
    BY <2>1, <2>2
<1>5. \A u \in Tasks : u # t => KeepsTask(u)
  BY <1>0, <1>3 DEF KeepsTask, Recorded, Untouched
<1>6. \A k \in CallIds : OnceCall(k)'
  <2>1. executions[c] = <<>> /\ calls[c].status \notin {"rejected", "absent"}
        /\ calls[c].task = t
    BY <1>0, <1>1 DEF SecondRun, Untouched, Recorded
  <2>2. Len(executions'[c]) = 1
    BY <1>3, <2>1
  <2>3. OnceCall(c)'
    BY <1>0, <1>2, <2>1, <2>2 DEF OnceCall
  <2>4. \A k \in CallIds : k # c => OnceCall(k)'
    BY <1>0, <1>3 DEF OnceInv, OnceCall, Untouched
  <2> QED
    BY <2>3, <2>4
<1>7. OnceTask(t)'
  BY <1>0, <1>1, <1>2 DEF OnceTask, Early
<1>8. SecondRun(r)'
  <2>1. /\ \A row \in old.todo : row[1] \in CallIds
        /\ \A row \in old.todo : row[1] # c /\ Untouched(row[1])
        /\ \A a, b \in old.todo : a[1] = b[1] => a = b
    BY <1>0, <1>1 DEF WorkerRow, SecondRun
  <2>2. \A row \in old.todo : Untouched(row[1])'
    BY <1>0, <1>3, <2>1 DEF Untouched
  <2>3. state'[t] = "approved"
    BY <1>0, <1>1
  <2> QED
    BY <1>4, <2>1, <2>2, <2>3 DEF SecondRun, SecondRunSteps
<1>9. OnceWorker(r)'
  BY <1>0, <1>2, <1>4, <1>8 DEF OnceWorker
<1> QED
  BY <1>0, <1>1, <1>4, <1>5, <1>6, <1>7, <1>9, <1>old, WorkerActs

\* The call it just sent, or was told to drop, is settled.
LEMMA SettleOnce ==
  ASSUME IInv, AnswerInv, OnceInv, NEW w \in Workers,
         MarkExecuted(w) \/ MarkRejected(w)
  PROVE  OnceInv'
<1>old. PICK old : old = workers[w]
  OBVIOUS
<1>0. /\ old \in WorkerRow /\ OnceWorker(old) /\ CallLocals(old)
      /\ old.pc \in {"mark", "reject"} /\ old.task \in Tasks
      /\ old.call \in CallIds /\ Recorded(old.call, old.task)
      /\ UNCHANGED <<state, metadata, executions, queue, published, handlers,
                     ingress>>
  BY <1>old, WorkerFacts
  DEF MarkExecuted, MarkRejected, SettleCall, At, history, HeldCalls, CallLocals
<1> DEFINE t == old.task
           c == old.call
<1>1. old.seq = 2 /\ SecondRun(old) /\ state[t] = "approved"
  BY <1>0 DEF OnceWorker, SecondRun, FirstRun, FirstRunSteps
<1>2. published[t] = 2 /\ ingress[t] = "done"
  BY <1>0, <1>1, <1>old, SecondRunIsAlone
<1>3. PICK row, r :
        /\ calls' = [calls EXCEPT ![c] = row]
        /\ row.task = t
        /\ \/ row.status = "executed"
           \/ row.status = "rejected" /\ old.pc = "reject"
        /\ workers' = [workers EXCEPT ![w] = r]
        /\ r.task = t /\ r.seq = 2 /\ r.pc = "calls" /\ r.todo = old.todo
  <2>1. PICK status : /\ SettleCall(w, status)
                      /\ \/ status = "executed"
                         \/ status = "rejected" /\ old.pc = "reject"
    BY <1>old DEF MarkExecuted, MarkRejected, At
  <2> DEFINE row == WriteRow(t, old.params, status, TRUE)
             r == [old EXCEPT !.pc = "calls", !.call = None, !.params = None]
  <2>2. calls' = [calls EXCEPT ![c] = row] /\ workers' = [workers EXCEPT ![w] = r]
    BY <1>old, <2>1 DEF SettleCall
  <2>3. r.task = t /\ r.seq = 2 /\ r.pc = "calls" /\ r.todo = old.todo
    BY <1>0, <1>1 DEF WorkerRow
  <2>4. row.task = t /\ row.status = status
    BY DEF WriteRow
  <2> HIDE DEF row, r
  <2> QED
    BY <2>1, <2>2, <2>3, <2>4
<1>4. /\ calls'[c] = row
      /\ \A k \in CallIds : k # c => calls'[k] = calls[k]
      /\ \A u \in Tasks : u # t => KeepsTask(u)
  <2>1. calls[c].task = t /\ c \in CallIds
    BY <1>0 DEF Recorded
  <2>2. UNCHANGED <<state, metadata, executions>>
    BY <1>0
  <2>3. calls' = [calls EXCEPT ![c] = row] /\ row.task = t
    BY <1>3
  <2> HIDE DEF t, c
  <2> QED
    BY <2>1, <2>2, <2>3, CallRowKeeps
<1>5. \A k \in CallIds : OnceCall(k)'
  <2>1. old.pc = "reject" => executions[c] = <<>>
    BY <1>1 DEF SecondRun, Untouched
  <2>2. Len(executions[c]) <= 1
    BY <1>0 DEF OnceInv, OnceCall
  <2>3. OnceCall(c)'
    BY <1>0, <1>2, <1>3, <1>4, <2>1, <2>2 DEF OnceCall
  <2>4. \A k \in CallIds : k # c => OnceCall(k)'
    BY <1>0, <1>4 DEF OnceInv, OnceCall, Untouched
  <2> QED
    BY <2>3, <2>4
<1>6. OnceTask(t)'
  BY <1>0, <1>1, <1>2 DEF OnceTask, Early
<1>7. SecondRun(r)'
  <2>1. /\ \A k \in old.todo : k[1] \in CallIds
        /\ \A k \in old.todo : k[1] # c /\ Untouched(k[1])
        /\ \A a, b \in old.todo : a[1] = b[1] => a = b
    BY <1>0, <1>1 DEF WorkerRow, SecondRun
  <2>2. \A k \in old.todo : Untouched(k[1])'
    BY <1>0, <1>4, <2>1 DEF Untouched
  <2>3. state'[t] = "approved"
    BY <1>0, <1>1
  <2> QED
    BY <1>3, <2>1, <2>2, <2>3 DEF SecondRun, SecondRunSteps
<1>8. OnceWorker(r)'
  BY <1>0, <1>2, <1>3, <1>7 DEF OnceWorker
<1> QED
  BY <1>0, <1>1, <1>3, <1>4, <1>5, <1>6, <1>8, <1>old, WorkerActs

---------------------------------------------------------------------------
(* Ingress and decisions *)

\* Before its first message is out nobody works on a task.
LEMMA NobodyYet ==
  ASSUME IInv, OnceInv, NEW t \in Tasks, published[t] = 0
  PROVE  /\ \A v \in Workers : workers[v].task = t => workers[v].pc = "idle"
         /\ \A m \in queue : m.task # t
         /\ \A h \in Handlers : handlers[h].pc = "publish" => handlers[h].task # t
         /\ \A c \in CallIds : ~Recorded(c, t)
<1>1. \A v \in Workers : workers[v].task = t => workers[v].pc = "idle"
  <2>1. \A v \in Workers : OnceWorker(workers[v])
    BY DEF OnceInv
  <2> QED
    BY <2>1 DEF OnceWorker
<1>2. \A m \in queue : m.task # t
  BY DEF OnceInv, OnceMessage
<1>3. \A h \in Handlers : handlers[h].pc = "publish" => handlers[h].task # t
  BY DEF OnceInv, OnceHandler
<1>4. \A c \in CallIds : ~Recorded(c, t)
  BY DEF OnceInv, OnceTask
<1> QED
  BY <1>1, <1>2, <1>3, <1>4

\* The row appears, and is queued, before anybody else knows the task.
LEMMA NewTaskOnce ==
  ASSUME IInv, AnswerInv, OnceInv, NEW t \in Tasks,
         CreateTask(t) \/ EnqueueTask(t)
  PROVE  OnceInv'
<1>1. /\ ingress[t] # "done"
      /\ UNCHANGED <<calls, executions, queue, published, workers, handlers>>
  BY DEF CreateTask, EnqueueTask, history
<1>2. published[t] = 0
  BY <1>1 DEF OnceInv, OnceTask
<1>3. /\ \A v \in Workers : workers[v].task = t => workers[v].pc = "idle"
      /\ \A m \in queue : m.task # t
      /\ \A h \in Handlers : handlers[h].pc = "publish" => handlers[h].task # t
      /\ \A c \in CallIds : ~Recorded(c, t)
  BY <1>2, NobodyYet
<1>4. /\ \/ state'[t] = "received" /\ ingress'[t] = "created"
         \/ state'[t] = "queued" /\ ingress'[t] = "queued"
      /\ \A u \in Tasks : u # t => /\ state'[u] = state[u]
                                   /\ metadata'[u] = metadata[u]
                                   /\ ingress'[u] = ingress[u]
  BY DEF CreateTask, EnqueueTask, UpsertTask, Transition, IInv, TypeOK
<1>5. \A u \in Tasks : u # t => KeepsTask(u) /\ ingress'[u] = ingress[u]
  BY <1>1, <1>4 DEF KeepsTask, Recorded, Untouched
<1>6. OnceTask(t)'
  BY <1>1, <1>2, <1>3, <1>4 DEF OnceTask, Early, Recorded
<1>7. \A c \in CallIds : OnceCall(c)'
  BY <1>1 DEF OnceInv, OnceCall, Untouched
<1> QED
  BY <1>1, <1>3, <1>5, <1>6, <1>7, ActStep

\* One request wins the decision on a parked task, whose first run is over.
LEMMA DecideOnce ==
  ASSUME IInv, AnswerInv, OnceInv, NEW h \in Handlers, CommitDecision(h)
  PROVE  OnceInv'
<1>old. PICK old : old = handlers[h]
  OBVIOUS
<1>0. /\ old \in HandlerRow /\ old.task \in Tasks
      /\ old.pc \in {"approve", "reject"} /\ old.seen # "absent"
      /\ CanTransition(old.seen, HandlerTarget(old.pc))
      /\ Transition(old.task, old.seen, HandlerTarget(old.pc))
      /\ UNCHANGED <<metadata, calls, executions, queue, published, workers,
                     ingress>>
  BY <1>old DEF CommitDecision, IInv, TypeOK, AnswerInv, AnswerHandler, history
<1> DEFINE t == old.task
<1>1. /\ state[t] = "awaiting_approval"
      /\ state'[t] \in {"approved", "rejected"}
      /\ old.pc = "approve" => state'[t] = "approved"
      /\ \A u \in Tasks : u # t => state'[u] = state[u]
  BY <1>0 DEF Transition, CanTransition, Allowed, HandlerTarget, IInv, TypeOK
<1>2. published[t] = 1 /\ ingress[t] = "done"
  BY <1>0, <1>1 DEF OnceInv, OnceTask, Early
<1>3. ASSUME NEW v \in Workers, workers[v].task = t
      PROVE  workers[v].pc \in {"idle", "ack"}
  <2>1. OnceWorker(workers[v])
    BY DEF OnceInv
  <2>2. workers[v].pc # "idle" => FirstRun(workers[v])
    BY <1>2, <1>3, <2>1 DEF OnceWorker
  <2> QED
    BY <1>1, <1>3, <2>2 DEF FirstRun, FirstRunSteps
<1>4. \A m \in queue : m.task = t => m.attempts # 0
  BY <1>1, <1>2 DEF OnceInv, OnceMessage
<1>5. \A g \in Handlers : handlers[g].pc = "publish" => handlers[g].task # t
  BY <1>1 DEF OnceInv, OnceHandler
<1>6. PICK r : /\ handlers' = [handlers EXCEPT ![h] = r]
               /\ r.pc = "publish" => r.task = t /\ old.pc = "approve"
  <2>1. CASE old.pc = "approve"
    <3> DEFINE r == [old EXCEPT !.pc = "publish", !.seen = "absent"]
    <3>1. handlers' = [handlers EXCEPT ![h] = r]
      BY <1>old, <2>1 DEF CommitDecision
    <3>2. r.task = t
      BY <1>0 DEF HandlerRow
    <3> QED
      BY <2>1, <3>1, <3>2
  <2>2. CASE old.pc = "reject"
    <3>1. handlers' = [handlers EXCEPT ![h] = IdleHandler]
      BY <1>old, <2>2 DEF CommitDecision
    <3>2. IdleHandler.pc # "publish"
      BY DEF IdleHandler
    <3> QED
      BY <3>1, <3>2
  <2> QED
    BY <1>0, <2>1, <2>2
<1>7. handlers'[h] = r /\ \A g \in Handlers : g # h => handlers'[g] = handlers[g]
  BY <1>6 DEF IInv, TypeOK
<1>8. r.pc = "publish" => OnceHandler(r)'
  BY <1>0, <1>1, <1>2, <1>6 DEF OnceHandler
<1>9. \A g \in Handlers :
        \/ handlers'[g] = handlers[g]
        \/ handlers'[g].pc = "publish" =>
             /\ OnceHandler(handlers[g])'
             /\ handlers'[g].task = t
             /\ \A k \in Handlers : k # g => handlers'[k] = handlers[k]
  <2>1. handlers'[h].pc = "publish" =>
          OnceHandler(handlers[h])' /\ handlers'[h].task = t
    BY <1>6, <1>7, <1>8
  <2> QED
    BY <1>7, <2>1
<1>10. \A u \in Tasks : u # t => KeepsTask(u) /\ ingress'[u] = ingress[u]
  BY <1>0, <1>1 DEF KeepsTask, Recorded, Untouched
<1>11. OnceTask(t)'
  BY <1>0, <1>1, <1>2 DEF OnceTask, Early
<1>12. \A c \in CallIds : OnceCall(c)'
  BY <1>0 DEF OnceInv, OnceCall, Untouched
<1>13. \A v \in Workers : workers'[v] = workers[v]
                          /\ (workers[v].task = t => workers[v].pc \in {"idle", "ack"})
  BY <1>0, <1>3
<1> QED
  BY <1>0, <1>4, <1>5, <1>9, <1>10, <1>11, <1>12, <1>13, ActStep

---------------------------------------------------------------------------
(* Messages *)

\* What workers, messages, tasks and calls rely on is in these variables.
LEMMA StillOnce ==
  ASSUME UNCHANGED <<state, metadata, calls, executions, published>>
  PROVE  /\ \A r : OnceWorker(r) => OnceWorker(r)'
         /\ \A m : OnceMessage(m) => OnceMessage(m)'
<1>1. \A t : Gated(t)' = Gated(t)
  BY DEF Gated, Recorded
<1>2. \A t : AllUntouched(t)' = AllUntouched(t)
  BY DEF AllUntouched, Recorded, Untouched
<1>3. ASSUME NEW r, OnceWorker(r) PROVE OnceWorker(r)'
  <2>1. FirstRun(r) => FirstRun(r)'
    BY <1>1 DEF FirstRun
  <2>2. SecondRun(r) => SecondRun(r)'
    BY <1>2 DEF SecondRun, Untouched
  <2> QED
    BY <1>3, <2>1, <2>2 DEF OnceWorker
<1>4. ASSUME NEW m, OnceMessage(m) PROVE OnceMessage(m)'
  BY <1>2, <1>4 DEF OnceMessage
<1> QED
  BY <1>3, <1>4

\* A message is handed out, and no copy of it is left to be.
LEMMA DeliverOnce ==
  ASSUME MaxDeliveries = 1, IInv, AnswerInv, OnceInv, NEW w \in Workers, Deliver(w)
  PROVE  OnceInv'
<1>1. /\ workers[w].pc = "idle"
      /\ UNCHANGED <<state, metadata, calls, executions, published, handlers,
                     ingress>>
  BY DEF Deliver, At, store, history
<1>2. PICK m, k, r :
        /\ m \in queue /\ m.attempts = 0 /\ m \in Message
        /\ k.task = m.task /\ k.seq = m.seq /\ k.attempts = 1
        /\ queue' = (queue \ {m}) \cup {k}
        /\ workers' = [workers EXCEPT ![w] = r]
        /\ r.pc = "start" /\ r.task = m.task /\ r.seq = m.seq
        /\ r.seen = "absent" /\ r.todo = {}
  <2>1. PICK m \in queue :
          /\ m.attempts < MaxDeliveries
          /\ queue' = (queue \ {m}) \cup {[m EXCEPT !.attempts = @ + 1]}
          /\ workers' = [workers EXCEPT ![w] =
                           [IdleWorker EXCEPT !.pc = "start",
                                              !.task = m.task, !.seq = m.seq]]
    BY DEF Deliver
  <2> DEFINE k == [m EXCEPT !.attempts = @ + 1]
             r == [IdleWorker EXCEPT !.pc = "start", !.task = m.task, !.seq = m.seq]
  <2>2. m \in Message
    BY DEF IInv, TypeOK
  <2>3. m.attempts = 0
    BY <2>1, <2>2 DEF Message
  <2>4. k.task = m.task /\ k.seq = m.seq /\ k.attempts = 1
    BY <2>2, <2>3 DEF Message
  <2>5. /\ r.pc = "start" /\ r.task = m.task /\ r.seq = m.seq
        /\ r.seen = "absent" /\ r.todo = {}
    BY DEF IdleWorker
  <2>6. queue' = (queue \ {m}) \cup {k} /\ workers' = [workers EXCEPT ![w] = r]
    BY <2>1
  <2> HIDE DEF k, r
  <2> QED
    BY <2>2, <2>3, <2>4, <2>5, <2>6
<1>3. OnceMessage(m) /\ m.task \in Tasks
  BY <1>2 DEF OnceInv, Message
<1>4. OnceWorker(r)
  <2>1. r.seq = 1 => FirstRun(r)
    BY <1>2, <1>3 DEF OnceMessage, FirstRun, FirstRunSteps
  <2>2. r.seq = 2 => SecondRun(r)
    BY <1>2, <1>3 DEF OnceMessage, SecondRun, SecondRunSteps
  <2> QED
    BY <1>2, <1>3, <2>1, <2>2 DEF OnceWorker, OnceMessage
<1>5. workers'[w] = r /\ \A v \in Workers : v # w => workers'[v] = workers[v]
  BY <1>2 DEF IInv, TypeOK
<1>6. ASSUME NEW v \in Workers PROVE OnceWorker(workers[v])'
  <2>1. PICK a : a = workers'[v]
    OBVIOUS
  <2>2. OnceWorker(a)
    BY <1>4, <1>5, <2>1 DEF OnceInv
  <2>3. OnceWorker(a)'
    BY <1>1, <2>2, StillOnce
  <2> QED
    BY <2>1, <2>3
<1>7. ASSUME NEW a \in queue' PROVE OnceMessage(a)'
  <2>1. OnceMessage(a)
    BY <1>2, <1>3 DEF OnceInv, OnceMessage
  <2> QED
    BY <1>1, <2>1, StillOnce
<1>8. ASSUME NEW t \in Tasks PROVE OnceTask(t)'
  <2>1. KeepsTask(t)
    BY <1>1 DEF KeepsTask, Recorded, Untouched
  <2>2. published'[t] = published[t] /\ ingress'[t] = ingress[t] /\ OnceTask(t)
    BY <1>1 DEF OnceInv
  <2> QED
    BY <2>1, <2>2, TaskKept
<1>9. \A h \in Handlers : OnceHandler(handlers[h])'
  BY <1>1 DEF OnceInv, OnceHandler
<1>10. \A c \in CallIds : OnceCall(c)'
  BY <1>1 DEF OnceInv, OnceCall, Untouched
<1>11. Separate'
  <2>1. \A v \in Workers : ~Holds(workers[v], m)
    BY <1>2 DEF OnceInv, Separate
  <2>2. \A a \in queue : a.task = m.task /\ a.seq = m.seq => a = m
    BY <1>2 DEF OnceInv, Separate
  <2>3. \A u, v \in Workers : u # v => ~Holds(workers'[u], workers'[v])
                                       \/ workers'[v].pc = "idle"
    <3>1. \A v \in Workers : v # w => ~Holds(workers[v], r)
      BY <1>2, <2>1 DEF Holds
    <3>2. \A v \in Workers : v # w => ~Holds(r, workers[v]) \/ workers[v].pc = "idle"
      BY <1>2, <2>1 DEF Holds
    <3>3. \A u, v \in Workers : u # v => ~Holds(workers[u], workers[v])
                                         \/ workers[v].pc = "idle"
      BY DEF OnceInv, Separate
    <3> QED
      BY <1>5, <3>1, <3>2, <3>3
  <2>4. \A a, b \in queue' : a.task = b.task /\ a.seq = b.seq => a = b
    <3>1. \A a, b \in queue : a.task = b.task /\ a.seq = b.seq => a = b
      BY DEF OnceInv, Separate
    <3> QED
      BY <1>2, <2>2, <3>1
  <2>5. \A a \in queue', v \in Workers : a.attempts = 0 => ~Holds(workers'[v], a)
    <3>1. ASSUME NEW a \in queue', a.attempts = 0
          PROVE  a \in queue /\ (a.task # m.task \/ a.seq # m.seq)
      BY <1>2, <2>2, <3>1
    <3>2. \A a \in queue, v \in Workers : a.attempts = 0 => ~Holds(workers[v], a)
      BY DEF OnceInv, Separate
    <3>3. \A a : a.task # m.task \/ a.seq # m.seq => ~Holds(r, a)
      BY <1>2 DEF Holds
    <3> QED
      BY <1>5, <3>1, <3>2, <3>3
  <2>6. \A g, h \in Handlers :
          /\ g # h
          /\ handlers'[g].pc = "publish"
          /\ handlers'[h].pc = "publish"
          => handlers'[g].task # handlers'[h].task
    BY <1>1 DEF OnceInv, Separate
  <2> QED
    BY <2>3, <2>4, <2>5, <2>6 DEF Separate, Holds
<1> QED
  BY <1>6, <1>7, <1>8, <1>9, <1>10, <1>11 DEF OnceInv

\* The one message that is to be published next is.
LEMMA PublishOnce ==
  ASSUME IInv, AnswerInv, OnceInv, NEW t \in Tasks, Publish(t),
         UNCHANGED <<state, metadata, calls, executions, workers>>,
         \/ published[t] = 0 /\ state[t] = "queued"
         \/ published[t] = 1 /\ state[t] = "approved",
         \A u \in Tasks : ingress'[u] \in {ingress[u], "done"},
         ingress'[t] = "done",
         \A h \in Handlers :
            \/ handlers'[h].pc # "publish"
            \/ handlers'[h] = handlers[h] /\ handlers[h].task # t
  PROVE  OnceInv'
<1>1. PICK m : /\ queue' = queue \cup {m}
               /\ m.task = t /\ m.seq = published[t] + 1 /\ m.attempts = 0
  <2> DEFINE m == [task |-> t, seq |-> published[t] + 1, attempts |-> 0]
  <2>1. queue' = queue \cup {m}
    BY DEF Publish
  <2>2. m.task = t /\ m.seq = published[t] + 1 /\ m.attempts = 0
    OBVIOUS
  <2> HIDE DEF m
  <2> QED
    BY <2>1, <2>2
<1>2. /\ published'[t] = published[t] + 1
      /\ \A u \in Tasks : u # t => published'[u] = published[u]
  BY DEF Publish, IInv, TypeOK
<1>3. \A u \in Tasks : KeepsTask(u) /\ published[u] \in Nat
  BY DEF KeepsTask, Recorded, Untouched, IInv, TypeOK
<1>4. ASSUME NEW v \in Workers PROVE OnceWorker(workers[v])'
  <2>1. PICK r : r = workers[v]
    OBVIOUS
  <2>2. CASE r.pc # "idle"
    <3>1. /\ r \in WorkerRow /\ HeldCalls(r) /\ CallLocals(r) /\ OnceWorker(r)
          /\ r.task \in Tasks
      BY <2>1, <2>2, WorkerFacts
    <3>2. r.seq <= published'[r.task]
      BY <1>2, <1>3, <2>2, <3>1 DEF OnceWorker
    <3>3. KeepsTask(r.task)
      BY <1>3, <3>1
    <3>4. OnceWorker(r)'
      BY <3>1, <3>2, <3>3, RunKept
    <3> QED
      BY <2>1, <3>4
  <2>3. CASE r.pc = "idle"
    BY <2>1, <2>3 DEF OnceWorker
  <2> QED
    BY <2>2, <2>3
<1>5. AllUntouched(t)
  BY DEF AllUntouched, Recorded, OnceInv, OnceCall
<1>6. ASSUME NEW a \in queue' PROVE OnceMessage(a)'
  <2>1. CASE a \in queue
    <3>1. OnceMessage(a) /\ a.task \in Tasks
      BY <2>1 DEF OnceInv, IInv, TypeOK, Message
    <3>2. a.seq <= published'[a.task]
      BY <1>2, <1>3, <3>1 DEF OnceMessage
    <3>3. KeepsTask(a.task)
      BY <1>3, <3>1
    <3> QED
      BY <3>1, <3>2, <3>3, MessageKept
  <2>2. CASE a = m
    <3>1. AllUntouched(t)'
      BY <1>5 DEF AllUntouched, Recorded, Untouched
    <3> QED
      BY <1>1, <1>2, <2>2, <3>1 DEF OnceMessage
  <2> QED
    BY <1>1, <2>1, <2>2
<1>7. ASSUME NEW u \in Tasks PROVE OnceTask(u)'
  <2>1. CASE u # t
    <3>1. OnceTask(u) /\ published'[u] = published[u]
      BY <1>2, <2>1 DEF OnceInv
    <3>2. KeepsTask(u) /\ ingress'[u] \in {ingress[u], "done"}
      BY <1>3
    <3> QED
      BY <3>1, <3>2, TaskKept
  <2>2. CASE u = t
    <3>1. OnceTask(t)
      BY DEF OnceInv
    <3>2. \A c \in CallIds : Recorded(c, t)' <=> Recorded(c, t)
      BY DEF Recorded
    <3> QED
      BY <1>2, <2>2, <3>1, <3>2 DEF OnceTask
  <2> QED
    BY <2>1, <2>2
<1>8. ASSUME NEW h \in Handlers PROVE OnceHandler(handlers[h])'
  <2>1. CASE handlers'[h].pc = "publish"
    <3>1. /\ handlers'[h] = handlers[h] /\ handlers[h].task # t
          /\ handlers[h].task \in Tasks
      BY <2>1 DEF IInv
    <3>2. state[handlers[h].task] = "approved" /\ published[handlers[h].task] = 1
      BY <2>1, <3>1 DEF OnceInv, OnceHandler
    <3> QED
      BY <1>2, <3>1, <3>2 DEF OnceHandler
  <2> QED
    BY <2>1 DEF OnceHandler
<1>9. ASSUME NEW c \in CallIds PROVE OnceCall(c)'
  <2>1. OnceCall(c)
    BY DEF OnceInv
  <2>2. ~Untouched(c) => calls[c].task \in Tasks /\ calls[c].task # t
    BY <2>1 DEF OnceCall, IInv, StoreInv
  <2> QED
    BY <1>2, <2>1, <2>2 DEF OnceCall, Untouched
<1>10. Separate'
  <2>1. \A a \in queue : a.task = t => a.seq <= published[t] /\ a.seq \in Nat
    BY DEF OnceInv, OnceMessage
  <2>2. \A v \in Workers : ~Holds(workers[v], m)
    <3>1. \A v \in Workers : workers[v].pc # "idle" =>
            workers[v].seq \in Nat /\ workers[v].seq <= published[workers[v].task]
      BY DEF OnceInv, OnceWorker
    <3> QED
      BY <1>1, <1>3, <3>1 DEF Holds
  <2>3. \A v, w \in Workers : v # w => ~Holds(workers'[v], workers'[w])
                                       \/ workers'[w].pc = "idle"
    BY DEF OnceInv, Separate
  <2>4. \A a, b \in queue' : a.task = b.task /\ a.seq = b.seq => a = b
    <3>1. \A a, b \in queue : a.task = b.task /\ a.seq = b.seq => a = b
      BY DEF OnceInv, Separate
    <3>2. \A a \in queue : ~(a.task = m.task /\ a.seq = m.seq)
      BY <1>1, <1>3, <2>1
    <3> QED
      BY <1>1, <3>1, <3>2
  <2>5. \A a \in queue', w \in Workers : a.attempts = 0 => ~Holds(workers'[w], a)
    BY <1>1, <2>2 DEF OnceInv, Separate
  <2>6. \A g, h \in Handlers :
          /\ g # h
          /\ handlers'[g].pc = "publish"
          /\ handlers'[h].pc = "publish"
          => handlers'[g].task # handlers'[h].task
    BY DEF OnceInv, Separate
  <2> QED
    BY <2>3, <2>4, <2>5, <2>6 DEF Separate, Holds
<1> QED
  BY <1>4, <1>6, <1>7, <1>8, <1>9, <1>10 DEF OnceInv

LEMMA FirstMessageOnce ==
  ASSUME IInv, AnswerInv, OnceInv, NEW t \in Tasks, PublishTask(t)
  PROVE  OnceInv'
<1>1. /\ Publish(t) /\ ingress[t] = "queued"
      /\ UNCHANGED <<state, metadata, calls, executions, workers, handlers>>
  BY DEF PublishTask, store, history
<1>2. published[t] = 0 /\ state[t] = "queued"
  BY <1>1 DEF OnceInv, OnceTask
<1>3. /\ \A u \in Tasks : ingress'[u] \in {ingress[u], "done"}
      /\ ingress'[t] = "done"
  BY DEF PublishTask, IInv, TypeOK
<1>4. \A h \in Handlers : \/ handlers'[h].pc # "publish"
                          \/ handlers'[h] = handlers[h] /\ handlers[h].task # t
  BY <1>1, <1>2 DEF OnceInv, OnceHandler
<1> QED
  BY <1>1, <1>2, <1>3, <1>4, PublishOnce

LEMMA SecondMessageOnce ==
  ASSUME IInv, AnswerInv, OnceInv, NEW h \in Handlers, PublishResume(h)
  PROVE  OnceInv'
<1>1. PICK t \in Tasks : t = handlers[h].task
  BY DEF PublishResume, IInv
<1>2. /\ Publish(t) /\ handlers[h].pc = "publish"
      /\ handlers' = [handlers EXCEPT ![h] = IdleHandler]
      /\ UNCHANGED <<state, metadata, calls, executions, workers, ingress>>
  BY <1>1 DEF PublishResume, store, history
<1>3. published[t] = 1 /\ state[t] = "approved"
  BY <1>1, <1>2 DEF OnceInv, OnceHandler
<1>4. ingress[t] = "done"
  BY <1>3 DEF OnceInv, OnceTask
<1>5. \A g \in Handlers : \/ handlers'[g].pc # "publish"
                          \/ handlers'[g] = handlers[g] /\ handlers[g].task # t
  <2>1. IdleHandler.pc # "publish"
    BY DEF IdleHandler
  <2>2. /\ handlers'[h] = IdleHandler
        /\ \A g \in Handlers : g # h => handlers'[g] = handlers[g]
    BY <1>2 DEF IInv, TypeOK
  <2>3. \A g \in Handlers : g # h /\ handlers[g].pc = "publish" =>
          handlers[g].task # t
    BY <1>1, <1>2 DEF OnceInv, Separate
  <2> QED
    BY <2>1, <2>2, <2>3
<1>6. \A u \in Tasks : ingress'[u] \in {ingress[u], "done"}
  BY <1>2
<1> QED
  BY <1>2, <1>3, <1>4, <1>5, <1>6, PublishOnce

---------------------------------------------------------------------------
(* Which steps send, and which change a task's state *)

LEMMA ExecutionsKept ==
  ASSUME [Next]_vars
  PROVE  UNCHANGED executions \/ \E w \in Workers : ExecuteCall(w)
<1>1. CASE UNCHANGED vars
  BY <1>1 DEF vars
<1>2. ASSUME NEW t \in Tasks, IngressNext(t) \/ IngressFault(t)
      PROVE  UNCHANGED executions
  BY <1>2 DEF IngressNext, CreateTask, EnqueueTask, PublishTask, IngressFault, history
<1>3. ASSUME NEW h \in Handlers, HandlerNext(h) \/ HandlerFault(h)
      PROVE  UNCHANGED executions
  BY <1>3 DEF HandlerNext, ReadForDecision, RefuseDecision, CommitDecision,
              LoseDecision, PublishResume, HandlerFault, history
<1>4. ASSUME NEW w \in Workers, ~ExecuteCall(w),
             Deliver(w) \/ WorkerNext(w) \/ HaltOnBudget(w) \/ WorkerFault(w)
      PROVE  UNCHANGED executions
  <2>1. CASE Deliver(w) \/ Ack(w) \/ HaltOnBudget(w) \/ WorkerFault(w)
    BY <2>1 DEF Deliver, Ack, HaltOnBudget, WorkerFault, history
  <2>2. CASE TransitionStep(w)
    BY <2>2 DEF TransitionStep, ReadForTransition, RefuseTransition,
                CommitTransition, LoseRace, history
  <2>3. CASE FreshRunStep(w)
    BY <2>3 DEF FreshRunStep, LoadTask, RunMesh, Recheck, ReadTool, EndReads,
                GateCall, OpenApproval, LinkApproval, ReadRowSnapshot,
                StashTokens, WriteSummary, history
  <2>4. CASE ResumeStep(w)
    BY <1>4, <2>4 DEF ResumeStep, ListCalls, JudgeCall, MarkExecuted,
                      MarkRejected, SettleCall, EndCalls, history
  <2> QED
    BY <1>4, <2>1, <2>2, <2>3, <2>4 DEF WorkerNext
<1>5. ASSUME NEW h \in Handlers, NEW c \in CallIds, NEW d \in Decisions,
             SubmitDecision(h, c, d)
      PROVE  UNCHANGED executions
  BY <1>5 DEF SubmitDecision
<1>6. ASSUME NEW c \in CallIds, NEW p \in Payloads, AmendParameters(c, p)
      PROVE  UNCHANGED executions
  BY <1>6 DEF AmendParameters, history
<1> QED
  BY <1>1, <1>2, <1>3, <1>4, <1>5, <1>6 DEF Next, Environment

LEMMA StateKept ==
  ASSUME [Next]_vars
  PROVE  \/ UNCHANGED <<state, events>>
         \/ \E t \in Tasks : CreateTask(t) \/ EnqueueTask(t)
         \/ \E w \in Workers : CommitTransition(w) \/ StashTokens(w) \/ WriteSummary(w)
         \/ \E h \in Handlers : CommitDecision(h)
<1>1. CASE UNCHANGED vars
  BY <1>1 DEF vars
<1>2. ASSUME NEW t \in Tasks, PublishTask(t) \/ IngressFault(t)
      PROVE  UNCHANGED <<state, events>>
  BY <1>2 DEF PublishTask, IngressFault, store
<1>3. ASSUME NEW h \in Handlers, ~CommitDecision(h), HandlerNext(h) \/ HandlerFault(h)
      PROVE  UNCHANGED <<state, events>>
  BY <1>3 DEF HandlerNext, ReadForDecision, RefuseDecision, LoseDecision,
              PublishResume, HandlerFault, store
<1>4. ASSUME NEW w \in Workers,
             ~(CommitTransition(w) \/ StashTokens(w) \/ WriteSummary(w)),
             Deliver(w) \/ WorkerNext(w) \/ HaltOnBudget(w) \/ WorkerFault(w)
      PROVE  UNCHANGED <<state, events>>
  <2>1. CASE Deliver(w) \/ Ack(w) \/ HaltOnBudget(w) \/ WorkerFault(w)
    BY <2>1 DEF Deliver, Ack, HaltOnBudget, WorkerFault, store
  <2>2. CASE TransitionStep(w)
    BY <1>4, <2>2 DEF TransitionStep, ReadForTransition, RefuseTransition,
                      LoseRace, store
  <2>3. CASE FreshRunStep(w)
    BY <1>4, <2>3 DEF FreshRunStep, LoadTask, RunMesh, Recheck, ReadTool,
                      EndReads, GateCall, OpenApproval, LinkApproval,
                      ReadRowSnapshot, store
  <2>4. CASE ResumeStep(w)
    BY <2>4 DEF ResumeStep, ListCalls, JudgeCall, ExecuteCall, MarkExecuted,
                MarkRejected, SettleCall, EndCalls, store
  <2> QED
    BY <1>4, <2>1, <2>2, <2>3, <2>4 DEF WorkerNext
<1>5. ASSUME NEW h \in Handlers, NEW c \in CallIds, NEW d \in Decisions,
             SubmitDecision(h, c, d)
      PROVE  UNCHANGED <<state, events>>
  BY <1>5 DEF SubmitDecision
<1>6. ASSUME NEW c \in CallIds, NEW p \in Payloads, AmendParameters(c, p)
      PROVE  UNCHANGED <<state, events>>
  BY <1>6 DEF AmendParameters
<1> QED
  BY <1>1, <1>2, <1>3, <1>4, <1>5, <1>6 DEF Next, Environment, IngressNext

---------------------------------------------------------------------------
(* The invariant, and what it says *)

LEMMA InitOnce == Init => OnceInv
<1> SUFFICES ASSUME Init PROVE OnceInv
  OBVIOUS
<1>1. \A w \in Workers : workers[w].pc = "idle"
  BY DEF Init, IdleWorker
<1>2. \A h \in Handlers : handlers[h].pc = "idle"
  BY DEF Init, IdleHandler
<1>3. \A c \in CallIds : /\ calls[c].status = "absent"
                         /\ executions[c] = <<>> /\ Len(executions[c]) = 0
  BY DEF Init, NoCallRow
<1>4. \A t \in Tasks : OnceTask(t)
  BY <1>3 DEF Init, OnceTask, Early, Recorded
<1>5. \A c \in CallIds : OnceCall(c)
  BY <1>3 DEF OnceCall, Untouched
<1>6. Separate
  BY <1>1, <1>2 DEF Init, Separate
<1>7. queue = {}
  BY DEF Init
<1> QED
  BY <1>1, <1>2, <1>4, <1>5, <1>6, <1>7 DEF OnceInv, OnceWorker, OnceHandler

LEMMA StutterOnce ==
  ASSUME IInv, AnswerInv, OnceInv, UNCHANGED vars
  PROVE  OnceInv'
<1>1. UNCHANGED <<state, metadata, calls, executions, queue, published, workers,
                  handlers, ingress>>
  BY DEF vars
<1>2. \A u \in Tasks : KeepsTask(u) /\ ingress'[u] = ingress[u]
  BY <1>1 DEF KeepsTask, Recorded, Untouched
<1>3. \A c \in CallIds : OnceCall(c)'
  BY <1>1 DEF OnceInv, OnceCall, Untouched
<1> QED
  BY <1>1, <1>2, <1>3, KeptStep

LEMMA NextOnce ==
  ASSUME MaxDeliveries = 1, IInv, AnswerInv, OnceInv, [Next]_vars
  PROVE  OnceInv'
<1>1. CASE UNCHANGED vars
  BY <1>1, StutterOnce
<1>2. ASSUME NEW t \in Tasks, IngressNext(t) \/ IngressFault(t)
      PROVE  OnceInv'
  BY <1>2, NewTaskOnce, FirstMessageOnce, RequestOnce DEF IngressNext
<1>3. ASSUME NEW h \in Handlers, HandlerNext(h) \/ HandlerFault(h)
      PROVE  OnceInv'
  BY <1>3, RequestOnce, DecideOnce, SecondMessageOnce DEF HandlerNext
<1>4. ASSUME NEW w \in Workers,
             Deliver(w) \/ WorkerNext(w) \/ HaltOnBudget(w) \/ WorkerFault(w)
      PROVE  OnceInv'
  <2>1. CASE Deliver(w) \/ Ack(w) \/ WorkerFault(w) \/ HaltOnBudget(w)
    BY <2>1, DeliverOnce, AckOnce, GiveUpOnce, FirstRunMoves
  <2>2. CASE TransitionStep(w)
    BY <2>2, ReadOnce, GiveUpOnce, CommitOnce DEF TransitionStep
  <2>3. CASE FreshRunStep(w)
    BY <2>3, ForkOnce, FirstRunMoves, RecordOnce, LinkOnce, ReadOnce, StashOnce,
       SummaryOnce DEF FreshRunStep
  <2>4. CASE ResumeStep(w)
    BY <2>4, SecondRunMoves, ExecuteOnce, SettleOnce DEF ResumeStep
  <2> QED
    BY <1>4, <2>1, <2>2, <2>3, <2>4 DEF WorkerNext
<1>5. ASSUME NEW h \in Handlers, NEW c \in CallIds, NEW d \in Decisions,
             SubmitDecision(h, c, d)
      PROVE  OnceInv'
  BY <1>5, RequestOnce
<1>6. ASSUME NEW c \in CallIds, NEW p \in Payloads, AmendParameters(c, p)
      PROVE  OnceInv'
  BY <1>6, RequestOnce
<1> QED
  BY <1>1, <1>2, <1>3, <1>4, <1>5, <1>6 DEF Next, Environment

\* With every message delivered once, nobody acts on a task at the same time as
\* somebody else, in every reachable state.
THEOREM OnceInvariance ==
  ASSUME MaxDeliveries = 1
  PROVE  Spec => [](IInv /\ AnswerInv /\ OnceInv)
<1>1. Init => IInv /\ AnswerInv /\ OnceInv
  BY InitInv, InitAnswer, InitOnce
<1>2. IInv /\ AnswerInv /\ OnceInv /\ [Next]_vars => (IInv /\ AnswerInv /\ OnceInv)'
  BY NextInv, NextAnswer, NextOnce
<1> QED
  BY <1>1, <1>2, PTL DEF Spec

\* With every message delivered once, no gated write is handed to the Tool
\* Gateway twice: whoever dies, answers late or answers again, there is one
\* run that may send it.
THEOREM SentAtMostOnce ==
  ASSUME MaxDeliveries = 1
  PROVE  Spec => []AtMostOnceSent
<1>1. OnceInv => AtMostOnceSent
  BY DEF OnceInv, OnceCall, AtMostOnceSent
<1> QED
  BY <1>1, OnceInvariance, PTL

\* With every message delivered once, a call marked rejected was never sent,
\* and nothing of a rejected task was: an approval and a rejection of the same
\* task cannot both take effect.
THEOREM RejectionIsRespected ==
  ASSUME MaxDeliveries = 1
  PROVE  Spec => []RejectedNeverSent
<1>1. OnceInv => RejectedNeverSent
  BY DEF OnceInv, OnceCall, OnceTask, Untouched, RejectedNeverSent
<1> QED
  BY <1>1, OnceInvariance, PTL

\* With every message delivered once, a parked task holds the token of each of
\* its gated writes, however many there are.
THEOREM NoTokenIsLost ==
  ASSUME MaxDeliveries = 1
  PROVE  Spec => []EveryGatedCallAnswerable
<1>1. OnceInv => EveryGatedCallAnswerable
  BY DEF OnceInv, OnceTask, Gated, Recorded, CallsOf, EveryGatedCallAnswerable
<1> QED
  BY <1>1, OnceInvariance, PTL

\* With every message delivered once, a write goes out only in a step that
\* finds its task approved.
THEOREM SendsFindTaskApproved ==
  ASSUME MaxDeliveries = 1
  PROVE  Spec => SentOnlyWhileApproved
<1>1. ASSUME IInv, AnswerInv, OnceInv, [Next]_vars
      PROVE  \A c \in CallIds : executions'[c] # executions[c]
                => state[calls[c].task] = "approved"
  <2>1. CASE UNCHANGED executions
    BY <2>1
  <2>2. ASSUME NEW w \in Workers, ExecuteCall(w)
        PROVE  \A c \in CallIds : executions'[c] # executions[c]
                  => state[calls[c].task] = "approved"
    <3>1. /\ OnceWorker(workers[w]) /\ workers[w].pc = "exec"
          /\ Recorded(workers[w].call, workers[w].task)
      BY <1>1, <2>2, WorkerFacts DEF ExecuteCall, At, CallLocals
    <3>2. state[workers[w].task] = "approved"
      BY <3>1 DEF OnceWorker, FirstRun, FirstRunSteps, SecondRun
    <3>3. \A c \in CallIds : executions'[c] # executions[c] => c = workers[w].call
      BY <1>1, <2>2 DEF ExecuteCall, IInv, TypeOK
    <3> QED
      BY <3>1, <3>2, <3>3 DEF Recorded
  <2>3. UNCHANGED executions \/ \E w \in Workers : ExecuteCall(w)
    BY <1>1, ExecutionsKept
  <2> QED
    BY <2>1, <2>2, <2>3
<1>2. IInv /\ AnswerInv /\ OnceInv /\ [Next]_vars
      => [\A c \in CallIds : executions'[c] # executions[c]
            => state[calls[c].task] = "approved"]_vars
  BY <1>1
<1> QED
  BY <1>2, OnceInvariance, PTL DEF Spec, SentOnlyWhileApproved

\* Every step is one of the lifecycle, or leaves states and audit rows alone.
LEMMA LifecycleStep ==
  ASSUME IInv, AnswerInv, OnceInv, [Next]_vars
  PROVE  [Lifecycle!Next]_(Lifecycle!vars)
<1>1. CASE UNCHANGED <<state, events>>
  BY <1>1 DEF Lifecycle!vars
<1>2. ASSUME NEW t \in Tasks, CreateTask(t) PROVE Lifecycle!Next
  <2>1. state[t] = "absent"
    BY <1>2 DEF CreateTask, AnswerInv, AnswerTask
  <2>2. Lifecycle!Create(t)
    BY <1>2, <2>1 DEF CreateTask, UpsertTask, Lifecycle!Create
  <2> QED
    BY <2>2 DEF Lifecycle!Next
<1>3. ASSUME NEW t \in Tasks, NEW s, NEW target \in TaskState,
             Transition(t, s, target), CanTransition(s, target)
      PROVE  Lifecycle!Next
  <2>1. Lifecycle!Move(t, target)
    BY <1>3 DEF Transition, Lifecycle!Move, CanTransition, Allowed,
                Lifecycle!CanTransition, Lifecycle!Allowed
  <2> QED
    BY <2>1 DEF Lifecycle!Next, TaskState, Lifecycle!TaskState
<1>4. ASSUME NEW t \in Tasks, EnqueueTask(t) PROVE Lifecycle!Next
  <2>1. Transition(t, "received", "queued")
    BY <1>4 DEF EnqueueTask
  <2>2. CanTransition("received", "queued") /\ "queued" \in TaskState
    BY DEF CanTransition, Allowed, TaskState
  <2> QED
    BY <2>1, <2>2, <1>3
<1>5. ASSUME NEW w \in Workers, CommitTransition(w) PROVE Lifecycle!Next
  <2>1. PICK r : r = workers[w] /\ r.task \in Tasks /\ SnapshotLocals(r)
    BY <1>5, WorkerFacts DEF CommitTransition, TransitionSteps
  <2>2. Transition(r.task, r.seen, TransitionTarget(r.pc))
    BY <1>5, <2>1 DEF CommitTransition
  <2>3. CanTransition(r.seen, TransitionTarget(r.pc))
    BY <1>5, <2>1 DEF CommitTransition, SnapshotLocals
  <2>4. TransitionTarget(r.pc) \in TaskState
    BY DEF TransitionTarget, TaskState
  <2> QED
    BY <2>1, <2>2, <2>3, <2>4, <1>3
<1>6. ASSUME NEW h \in Handlers, CommitDecision(h) PROVE Lifecycle!Next
  <2>1. PICK r : r = handlers[h] /\ r.task \in Tasks /\ AnswerHandler(r)
    BY <1>6 DEF CommitDecision, IInv, AnswerInv
  <2>2. Transition(r.task, r.seen, HandlerTarget(r.pc))
    BY <1>6, <2>1 DEF CommitDecision
  <2>3. CanTransition(r.seen, HandlerTarget(r.pc))
    BY <1>6, <2>1 DEF CommitDecision, AnswerHandler
  <2>4. HandlerTarget(r.pc) \in TaskState
    BY DEF HandlerTarget, TaskState
  <2> QED
    BY <2>1, <2>2, <2>3, <2>4, <1>3
<1>7. ASSUME NEW w \in Workers, StashTokens(w) \/ WriteSummary(w)
      PROVE  UNCHANGED <<state, events>>
  <2>1. PICK r : r = workers[w] /\ r.task \in Tasks /\ OnceWorker(r)
    BY <1>7, WorkerFacts DEF StashTokens, WriteSummary, At
  <2>2. r.pc \in {"stash", "summary"} /\ r.seen # "absent"
    BY <1>7, <2>1 DEF StashTokens, WriteSummary, At
  <2>3. r.seen = state[r.task]
    BY <2>2, <2>1 DEF OnceWorker, FirstRun, SecondRun, SecondRunSteps
  <2>4. UNCHANGED events /\ state' = [state EXCEPT ![r.task] = r.seen]
    BY <1>7, <2>1 DEF StashTokens, WriteSummary, UpsertTask
  <2> QED
    BY <2>1, <2>3, <2>4 DEF IInv, TypeOK
<1>8. \/ UNCHANGED <<state, events>>
      \/ \E t \in Tasks : CreateTask(t) \/ EnqueueTask(t)
      \/ \E w \in Workers : CommitTransition(w) \/ StashTokens(w) \/ WriteSummary(w)
      \/ \E h \in Handlers : CommitDecision(h)
  BY StateKept
<1> QED
  BY <1>1, <1>2, <1>4, <1>5, <1>6, <1>7, <1>8

\* With every message delivered once, the store implements TaskLifecycle: a
\* row appears once, moves only along the transition table with one audit row
\* per move, and the upserts of whole rows change no state.
THEOREM StoreKeepsLifecycle ==
  ASSUME MaxDeliveries = 1
  PROVE  Spec => LifecycleSpec
<1>1. Init => Lifecycle!Init
  BY DEF Init, Lifecycle!Init
<1>2. IInv /\ AnswerInv /\ OnceInv /\ [Next]_vars => [Lifecycle!Next]_(Lifecycle!vars)
  BY LifecycleStep
<1> QED
  BY <1>1, <1>2, OnceInvariance, PTL
  DEF Spec, LifecycleSpec, Lifecycle!Spec

\* With every message delivered once, a terminal state is final (enums.py), for
\* all that whole rows are written back: it takes a second delivery to undo it.
THEOREM TerminalStatesAreFinal ==
  ASSUME MaxDeliveries = 1
  PROVE  Spec => TerminalIsFinal
<1>1. ASSUME IInv, [Lifecycle!Next]_(Lifecycle!vars)
      PROVE  \A t \in Tasks : IsTerminal(state[t]) => state'[t] = state[t]
  <2>1. CASE UNCHANGED Lifecycle!vars
    BY <2>1 DEF Lifecycle!vars
  <2>2. ASSUME NEW u \in Tasks, NEW s, ~IsTerminal(state[u]),
               state' = [state EXCEPT ![u] = s]
        PROVE  \A t \in Tasks : IsTerminal(state[t]) => state'[t] = state[t]
    BY <1>1, <2>2 DEF IInv, TypeOK
  <2>3. ASSUME NEW u \in Tasks, Lifecycle!Create(u)
        PROVE  ~IsTerminal(state[u]) /\ state' = [state EXCEPT ![u] = "received"]
    BY <2>3 DEF Lifecycle!Create, IsTerminal, TERMINAL_STATES
  <2>4. ASSUME NEW u \in Tasks, NEW s, Lifecycle!Move(u, s)
        PROVE  ~IsTerminal(state[u]) /\ state' = [state EXCEPT ![u] = s]
    BY <2>4 DEF Lifecycle!Move, Lifecycle!CanTransition, Lifecycle!Allowed,
                IsTerminal, TERMINAL_STATES
  <2> QED
    BY <1>1, <2>1, <2>2, <2>3, <2>4 DEF Lifecycle!Next
<1>2. IInv /\ AnswerInv /\ OnceInv /\ [Next]_vars
      => [\A t \in Tasks : IsTerminal(state[t]) => state'[t] = state[t]]_vars
  BY <1>1, LifecycleStep
<1> QED
  BY <1>2, OnceInvariance, PTL DEF Spec, TerminalIsFinal

=============================================================================
