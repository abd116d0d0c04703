--------------------------- MODULE MeshRunProofs ---------------------------
(***************************************************************************)
(* Theorems about MeshRun, for any number of tasks, workers, deliveries,   *)
(* months and faults, and any estimates, prices and caps.                  *)
(***************************************************************************)
EXTENDS MeshRun, FiniteSetTheorems, TLAPS

BillRow == [kind : Kinds, run : Nat, turn : Turns]

Delivery == [pc : RunStep, task : Tasks, kind : Kinds \cup {"resume"}, run : Nat,
             turn : 0..AtGate, booked : 0..MaxCost, proposes : BOOLEAN,
             seen : RunState]

Turning == {"check", "invoke", "record", "halt"}

SameRun(x, y) == x.kind = y.kind /\ x.run = y.run

(* Below s is the state of a task, e the runs that entered its graph, a its  *)
(* approvals, th its thread, b its bills, h its budget_halt rows, and f the  *)
(* faults so far.                                                            *)

\* A rerun is of an approved task, so a task's second fresh run comes after its
\* first approval; a thread inside the turns at an approval is that of a rerun.
TaskOK(s, e, a, th, b, h, f) ==
    /\ s = "queued" => e["fresh"] = 0 /\ a = 0
    /\ s # "queued" => e["fresh"] >= 1
    /\ e["fresh"] <= 1 + a
    /\ s = "approved" => e["fresh"] <= a
    /\ ~Durable => th = NoThread
    /\ th \in Turns /\ (a >= 1 \/ s = "awaiting_approval") => e["fresh"] >= 2
    /\ e["stray"] > 0 => e["fresh"] >= 2
    /\ \A i, j \in DOMAIN b : b[i] = b[j] => i = j
    /\ \A i \in DOMAIN b : b[i].run \in 1..e[b[i].kind]
    /\ \A i \in DOMAIN h : h[i].run \in 1..e[h[i].kind]
    /\ \A i, j \in DOMAIN h : SameRun(h[i], h[j]) => i = j
    /\ \A i \in DOMAIN h, j \in DOMAIN b :
         SameRun(h[i], b[j]) => b[j].turn < h[i].turn
    /\ s = "failed" => h # <<>>
    /\ e["fresh"] = 1 /\ f = 0 /\ h # <<>> => a = 0 /\ s \in {"running", "failed"}

\* A delivery is a run's only between its entry and its end.
Placed(r, a) ==
    /\ r.pc \in {"idle", "claim", "resume"} => r.kind = "resume"
    /\ r.pc \in Turning \cup {"fail", "gate"} => r.kind # "resume"
    /\ r.kind = "resume" =>
         r.pc \in {"idle", "claim", "resume", "recheck", "complete"}
    /\ r.kind = "resume" /\ r.pc \notin {"idle", "claim"} => a >= 1
    /\ r.proposes =>
         r.kind = "fresh" /\ r.pc \in {"recheck", "read", "save", "park"}
    /\ r.pc \in {"read", "save", "park"} => r.proposes

\* While a fresh run is in progress its task is neither parked nor approved; a
\* run is ahead of all that was billed to it; and as long as a task has one run,
\* and no fault happened, a halt is followed by the transition to failed.
RowOK(r, s, e, a, th, b, h, f) ==
    /\ Placed(r, a)
    /\ r.kind # "resume" => r.run \in 1..e[r.kind]
    /\ r.proposes => (th \in Turns => e["fresh"] >= 2)
    /\ r.pc = "fail" => h # <<>>
    /\ r.kind = "fresh" =>
         /\ s \in {"running", "completed", "failed"}
         /\ e["fresh"] = 1 => a = 0 /\ (r.pc # "recheck" => s = "running")
    /\ r.pc = "save" =>
         /\ r.seen \in {"running", "completed", "failed"}
         /\ r.seen = "failed" => h # <<>>
         /\ e["fresh"] = 1 => r.seen = "running"
    /\ r.pc \in Turning =>
         /\ \A j \in DOMAIN b : SameRun(b[j], r) =>
              b[j].turn < r.turn \/ (r.pc = "record" /\ b[j].turn = r.turn)
         /\ \A i \in DOMAIN h : ~SameRun(h[i], r)
    /\ r.kind = "fresh" /\ e["fresh"] = 1 /\ f = 0 /\ h # <<>> =>
         r.pc = "fail" \/ (r.pc = "recheck" /\ s = "failed")

\* Two fresh runs of a task are never in progress at once; two resumes that
\* went astray are different runs.
Apart(r1, r2) ==
    r1.task = r2.task /\ r1.kind = r2.kind /\ r1.kind # "resume"
      => r1.kind = "stray" /\ r1.run # r2.run

TaskIsOK(t) ==
    TaskOK(state[t], entered[t], approvals[t], thread[t], billed[t], halts[t], faults)

RowIsOK(w, t) ==
    RowOK(at[w], state[t], entered[t], approvals[t], thread[t], billed[t], halts[t],
          faults)

RunInv ==
    /\ TypeOK
    /\ \A t \in Tasks : TaskIsOK(t)
    /\ \A w \in Workers : RowIsOK(w, Task(w))
    /\ \A v, w \in Workers : v # w => Apart(at[v], at[w])

BudgetOK ==
    /\ month \in Months
    /\ ledger \in [Months -> Nat] /\ paid \in [Months -> Nat]
    /\ spent \in [Tasks -> Nat]
    /\ guesses \in 0..MaxGuesses

---------------------------------------------------------------------------

LEMMA FourTurns == Len(Roles) = 4 /\ Turns = 1..4 /\ AtGate = 5 /\ Finished = 6
  BY DEF Roles, Turns, AtGate, Finished

\* What is there for a step of a worker.
LEMMA WorkerAt ==
  ASSUME RunInv, NEW w \in Workers
  PROVE  /\ Task(w) \in Tasks /\ at[w] \in Delivery /\ at \in [Workers -> Delivery]
         /\ state[Task(w)] \in RunState /\ entered[Task(w)] \in [Kinds -> Nat]
         /\ approvals[Task(w)] \in Nat /\ thread[Task(w)] \in NoThread..Finished
         /\ billed[Task(w)] \in Seq(BillRow) /\ halts[Task(w)] \in Seq(BillRow)
         /\ faults \in 0..MaxFaults /\ faults \in Nat
         /\ at[w].pc \in Turning => at[w].turn \in Turns
         /\ TaskIsOK(Task(w)) /\ RowIsOK(w, Task(w))
         /\ \A v \in Workers \ {w} :
              /\ at[v] \in Delivery
              /\ at[v].task = Task(w) => RowIsOK(v, Task(w))
              /\ Apart(at[v], at[w])
<1>1. at \in [Workers -> Delivery]
  BY DEF RunInv, TypeOK, Delivery
<1>2. at[w] \in Delivery /\ Task(w) \in Tasks
  BY <1>1 DEF Delivery, Task
<1>3. faults \in 0..MaxFaults /\ faults \in Nat
  BY ConstantsAssumption DEF RunInv, TypeOK
<1>4. /\ TaskIsOK(Task(w)) /\ RowIsOK(w, Task(w))
      /\ \A v \in Workers \ {w} :
           /\ at[v].task = Task(w) => RowIsOK(v, Task(w))
           /\ Apart(at[v], at[w])
  BY <1>2 DEF RunInv, Task
<1>5. /\ state[Task(w)] \in RunState /\ entered[Task(w)] \in [Kinds -> Nat]
      /\ approvals[Task(w)] \in Nat /\ thread[Task(w)] \in NoThread..Finished
      /\ billed[Task(w)] \in Seq(BillRow) /\ halts[Task(w)] \in Seq(BillRow)
      /\ at[w].pc \in Turning => at[w].turn \in Turns
  BY <1>2 DEF RunInv, TypeOK, BillRow, Turning
<1> QED
  BY <1>1, <1>2, <1>3, <1>4, <1>5

LEMMA FaultsOnlyExcuse ==
  ASSUME NEW f \in Nat, NEW g \in Nat, g >= f,
         NEW s, NEW e, NEW a, NEW th, NEW b, NEW h
  PROVE  /\ TaskOK(s, e, a, th, b, h, f) => TaskOK(s, e, a, th, b, h, g)
         /\ \A r : RowOK(r, s, e, a, th, b, h, f) => RowOK(r, s, e, a, th, b, h, g)
<1>1. g = 0 => f = 0
  OBVIOUS
<1>2. TaskOK(s, e, a, th, b, h, f) => TaskOK(s, e, a, th, b, h, g)
  BY <1>1 DEF TaskOK
<1>3. ASSUME NEW r, RowOK(r, s, e, a, th, b, h, f)
      PROVE  RowOK(r, s, e, a, th, b, h, g)
  BY <1>1, <1>3 DEF RowOK
<1> QED
  BY <1>2, <1>3

\* A step of a worker: its row becomes r, and of the tasks only r's changes.
LEMMA WorkerStep ==
  ASSUME RunInv, NEW w \in Workers, NEW r \in Delivery, NEW t \in Tasks, r.task = t,
         NEW s \in RunState, NEW e \in [Kinds -> Nat], NEW th \in NoThread..Finished,
         NEW b \in Seq(BillRow), NEW h \in Seq(BillRow),
         at' = [at EXCEPT ![w] = r],
         state' = [state EXCEPT ![t] = s],
         entered' = [entered EXCEPT ![t] = e],
         thread' = [thread EXCEPT ![t] = th],
         billed' = [billed EXCEPT ![t] = b],
         halts' = [halts EXCEPT ![t] = h],
         UNCHANGED <<gated, approvals>>, pending' \in [Tasks -> Nat], BudgetOK',
         faults' \in 0..MaxFaults, faults' >= faults,
         r.pc \in Turning => r.turn \in Turns,
         TaskOK(s, e, approvals[t], th, b, h, faults'),
         RowOK(r, s, e, approvals[t], th, b, h, faults'),
         \A v \in Workers \ {w} :
           /\ at[v].task = t =>
                RowOK(at[v], s, e, approvals[t], th, b, h, faults')
           /\ Apart(at[v], r)
  PROVE  RunInv'
<1>0. t \in Tasks /\ faults \in Nat /\ faults' \in Nat /\ at \in [Workers -> Delivery]
  BY ConstantsAssumption, WorkerAt DEF Delivery
<1>1. /\ at' \in [Workers -> Delivery] /\ at'[w] = r
      /\ \A v \in Workers \ {w} : at'[v] = at[v]
  BY <1>0
<1>2. /\ state' \in [Tasks -> RunState] /\ entered' \in [Tasks -> [Kinds -> Nat]]
      /\ thread' \in [Tasks -> NoThread..Finished]
      /\ billed' \in [Tasks -> Seq(BillRow)] /\ halts' \in [Tasks -> Seq(BillRow)]
      /\ state'[t] = s /\ entered'[t] = e /\ thread'[t] = th /\ billed'[t] = b
      /\ halts'[t] = h
      /\ \A u \in Tasks \ {t} :
           /\ state'[u] = state[u] /\ entered'[u] = entered[u]
           /\ thread'[u] = thread[u] /\ billed'[u] = billed[u]
           /\ halts'[u] = halts[u]
  BY <1>0 DEF RunInv, TypeOK, BillRow
<1>3. \A v \in Workers : at'[v].pc \in Turning => at'[v].turn \in Turns
  BY <1>1 DEF RunInv, TypeOK, Turning
<1>4. TypeOK'
  BY <1>1, <1>2, <1>3 DEF RunInv, TypeOK, BudgetOK, Delivery, BillRow, Turning
<1>5. \A u \in Tasks : TaskIsOK(u)'
  <2> SUFFICES ASSUME NEW u \in Tasks PROVE TaskIsOK(u)'
    OBVIOUS
  <2>1. CASE u = t
    BY <1>2, <2>1 DEF TaskIsOK
  <2>2. CASE u # t
    BY <1>0, <1>2, <2>2, FaultsOnlyExcuse DEF RunInv, TaskIsOK
  <2> QED
    BY <2>1, <2>2
<1>6. \A v \in Workers : RowIsOK(v, Task(v))'
  <2> SUFFICES ASSUME NEW v \in Workers PROVE RowIsOK(v, Task(v))'
    OBVIOUS
  <2>1. CASE v = w
    BY <1>1, <1>2, <2>1 DEF RowIsOK, Task
  <2>2. CASE v # w /\ at[v].task = t
    BY <1>1, <1>2, <2>2 DEF RowIsOK, Task
  <2>3. CASE v # w /\ at[v].task # t
    <3> DEFINE u == at[v].task
    <3>1. u \in Tasks \ {t} /\ RowIsOK(v, u)
      BY <1>0, <2>3 DEF RunInv, Delivery, Task
    <3>2. RowOK(at[v], state[u], entered[u], approvals[u], thread[u], billed[u],
                halts[u], faults')
      <4>1. RowOK(at[v], state[u], entered[u], approvals[u], thread[u], billed[u],
                  halts[u], faults)
        BY <3>1 DEF RowIsOK
      <4> HIDE DEF u
      <4> QED
        BY <1>0, <4>1, FaultsOnlyExcuse
    <3>3. /\ at'[v] = at[v] /\ state'[u] = state[u] /\ entered'[u] = entered[u]
          /\ thread'[u] = thread[u] /\ billed'[u] = billed[u]
          /\ halts'[u] = halts[u] /\ approvals'[u] = approvals[u]
      BY <1>1, <1>2, <2>3, <3>1
    <3>4. Task(v)' = u
      BY <1>1, <2>3 DEF Task
    <3> HIDE DEF u
    <3>5. RowOK(at'[v], state'[u], entered'[u], approvals'[u], thread'[u], billed'[u],
                halts'[u], faults')
      BY <3>2, <3>3
    <3> QED
      BY <3>4, <3>5 DEF RowIsOK
  <2> QED
    BY <2>1, <2>2, <2>3
<1>7. \A v, x \in Workers : v # x => Apart(at'[v], at'[x])
  BY <1>1 DEF RunInv, Apart
<1> QED
  BY <1>4, <1>5, <1>6, <1>7 DEF RunInv

\* A step that changes no task: of the row, or of what it is the row of.
LEMMA MoveStep ==
  ASSUME RunInv, NEW w \in Workers, NEW r \in Delivery, NEW t \in Tasks, r.task = t,
         at' = [at EXCEPT ![w] = r],
         UNCHANGED <<state, entered, thread, billed, halts, gated, approvals>>,
         pending' \in [Tasks -> Nat], BudgetOK',
         faults' \in 0..MaxFaults, faults' >= faults,
         r.pc \in Turning => r.turn \in Turns,
         \/ r.kind = "resume"
         \/ t = Task(w) /\ r.kind = at[w].kind /\ r.run = at[w].run,
         RowOK(r, state[t], entered[t], approvals[t], thread[t], billed[t], halts[t],
               faults')
  PROVE  RunInv'
<1>0. t \in Tasks /\ faults \in Nat /\ faults' \in Nat
  BY ConstantsAssumption DEF RunInv, TypeOK, Delivery
<1>1. /\ state[t] \in RunState /\ entered[t] \in [Kinds -> Nat]
      /\ thread[t] \in NoThread..Finished
      /\ billed[t] \in Seq(BillRow) /\ halts[t] \in Seq(BillRow)
  BY <1>0 DEF RunInv, TypeOK, BillRow
<1>2. /\ state' = [state EXCEPT ![t] = state[t]]
      /\ entered' = [entered EXCEPT ![t] = entered[t]]
      /\ thread' = [thread EXCEPT ![t] = thread[t]]
      /\ billed' = [billed EXCEPT ![t] = billed[t]]
      /\ halts' = [halts EXCEPT ![t] = halts[t]]
  BY DEF RunInv, TypeOK
<1>3. /\ TaskOK(state[t], entered[t], approvals[t], thread[t], billed[t], halts[t],
                faults')
      /\ \A v \in Workers : at[v].task = t =>
           RowOK(at[v], state[t], entered[t], approvals[t], thread[t], billed[t],
                 halts[t], faults')
  <2>1. TaskOK(state[t], entered[t], approvals[t], thread[t], billed[t], halts[t], faults)
    BY <1>0 DEF RunInv, TaskIsOK
  <2>2. \A v \in Workers : at[v].task = t =>
          RowOK(at[v], state[t], entered[t], approvals[t], thread[t], billed[t],
                halts[t], faults)
    BY DEF RunInv, RowIsOK, Task
  <2> QED
    BY <1>0, <2>1, <2>2, FaultsOnlyExcuse
<1>4. \A v \in Workers \ {w} : Apart(at[v], r)
  BY DEF RunInv, Apart, Task
<1> QED
  BY <1>0, <1>1, <1>2, <1>3, <1>4, WorkerStep

\* The row of a delivery without a run asks for nothing.
LEMMA NoRun ==
  ASSUME RunInv, NEW t \in Tasks, NEW step \in {"idle", "claim", "resume"},
         step = "resume" => approvals[t] >= 1,
         NEW s, NEW e, NEW th, NEW b, NEW h, NEW f
  PROVE  LET r == [Delivered(t) EXCEPT !.pc = step] IN
         /\ r \in Delivery /\ r.pc = step /\ r.kind = "resume" /\ r.task = t
         /\ r.booked = 0
         /\ RowOK(r, s, e, approvals[t], th, b, h, f)
<1> DEFINE r == [Delivered(t) EXCEPT !.pc = step]
<1>1. /\ r.pc = step /\ r.task = t /\ r.kind = "resume" /\ r.booked = 0
      /\ r.proposes = FALSE
  BY DEF Delivered
<1>2. r \in Delivery
  <2>1. Delivered(t) \in Delivery
    BY ConstantsAssumption DEF Delivery, Delivered, RunStep, RunState, AtGate, Roles
  <2> QED
    BY <2>1 DEF Delivery, RunStep
<1> HIDE DEF r
<1>3. RowOK(r, s, e, approvals[t], th, b, h, f)
  BY <1>1 DEF RowOK, Placed, Turning
<1> QED
  BY <1>1, <1>2, <1>3 DEF r

LEMMA Ended ==
  ASSUME RunInv, NEW t \in Tasks,
         NEW s, NEW e, NEW th, NEW b, NEW h, NEW f
  PROVE  /\ Delivered(t) \in Delivery /\ Delivered(t).pc = "idle"
         /\ Delivered(t).kind = "resume" /\ Delivered(t).task = t
         /\ Delivered(t).booked = 0
         /\ RowOK(Delivered(t), s, e, approvals[t], th, b, h, f)
<1> DEFINE r == Delivered(t)
<1>1. /\ r.pc = "idle" /\ r.task = t /\ r.kind = "resume" /\ r.booked = 0
      /\ r.proposes = FALSE
  BY DEF Delivered
<1>2. r \in Delivery
  BY ConstantsAssumption DEF Delivery, Delivered, RunStep, RunState, AtGate, Roles
<1> HIDE DEF r
<1>3. RowOK(r, s, e, approvals[t], th, b, h, f)
  BY <1>1 DEF RowOK, Placed, Turning
<1> QED
  BY <1>1, <1>2, <1>3 DEF r

LEMMA RunInit == Init => RunInv
<1> SUFFICES ASSUME Init PROVE RunInv
  OBVIOUS
<1>1. PICK t \in Tasks : at = [w \in Workers |-> Delivered(t)]
  BY DEF Init
<1>2. /\ Delivered(t) \in Delivery /\ Delivered(t).pc = "idle"
      /\ Delivered(t).kind = "resume"
  BY FourTurns, ConstantsAssumption DEF Delivered, Delivery, RunStep, RunState
<1>3. TypeOK
  BY <1>1, <1>2, FourTurns, ConstantsAssumption
  DEF Init, TypeOK, RunState, Kinds, NoThread, Months, Delivery
<1>4. ASSUME NEW u \in Tasks PROVE TaskIsOK(u)
  BY FourTurns DEF Init, TaskIsOK, TaskOK, Kinds, NoThread
<1>5. ASSUME NEW w \in Workers PROVE RowIsOK(w, Task(w))
  BY <1>1 DEF RowIsOK, RowOK, Placed, Turning, Delivered
<1>6. \A v, w \in Workers : v # w => Apart(at[v], at[w])
  BY <1>1, <1>2 DEF Apart
<1> QED
  BY <1>3, <1>4, <1>5, <1>6 DEF RunInv

\* A delivery becomes a resume only of an approved task.
LEMMA LoadOK ==
  ASSUME RunInv, NEW w \in Workers, NEW t \in Tasks, Load(w, t)
  PROVE  RunInv'
<1> DEFINE step == CASE IsTerminal(state[t]) -> "idle"
                     [] state[t] = "approved" -> "resume"
                     [] OTHER -> "claim"
<1>1. /\ at' = [at EXCEPT ![w] = [Delivered(t) EXCEPT !.pc = step]]
      /\ pending[t] > 0 /\ pending' = [pending EXCEPT ![t] = @ - 1]
  BY DEF Load, Go
<1>2. step \in {"idle", "claim", "resume"} /\ (step = "resume" => approvals[t] >= 1)
  <2>1. /\ approvals[t] \in Nat /\ entered[t]["fresh"] \in Nat
        /\ state[t] = "approved" => 1 <= entered[t]["fresh"]
        /\ state[t] = "approved" => entered[t]["fresh"] <= approvals[t]
    BY DEF RunInv, TypeOK, TaskIsOK, TaskOK, Kinds
  <2>2. step = "resume" => state[t] = "approved"
    OBVIOUS
  <2> QED
    BY <2>1, <2>2
<1> HIDE DEF step
<1>3. pending' \in [Tasks -> Nat]
  <2>1. pending[t] \in Nat /\ pending \in [Tasks -> Nat]
    BY DEF RunInv, TypeOK
  <2>2. pending[t] - 1 \in Nat
    BY <1>1, <2>1
  <2> QED
    BY <1>1, <2>1, <2>2
<1>4. UNCHANGED <<state, entered, thread, billed, halts, gated, approvals, faults,
                  month, ledger, paid, spent, guesses>>
  BY DEF Load, budget
<1>5. BudgetOK' /\ faults' \in 0..MaxFaults /\ faults' >= faults
  BY <1>4, ConstantsAssumption DEF BudgetOK, RunInv, TypeOK
<1> DEFINE r == [Delivered(t) EXCEPT !.pc = step]
<1>6. /\ r \in Delivery /\ r.pc = step /\ r.kind = "resume" /\ r.task = t
      /\ RowOK(r, state[t], entered[t], approvals[t], thread[t], billed[t], halts[t],
               faults')
  BY <1>2, NoRun
<1>7. at' = [at EXCEPT ![w] = r] /\ r.pc \notin Turning
  BY <1>1, <1>2, <1>6 DEF Turning
<1> HIDE DEF r
<1> QED
  BY <1>3, <1>4, <1>5, <1>6, <1>7, MoveStep

\* A worker may die anywhere.
LEMMA FaultOK ==
  ASSUME RunInv, NEW w \in Workers, Fault(w)
  PROVE  RunInv'
<1>1. Task(w) \in Tasks /\ faults \in Nat
  BY WorkerAt
<1> DEFINE r == Delivered(Task(w))
<1>2. /\ r \in Delivery /\ r.pc = "idle" /\ r.kind = "resume" /\ r.task = Task(w)
      /\ RowOK(r, state[Task(w)], entered[Task(w)], approvals[Task(w)], thread[Task(w)],
               billed[Task(w)], halts[Task(w)], faults')
  BY <1>1, Ended
<1>3. /\ at' = [at EXCEPT ![w] = r]
      /\ faults < MaxFaults /\ faults' = faults + 1
      /\ UNCHANGED <<state, entered, thread, billed, halts, gated, pending, approvals,
                     month, ledger, paid, spent, guesses>>
  BY DEF Fault, End, Go, budget, messages
<1>4. /\ BudgetOK' /\ faults' \in 0..MaxFaults /\ faults' >= faults
      /\ pending' \in [Tasks -> Nat]
  BY <1>1, <1>3, ConstantsAssumption DEF BudgetOK, RunInv, TypeOK
<1>5. r.pc \notin Turning
  BY <1>2 DEF Turning
<1> HIDE DEF r
<1> QED
  BY <1>1, <1>2, <1>3, <1>4, <1>5, MoveStep

LEMMA RowsOf ==
  ASSUME NEW b \in Seq(BillRow)
  PROVE  \A i \in DOMAIN b : b[i] \in BillRow /\ b[i].kind \in Kinds
<1>1. \A i \in DOMAIN b : b[i] \in BillRow
  OBVIOUS
<1> QED
  BY <1>1 DEF BillRow

LEMMA AppendRow ==
  ASSUME NEW b \in Seq(BillRow), NEW x \in BillRow
  PROVE  /\ Append(b, x) \in Seq(BillRow) /\ Append(b, x) # <<>>
         /\ DOMAIN b = 1..Len(b) /\ DOMAIN Append(b, x) = 1..(Len(b) + 1)
         /\ Len(b) \in Nat
         /\ \A i \in 1..Len(b) : Append(b, x)[i] = b[i] /\ b[i] \in BillRow
         /\ Append(b, x)[Len(b) + 1] = x
  OBVIOUS

\* From queued or approved, where no fresh run is in progress, to running.
LEMMA ClaimOK ==
  ASSUME RunInv, NEW w \in Workers, Claim(w)
  PROVE  RunInv'
<1> DEFINE t == Task(w)
           n == entered[t]["fresh"]
           e == [entered[t] EXCEPT !["fresh"] = @ + 1]
           r == [at[w] EXCEPT !.pc = "check", !.kind = "fresh", !.turn = 1,
                              !.run = n + 1]
           th == IF Durable THEN 1 ELSE thread[t]
<1>0. /\ t \in Tasks /\ at[w] \in Delivery /\ at[w].task = t
      /\ entered[t] \in [Kinds -> Nat] /\ n \in Nat /\ entered[t]["stray"] \in Nat
      /\ approvals[t] \in Nat /\ thread[t] \in NoThread..Finished
      /\ billed[t] \in Seq(BillRow) /\ halts[t] \in Seq(BillRow)
      /\ faults \in Nat /\ faults \in 0..MaxFaults
      /\ TaskIsOK(t) /\ RowIsOK(w, t)
  BY WorkerAt DEF Task, Kinds
<1>1. /\ at[w].pc = "claim"
      /\ UNCHANGED <<gated, pending, approvals, month, ledger, paid, spent, billed,
                     halts, guesses, faults>>
  BY DEF Claim, At, messages, budget
<1>2. BudgetOK' /\ pending' \in [Tasks -> Nat]
  BY <1>1 DEF BudgetOK, RunInv, TypeOK
<1>3. CASE ~CanTransition(state[t], "running")
  <2>1. /\ at' = [at EXCEPT ![w] = Delivered(t)]
        /\ UNCHANGED <<state, thread, entered>>
    BY <1>3 DEF Claim, Transition, End, Go
  <2>2. /\ Delivered(t) \in Delivery /\ Delivered(t).pc = "idle"
        /\ Delivered(t).kind = "resume" /\ Delivered(t).task = t
        /\ RowOK(Delivered(t), state[t], entered[t], approvals[t], thread[t],
                 billed[t], halts[t], faults')
    BY <1>0, Ended
  <2>3. Delivered(t).pc \notin Turning /\ faults' \in 0..MaxFaults /\ faults' >= faults
    BY <1>0, <1>1, <2>2 DEF Turning
  <2> HIDE DEF t
  <2> QED
    BY <1>0, <1>1, <1>2, <2>1, <2>2, <2>3, MoveStep
<1>4. CASE CanTransition(state[t], "running")
  <2>1. /\ state' = [state EXCEPT ![t] = "running"]
        /\ entered' = [entered EXCEPT ![t] = e]
        /\ at' = [at EXCEPT ![w] = r]
        /\ thread' = [thread EXCEPT ![t] = th]
    BY <1>0, <1>4 DEF Claim, Transition, Enter, Go, Save, RunInv, TypeOK
  <2>2. /\ billed' = [billed EXCEPT ![t] = billed[t]]
        /\ halts' = [halts EXCEPT ![t] = halts[t]]
    BY <1>1 DEF RunInv, TypeOK
  <2>3. state[t] \in {"queued", "approved"}
    BY <1>0, <1>4 DEF CanTransition, Allowed, RunInv, TypeOK, RunState
  <2>4. /\ r \in Delivery /\ r.pc = "check" /\ r.kind = "fresh" /\ r.turn = 1
        /\ r.run = n + 1 /\ r.task = t /\ r.proposes = at[w].proposes
    <3>1. "check" \in RunStep /\ "fresh" \in Kinds /\ 1 \in 0..AtGate /\ n + 1 \in Nat
      BY <1>0, FourTurns DEF RunStep, Kinds
    <3> QED
      BY <1>0, <3>1 DEF Delivery
  <2>5. /\ e \in [Kinds -> Nat] /\ e["fresh"] = n + 1
        /\ e["stray"] = entered[t]["stray"]
        /\ \A k \in Kinds : 1..entered[t][k] \subseteq 1..e[k]
    BY <1>0 DEF Kinds
  <2>6. th \in NoThread..Finished /\ (th = 1 \/ th = thread[t])
    BY <1>0, FourTurns DEF NoThread
  <2>7. at[w].proposes = FALSE
    BY <1>0, <1>1 DEF RowIsOK, RowOK, Placed, Delivery
  <2> HIDE DEF t, n, e, r, th
  <2>8. /\ n <= approvals[t] /\ (n = 0 => entered[t]["stray"] = 0)
        /\ \A i \in DOMAIN billed[t] : billed[t][i].run \in 1..entered[t][billed[t][i].kind]
        /\ \A i \in DOMAIN halts[t] : halts[t][i].run \in 1..entered[t][halts[t][i].kind]
    BY <1>0, <2>3 DEF TaskIsOK, TaskOK, n
  <2>9. n = 0 => halts[t] = <<>>
    <3>1. SUFFICES ASSUME n = 0, halts[t] # <<>> PROVE FALSE
      OBVIOUS
    <3>2. 1 \in DOMAIN halts[t] /\ halts[t][1] \in BillRow
      BY <1>0, <3>1
    <3>3. halts[t][1].kind \in Kinds /\ halts[t][1].run \in 1..entered[t][halts[t][1].kind]
      BY <2>8, <3>2 DEF BillRow
    <3> QED
      BY <2>8, <3>1, <3>3 DEF Kinds, n
  <2>10. TaskOK("running", e, approvals[t], th, billed[t], halts[t], faults')
    <3>1. /\ \A i, j \in DOMAIN billed[t] : billed[t][i] = billed[t][j] => i = j
          /\ \A i, j \in DOMAIN halts[t] : SameRun(halts[t][i], halts[t][j]) => i = j
          /\ \A i \in DOMAIN halts[t], j \in DOMAIN billed[t] :
               SameRun(halts[t][i], billed[t][j]) => billed[t][j].turn < halts[t][i].turn
          /\ thread[t] \in Turns /\ approvals[t] >= 1 => n >= 2
          /\ ~Durable => th = NoThread
          /\ entered[t]["stray"] > 0 => n >= 2
      BY <1>0 DEF TaskIsOK, TaskOK, n, th
    <3>2. /\ \A i \in DOMAIN billed[t] : billed[t][i].run \in 1..e[billed[t][i].kind]
          /\ \A i \in DOMAIN halts[t] : halts[t][i].run \in 1..e[halts[t][i].kind]
      <4>1. /\ \A i \in DOMAIN billed[t] : billed[t][i].kind \in Kinds
            /\ \A i \in DOMAIN halts[t] : halts[t][i].kind \in Kinds
        BY <1>0, RowsOf
      <4> QED
        BY <2>5, <2>8, <4>1
    <3>3. n # 0 => approvals[t] >= 1
      BY <1>0, <2>8
    <3>5. n = 0 => approvals[t] = 0
      BY <1>0, <2>3, <2>8 DEF TaskIsOK, TaskOK, n
    <3> QED
      BY <1>0, <2>5, <2>6, <2>8, <2>9, <3>1, <3>2, <3>3, <3>5 DEF TaskOK
  <2>11. RowOK(r, "running", e, approvals[t], th, billed[t], halts[t], faults')
    <3>1. /\ \A j \in DOMAIN billed[t] : ~SameRun(billed[t][j], r)
          /\ \A j \in DOMAIN halts[t] : ~SameRun(halts[t][j], r)
      BY <1>0, <2>4, <2>8 DEF SameRun, n
    <3>2. n = 0 => approvals[t] = 0
      BY <1>0, <2>3, <2>8 DEF TaskIsOK, TaskOK, n
    <3> QED
      BY <1>0, <2>4, <2>5, <2>7, <2>9, <3>1, <3>2 DEF RowOK, Placed, Turning
  <2>12. ASSUME NEW v \in Workers \ {w}
         PROVE  /\ at[v].task = t =>
                     RowOK(at[v], "running", e, approvals[t], th, billed[t], halts[t],
                           faults')
                /\ Apart(at[v], r)
    <3>1. CASE at[v].task # t
      BY <2>4, <3>1 DEF Apart
    <3>2. CASE at[v].task = t
      <4>1. /\ RowOK(at[v], state[t], entered[t], approvals[t], thread[t], billed[t],
                     halts[t], faults)
            /\ at[v] \in Delivery
        BY <3>2, WorkerAt DEF RowIsOK, t
      <4>2. at[v].kind # "fresh"
        BY <2>3, <4>1 DEF RowOK
      <4>3. Apart(at[v], r)
        BY <2>4, <4>2 DEF Apart
      <4>4. at[v].pc # "save"
        BY <4>1, <4>2 DEF RowOK, Placed
      <4>5. at[v].kind # "resume" => at[v].run \in 1..e[at[v].kind]
        BY <2>5, <4>1 DEF RowOK, Delivery
      <4>6. RowOK(at[v], "running", e, approvals[t], th, billed[t], halts[t], faults')
        BY <1>1, <4>1, <4>2, <4>4, <4>5 DEF RowOK, Placed
      <4> QED
        BY <4>3, <4>6
    <3> QED
      BY <3>1, <3>2
  <2>13. faults' \in 0..MaxFaults /\ faults' >= faults
    BY <1>0, <1>1
  <2>14. "running" \in RunState /\ (r.pc \in Turning => r.turn \in Turns)
    BY <2>4, FourTurns DEF RunState
  <2> QED
    BY <1>0, <1>1, <1>2, <2>1, <2>2, <2>4, <2>5, <2>6, <2>10, <2>11, <2>12, <2>13,
       <2>14, WorkerStep
<1> QED
  BY <1>3, <1>4

\* A fresh run has its task's state for itself, unless a run of an approved task
\* is in progress as well: then it is not the first.
LEMMA OthersOK ==
  ASSUME RunInv, NEW w \in Workers, NEW s, NEW th, NEW f \in Nat, f >= faults,
         at[w].pc \notin {"idle", "claim"},
         \/ at[w].kind = "fresh" \/ s = state[Task(w)]
         \/ s \in {"running", "completed", "failed"}
  PROVE  \A v \in Workers \ {w} : at[v].task = Task(w) =>
           RowOK(at[v], s, entered[Task(w)], approvals[Task(w)], th, billed[Task(w)],
                 halts[Task(w)], f)
<1> DEFINE t == Task(w)
<1> SUFFICES ASSUME NEW v \in Workers \ {w}, at[v].task = t
             PROVE  RowOK(at[v], s, entered[t], approvals[t], th, billed[t], halts[t], f)
  OBVIOUS
<1>1. /\ at[w] \in Delivery /\ at[v] \in Delivery /\ at[w].task = t
      /\ entered[t] \in [Kinds -> Nat] /\ approvals[t] \in Nat /\ faults \in Nat
      /\ TaskIsOK(t) /\ RowIsOK(w, t) /\ RowIsOK(v, t) /\ Apart(at[v], at[w])
  BY WorkerAt DEF Task
<1> HIDE DEF t
<1>2. ASSUME at[v].kind = "fresh"
      PROVE  /\ at[w].kind # "fresh" /\ entered[t]["fresh"] >= 2
             /\ state[t] \in {"running", "completed", "failed"}
  <2>1. /\ at[v].run \in 1..entered[t]["fresh"] /\ at[w].kind # "fresh"
        /\ state[t] \in {"running", "completed", "failed"}
        /\ entered[t]["fresh"] = 1 => approvals[t] = 0
    BY <1>1, <1>2 DEF RowIsOK, RowOK, Apart
  <2>2. entered[t]["fresh"] \in Nat /\ entered[t]["fresh"] >= 1
        /\ entered[t]["stray"] \in Nat
    BY <1>1, <2>1 DEF Kinds
  <2>3. CASE at[w].kind = "resume"
    BY <1>1, <2>1, <2>2, <2>3 DEF RowIsOK, RowOK, Placed
  <2>4. CASE at[w].kind = "stray"
    <3>1. at[w].run \in 1..entered[t]["stray"]
      BY <1>1, <2>4 DEF RowIsOK, RowOK
    <3>2. entered[t]["stray"] > 0
      BY <2>2, <3>1
    <3> QED
      BY <1>1, <2>1, <3>2 DEF TaskIsOK, TaskOK
  <2> QED
    BY <1>1, <2>1, <2>3, <2>4 DEF Delivery, Kinds
<1>3. RowOK(at[v], state[t], entered[t], approvals[t], thread[t], billed[t], halts[t],
            faults)
  BY <1>1 DEF RowIsOK
<1>4. at[v].proposes => at[v].kind = "fresh"
  BY <1>3 DEF RowOK, Placed
<1>5. at[v].kind = "fresh" => s \in {"running", "completed", "failed"}
  BY <1>2 DEF t
<1>6. entered[t]["fresh"] >= 2 => entered[t]["fresh"] # 1
  BY <1>1 DEF Kinds
<1>7. CASE at[v].kind = "fresh"
  BY <1>2, <1>3, <1>5, <1>6, <1>7 DEF RowOK, Placed
<1>8. CASE at[v].kind # "fresh"
  BY <1>3, <1>4, <1>8 DEF RowOK, Placed
<1> QED
  BY <1>7, <1>8

\* A step that moves a run, and writes its task's state or its thread.
LEMMA QuietStep ==
  ASSUME RunInv, NEW w \in Workers, NEW r \in Delivery,
         NEW s \in RunState, NEW th \in NoThread..Finished,
         at[w].pc \notin {"idle", "claim"},
         r.task = Task(w),
         \/ r.kind = "resume"
         \/ r.kind = at[w].kind /\ r.run = at[w].run,
         at' = [at EXCEPT ![w] = r],
         state' = [state EXCEPT ![Task(w)] = s],
         thread' = [thread EXCEPT ![Task(w)] = th],
         UNCHANGED <<entered, billed, halts, gated, pending, approvals>>, BudgetOK',
         faults' \in 0..MaxFaults, faults' >= faults,
         r.pc \in Turning => r.turn \in Turns,
         \/ at[w].kind = "fresh" \/ s = state[Task(w)]
         \/ s \in {"running", "completed", "failed"},
         TaskOK(s, entered[Task(w)], approvals[Task(w)], th, billed[Task(w)],
                halts[Task(w)], faults),
         RowOK(r, s, entered[Task(w)], approvals[Task(w)], th, billed[Task(w)],
               halts[Task(w)], faults')
  PROVE  RunInv'
<1> DEFINE t == Task(w)
<1>1. /\ t \in Tasks /\ entered[t] \in [Kinds -> Nat] /\ faults \in Nat /\ faults' \in Nat
      /\ billed[t] \in Seq(BillRow) /\ halts[t] \in Seq(BillRow)
      /\ \A v \in Workers \ {w} : Apart(at[v], at[w])
      /\ r.kind \in Kinds \cup {"resume"}
  BY WorkerAt, ConstantsAssumption DEF Delivery
<1>2. /\ entered' = [entered EXCEPT ![t] = entered[t]]
      /\ billed' = [billed EXCEPT ![t] = billed[t]]
      /\ halts' = [halts EXCEPT ![t] = halts[t]]
      /\ pending' \in [Tasks -> Nat]
  BY DEF RunInv, TypeOK
<1>3. \A v \in Workers \ {w} : Apart(at[v], r)
  BY <1>1 DEF Apart, Task
<1>4. TaskOK(s, entered[t], approvals[t], th, billed[t], halts[t], faults')
  BY <1>1, FaultsOnlyExcuse
<1>5. \A v \in Workers \ {w} : at[v].task = t =>
        RowOK(at[v], s, entered[t], approvals[t], th, billed[t], halts[t], faults')
  BY <1>1, OthersOK
<1> HIDE DEF t
<1>6. /\ state' = [state EXCEPT ![t] = s] /\ thread' = [thread EXCEPT ![t] = th]
      /\ r.task = t
      /\ RowOK(r, s, entered[t], approvals[t], th, billed[t], halts[t], faults')
  BY DEF t
<1> QED
  BY <1>1, <1>2, <1>3, <1>4, <1>5, <1>6, WorkerStep

LEMMA SameBooks ==
  ASSUME RunInv, UNCHANGED <<pending, month, ledger, paid, spent, guesses>>
  PROVE  /\ BudgetOK' /\ pending' \in [Tasks -> Nat]
         /\ faults' = faults => faults' \in 0..MaxFaults /\ faults' >= faults
         /\ faults < MaxFaults /\ faults' = faults + 1 =>
              faults' \in 0..MaxFaults /\ faults' >= faults /\ faults' # 0
<1>1. BudgetOK' /\ pending' \in [Tasks -> Nat]
  BY DEF BudgetOK, RunInv, TypeOK
<1>2. faults \in 0..MaxFaults /\ MaxFaults \in Nat
  BY ConstantsAssumption DEF RunInv, TypeOK
<1> QED
  BY <1>1, <1>2

\* Steps that leave the tasks alone: the check, a swallowed fault of the halt,
\* the governed-halt guard, and the read before the write-back.
LEMMA CheckOK ==
  ASSUME RunInv, NEW w \in Workers, CheckBudget(w)
  PROVE  RunInv'
<1> DEFINE t == Task(w)
           step == IF WithinBudget(Estimate[at[w].turn]) THEN "invoke" ELSE "halt"
           r == [at[w] EXCEPT !.pc = step]
<1>0. /\ t \in Tasks /\ at[w] \in Delivery /\ RowIsOK(w, t) /\ at[w].task = t
      /\ faults \in 0..MaxFaults /\ faults \in Nat
      /\ at[w].pc \in Turning => at[w].turn \in Turns
  BY WorkerAt DEF Task
<1>1. /\ at[w].pc = "check" /\ at' = [at EXCEPT ![w] = r]
      /\ UNCHANGED <<state, gated, pending, approvals, thread, entered, month, ledger,
                     paid, spent, billed, halts, guesses, faults>>
  BY DEF CheckBudget, At, Go, messages, budget
<1>2. /\ BudgetOK' /\ pending' \in [Tasks -> Nat]
      /\ faults' \in 0..MaxFaults /\ faults' >= faults
  BY <1>1, SameBooks
<1>3. step \in {"invoke", "halt"}
  OBVIOUS
<1> HIDE DEF step, t
<1>4. /\ r \in Delivery /\ r.pc = step /\ r.task = t /\ r.kind = at[w].kind
      /\ r.run = at[w].run /\ r.turn = at[w].turn /\ r.proposes = at[w].proposes
  BY <1>0, <1>3 DEF Delivery, RunStep
<1> HIDE DEF r
<1>5. RowOK(at[w], state[t], entered[t], approvals[t], thread[t], billed[t], halts[t],
            faults)
  BY <1>0 DEF RowIsOK
<1>6. RowOK(r, state[t], entered[t], approvals[t], thread[t], billed[t], halts[t], faults')
  BY <1>1, <1>3, <1>4, <1>5 DEF RowOK, Placed, Turning, SameRun
<1>7. r.pc \in Turning => r.turn \in Turns
  BY <1>0, <1>1, <1>4 DEF Turning
<1> QED
  BY <1>0, <1>1, <1>2, <1>4, <1>6, <1>7, MoveStep DEF t

LEMMA SkipOK ==
  ASSUME RunInv, NEW w \in Workers, FailSkipped(w)
  PROVE  RunInv'
<1> DEFINE t == Task(w)
           r == [at[w] EXCEPT !.pc = "recheck"]
<1>0. /\ t \in Tasks /\ at[w] \in Delivery /\ RowIsOK(w, t) /\ at[w].task = t
      /\ faults \in 0..MaxFaults /\ faults \in Nat /\ MaxFaults \in Nat
  BY WorkerAt, ConstantsAssumption DEF Task
<1>1. /\ at[w].pc = "fail" /\ at' = [at EXCEPT ![w] = r]
      /\ faults < MaxFaults /\ faults' = faults + 1
      /\ UNCHANGED <<state, gated, pending, approvals, thread, entered, month, ledger,
                     paid, spent, billed, halts, guesses>>
  BY DEF FailSkipped, At, Go, messages, budget
<1>2. /\ BudgetOK' /\ pending' \in [Tasks -> Nat]
      /\ faults' \in 0..MaxFaults /\ faults' >= faults /\ faults' # 0
  BY <1>1, SameBooks
<1> HIDE DEF t
<1>4. /\ r \in Delivery /\ r.pc = "recheck" /\ r.task = t /\ r.kind = at[w].kind
      /\ r.run = at[w].run /\ r.proposes = at[w].proposes
  BY <1>0 DEF Delivery, RunStep
<1> HIDE DEF r
<1>5. RowOK(at[w], state[t], entered[t], approvals[t], thread[t], billed[t], halts[t],
            faults)
  BY <1>0 DEF RowIsOK
<1>6. RowOK(r, state[t], entered[t], approvals[t], thread[t], billed[t], halts[t], faults')
  BY <1>1, <1>2, <1>4, <1>5 DEF RowOK, Placed, Turning
<1>7. r.pc \notin Turning
  BY <1>4 DEF Turning
<1> QED
  BY <1>0, <1>1, <1>2, <1>4, <1>6, <1>7, MoveStep DEF t

LEMMA RecheckOK ==
  ASSUME RunInv, NEW w \in Workers, Recheck(w) \/ ReadRow(w)
  PROVE  RunInv'
<1> DEFINE t == Task(w)
<1>0. /\ t \in Tasks /\ at[w] \in Delivery /\ RowIsOK(w, t) /\ at[w].task = t
      /\ faults \in 0..MaxFaults /\ faults \in Nat /\ state[t] \in RunState
      /\ TaskIsOK(t)
  BY WorkerAt DEF Task
<1>1. UNCHANGED <<state, gated, pending, approvals, thread, entered, month, ledger,
                  paid, spent, billed, halts, guesses, faults>>
  BY DEF Recheck, ReadRow, messages, budget
<1>2. /\ BudgetOK' /\ pending' \in [Tasks -> Nat]
      /\ faults' \in 0..MaxFaults /\ faults' >= faults
  BY <1>1, SameBooks
<1>3. RowOK(at[w], state[t], entered[t], approvals[t], thread[t], billed[t], halts[t],
            faults)
  BY <1>0 DEF RowIsOK
<1>4. CASE Recheck(w) /\ IsTerminal(state[t])
  <2>1. at' = [at EXCEPT ![w] = Delivered(t)]
    BY <1>4 DEF Recheck, End, Go
  <2>2. /\ Delivered(t) \in Delivery /\ Delivered(t).pc = "idle"
        /\ Delivered(t).kind = "resume" /\ Delivered(t).task = t
        /\ RowOK(Delivered(t), state[t], entered[t], approvals[t], thread[t],
                 billed[t], halts[t], faults')
    BY <1>0, Ended
  <2>3. Delivered(t).pc \notin Turning
    BY <2>2 DEF Turning
  <2> HIDE DEF t
  <2> QED
    BY <1>0, <1>1, <1>2, <2>1, <2>2, <2>3, MoveStep
<1>5. CASE Recheck(w) /\ ~IsTerminal(state[t])
  <2> DEFINE step == IF at[w].proposes THEN "read" ELSE "complete"
             r == [at[w] EXCEPT !.pc = step]
  <2>1. at[w].pc = "recheck" /\ at' = [at EXCEPT ![w] = r]
    BY <1>5 DEF Recheck, At, Go
  <2>2. step \in {"read", "complete"} /\ (step = "read" <=> at[w].proposes)
    BY <1>0 DEF Delivery
  <2> HIDE DEF step, t
  <2>3. /\ r \in Delivery /\ r.pc = step /\ r.task = t /\ r.kind = at[w].kind
        /\ r.run = at[w].run /\ r.proposes = at[w].proposes
    BY <1>0, <2>2 DEF Delivery, RunStep
  <2> HIDE DEF r
  <2>4. state[t] \notin {"completed", "failed"}
    BY <1>5 DEF IsTerminal, TERMINAL_STATES
  <2>5. RowOK(r, state[t], entered[t], approvals[t], thread[t], billed[t], halts[t],
              faults')
    BY <1>1, <1>3, <2>1, <2>2, <2>3, <2>4 DEF RowOK, Placed, Turning
  <2>6. r.pc \notin Turning
    BY <2>2, <2>3 DEF Turning
  <2> QED
    BY <1>0, <1>1, <1>2, <2>1, <2>3, <2>5, <2>6, MoveStep DEF t
<1>6. CASE ReadRow(w)
  <2> DEFINE r == [at[w] EXCEPT !.pc = "save", !.seen = state[t]]
  <2>1. at[w].pc = "read" /\ at' = [at EXCEPT ![w] = r]
    BY <1>6 DEF ReadRow, At, Go
  <2> HIDE DEF t
  <2>3. /\ r \in Delivery /\ r.pc = "save" /\ r.task = t /\ r.kind = at[w].kind
        /\ r.run = at[w].run /\ r.proposes = at[w].proposes /\ r.seen = state[t]
    BY <1>0 DEF Delivery, RunStep
  <2> HIDE DEF r
  <2>4. state[t] = "failed" => halts[t] # <<>>
    BY <1>0 DEF TaskIsOK, TaskOK
  <2>5. RowOK(r, state[t], entered[t], approvals[t], thread[t], billed[t], halts[t],
              faults')
    BY <1>1, <1>3, <2>1, <2>3, <2>4 DEF RowOK, Placed, Turning
  <2>6. r.pc \notin Turning
    BY <2>3 DEF Turning
  <2> QED
    BY <1>0, <1>1, <1>2, <2>1, <2>3, <2>5, <2>6, MoveStep DEF t
<1> QED
  BY <1>4, <1>5, <1>6

\* The thread's checkpoint moves on with a run.
LEMMA GateOK ==
  ASSUME RunInv, NEW w \in Workers, ReachGate(w)
  PROVE  RunInv'
<1> DEFINE t == Task(w)
           p == Pauses(w)
           r == [at[w] EXCEPT !.pc = "recheck", !.proposes = p]
           point == IF p THEN AtGate ELSE Finished
           th == IF Durable THEN point ELSE thread[t]
<1>0. /\ t \in Tasks /\ at[w] \in Delivery /\ RowIsOK(w, t) /\ at[w].task = t
      /\ faults \in Nat /\ state[t] \in RunState /\ TaskIsOK(t)
      /\ thread[t] \in NoThread..Finished
  BY WorkerAt DEF Task
<1>1. /\ at[w].pc = "gate" /\ at' = [at EXCEPT ![w] = r]
      /\ thread' = [thread EXCEPT ![t] = th]
      /\ UNCHANGED <<state, gated, pending, approvals, entered, month, ledger,
                     paid, spent, billed, halts, guesses, faults>>
  BY DEF ReachGate, Save, At, Go, messages, budget
<1>2. /\ BudgetOK' /\ pending' \in [Tasks -> Nat]
      /\ faults' \in 0..MaxFaults /\ faults' >= faults
  BY <1>1, SameBooks
<1>3. /\ th \in NoThread..Finished
      /\ th \in Turns => thread[t] \in Turns
      /\ p \in BOOLEAN /\ (p => at[w].kind = "fresh")
      /\ p => th \notin Turns
  <2>1. gated[t] \in BOOLEAN
    BY <1>0 DEF RunInv, TypeOK
  <2> QED
    BY <1>0, <2>1, FourTurns DEF NoThread, Pauses, TaskIsOK, TaskOK
<1>4. state' = [state EXCEPT ![t] = state[t]]
  BY <1>1 DEF RunInv, TypeOK
<1> HIDE DEF t, p, point, th
<1>5. /\ r \in Delivery /\ r.pc = "recheck" /\ r.task = t /\ r.kind = at[w].kind
      /\ r.run = at[w].run /\ r.proposes = p
  BY <1>0, <1>3 DEF Delivery, RunStep
<1> HIDE DEF r
<1>6. /\ RowOK(at[w], state[t], entered[t], approvals[t], thread[t], billed[t], halts[t],
               faults)
      /\ TaskOK(state[t], entered[t], approvals[t], thread[t], billed[t], halts[t],
                faults)
  BY <1>0 DEF RowIsOK, TaskIsOK
<1>7. TaskOK(state[t], entered[t], approvals[t], th, billed[t], halts[t], faults)
  BY <1>3, <1>6 DEF TaskOK, th
<1>8. RowOK(r, state[t], entered[t], approvals[t], th, billed[t], halts[t], faults')
  BY <1>1, <1>3, <1>5, <1>6 DEF RowOK, Placed, Turning
<1>9. r.pc \notin Turning
  BY <1>5 DEF Turning
<1> QED
  BY <1>0, <1>1, <1>2, <1>3, <1>4, <1>5, <1>7, <1>8, <1>9, QuietStep DEF t

\* The governed halt: its row is there, whether its transition is taken or not.
LEMMA FailOK ==
  ASSUME RunInv, NEW w \in Workers, FailTask(w)
  PROVE  RunInv'
<1> DEFINE t == Task(w)
           r == [at[w] EXCEPT !.pc = "recheck"]
<1>0. /\ t \in Tasks /\ at[w] \in Delivery /\ RowIsOK(w, t) /\ at[w].task = t
      /\ faults \in Nat /\ state[t] \in RunState /\ TaskIsOK(t)
      /\ thread[t] \in NoThread..Finished
      /\ entered[t]["fresh"] \in Nat /\ entered[t]["stray"] \in Nat
  BY WorkerAt DEF Task, Kinds
<1>1. /\ at[w].pc = "fail" /\ at' = [at EXCEPT ![w] = r]
      /\ UNCHANGED <<thread, gated, pending, approvals, entered, month, ledger,
                     paid, spent, billed, halts, guesses, faults>>
  BY DEF FailTask, At, Go, messages, budget
<1>2. /\ BudgetOK' /\ pending' \in [Tasks -> Nat]
      /\ faults' \in 0..MaxFaults /\ faults' >= faults
  BY <1>1, SameBooks
<1>3. PICK s \in RunState :
        /\ state' = [state EXCEPT ![t] = s]
        /\ \/ s = "failed"
           \/ s = state[t] /\ (at[w].kind = "fresh" => state[t] # "running")
  <2>1. CASE Transition(w, "failed")
    BY <2>1 DEF Transition, RunState
  <2>2. CASE Refused(w, "failed") /\ UNCHANGED state
    <3>1. at[w].kind = "fresh" => state[t] # "running"
      BY <2>2 DEF Refused, CanTransition, Allowed
    <3>2. state' = [state EXCEPT ![t] = state[t]]
      BY <2>2 DEF RunInv, TypeOK
    <3> QED
      BY <1>0, <3>1, <3>2
  <2> QED
    BY <2>1, <2>2 DEF FailTask
<1>4. thread' = [thread EXCEPT ![t] = thread[t]]
  BY <1>1 DEF RunInv, TypeOK
<1> HIDE DEF t
<1>5. /\ r \in Delivery /\ r.pc = "recheck" /\ r.task = t /\ r.kind = at[w].kind
      /\ r.run = at[w].run /\ r.proposes = at[w].proposes
  BY <1>0 DEF Delivery, RunStep
<1> HIDE DEF r
<1>6. /\ RowOK(at[w], state[t], entered[t], approvals[t], thread[t], billed[t], halts[t],
               faults)
      /\ TaskOK(state[t], entered[t], approvals[t], thread[t], billed[t], halts[t],
                faults)
  BY <1>0 DEF RowIsOK, TaskIsOK
<1>7. at[w].kind \in Kinds /\ at[w].run \in 1..entered[t][at[w].kind]
  BY <1>0, <1>1, <1>6 DEF RowOK, Placed, Delivery
<1>8. at[w].kind = "fresh" /\ entered[t]["fresh"] = 1 => state[t] = "running"
  BY <1>1, <1>6 DEF RowOK
<1>9. entered[t]["fresh"] >= 1 /\ (at[w].kind = "stray" => entered[t]["fresh"] >= 2)
  <2>1. CASE at[w].kind = "fresh"
    BY <1>0, <1>7, <2>1
  <2>2. CASE at[w].kind = "stray"
    <3>1. entered[t]["stray"] > 0
      BY <1>0, <1>7, <2>2
    <3> QED
      BY <1>0, <1>6, <3>1, <2>2 DEF TaskOK
  <2> QED
    BY <1>7, <2>1, <2>2 DEF Kinds
<1>10. entered[t]["fresh"] = 1 => at[w].kind = "fresh" /\ approvals[t] = 0
  BY <1>0, <1>6, <1>7, <1>9 DEF Kinds, RowOK
<1>11. TaskOK(s, entered[t], approvals[t], thread[t], billed[t], halts[t], faults)
  <2>1. CASE s = "failed"
    BY <1>0, <1>1, <1>6, <1>9, <1>10, <2>1 DEF TaskOK, RowOK
  <2>2. CASE s = state[t]
    BY <1>6, <2>2
  <2> QED
    BY <1>3, <2>1, <2>2
<1>12. RowOK(r, s, entered[t], approvals[t], thread[t], billed[t], halts[t], faults')
  BY <1>1, <1>3, <1>5, <1>6, <1>8 DEF RowOK, Placed, Turning
<1>13. r.pc \notin Turning
  BY <1>5 DEF Turning
<1> QED
  BY <1>0, <1>1, <1>2, <1>3, <1>4, <1>5, <1>11, <1>12, <1>13, QuietStep DEF t

\* The write-back brings back a state of the run's own time.
LEMMA SaveRowOK ==
  ASSUME RunInv, NEW w \in Workers, SaveRow(w)
  PROVE  RunInv'
<1> DEFINE t == Task(w)
           s == at[w].seen
           r == [at[w] EXCEPT !.pc = "park"]
<1>0. /\ t \in Tasks /\ at[w] \in Delivery /\ RowIsOK(w, t) /\ at[w].task = t
      /\ faults \in Nat /\ s \in RunState /\ TaskIsOK(t)
      /\ thread[t] \in NoThread..Finished /\ entered[t]["fresh"] \in Nat
  BY WorkerAt DEF Task, Kinds, Delivery
<1>1. /\ at[w].pc = "save" /\ at' = [at EXCEPT ![w] = r]
      /\ state' = [state EXCEPT ![t] = s]
      /\ UNCHANGED <<thread, gated, pending, approvals, entered, month, ledger,
                     paid, spent, billed, halts, guesses, faults>>
  BY DEF SaveRow, At, Go, messages, budget
<1>2. /\ BudgetOK' /\ pending' \in [Tasks -> Nat]
      /\ faults' \in 0..MaxFaults /\ faults' >= faults
  BY <1>1, SameBooks
<1>4. thread' = [thread EXCEPT ![t] = thread[t]]
  BY <1>1 DEF RunInv, TypeOK
<1> HIDE DEF t
<1>5. /\ r \in Delivery /\ r.pc = "park" /\ r.task = t /\ r.kind = at[w].kind
      /\ r.run = at[w].run /\ r.proposes = at[w].proposes
  BY <1>0 DEF Delivery, RunStep
<1> HIDE DEF r
<1>6. /\ RowOK(at[w], state[t], entered[t], approvals[t], thread[t], billed[t], halts[t],
               faults)
      /\ TaskOK(state[t], entered[t], approvals[t], thread[t], billed[t], halts[t],
                faults)
  BY <1>0 DEF RowIsOK, TaskIsOK
<1>7. /\ at[w].kind = "fresh" /\ s \in {"running", "completed", "failed"}
      /\ s = "failed" => halts[t] # <<>>
      /\ entered[t]["fresh"] = 1 => s = "running" /\ approvals[t] = 0
      /\ at[w].run \in 1..entered[t]["fresh"]
  BY <1>1, <1>6 DEF RowOK, Placed
<1>8. entered[t]["fresh"] >= 1
  BY <1>0, <1>7
<1> HIDE DEF s
<1>9. TaskOK(s, entered[t], approvals[t], thread[t], billed[t], halts[t], faults)
  BY <1>0, <1>6, <1>7, <1>8 DEF TaskOK
<1>10. RowOK(r, s, entered[t], approvals[t], thread[t], billed[t], halts[t], faults')
  BY <1>1, <1>5, <1>6, <1>7 DEF RowOK, Placed, Turning
<1>11. r.pc \notin Turning
  BY <1>5 DEF Turning
<1> QED
  BY <1>0, <1>1, <1>2, <1>4, <1>5, <1>7, <1>9, <1>10, <1>11, QuietStep DEF t

\* A run ends by parking its task or completing it: not after a halt, if it is
\* the only one.
LEMMA FinishOK ==
  ASSUME RunInv, NEW w \in Workers, Park(w) \/ Complete(w)
  PROVE  RunInv'
<1> DEFINE t == Task(w)
           r == Delivered(t)
<1>0. /\ t \in Tasks /\ at[w] \in Delivery /\ RowIsOK(w, t) /\ at[w].task = t
      /\ faults \in Nat /\ state[t] \in RunState /\ TaskIsOK(t)
      /\ thread[t] \in NoThread..Finished
      /\ entered[t]["fresh"] \in Nat /\ entered[t]["stray"] \in Nat
      /\ approvals[t] \in Nat
  BY WorkerAt DEF Task, Kinds
<1>1. /\ at[w].pc \in {"park", "complete"} /\ at' = [at EXCEPT ![w] = r]
      /\ UNCHANGED <<thread, gated, pending, approvals, entered, month, ledger,
                     paid, spent, billed, halts, guesses, faults>>
  BY DEF Park, Complete, At, End, Go, messages, budget
<1>2. /\ BudgetOK' /\ pending' \in [Tasks -> Nat]
      /\ faults' \in 0..MaxFaults /\ faults' >= faults
  BY <1>1, SameBooks
<1>3. PICK s \in RunState :
        /\ state' = [state EXCEPT ![t] = s]
        /\ \/ s = state[t]
           \/ at[w].pc = "park" /\ s = "awaiting_approval"
           \/ at[w].pc = "complete" /\ s = "completed" /\ state[t] # "queued"
  <2>1. CASE Park(w) /\ Transition(w, "awaiting_approval")
    BY <2>1 DEF Park, At, Transition, RunState
  <2>2. CASE Complete(w) /\ Transition(w, "completed")
    <3>1. state[t] # "queued"
      BY <2>2 DEF Transition, CanTransition, Allowed
    <3> QED
      BY <2>2, <3>1 DEF Complete, At, Transition, RunState
  <2>3. CASE UNCHANGED state
    <3>1. state' = [state EXCEPT ![t] = state[t]]
      BY <2>3 DEF RunInv, TypeOK
    <3> QED
      BY <1>0, <3>1
  <2> QED
    BY <2>1, <2>2, <2>3 DEF Park, Complete
<1>4. thread' = [thread EXCEPT ![t] = thread[t]]
  BY <1>1 DEF RunInv, TypeOK
<1>5. /\ r \in Delivery /\ r.pc = "idle" /\ r.task = t /\ r.kind = "resume"
      /\ RowOK(r, s, entered[t], approvals[t], thread[t], billed[t], halts[t], faults')
  BY <1>0, Ended
<1> HIDE DEF t, r
<1>6. /\ RowOK(at[w], state[t], entered[t], approvals[t], thread[t], billed[t], halts[t],
               faults)
      /\ TaskOK(state[t], entered[t], approvals[t], thread[t], billed[t], halts[t],
                faults)
  BY <1>0 DEF RowIsOK, TaskIsOK
<1>7. entered[t]["fresh"] = 1 /\ faults = 0 /\ halts[t] # <<>> => s = state[t]
  <2> SUFFICES ASSUME entered[t]["fresh"] = 1, faults = 0, halts[t] # <<>>
               PROVE  s = state[t]
    OBVIOUS
  <2>1. approvals[t] = 0
    BY <1>6 DEF TaskOK
  <2>2. at[w].kind \in Kinds
    BY <1>0, <1>1, <1>6, <2>1 DEF RowOK, Placed, Delivery
  <2>3. at[w].kind # "stray"
    <3>1. SUFFICES ASSUME at[w].kind = "stray" PROVE FALSE
      OBVIOUS
    <3>2. entered[t]["stray"] > 0
      BY <1>0, <1>6, <3>1 DEF RowOK
    <3> QED
      BY <1>6, <3>2 DEF TaskOK
  <2>4. at[w].kind = "fresh"
    BY <2>2, <2>3 DEF Kinds
  <2> QED
    BY <1>1, <1>6, <2>4 DEF RowOK
<1>8. /\ s = "awaiting_approval" /\ s # state[t] =>
           /\ at[w].kind = "fresh"
           /\ thread[t] \in Turns => entered[t]["fresh"] >= 2
           /\ entered[t]["fresh"] >= 1
      /\ state[t] # "queued" => entered[t]["fresh"] >= 1
  <2>1. state[t] # "queued" => entered[t]["fresh"] >= 1
    BY <1>6 DEF TaskOK
  <2>2. at[w].pc = "park" =>
          /\ at[w].kind = "fresh"
          /\ thread[t] \in Turns => entered[t]["fresh"] >= 2
          /\ at[w].run \in 1..entered[t]["fresh"]
    BY <1>6 DEF RowOK, Placed
  <2> QED
    BY <1>0, <1>3, <2>1, <2>2
<1>9. TaskOK(s, entered[t], approvals[t], thread[t], billed[t], halts[t], faults)
  <2>1. CASE s = state[t]
    BY <1>6, <2>1
  <2>2. CASE s # state[t]
    BY <1>3, <1>6, <1>7, <1>8, <2>2 DEF TaskOK
  <2> QED
    BY <2>1, <2>2
<1>10. \/ at[w].kind = "fresh" \/ s = state[t]
       \/ s \in {"running", "completed", "failed"}
  BY <1>3, <1>8
<1>11. r.pc \notin Turning /\ at[w].pc \notin {"idle", "claim"}
  BY <1>1, <1>5 DEF Turning
<1> QED
  BY <1>0, <1>1, <1>2, <1>3, <1>4, <1>5, <1>9, <1>10, <1>11, QuietStep DEF t

\* A resume is a new run if it finds its thread inside the turns, and then that
\* of a rerun.
LEMMA ResumeOK ==
  ASSUME RunInv, NEW w \in Workers, EnterResume(w)
  PROVE  RunInv'
<1> DEFINE t == Task(w)
<1>0. /\ t \in Tasks /\ at[w] \in Delivery /\ RowIsOK(w, t) /\ at[w].task = t
      /\ faults \in Nat /\ state[t] \in RunState /\ TaskIsOK(t)
      /\ thread[t] \in NoThread..Finished /\ entered[t] \in [Kinds -> Nat]
      /\ billed[t] \in Seq(BillRow) /\ halts[t] \in Seq(BillRow)
      /\ entered[t]["stray"] \in Nat /\ approvals[t] \in Nat
  BY WorkerAt DEF Task, Kinds
<1>1. /\ at[w].pc = "resume"
      /\ UNCHANGED <<state, gated, pending, approvals, month, ledger,
                     paid, spent, billed, halts, guesses, faults>>
  BY DEF EnterResume, At, messages, budget
<1>2. /\ BudgetOK' /\ pending' \in [Tasks -> Nat]
      /\ faults' \in 0..MaxFaults /\ faults' >= faults
  BY <1>1, SameBooks
<1>3. /\ state' = [state EXCEPT ![t] = state[t]]
      /\ billed' = [billed EXCEPT ![t] = billed[t]]
      /\ halts' = [halts EXCEPT ![t] = halts[t]]
  BY <1>1 DEF RunInv, TypeOK
<1>4. /\ RowOK(at[w], state[t], entered[t], approvals[t], thread[t], billed[t], halts[t],
               faults)
      /\ TaskOK(state[t], entered[t], approvals[t], thread[t], billed[t], halts[t],
                faults)
  BY <1>0 DEF RowIsOK, TaskIsOK
<1>5. at[w].kind = "resume" /\ approvals[t] >= 1 /\ at[w].proposes = FALSE
  BY <1>0, <1>1, <1>4 DEF RowOK, Placed, Delivery
<1>6. CASE thread[t] \in Turns
  <2> DEFINE n == entered[t]["stray"]
             e == [entered[t] EXCEPT !["stray"] = n + 1]
             turn == thread[t]
             r == [at[w] EXCEPT !.pc = "check", !.kind = "stray", !.turn = turn,
                                !.run = n + 1]
  <2>1. /\ entered' = [entered EXCEPT ![t] = e] /\ at' = [at EXCEPT ![w] = r]
        /\ thread' = [thread EXCEPT ![t] = thread[t]]
    BY <1>0, <1>6 DEF EnterResume, Enter, Go, RunInv, TypeOK
  <2>2. /\ e \in [Kinds -> Nat] /\ e["stray"] = n + 1
        /\ e["fresh"] = entered[t]["fresh"] /\ entered[t]["fresh"] >= 2
        /\ \A k \in Kinds : 1..entered[t][k] \subseteq 1..e[k]
    BY <1>0, <1>4, <1>5, <1>6 DEF Kinds, TaskOK
  <2>3. n + 1 \in Nat /\ turn \in Turns /\ turn \in 0..AtGate
    BY <1>0, <1>6, FourTurns
  <2> HIDE DEF t, turn
  <2>4. /\ r \in Delivery /\ r.pc = "check" /\ r.kind = "stray" /\ r.turn \in Turns
        /\ r.run = n + 1 /\ r.task = t /\ r.proposes = FALSE
    BY <1>0, <1>5, <2>3 DEF Delivery, RunStep, Kinds
  <2> HIDE DEF r, e
  <2>5. /\ \A j \in DOMAIN billed[t] : ~SameRun(billed[t][j], r)
        /\ \A j \in DOMAIN halts[t] : ~SameRun(halts[t][j], r)
    BY <1>0, <1>4, <2>4 DEF SameRun, TaskOK
  <2>6. TaskOK(state[t], e, approvals[t], thread[t], billed[t], halts[t], faults')
    <3>1. /\ \A i \in DOMAIN billed[t] : billed[t][i].run \in 1..e[billed[t][i].kind]
          /\ \A i \in DOMAIN halts[t] : halts[t][i].run \in 1..e[halts[t][i].kind]
      BY <1>0, <1>4, <2>2, RowsOf DEF TaskOK
    <3> QED
      BY <1>1, <1>4, <2>2, <3>1 DEF TaskOK
  <2>7. RowOK(r, state[t], e, approvals[t], thread[t], billed[t], halts[t], faults')
    <3>1. r.run \in 1..e["stray"]
      BY <1>0, <2>2, <2>4
    <3> QED
      BY <2>4, <2>5, <3>1 DEF RowOK, Placed, Turning
  <2>8. ASSUME NEW v \in Workers \ {w}
        PROVE  /\ at[v].task = t =>
                    RowOK(at[v], state[t], e, approvals[t], thread[t], billed[t],
                          halts[t], faults')
               /\ Apart(at[v], r)
    <3>1. CASE at[v].task # t
      BY <2>4, <3>1 DEF Apart
    <3>2. CASE at[v].task = t
      <4>1. /\ RowOK(at[v], state[t], entered[t], approvals[t], thread[t], billed[t],
                     halts[t], faults)
            /\ at[v].kind \in Kinds \cup {"resume"}
        BY <3>2, WorkerAt DEF RowIsOK, t, Delivery
      <4>2. at[v].kind # "resume" => at[v].run \in 1..e[at[v].kind]
        BY <2>2, <4>1 DEF RowOK
      <4>3. RowOK(at[v], state[t], e, approvals[t], thread[t], billed[t], halts[t],
                  faults')
        BY <1>1, <2>2, <4>1, <4>2 DEF RowOK
      <4>4. at[v].kind = "stray" => at[v].run # r.run
        BY <1>0, <2>4, <4>1 DEF RowOK
      <4> QED
        BY <2>4, <4>3, <4>4 DEF Apart
    <3> QED
      BY <3>1, <3>2
  <2> QED
    BY <1>0, <1>1, <1>2, <1>3, <2>1, <2>2, <2>4, <2>6, <2>7, <2>8, WorkerStep
<1>7. CASE thread[t] \notin Turns
  <2> DEFINE r == [at[w] EXCEPT !.pc = "recheck"]
             th == IF Durable THEN Finished ELSE thread[t]
  <2>1. /\ entered' = entered /\ at' = [at EXCEPT ![w] = r]
        /\ thread' = [thread EXCEPT ![t] = th]
    BY <1>7 DEF EnterResume, Go, Save
  <2>2. th \in NoThread..Finished /\ th \notin Turns /\ (~Durable => th = NoThread)
    BY <1>0, <1>4, <1>7, FourTurns DEF TaskOK, NoThread
  <2> HIDE DEF t, th
  <2>3. /\ r \in Delivery /\ r.pc = "recheck" /\ r.kind = "resume" /\ r.task = t
        /\ r.proposes = FALSE
    BY <1>0, <1>5 DEF Delivery, RunStep
  <2> HIDE DEF r
  <2>4. TaskOK(state[t], entered[t], approvals[t], th, billed[t], halts[t], faults)
    BY <1>4, <2>2 DEF TaskOK
  <2>5. RowOK(r, state[t], entered[t], approvals[t], th, billed[t], halts[t], faults')
    BY <1>5, <2>3 DEF RowOK, Placed, Turning
  <2>6. r.pc \notin Turning
    BY <2>3 DEF Turning
  <2> QED
    BY <1>0, <1>1, <1>2, <1>3, <2>1, <2>2, <2>3, <2>4, <2>5, <2>6, QuietStep DEF t
<1> QED
  BY <1>6, <1>7

\* The next node: the run is ahead of its bills again.
LEMMA RecordOK ==
  ASSUME RunInv, NEW w \in Workers, Record(w)
  PROVE  RunInv'
<1> DEFINE t == Task(w)
           step == IF at[w].turn = Len(Roles) THEN "gate" ELSE "check"
           turn == at[w].turn + 1
           r == [at[w] EXCEPT !.pc = step, !.turn = turn, !.booked = 0]
           th == IF Durable THEN turn ELSE thread[t]
<1>0. /\ t \in Tasks /\ at[w] \in Delivery /\ RowIsOK(w, t) /\ at[w].task = t
      /\ faults \in Nat /\ state[t] \in RunState /\ TaskIsOK(t)
      /\ thread[t] \in NoThread..Finished /\ MaxCost \in Nat
      /\ billed[t] \in Seq(BillRow) /\ entered[t]["fresh"] \in Nat
      /\ entered[t]["stray"] \in Nat
  BY WorkerAt, ConstantsAssumption DEF Task, Kinds
<1>1. /\ at[w].pc = "record" /\ at' = [at EXCEPT ![w] = r]
      /\ thread' = [thread EXCEPT ![t] = th]
      /\ ledger' = [ledger EXCEPT ![month] = @ + at[w].booked]
      /\ UNCHANGED <<state, gated, pending, approvals, entered, month,
                     paid, spent, billed, halts, guesses, faults>>
  BY DEF Record, NextNode, Save, At, Go, messages
<1>2. at[w].turn \in 1..4 /\ turn \in 2..5 /\ at[w].booked \in Nat
  <2>1. at[w].turn \in Turns /\ at[w].booked \in 0..MaxCost
    BY <1>1, WorkerAt DEF Turning, Delivery
  <2> QED
    BY <1>0, <2>1, FourTurns
<1>3. /\ BudgetOK' /\ pending' \in [Tasks -> Nat]
      /\ faults' \in 0..MaxFaults /\ faults' >= faults
  <2>1. ledger' \in [Months -> Nat]
    <3>1. ledger[month] + at[w].booked \in Nat
      BY <1>2 DEF RunInv, TypeOK
    <3> QED
      BY <1>1, <3>1 DEF RunInv, TypeOK
  <2>2. BudgetOK'
    BY <1>1, <2>1 DEF BudgetOK, RunInv, TypeOK
  <2>3. pending' \in [Tasks -> Nat] /\ faults' \in 0..MaxFaults
    BY <1>1 DEF RunInv, TypeOK
  <2> QED
    BY <1>0, <1>1, <2>2, <2>3
<1>4. state' = [state EXCEPT ![t] = state[t]]
  BY <1>1 DEF RunInv, TypeOK
<1>5. /\ step \in {"gate", "check"} /\ (step = "check" => turn \in Turns)
      /\ th \in NoThread..Finished
      /\ ~Durable => th = thread[t]
  BY <1>0, <1>2, FourTurns DEF NoThread
<1> HIDE DEF t, step, turn, th
<1>6. /\ r \in Delivery /\ r.pc = step /\ r.task = t /\ r.kind = at[w].kind
      /\ r.run = at[w].run /\ r.proposes = at[w].proposes /\ r.turn = turn
  <2>1. step \in RunStep /\ turn \in 0..AtGate /\ 0 \in 0..MaxCost
    BY <1>0, <1>2, <1>5, FourTurns DEF RunStep
  <2> QED
    BY <1>0, <2>1 DEF Delivery
<1>7. /\ RowOK(at[w], state[t], entered[t], approvals[t], thread[t], billed[t], halts[t],
               faults)
      /\ TaskOK(state[t], entered[t], approvals[t], thread[t], billed[t], halts[t],
                faults)
  BY <1>0 DEF RowIsOK, TaskIsOK
<1>8. at[w].proposes = FALSE /\ at[w].kind \in Kinds
      /\ at[w].run \in 1..entered[t][at[w].kind]
  BY <1>0, <1>1, <1>7 DEF RowOK, Placed, Delivery, Turning
<1>9. \/ entered[t]["fresh"] >= 2
      \/ approvals[t] = 0 /\ state[t] \in {"running", "completed", "failed"}
  <2>1. CASE at[w].kind = "fresh"
    <3>1. entered[t]["fresh"] >= 1
      BY <1>0, <1>8, <2>1
    <3> QED
      BY <1>0, <1>7, <2>1, <3>1 DEF RowOK
  <2>2. CASE at[w].kind = "stray"
    <3>1. entered[t]["stray"] > 0
      BY <1>0, <1>8, <2>2
    <3> QED
      BY <1>7, <3>1 DEF TaskOK
  <2> QED
    BY <1>8, <2>1, <2>2 DEF Kinds
<1>10. TaskOK(state[t], entered[t], approvals[t], th, billed[t], halts[t], faults)
  BY <1>0, <1>5, <1>7, <1>9 DEF TaskOK
<1>11. RowOK(r, state[t], entered[t], approvals[t], th, billed[t], halts[t], faults')
  <2>1. \A j \in DOMAIN billed[t] : billed[t][j].turn \in Nat
    <3>1. \A j \in DOMAIN billed[t] : billed[t][j].turn \in Turns
      BY <1>0, RowsOf DEF BillRow
    <3> QED
      BY <3>1, FourTurns
  <2>2. \A j \in DOMAIN billed[t] : SameRun(billed[t][j], r) => billed[t][j].turn < turn
    BY <1>1, <1>2, <1>6, <1>7, <2>1 DEF RowOK, Turning, SameRun, turn
  <2> HIDE DEF r
  <2> QED
    BY <1>1, <1>5, <1>6, <1>7, <1>8, <2>2 DEF RowOK, Placed, Turning, SameRun
<1>12. r.pc \in Turning => r.turn \in Turns
  BY <1>5, <1>6 DEF Turning
<1> HIDE DEF r
<1> QED
  BY <1>0, <1>1, <1>3, <1>4, <1>5, <1>6, <1>10, <1>11, <1>12, QuietStep DEF t

\* A turn is billed to the run that is at it, which was billed only earlier ones.
LEMMA BillOK ==
  ASSUME RunInv, NEW w \in Workers, Invoke(w) \/ InvokeFault(w)
  PROVE  RunInv'
<1> DEFINE t == Task(w)
           x == Row(w)
           b == Append(billed[t], x)
<1>0. /\ t \in Tasks /\ at[w] \in Delivery /\ RowIsOK(w, t) /\ at[w].task = t
      /\ faults \in Nat /\ faults \in 0..MaxFaults /\ MaxFaults \in Nat
      /\ state[t] \in RunState /\ TaskIsOK(t)
      /\ thread[t] \in NoThread..Finished /\ entered[t] \in [Kinds -> Nat]
      /\ billed[t] \in Seq(BillRow) /\ halts[t] \in Seq(BillRow)
      /\ approvals[t] \in Nat
      /\ at[w].pc \in Turning => at[w].turn \in Turns
  BY WorkerAt, ConstantsAssumption DEF Task
<1>1. /\ at[w].pc = "invoke"
      /\ UNCHANGED <<state, gated, pending, approvals, thread, entered, month, ledger,
                     halts>>
  BY DEF Invoke, InvokeFault, At, messages
<1>2. PICK price \in Prices : Bill(w, price)
  BY DEF Invoke, InvokeFault
<1>3. price \in Nat
  BY ConstantsAssumption
<1>4. billed' = [billed EXCEPT ![t] = b]
  BY <1>0, <1>2 DEF Bill, RunInv, TypeOK
<1>5. /\ faults' \in 0..MaxFaults /\ faults' >= faults /\ faults' \in Nat
      /\ guesses' \in 0..MaxGuesses
  <2>1. guesses \in 0..MaxGuesses /\ MaxGuesses \in Nat
    BY ConstantsAssumption DEF RunInv, TypeOK
  <2>2. CASE Invoke(w)
    <3>1. /\ faults' = faults
          /\ \/ guesses' = guesses
             \/ guesses < MaxGuesses /\ guesses' = guesses + 1
      BY <2>2 DEF Invoke
    <3> QED
      BY <1>0, <2>1, <3>1
  <2>3. CASE InvokeFault(w)
    BY <1>0, <2>1, <2>3 DEF InvokeFault
  <2> QED
    BY <2>2, <2>3
<1>6. BudgetOK' /\ pending' \in [Tasks -> Nat]
  <2>1. paid[month] + price \in Nat /\ spent[t] + price \in Nat
    <3>1. paid[month] \in Nat /\ spent[t] \in Nat
      BY <1>0 DEF RunInv, TypeOK
    <3> QED
      BY <1>3, <3>1
  <2>2. paid' \in [Months -> Nat] /\ spent' \in [Tasks -> Nat]
    BY <1>0, <1>2, <2>1 DEF Bill, RunInv, TypeOK
  <2>3. month' \in Months /\ ledger' \in [Months -> Nat] /\ pending' \in [Tasks -> Nat]
    BY <1>1 DEF RunInv, TypeOK
  <2> QED
    BY <1>5, <2>2, <2>3 DEF BudgetOK
<1>7. /\ RowOK(at[w], state[t], entered[t], approvals[t], thread[t], billed[t], halts[t],
               faults)
      /\ TaskOK(state[t], entered[t], approvals[t], thread[t], billed[t], halts[t],
                faults)
  BY <1>0 DEF RowIsOK, TaskIsOK
<1>8. /\ at[w].kind \in Kinds /\ at[w].run \in 1..entered[t][at[w].kind]
      /\ at[w].turn \in Turns /\ at[w].proposes = FALSE
  BY <1>0, <1>1, <1>7 DEF RowOK, Placed, Delivery, Turning
<1>9. /\ x \in BillRow /\ x.kind = at[w].kind /\ x.run = at[w].run
      /\ x.turn = at[w].turn
  BY <1>0, <1>8 DEF Row, BillRow, Delivery
<1>10. /\ \A j \in DOMAIN billed[t] : SameRun(billed[t][j], x) => billed[t][j].turn < x.turn
       /\ \A i \in DOMAIN halts[t] : ~SameRun(halts[t][i], x)
  BY <1>1, <1>7, <1>9 DEF RowOK, Turning, SameRun
<1>11. /\ state' = [state EXCEPT ![t] = state[t]]
       /\ entered' = [entered EXCEPT ![t] = entered[t]]
       /\ thread' = [thread EXCEPT ![t] = thread[t]]
       /\ halts' = [halts EXCEPT ![t] = halts[t]]
  BY <1>1 DEF RunInv, TypeOK
<1> HIDE DEF t, x
<1>12. /\ b \in Seq(BillRow)
       /\ DOMAIN b = DOMAIN billed[t] \cup {Len(billed[t]) + 1}
       /\ Len(billed[t]) + 1 \notin DOMAIN billed[t]
       /\ \A i \in DOMAIN billed[t] : b[i] = billed[t][i]
       /\ b[Len(billed[t]) + 1] = x
  BY <1>0, <1>9, AppendRow
<1> DEFINE n == Len(billed[t]) + 1
<1> HIDE DEF b, n
<1>13. TaskOK(state[t], entered[t], approvals[t], thread[t], b, halts[t], faults')
  <2>1. \A j \in DOMAIN billed[t] : billed[t][j] # x
    <3>1. x.turn \in Nat
      BY <1>8, <1>9, FourTurns
    <3>2. \A j \in DOMAIN billed[t] : billed[t][j] = x => x.turn < x.turn
      BY <1>10 DEF SameRun
    <3> QED
      BY <3>1, <3>2
  <2>2. \A i, j \in DOMAIN b : b[i] = b[j] => i = j
    BY <1>7, <1>12, <2>1 DEF TaskOK, n
  <2>3. \A i \in DOMAIN b : b[i].run \in 1..entered[t][b[i].kind]
    BY <1>7, <1>8, <1>9, <1>12 DEF TaskOK, n
  <2>4. \A i \in DOMAIN halts[t], j \in DOMAIN b :
          SameRun(halts[t][i], b[j]) => b[j].turn < halts[t][i].turn
    BY <1>7, <1>10, <1>12 DEF TaskOK, n
  <2>5. TaskOK(state[t], entered[t], approvals[t], thread[t], b, halts[t], faults)
    BY <1>7, <2>2, <2>3, <2>4 DEF TaskOK
  <2> QED
    BY <1>0, <1>5, <2>5, FaultsOnlyExcuse
<1>14. ASSUME NEW v \in Workers \ {w}
       PROVE  at[v].task = t =>
                RowOK(at[v], state[t], entered[t], approvals[t], thread[t], b, halts[t],
                      faults')
  <2> SUFFICES ASSUME at[v].task = t
               PROVE RowOK(at[v], state[t], entered[t], approvals[t], thread[t], b,
                           halts[t], faults')
    OBVIOUS
  <2>1. /\ RowOK(at[v], state[t], entered[t], approvals[t], thread[t], billed[t],
                 halts[t], faults)
        /\ Apart(at[v], at[w]) /\ at[v] \in Delivery
    BY WorkerAt DEF RowIsOK, t
  <2>2. at[v].pc \in Turning => ~SameRun(x, at[v])
    BY <1>0, <1>8, <1>9, <2>1 DEF Apart, SameRun, Kinds
  <2>3. RowOK(at[v], state[t], entered[t], approvals[t], thread[t], b, halts[t], faults)
    <3>1. at[v].pc \in Turning =>
            \A j \in DOMAIN b : SameRun(b[j], at[v]) =>
              b[j].turn < at[v].turn \/ (at[v].pc = "record" /\ b[j].turn = at[v].turn)
      BY <1>12, <2>1, <2>2 DEF RowOK, n
    <3> QED
      BY <2>1, <3>1 DEF RowOK
  <2> QED
    BY <1>0, <1>5, <2>3, FaultsOnlyExcuse
<1>15. CASE Invoke(w)
  <2>1. PICK booked \in 0..MaxCost :
          at' = [at EXCEPT ![w] = [at[w] EXCEPT !.pc = "record", !.booked = booked]]
    <3>1. Prices \cup {Estimate[at[w].turn]} \subseteq 0..MaxCost
      BY <1>8, ConstantsAssumption
    <3>2. \E booked \in Prices \cup {Estimate[at[w].turn]} :
            at' = [at EXCEPT ![w] = [at[w] EXCEPT !.pc = "record", !.booked = booked]]
      BY <1>15 DEF Invoke, Go
    <3> QED
      BY <3>1, <3>2
  <2> DEFINE r == [at[w] EXCEPT !.pc = "record", !.booked = booked]
  <2>2. /\ r \in Delivery /\ r.pc = "record" /\ r.task = t /\ r.kind = at[w].kind
        /\ r.run = at[w].run /\ r.proposes = FALSE /\ r.turn = at[w].turn
    BY <1>0, <1>8, <2>1 DEF Delivery, RunStep
  <2>3. at' = [at EXCEPT ![w] = r]
    BY <2>1
  <2> HIDE DEF r
  <2>4. \A j \in DOMAIN b : SameRun(b[j], r) => b[j].turn < r.turn \/ b[j].turn = r.turn
    BY <1>9, <1>10, <1>12, <2>2 DEF SameRun, n
  <2>5. \A i \in DOMAIN halts[t] : ~SameRun(halts[t][i], r)
    BY <1>9, <1>10, <2>2 DEF SameRun
  <2>6. RowOK(r, state[t], entered[t], approvals[t], thread[t], b, halts[t], faults)
    BY <1>1, <1>7, <1>8, <2>2, <2>4, <2>5 DEF RowOK, Placed, Turning
  <2>7. RowOK(r, state[t], entered[t], approvals[t], thread[t], b, halts[t], faults')
    BY <1>0, <1>5, <2>6, FaultsOnlyExcuse
  <2>8. \A v \in Workers \ {w} : Apart(at[v], r)
    BY <1>0, <2>2, WorkerAt DEF Apart
  <2>9. r.pc \in Turning => r.turn \in Turns
    BY <1>8, <2>2
  <2> QED
    BY <1>0, <1>1, <1>4, <1>5, <1>6, <1>11, <1>12, <1>13, <1>14, <2>2, <2>3, <2>7, <2>8,
       <2>9, WorkerStep
<1>16. CASE InvokeFault(w)
  <2> DEFINE r == Delivered(t)
  <2>1. at' = [at EXCEPT ![w] = r]
    BY <1>16 DEF InvokeFault, End, Go, t
  <2>2. /\ r \in Delivery /\ r.pc = "idle" /\ r.kind = "resume" /\ r.task = t
        /\ RowOK(r, state[t], entered[t], approvals[t], thread[t], b, halts[t], faults')
    BY <1>0, Ended
  <2>3. r.pc \notin Turning /\ \A v \in Workers \ {w} : Apart(at[v], r)
    BY <2>2 DEF Apart, Turning
  <2> HIDE DEF r
  <2> QED
    BY <1>0, <1>1, <1>4, <1>5, <1>6, <1>11, <1>12, <1>13, <1>14, <2>1, <2>2, <2>3,
       WorkerStep
<1> QED
  BY <1>15, <1>16

\* A halt's row is the first of its run, at a turn that was not billed to it.
LEMMA AuditOK ==
  ASSUME RunInv, NEW w \in Workers, AuditHalt(w)
  PROVE  RunInv'
<1> DEFINE t == Task(w)
           x == Row(w)
           h == Append(halts[t], x)
           r == [at[w] EXCEPT !.pc = "fail"]
<1>0. /\ t \in Tasks /\ at[w] \in Delivery /\ RowIsOK(w, t) /\ at[w].task = t
      /\ faults \in Nat /\ faults \in 0..MaxFaults
      /\ state[t] \in RunState /\ TaskIsOK(t)
      /\ thread[t] \in NoThread..Finished /\ entered[t] \in [Kinds -> Nat]
      /\ billed[t] \in Seq(BillRow) /\ halts[t] \in Seq(BillRow)
      /\ approvals[t] \in Nat
      /\ entered[t]["fresh"] \in Nat /\ entered[t]["stray"] \in Nat
      /\ at[w].pc \in Turning => at[w].turn \in Turns
  BY WorkerAt DEF Task, Kinds
<1>1. /\ at[w].pc = "halt" /\ at' = [at EXCEPT ![w] = r]
      /\ halts' = [halts EXCEPT ![t] = h]
      /\ UNCHANGED <<state, gated, pending, approvals, thread, entered, month, ledger,
                     paid, spent, billed, guesses, faults>>
  BY <1>0 DEF AuditHalt, At, Go, messages, RunInv, TypeOK
<1>2. /\ BudgetOK' /\ pending' \in [Tasks -> Nat]
      /\ faults' \in 0..MaxFaults /\ faults' >= faults
  BY <1>1, SameBooks
<1>3. /\ RowOK(at[w], state[t], entered[t], approvals[t], thread[t], billed[t], halts[t],
               faults)
      /\ TaskOK(state[t], entered[t], approvals[t], thread[t], billed[t], halts[t],
                faults)
  BY <1>0 DEF RowIsOK, TaskIsOK
<1>4. /\ at[w].kind \in Kinds /\ at[w].run \in 1..entered[t][at[w].kind]
      /\ at[w].turn \in Turns /\ at[w].proposes = FALSE
  BY <1>0, <1>1, <1>3 DEF RowOK, Placed, Delivery, Turning
<1>5. /\ x \in BillRow /\ x.kind = at[w].kind /\ x.run = at[w].run
      /\ x.turn = at[w].turn
  BY <1>0, <1>4 DEF Row, BillRow, Delivery
<1>6. /\ \A j \in DOMAIN billed[t] : SameRun(billed[t][j], x) => billed[t][j].turn < x.turn
      /\ \A i \in DOMAIN halts[t] : ~SameRun(halts[t][i], x)
  BY <1>1, <1>3, <1>5 DEF RowOK, Turning, SameRun
<1>7. /\ state' = [state EXCEPT ![t] = state[t]]
      /\ entered' = [entered EXCEPT ![t] = entered[t]]
      /\ thread' = [thread EXCEPT ![t] = thread[t]]
      /\ billed' = [billed EXCEPT ![t] = billed[t]]
  BY <1>1 DEF RunInv, TypeOK
<1> HIDE DEF t, x
<1>8. /\ h \in Seq(BillRow) /\ h # <<>>
      /\ DOMAIN h = DOMAIN halts[t] \cup {Len(halts[t]) + 1}
      /\ Len(halts[t]) + 1 \notin DOMAIN halts[t]
      /\ \A i \in DOMAIN halts[t] : h[i] = halts[t][i]
      /\ h[Len(halts[t]) + 1] = x
  BY <1>0, <1>5, AppendRow
<1> DEFINE n == Len(halts[t]) + 1
<1> HIDE DEF h, n
<1>9. /\ r \in Delivery /\ r.pc = "fail" /\ r.task = t /\ r.kind = at[w].kind
      /\ r.run = at[w].run /\ r.proposes = FALSE
  BY <1>0, <1>4 DEF Delivery, RunStep
<1> HIDE DEF r
<1>10. \/ entered[t]["fresh"] >= 2
       \/ approvals[t] = 0 /\ state[t] = "running" /\ at[w].kind = "fresh"
  <2>1. CASE at[w].kind = "fresh"
    <3>1. entered[t]["fresh"] >= 1
      BY <1>0, <1>4, <2>1
    <3> QED
      BY <1>0, <1>1, <1>3, <2>1, <3>1 DEF RowOK
  <2>2. CASE at[w].kind = "stray"
    <3>1. entered[t]["stray"] > 0
      BY <1>0, <1>4, <2>2
    <3> QED
      BY <1>3, <3>1 DEF TaskOK
  <2> QED
    BY <1>4, <2>1, <2>2 DEF Kinds
<1>11. TaskOK(state[t], entered[t], approvals[t], thread[t], billed[t], h, faults')
  <2>1. \A i, j \in DOMAIN h : SameRun(h[i], h[j]) => i = j
    BY <1>3, <1>6, <1>8 DEF TaskOK, n, SameRun
  <2>2. \A i \in DOMAIN h : h[i].run \in 1..entered[t][h[i].kind]
    BY <1>3, <1>4, <1>5, <1>8 DEF TaskOK, n
  <2>3. \A i \in DOMAIN h, j \in DOMAIN billed[t] :
          SameRun(h[i], billed[t][j]) => billed[t][j].turn < h[i].turn
    BY <1>3, <1>6, <1>8 DEF TaskOK, n, SameRun
  <2> QED
    BY <1>0, <1>1, <1>3, <1>8, <1>10, <2>1, <2>2, <2>3 DEF TaskOK
<1>12. RowOK(r, state[t], entered[t], approvals[t], thread[t], billed[t], h, faults')
  BY <1>1, <1>3, <1>4, <1>8, <1>9 DEF RowOK, Placed, Turning
<1>13. ASSUME NEW v \in Workers \ {w}
       PROVE  /\ at[v].task = t =>
                   RowOK(at[v], state[t], entered[t], approvals[t], thread[t], billed[t],
                         h, faults')
              /\ Apart(at[v], r)
  <2>1. /\ Apart(at[v], at[w]) /\ at[v] \in Delivery
        /\ at[v].task = t =>
             RowOK(at[v], state[t], entered[t], approvals[t], thread[t], billed[t],
                   halts[t], faults)
    BY WorkerAt DEF RowIsOK, t
  <2>2. Apart(at[v], r)
    BY <1>0, <1>9, <2>1 DEF Apart
  <2>3. ASSUME at[v].task = t
        PROVE  RowOK(at[v], state[t], entered[t], approvals[t], thread[t], billed[t], h,
                     faults')
    <3>1. at[v].pc \in Turning => ~SameRun(x, at[v])
      BY <1>0, <1>4, <1>5, <2>1, <2>3 DEF Apart, SameRun, Kinds
    <3>2. at[v].pc \in Turning => \A i \in DOMAIN h : ~SameRun(h[i], at[v])
      BY <1>8, <2>1, <2>3, <3>1 DEF RowOK, n
    <3>3. at[v].kind = "fresh" => at[w].kind # "fresh"
      BY <1>0, <2>1, <2>3 DEF Apart
    <3>4. at[v].kind = "fresh" => entered[t]["fresh"] # 1
      BY <1>0, <1>10, <3>3
    <3> QED
      BY <1>1, <1>8, <2>1, <2>3, <3>2, <3>4 DEF RowOK
  <2> QED
    BY <2>2, <2>3
<1>14. r.pc \notin Turning
  BY <1>9 DEF Turning
<1> QED
  BY <1>0, <1>1, <1>2, <1>7, <1>8, <1>9, <1>11, <1>12, <1>13, <1>14, WorkerStep

\* A task that waits for its approval has no fresh run in progress.
LEMMA DecideOK ==
  ASSUME RunInv, NEW t \in Tasks, Decide(t)
  PROVE  RunInv'
<1>1. PICK s \in {"approved", "rejected"} :
        /\ state' = [state EXCEPT ![t] = s]
        /\ IF s = "approved"
           THEN /\ approvals' = [approvals EXCEPT ![t] = @ + 1]
                /\ pending' = [pending EXCEPT ![t] = @ + MaxDeliveries]
           ELSE UNCHANGED messages
  <2>1. CASE UNCHANGED messages /\ state' = [state EXCEPT ![t] = "rejected"]
    BY <2>1
  <2>2. CASE ~(UNCHANGED messages /\ state' = [state EXCEPT ![t] = "rejected"])
    BY <2>2 DEF Decide
  <2> QED
    BY <2>1, <2>2
<1>2. /\ state[t] = "awaiting_approval"
      /\ UNCHANGED <<gated, thread, entered, at, month, ledger, paid, spent, billed,
                     halts, guesses, faults>>
  BY DEF Decide, budget
<1>3. /\ approvals[t] \in Nat /\ pending[t] \in Nat /\ MaxDeliveries \in Nat
      /\ entered[t]["fresh"] \in Nat
  BY ConstantsAssumption DEF RunInv, TypeOK, Kinds
<1>4. /\ approvals' \in [Tasks -> Nat] /\ pending' \in [Tasks -> Nat]
      /\ approvals'[t] = IF s = "approved" THEN approvals[t] + 1 ELSE approvals[t]
      /\ \A u \in Tasks : u # t => approvals'[u] = approvals[u]
  <2>1. CASE s = "approved"
    <3>1. approvals[t] + 1 \in Nat /\ pending[t] + MaxDeliveries \in Nat
      BY <1>3
    <3> QED
      BY <1>1, <2>1, <3>1 DEF RunInv, TypeOK
  <2>2. CASE s # "approved"
    BY <1>1, <2>2 DEF messages, RunInv, TypeOK
  <2> QED
    BY <2>1, <2>2
<1>5. /\ state' \in [Tasks -> RunState] /\ state'[t] = s
      /\ \A u \in Tasks : u # t => state'[u] = state[u]
  BY <1>1 DEF RunInv, TypeOK, RunState
<1>6. TypeOK'
  BY <1>2, <1>4, <1>5 DEF RunInv, TypeOK
<1>7. ASSUME NEW u \in Tasks PROVE TaskIsOK(u)'
  <2>0. TaskOK(state[u], entered[u], approvals[u], thread[u], billed[u], halts[u], faults)
    BY DEF RunInv, TaskIsOK
  <2>1. CASE u = t
    <3>1. TaskOK(s, entered[t], approvals'[t], thread[t], billed[t], halts[t], faults)
      BY <1>1, <1>2, <1>3, <1>4, <2>0, <2>1 DEF TaskOK
    <3> QED
      BY <1>2, <1>5, <2>1, <3>1 DEF TaskIsOK
  <2>2. CASE u # t
    BY <1>2, <1>4, <1>5, <2>0, <2>2 DEF TaskIsOK
  <2> QED
    BY <2>1, <2>2
<1>8. ASSUME NEW w \in Workers PROVE RowIsOK(w, Task(w))'
  <2> DEFINE u == Task(w)
  <2>0. /\ RowOK(at[w], state[u], entered[u], approvals[u], thread[u], billed[u],
                 halts[u], faults)
        /\ u \in Tasks /\ at[w] \in Delivery
    BY WorkerAt DEF RowIsOK
  <2> HIDE DEF u
  <2>1. CASE u = t
    <3>1. at[w].kind # "fresh"
      BY <1>2, <2>0, <2>1 DEF RowOK
    <3>2. RowOK(at[w], s, entered[t], approvals'[t], thread[t], billed[t], halts[t],
                faults)
      BY <1>3, <1>4, <2>0, <2>1, <3>1 DEF RowOK, Placed
    <3> QED
      BY <1>2, <1>5, <2>1, <3>2 DEF RowIsOK, Task, u
  <2>2. CASE u # t
    BY <1>2, <1>4, <1>5, <2>0, <2>2 DEF RowIsOK, Task, u
  <2> QED
    BY <2>1, <2>2
<1> QED
  BY <1>2, <1>6, <1>7, <1>8 DEF RunInv

LEMMA RunNext == RunInv /\ [Next]_vars => RunInv'
<1> SUFFICES ASSUME RunInv, [Next]_vars PROVE RunInv'
  OBVIOUS
<1>1. ASSUME NEW w \in Workers, Step(w) PROVE RunInv'
  BY <1>1, ClaimOK, ResumeOK, CheckOK, BillOK, RecordOK, AuditOK, FailOK, SkipOK, GateOK,
     RecheckOK, SaveRowOK, FinishOK, FaultOK
  DEF Step
<1>2. CASE MonthEnds
  <2>1. /\ month' \in Months
        /\ UNCHANGED <<state, gated, messages, thread, entered, at, ledger, paid, spent,
                       billed, halts, guesses, faults>>
    BY <1>2, ConstantsAssumption DEF MonthEnds, Months, RunInv, TypeOK
  <2>2. TypeOK'
    BY <2>1 DEF RunInv, TypeOK, messages
  <2> QED
    BY <2>1, <2>2 DEF RunInv, TaskIsOK, RowIsOK, Task, messages
<1>3. CASE UNCHANGED vars
  <2>1. TypeOK'
    BY <1>3 DEF RunInv, TypeOK, vars, budget, messages
  <2> QED
    BY <1>3, <2>1 DEF RunInv, TaskIsOK, RowIsOK, Task, vars, budget, messages
<1> QED
  BY <1>1, <1>2, <1>3, LoadOK, DecideOK DEF Next

\* Every delivery and every task is where the runs, the approvals and the audit
\* rows say.
THEOREM RunsInvariance == Spec => []RunInv
<1> QED
  BY RunInit, RunNext, PTL DEF Spec

\* Type correctness of the deliveries, the ledger and the bills.
THEOREM TypeCorrect == Spec => []TypeOK
<1>1. RunInv => TypeOK
  BY DEF RunInv
<1> QED
  BY <1>1, RunsInvariance, PTL

\* No run pays a turn twice, whatever is redelivered; there is one fresh run more
\* than approvals at most, and no resume runs turns but after a rerun.
THEOREM RunsPayOnce == Spec => []TurnsArePaidPerRun
<1>1. RunInv => TurnsArePaidPerRun
  BY DEF RunInv, TaskIsOK, TaskOK, TurnsArePaidPerRun
<1> QED
  BY <1>1, RunsInvariance, PTL

\* A run that halts leaves one audit row, pays nothing from that turn on, and its
\* task, while it has no other run and no fault happens, is not completed.
THEOREM HaltsLeaveOneRow == Spec => []HaltsAreAudited
<1>1. RunInv => HaltsAreAudited
  <2> SUFFICES ASSUME RunInv, NEW t \in Tasks
               PROVE  HaltsAreAudited!(t)
    BY DEF HaltsAreAudited
  <2>1. TaskOK(state[t], entered[t], approvals[t], thread[t], billed[t], halts[t], faults)
    BY DEF RunInv, TaskIsOK
  <2> QED
    BY <2>1 DEF TaskOK, SameRun
<1> QED
  BY <1>1, RunsInvariance, PTL

---------------------------------------------------------------------------
(* Totals *)

LEMMA InUnits ==
  ASSUME NEW f, NEW e
  PROVE  e \in Units(f) <=> \E x \in DOMAIN f : e \in {x} \X (1..f[x])
  BY DEF Units

LEMMA ProductSize ==
  ASSUME NEW T, IsFiniteSet(T), NEW d \in Nat
  PROVE  /\ IsFiniteSet(T \X (1..d))
         /\ Cardinality(T \X (1..d)) = Cardinality(T) * d
<1>1. IsFiniteSet(1..d) /\ Cardinality(1..d) = d
  BY FS_Interval
<1> QED
  BY <1>1, FS_Product

\* A finite total stays finite, and changes by what one value changes by.
LEMMA TotalUpdate ==
  ASSUME NEW S, NEW f \in [S -> Nat], IsFiniteSet(Units(f)),
         NEW x \in S, NEW v \in Nat
  PROVE  LET g == [f EXCEPT ![x] = v] IN
         /\ IsFiniteSet(Units(g))
         /\ Total(g) = Total(f) - f[x] + v
         /\ Total(f) \in Nat /\ Total(g) \in Nat
         /\ f[x] <= Total(f)
<1> DEFINE g == [f EXCEPT ![x] = v]
           R == Units(f) \ ({x} \X (1..f[x]))
<1>1. g \in [S -> Nat] /\ g[x] = v /\ \A y \in S : y # x => g[y] = f[y]
  OBVIOUS
<1>2. f[x] \in Nat
  OBVIOUS
<1>3. ASSUME NEW k \in Nat
      PROVE  IsFiniteSet({x} \X (1..k)) /\ Cardinality({x} \X (1..k)) = k
  <2>1. IsFiniteSet({x}) /\ Cardinality({x}) = 1
    BY FS_Singleton
  <2>2. /\ IsFiniteSet({x} \X (1..k))
        /\ Cardinality({x} \X (1..k)) = Cardinality({x}) * k
    BY <2>1, ProductSize
  <2> QED
    BY <2>1, <2>2
<1>4. {x} \X (1..f[x]) \subseteq Units(f)
  BY InUnits
<1>5. Units(g) = R \cup ({x} \X (1..v))
  <2>1. ASSUME NEW e \in Units(g) PROVE e \in R \cup ({x} \X (1..v))
    <3>1. PICK y \in S : e \in {y} \X (1..g[y])
      BY <1>1, InUnits
    <3>2. CASE y = x
      BY <1>1, <3>1, <3>2
    <3>3. CASE y # x
      <4>1. e \in {y} \X (1..f[y]) /\ y \in DOMAIN f
        BY <1>1, <3>1, <3>3
      <4>2. e \in Units(f)
        BY <4>1, InUnits
      <4>3. e \notin {x} \X (1..f[x])
        BY <3>3, <4>1
      <4> QED
        BY <4>2, <4>3
    <3> QED
      BY <3>2, <3>3
  <2>2. ASSUME NEW e \in R PROVE e \in Units(g)
    <3>1. PICK y \in S : e \in {y} \X (1..f[y])
      BY <2>2, InUnits
    <3>2. y # x
      BY <2>2, <3>1
    <3>3. e \in {y} \X (1..g[y]) /\ y \in DOMAIN g
      BY <1>1, <3>1, <3>2
    <3> QED
      BY <3>3, InUnits
  <2>3. ASSUME NEW e \in {x} \X (1..v) PROVE e \in Units(g)
    <3>1. e \in {x} \X (1..g[x]) /\ x \in DOMAIN g
      BY <1>1, <2>3
    <3> QED
      BY <3>1, InUnits
  <2> HIDE DEF g, R
  <2> QED
    BY <2>1, <2>2, <2>3
<1>6. R \cap ({x} \X (1..v)) = {}
  <2>1. ASSUME NEW e \in R, e \in {x} \X (1..v) PROVE FALSE
    <3>1. PICK y \in S : e \in {y} \X (1..f[y])
      BY <2>1, InUnits
    <3>2. y = x
      BY <2>1, <3>1
    <3> QED
      BY <2>1, <3>1, <3>2
  <2> QED
    BY <2>1
<1>7. /\ IsFiniteSet(R) /\ Cardinality(R) = Total(f) - f[x]
      /\ Total(f) \in Nat /\ f[x] <= Total(f)
  <2>1. Units(f) \cap ({x} \X (1..f[x])) = {x} \X (1..f[x])
    BY <1>4
  <2>2. /\ IsFiniteSet(R)
        /\ Cardinality(R) = Cardinality(Units(f)) - Cardinality({x} \X (1..f[x]))
    <3> DEFINE X == {x} \X (1..f[x])
    <3>1. IsFiniteSet(Units(f)) /\ Units(f) \cap X = X
      BY <2>1
    <3> HIDE DEF X
    <3>2. /\ IsFiniteSet(Units(f) \ X)
          /\ Cardinality(Units(f) \ X) =
               Cardinality(Units(f)) - Cardinality(Units(f) \cap X)
      BY <3>1, FS_Difference
    <3>3. R = Units(f) \ X
      BY DEF X
    <3> QED
      BY <3>1, <3>2, <3>3 DEF X
  <2>3. Cardinality({x} \X (1..f[x])) = f[x]
    BY <1>2, <1>3
  <2>4. Cardinality({x} \X (1..f[x])) <= Cardinality(Units(f))
    BY <1>4, FS_Subset
  <2> QED
    BY <2>2, <2>3, <2>4, FS_CardinalityType DEF Total
<1>8. IsFiniteSet(Units(g)) /\ Total(g) = Cardinality(R) + v
  <2>1. IsFiniteSet({x} \X (1..v)) /\ Cardinality({x} \X (1..v)) = v
    BY <1>3
  <2> HIDE DEF R, g
  <2>2. /\ IsFiniteSet(R \cup ({x} \X (1..v)))
        /\ Cardinality(R \cup ({x} \X (1..v))) =
             Cardinality(R) + Cardinality({x} \X (1..v)) - Cardinality({})
    BY <1>6, <1>7, <2>1, FS_Union
  <2>3. Cardinality({}) = 0 /\ Cardinality(R) \in Nat
    BY <1>7, FS_EmptySet, FS_CardinalityType
  <2> QED
    BY <1>5, <2>1, <2>2, <2>3 DEF Total
<1>9. Total(g) = Total(f) - f[x] + v /\ Total(g) \in Nat
  <2> HIDE DEF R, g
  <2> QED
    BY <1>2, <1>7, <1>8
<1> HIDE DEF R, g
<1> QED
  BY <1>7, <1>8, <1>9 DEF g

\* Nothing adds up to nothing.
LEMMA TotalZero ==
  ASSUME NEW f, \A x \in DOMAIN f : f[x] = 0
  PROVE  IsFiniteSet(Units(f)) /\ Total(f) = 0
<1>1. Units(f) = {}
  BY InUnits
<1> QED
  BY <1>1, FS_EmptySet DEF Total

\* The units of values up to d, nonzero in T only.
LEMMA UnitsWithin ==
  ASSUME NEW S, NEW f \in [S -> Nat], NEW T, NEW d \in Nat,
         \A x \in S : f[x] <= d /\ (f[x] # 0 => x \in T)
  PROVE  Units(f) \subseteq T \X (1..d)
<1> SUFFICES ASSUME NEW e \in Units(f) PROVE e \in T \X (1..d)
  OBVIOUS
<1>1. PICK x \in S : e \in {x} \X (1..f[x])
  BY InUnits
<1>2. f[x] \in Nat /\ f[x] <= d
  OBVIOUS
<1>3. PICK k \in 1..f[x] : e = <<x, k>>
  BY <1>1
<1>4. f[x] # 0
  BY <1>2, <1>3
<1>5. k \in 1..d /\ x \in T
  BY <1>2, <1>3, <1>4
<1> QED
  BY <1>3, <1>5

LEMMA TotalFinite ==
  ASSUME NEW S, NEW f \in [S -> Nat], IsFiniteSet(S), NEW d \in Nat,
         \A x \in S : f[x] <= d
  PROVE  IsFiniteSet(Units(f)) /\ Total(f) \in Nat
<1>1. Units(f) \subseteq S \X (1..d)
  BY UnitsWithin
<1> QED
  BY <1>1, ProductSize, FS_Subset, FS_CardinalityType DEF Total

\* Two functions that are nonzero at different places of T share its units.
LEMMA TotalOfTwo ==
  ASSUME NEW S, NEW f \in [S -> Nat], NEW g \in [S -> Nat],
         NEW T, IsFiniteSet(T), NEW d \in Nat,
         \A x \in S : f[x] <= d /\ (f[x] # 0 => x \in T),
         \A x \in S : g[x] <= d /\ (g[x] # 0 => x \in T),
         \A x \in S : f[x] = 0 \/ g[x] = 0
  PROVE  Total(f) + Total(g) <= Cardinality(T) * d
<1>1. Units(f) \subseteq T \X (1..d) /\ Units(g) \subseteq T \X (1..d)
  BY UnitsWithin
<1>2. IsFiniteSet(Units(f)) /\ IsFiniteSet(Units(g))
  BY <1>1, ProductSize, FS_Subset
<1>3. Units(f) \cap Units(g) = {}
  <2>1. ASSUME NEW e \in Units(f), e \in Units(g) PROVE FALSE
    <3>1. PICK x \in S : e \in {x} \X (1..f[x])
      BY InUnits
    <3>2. PICK y \in S : e \in {y} \X (1..g[y])
      BY <2>1, InUnits
    <3>3. x = y
      BY <3>1, <3>2
    <3>4. 1..f[x] # {} /\ 1..g[x] # {}
      BY <3>1, <3>2, <3>3
    <3> QED
      BY <3>4
  <2> QED
    BY <2>1
<1>4. Cardinality(Units(f) \cup Units(g)) = Total(f) + Total(g)
  <2>1. Cardinality(Units(f) \cup Units(g)) =
          Cardinality(Units(f)) + Cardinality(Units(g)) - Cardinality({})
    BY <1>2, <1>3, FS_Union
  <2>2. Cardinality({}) = 0 /\ Cardinality(Units(f)) \in Nat
        /\ Cardinality(Units(g)) \in Nat
    BY <1>2, FS_EmptySet, FS_CardinalityType
  <2> QED
    BY <2>1, <2>2 DEF Total
<1>5. /\ IsFiniteSet(T \X (1..d))
      /\ Units(f) \cup Units(g) \in SUBSET (T \X (1..d))
  BY <1>1, ProductSize
<1>6. Cardinality(Units(f) \cup Units(g)) <= Cardinality(T \X (1..d))
  BY <1>5, FS_Subset
<1> QED
  BY <1>4, <1>6, ProductSize

LEMMA TotalBound ==
  ASSUME NEW S, NEW f \in [S -> Nat], NEW T, IsFiniteSet(T), NEW d \in Nat,
         \A x \in S : f[x] <= d /\ (f[x] # 0 => x \in T)
  PROVE  Total(f) <= Cardinality(T) * d
<1>1. Units(f) \in SUBSET (T \X (1..d))
  BY UnitsWithin
<1>2. Cardinality(Units(f)) <= Cardinality(T \X (1..d))
  BY <1>1, ProductSize, FS_Subset
<1> QED
  BY <1>2, ProductSize DEF Total


---------------------------------------------------------------------------
(* Spending *)

Costs == [w \in Workers |-> at[w].booked]

\* What a worker that passed its check, and has not paid yet, may pay.
Due(w) == IF At(w, "invoke") THEN MaxCost ELSE 0

Dues == [w \in Workers |-> Due(w)]

Size == Cardinality(Workers)

Ceiling == UserCap + (Size + faults + guesses) * MaxCost

\* OverspendIsBounded is not inductive: a worker that passed its check pays
\* later, when others have passed theirs against the same ledger.  The bound
\* already holds for what all of them are about to pay.  At a check that is
\* because the ledger lacks no more of the month's spending than what is in
\* flight, was lost to faults or was booked too low.
SpendInv ==
    /\ IsFiniteSet(Units(ledger)) /\ IsFiniteSet(Units(paid))
    /\ \A w \in Workers : ~At(w, "record") => at[w].booked = 0
    /\ LedgerAccountsForSpend
    /\ OverspendIsBounded
    /\ \A m \in Months : m > month => paid[m] = 0
    /\ paid[month] <= ledger[month] + InFlight + (faults + guesses) * MaxCost
    /\ paid[month] + Total(Dues) <= Ceiling

LEMMA Times ==
  ASSUME NEW a \in Nat, NEW b \in Nat, NEW d \in Nat
  PROVE  (a + b) * d = a * d + b * d /\ a * d \in Nat /\ b * d \in Nat
  OBVIOUS

LEMMA Numbers ==
  ASSUME RunInv
  PROVE  /\ MaxCost \in Nat /\ UserCap \in Nat /\ Size \in Nat
         /\ IsFiniteSet(Workers) /\ Size * MaxCost \in Nat
         /\ faults \in Nat /\ guesses \in Nat
         /\ faults * MaxCost \in Nat /\ guesses * MaxCost \in Nat
         /\ (faults + guesses) * MaxCost = faults * MaxCost + guesses * MaxCost
         /\ (Size + faults + guesses) * MaxCost =
              Size * MaxCost + faults * MaxCost + guesses * MaxCost
         /\ month \in Months /\ \A m \in Months : m \in Nat
         /\ ledger \in [Months -> Nat] /\ paid \in [Months -> Nat]
<1>1. /\ MaxCost \in Nat /\ UserCap \in Nat /\ IsFiniteSet(Workers)
      /\ MaxFaults \in Nat /\ MaxGuesses \in Nat /\ MaxMonths \in Nat
  BY ConstantsAssumption
<1>2. Size \in Nat
  BY <1>1, FS_CardinalityType DEF Size
<1>3. faults \in Nat /\ guesses \in Nat
  BY <1>1 DEF RunInv, TypeOK
<1>4. /\ faults * MaxCost \in Nat /\ guesses * MaxCost \in Nat
      /\ (faults + guesses) * MaxCost = faults * MaxCost + guesses * MaxCost
      /\ Size * MaxCost \in Nat
      /\ (Size + faults) * MaxCost = Size * MaxCost + faults * MaxCost
      /\ Size + faults \in Nat
  BY <1>1, <1>2, <1>3, Times
<1>5. (Size + faults + guesses) * MaxCost = (Size + faults) * MaxCost + guesses * MaxCost
  BY <1>1, <1>3, <1>4, Times
<1>6. /\ month \in Months /\ \A m \in Months : m \in Nat
      /\ ledger \in [Months -> Nat] /\ paid \in [Months -> Nat]
  BY <1>1 DEF RunInv, TypeOK, Months
<1> QED
  BY <1>1, <1>2, <1>3, <1>4, <1>5, <1>6

LEMMA SumsFinite ==
  ASSUME RunInv
  PROVE  /\ Costs \in [Workers -> Nat] /\ Dues \in [Workers -> Nat]
         /\ \A w \in Workers : /\ Costs[w] = at[w].booked /\ Dues[w] = Due(w)
                               /\ Costs[w] <= MaxCost /\ Dues[w] <= MaxCost
                               /\ Costs[w] \in Nat /\ Dues[w] \in Nat
         /\ IsFiniteSet(Units(Costs)) /\ IsFiniteSet(Units(Dues))
         /\ InFlight = Total(Costs) /\ InFlight \in Nat /\ Total(Dues) \in Nat
<1>0. MaxCost \in Nat /\ IsFiniteSet(Workers)
  BY ConstantsAssumption
<1>1. \A w \in Workers : at[w].booked \in 0..MaxCost
  BY WorkerAt DEF Delivery
<1>2. /\ Costs \in [Workers -> Nat] /\ Dues \in [Workers -> Nat]
      /\ \A w \in Workers : /\ Costs[w] = at[w].booked /\ Dues[w] = Due(w)
                            /\ Costs[w] <= MaxCost /\ Dues[w] <= MaxCost
                            /\ Costs[w] \in Nat /\ Dues[w] \in Nat
  BY <1>0, <1>1 DEF Costs, Dues, Due
<1>3. InFlight = Total(Costs)
  BY DEF InFlight, Costs
<1> QED
  BY <1>0, <1>2, <1>3, TotalFinite

\* When one row changes, so do the sums, by as much.
LEMMA SumsStep ==
  ASSUME RunInv, RunInv', NEW w \in Workers,
         \A v \in Workers \ {w} : at'[v] = at[v]
  PROVE  /\ InFlight' = InFlight - at[w].booked + at'[w].booked
         /\ Total(Dues)' = Total(Dues) - Due(w) + Due(w)'
         /\ InFlight' \in Nat /\ Total(Dues)' \in Nat
         /\ at'[w].booked \in Nat /\ Due(w)' \in Nat
<1>1. at'[w].booked \in Nat /\ Due(w)' \in Nat
  <2>1. at'[w].booked \in 0..MaxCost /\ MaxCost \in Nat
    BY ConstantsAssumption DEF RunInv, TypeOK
  <2> QED
    BY <2>1 DEF Due
<1>2. Costs' = [Costs EXCEPT ![w] = at'[w].booked]
  BY DEF Costs
<1>3. Dues' = [Dues EXCEPT ![w] = Due(w)']
  BY DEF Dues, Due, At
<1>4. Costs[w] = at[w].booked /\ Dues[w] = Due(w)
  BY DEF Costs, Dues
<1>5. InFlight' = Total(Costs')
  BY DEF InFlight, Costs
<1>6. /\ Total(Costs') = Total(Costs) - Costs[w] + at'[w].booked
      /\ Total(Costs') \in Nat
  <2>1. Costs \in [Workers -> Nat] /\ IsFiniteSet(Units(Costs))
    BY SumsFinite
  <2>2. LET g == [Costs EXCEPT ![w] = at'[w].booked] IN
        Total(g) = Total(Costs) - Costs[w] + at'[w].booked /\ Total(g) \in Nat
    BY <1>1, <2>1, TotalUpdate
  <2> QED
    BY <1>2, <2>2
<1>7. /\ Total(Dues') = Total(Dues) - Dues[w] + Due(w)'
      /\ Total(Dues') \in Nat
  <2>1. Dues \in [Workers -> Nat] /\ IsFiniteSet(Units(Dues))
    BY SumsFinite
  <2>2. LET g == [Dues EXCEPT ![w] = Due(w)'] IN
        Total(g) = Total(Dues) - Dues[w] + Due(w)' /\ Total(g) \in Nat
    BY <1>1, <2>1, TotalUpdate
  <2> QED
    BY <1>3, <2>2
<1>8. Total(Dues)' = Total(Dues')
  OBVIOUS
<1> QED
  BY <1>1, <1>4, <1>5, <1>6, <1>7, <1>8, SumsFinite

LEMMA SpendInit == Init => SpendInv
<1> SUFFICES ASSUME Init PROVE SpendInv
  OBVIOUS
<1>0. RunInv
  BY RunInit
<1>1. /\ month = 0 /\ faults = 0 /\ guesses = 0
      /\ ledger = [m \in Months |-> 0] /\ paid = [m \in Months |-> 0]
      /\ \A w \in Workers : at[w].pc = "idle" /\ at[w].booked = 0
  BY DEF Init, Delivered
<1>2. /\ IsFiniteSet(Units(ledger)) /\ Total(ledger) = 0
      /\ IsFiniteSet(Units(paid)) /\ Total(paid) = 0
  BY <1>1, TotalZero
<1>3. InFlight = 0 /\ Total(Dues) = 0
  <2>1. \A w \in Workers : Costs[w] = 0 /\ Dues[w] = 0
    BY <1>1 DEF Costs, Dues, Due, At
  <2>2. Total(Costs) = 0 /\ Total(Dues) = 0
    BY <2>1, TotalZero DEF Costs, Dues
  <2> QED
    BY <1>0, <2>2, SumsFinite
<1>4. /\ UserCap \in Nat /\ MaxCost \in Nat /\ Size * MaxCost \in Nat
      /\ (Size + faults + guesses) * MaxCost \in Nat
      /\ (faults + guesses) * MaxCost \in Nat /\ guesses * MaxCost \in Nat
      /\ month \in Months /\ paid[month] = 0 /\ ledger[month] = 0
  BY <1>0, <1>1, Numbers
<1>5. OverspendIsBounded
  BY <1>1, <1>4 DEF OverspendIsBounded, Size
<1>6. LedgerAccountsForSpend
  BY <1>2, <1>3, <1>4 DEF LedgerAccountsForSpend
<1>7. paid[month] + Total(Dues) <= Ceiling
  BY <1>3, <1>4 DEF Ceiling
<1>8. paid[month] <= ledger[month] + InFlight + (faults + guesses) * MaxCost
  BY <1>3, <1>4
<1>9. \A m \in Months : m > month => paid[m] = 0
  BY <1>1
<1> QED
  BY <1>1, <1>2, <1>5, <1>6, <1>7, <1>8, <1>9 DEF SpendInv

\* A step of one worker within a month.  pay goes to the provider, rec into the
\* ledger, and f faults and g misjudged prices happen; the books stay balanced
\* if the step balances.
LEMMA SpendStep ==
  ASSUME RunInv, RunInv', SpendInv, NEW w \in Workers,
         \A v \in Workers \ {w} : at'[v] = at[v],
         ~At(w, "record")' => at'[w].booked = 0,
         month' = month,
         NEW pay \in Nat, paid' = [paid EXCEPT ![month] = @ + pay],
         NEW rec \in Nat, ledger' = [ledger EXCEPT ![month] = @ + rec],
         NEW f \in {0, 1}, faults' = faults + f,
         NEW g \in {0, 1}, guesses' = guesses + g,
         rec + at'[w].booked <= pay + at[w].booked + g * MaxCost,
         pay + at[w].booked <= rec + at'[w].booked + (f + g) * MaxCost,
         \/ pay + Due(w)' <= Due(w)
         \/ paid'[month] + Total(Dues)' <= Ceiling'
  PROVE  SpendInv'
<1> DEFINE c == at[w].booked
           cc == at'[w].booked
           M == MaxCost
           df == f * M
           dg == g * M
<1>1. /\ month \in Months /\ faults \in Nat /\ guesses \in Nat /\ M \in Nat
      /\ ledger \in [Months -> Nat] /\ paid \in [Months -> Nat]
      /\ c \in Nat /\ cc \in Nat /\ Due(w) \in Nat /\ Due(w)' \in Nat
      /\ InFlight \in Nat /\ Total(Dues) \in Nat
      /\ InFlight' = InFlight - c + cc /\ InFlight' \in Nat
      /\ Total(Dues)' = Total(Dues) - Due(w) + Due(w)' /\ Total(Dues)' \in Nat
      /\ UserCap \in Nat /\ \A m \in Months : m \in Nat
  <2>1. c \in Nat /\ Due(w) \in Nat
    BY SumsFinite
  <2> QED
    BY <2>1, Numbers, SumsFinite, SumsStep
<1>2. /\ df \in Nat /\ dg \in Nat
      /\ (f + g) * M = df + dg
      /\ faults' * M = faults * M + df /\ guesses' * M = guesses * M + dg
      /\ (faults + guesses) * M = faults * M + guesses * M
      /\ (faults' + guesses') * M = faults * M + df + guesses * M + dg
      /\ (Size + faults + guesses) * M = Size * M + faults * M + guesses * M
      /\ (Size + faults' + guesses') * M =
           Size * M + faults * M + df + guesses * M + dg
      /\ Size * M \in Nat /\ faults * M \in Nat /\ guesses * M \in Nat
  <2>0. Size \in Nat
    BY Numbers
  <2>1. /\ f \in Nat /\ g \in Nat /\ M \in Nat /\ Size \in Nat
        /\ faults' \in Nat /\ guesses' \in Nat /\ Size + faults' \in Nat
    BY <1>1, <2>0
  <2>2. /\ df \in Nat /\ dg \in Nat /\ (f + g) * M = df + dg
        /\ faults' * M = faults * M + df /\ guesses' * M = guesses * M + dg
    BY <1>1, <2>1, Times
  <2>3. (faults' + guesses') * M = faults' * M + guesses' * M
    BY <2>1, Times
  <2>4. (Size + faults') * M = Size * M + faults' * M
    BY <2>1, Times
  <2>5. (Size + faults' + guesses') * M = (Size + faults') * M + guesses' * M
    BY <2>1, Times
  <2>6. /\ (faults + guesses) * M = faults * M + guesses * M
        /\ (Size + faults + guesses) * M = Size * M + faults * M + guesses * M
        /\ Size * M \in Nat /\ faults * M \in Nat /\ guesses * M \in Nat
    BY Numbers
  <2>7. (faults' + guesses') * M = (faults * M + df) + (guesses * M + dg)
    BY <2>2, <2>3
  <2>8. (Size + faults' + guesses') * M =
          (Size * M + (faults * M + df)) + (guesses * M + dg)
    BY <2>2, <2>4, <2>5
  <2> HIDE DEF df, dg, M
  <2> QED
    BY <2>2, <2>6, <2>7, <2>8
<1>3. /\ rec + cc <= pay + c + dg
      /\ pay + c <= rec + cc + (df + dg)
  BY <1>2
<1>4. /\ paid' \in [Months -> Nat] /\ ledger' \in [Months -> Nat]
      /\ paid'[month] = paid[month] + pay
      /\ ledger'[month] = ledger[month] + rec
      /\ \A m \in Months : m # month => paid'[m] = paid[m]
      /\ paid[month] \in Nat /\ ledger[month] \in Nat
  BY <1>1
<1>5. /\ IsFiniteSet(Units(paid')) /\ Total(paid') = Total(paid) + pay
      /\ Total(paid) \in Nat
  <2>1. paid[month] + pay \in Nat /\ paid' = [paid EXCEPT ![month] = paid[month] + pay]
    BY <1>4
  <2>2. IsFiniteSet(Units(paid))
    BY DEF SpendInv
  <2>3. LET h == [paid EXCEPT ![month] = paid[month] + pay] IN
        /\ IsFiniteSet(Units(h)) /\ Total(paid) \in Nat
        /\ Total(h) = Total(paid) - paid[month] + (paid[month] + pay)
    <3>1. paid \in [Months -> Nat] /\ month \in Months
          /\ paid[month] + pay \in Nat
      BY <1>1, <2>1
    <3> QED
      BY <2>2, <3>1, TotalUpdate
  <2> QED
    BY <1>4, <2>1, <2>3
<1>6. /\ IsFiniteSet(Units(ledger')) /\ Total(ledger') = Total(ledger) + rec
      /\ Total(ledger) \in Nat
  <2>1. ledger[month] + rec \in Nat /\ ledger' = [ledger EXCEPT ![month] = ledger[month] + rec]
    BY <1>4
  <2>2. IsFiniteSet(Units(ledger))
    BY DEF SpendInv
  <2>3. LET h == [ledger EXCEPT ![month] = ledger[month] + rec] IN
        /\ IsFiniteSet(Units(h)) /\ Total(ledger) \in Nat
        /\ Total(h) = Total(ledger) - ledger[month] + (ledger[month] + rec)
    <3>1. ledger \in [Months -> Nat] /\ month \in Months
          /\ ledger[month] + rec \in Nat
      BY <1>1, <2>1
    <3> QED
      BY <2>2, <3>1, TotalUpdate
  <2> QED
    BY <1>4, <2>1, <2>3
<1>8. /\ Total(ledger) + InFlight <= Total(paid) + guesses * M
      /\ Total(paid) <= Total(ledger) + InFlight + (faults * M + guesses * M)
      /\ paid[month] <= ledger[month] + InFlight + (faults * M + guesses * M)
      /\ paid[month] + Total(Dues) <= UserCap + (Size * M + faults * M + guesses * M)
  BY <1>2 DEF SpendInv, LedgerAccountsForSpend, Ceiling
<1>9. Ceiling' = UserCap + (Size * M + faults * M + df + guesses * M + dg)
  BY <1>2 DEF Ceiling, Size
<1> HIDE DEF c, cc, df, dg
<1>10. LedgerAccountsForSpend'
  <2>1. Total(ledger') + InFlight' <= Total(paid') + (guesses * M + dg)
    BY <1>1, <1>2, <1>3, <1>5, <1>6, <1>8
  <2>2. Total(paid') <= Total(ledger') + InFlight'
                          + (faults * M + df + guesses * M + dg)
    BY <1>1, <1>2, <1>3, <1>5, <1>6, <1>8
  <2> QED
    BY <1>2, <2>1, <2>2 DEF LedgerAccountsForSpend
<1>11. paid'[month] <= ledger'[month] + InFlight' + (faults' + guesses') * M
  BY <1>1, <1>2, <1>3, <1>4, <1>8
<1>12. paid'[month] + Total(Dues)' <= Ceiling'
  <2>1. ASSUME pay + Due(w)' <= Due(w)
        PROVE  paid'[month] + Total(Dues)' <= Ceiling'
    BY <1>1, <1>2, <1>4, <1>8, <1>9, <2>1
  <2> QED
    BY <2>1
<1>13. OverspendIsBounded'
  <2> SUFFICES ASSUME NEW m \in Months PROVE paid'[m] <= Ceiling'
    BY DEF OverspendIsBounded, Ceiling, Size
  <2>1. CASE m = month
    BY <1>1, <1>2, <1>4, <1>9, <1>12, <2>1
  <2>2. CASE m # month
    <3>1. paid[m] <= Ceiling /\ paid[m] \in Nat
      BY <1>1 DEF SpendInv, OverspendIsBounded, Ceiling, Size
    <3>2. Ceiling = UserCap + (Size * M + faults * M + guesses * M)
      BY <1>2 DEF Ceiling
    <3> QED
      BY <1>1, <1>2, <1>4, <1>9, <2>2, <3>1, <3>2
  <2> QED
    BY <2>1, <2>2
<1>14. \A m \in Months : m > month' => paid'[m] = 0
  BY <1>1, <1>4 DEF SpendInv
<1>15. \A v \in Workers : ~At(v, "record")' => at'[v].booked = 0
  BY DEF SpendInv, At
<1> QED
  BY <1>5, <1>6, <1>10, <1>11, <1>12, <1>13, <1>14, <1>15 DEF SpendInv

LEMMA OtherRows ==
  ASSUME RunInv, NEW w \in Workers, NEW r, at' = [at EXCEPT ![w] = r]
  PROVE  at'[w] = r /\ \A v \in Workers \ {w} : at'[v] = at[v]
  BY DEF RunInv, TypeOK

\* A step that pays and records nothing.
LEMMA SpendQuiet ==
  ASSUME RunInv, RunInv', SpendInv, NEW w \in Workers, NEW r,
         at' = [at EXCEPT ![w] = r], r.pc # "record", r.booked = 0,
         UNCHANGED <<month, paid, ledger, guesses>>,
         \/ faults' = faults /\ at[w].pc # "record"
         \/ faults' = faults + 1,
         \/ r.pc # "invoke"
         \/ paid[month] + Total(Dues)' <= Ceiling'
  PROVE  SpendInv'
<1>1. /\ at[w].booked \in Nat /\ at[w].booked <= MaxCost /\ MaxCost \in Nat
      /\ Due(w) \in Nat /\ faults \in Nat /\ guesses \in Nat
      /\ month \in Months /\ ledger \in [Months -> Nat] /\ paid \in [Months -> Nat]
  BY SumsFinite, Numbers
<1>2. at'[w] = r /\ \A v \in Workers \ {w} : at'[v] = at[v]
  BY OtherRows
<1>3. PICK f \in {0, 1} : faults' = faults + f /\ at[w].booked <= f * MaxCost
  <2>1. CASE faults' = faults /\ at[w].pc # "record"
    <3>1. at[w].booked = 0 /\ faults' = faults + 0
      BY <1>1, <2>1 DEF SpendInv, At
    <3> WITNESS 0 \in {0, 1}
    <3> QED
      BY <1>1, <3>1
  <2>2. CASE faults' = faults + 1
    <3> WITNESS 1 \in {0, 1}
    <3> QED
      BY <1>1, <2>2
  <2> QED
    BY <2>1, <2>2
<1>4. /\ paid' = [paid EXCEPT ![month] = @ + 0]
      /\ ledger' = [ledger EXCEPT ![month] = @ + 0]
      /\ paid'[month] = paid[month] /\ guesses' = guesses + 0
  <2>1. paid[month] + 0 = paid[month] /\ ledger[month] + 0 = ledger[month]
    BY <1>1
  <2> QED
    BY <1>1, <2>1
<1>5. /\ 0 + at'[w].booked <= 0 + at[w].booked + 0 * MaxCost
      /\ 0 + at[w].booked <= 0 + at'[w].booked + (f + 0) * MaxCost
  BY <1>1, <1>2, <1>3
<1>6. \/ 0 + Due(w)' <= Due(w)
      \/ paid'[month] + Total(Dues)' <= Ceiling'
  BY <1>1, <1>2, <1>4 DEF Due, At
<1>7. ~At(w, "record")' => at'[w].booked = 0
  BY <1>2
<1>8. month' = month /\ 0 \in Nat /\ 0 \in {0, 1}
  OBVIOUS
<1> QED
  BY <1>2, <1>3, <1>4, <1>5, <1>6, <1>7, <1>8, SpendStep

\* All steps but the turns' own.
LEMMA SpendElsewhere ==
  ASSUME RunInv, RunInv', SpendInv, NEW w \in Workers,
         \/ \E t \in Tasks : Load(w, t)
         \/ Claim(w) \/ EnterResume(w) \/ AuditHalt(w) \/ FailTask(w) \/ FailSkipped(w)
         \/ ReachGate(w) \/ Recheck(w) \/ ReadRow(w) \/ SaveRow(w) \/ Park(w)
         \/ Complete(w) \/ Fault(w)
  PROVE  SpendInv'
<1>0. /\ at[w] \in Delivery /\ faults \in Nat
      /\ at[w].pc # "record" => at[w].booked = 0
  BY WorkerAt DEF SpendInv, At
<1>1. UNCHANGED <<month, paid, ledger, guesses>>
  BY DEF Load, Claim, EnterResume, AuditHalt, FailTask, FailSkipped, ReachGate, Recheck,
         ReadRow, SaveRow, Park, Complete, Fault, budget
<1>2. \/ faults' = faults /\ at[w].pc # "record"
      \/ faults' = faults + 1
  BY DEF Load, Claim, EnterResume, AuditHalt, FailTask, FailSkipped, ReachGate, Recheck,
         ReadRow, SaveRow, Park, Complete, Fault, At
<1>3. \E r : /\ at' = [at EXCEPT ![w] = r]
             /\ r.pc \notin {"invoke", "record"} /\ r.booked = 0
  <2>1. ASSUME NEW t \in Tasks, Load(w, t)
        PROVE  \E r : /\ at' = [at EXCEPT ![w] = r]
                      /\ r.pc \notin {"invoke", "record"} /\ r.booked = 0
    <3> DEFINE step == CASE IsTerminal(state[t]) -> "idle"
                         [] state[t] = "approved" -> "resume"
                         [] OTHER -> "claim"
               r == [Delivered(t) EXCEPT !.pc = step]
    <3>1. at' = [at EXCEPT ![w] = r]
      BY <2>1 DEF Load, Go
    <3>2. step \notin {"invoke", "record"}
      OBVIOUS
    <3> HIDE DEF step
    <3>3. r.pc = step /\ r.booked = 0
      BY DEF Delivered
    <3> QED
      BY <3>1, <3>2, <3>3
  <2>2. CASE at' = [at EXCEPT ![w] = Delivered(Task(w))]
    <3>1. Delivered(Task(w)).pc = "idle" /\ Delivered(Task(w)).booked = 0
      BY DEF Delivered
    <3> QED
      BY <2>2, <3>1
  <2>3. ASSUME at[w].pc # "record", at' # [at EXCEPT ![w] = Delivered(Task(w))],
               ~\E t \in Tasks : Load(w, t)
        PROVE  \E r : /\ at' = [at EXCEPT ![w] = r]
                      /\ r.pc \notin {"invoke", "record"} /\ r.booked = 0
    <3>1. CASE Claim(w) \/ EnterResume(w)
      <4>1. ASSUME NEW kind, NEW turn, Enter(w, kind, turn)
            PROVE  \E r : /\ at' = [at EXCEPT ![w] = r]
                          /\ r.pc \notin {"invoke", "record"} /\ r.booked = 0
        <5> DEFINE n == entered[Task(w)][kind] + 1
                   r == [at[w] EXCEPT !.pc = "check", !.kind = kind, !.turn = turn,
                                      !.run = n]
        <5>1. at' = [at EXCEPT ![w] = r]
          BY <4>1 DEF Enter, Go
        <5> HIDE DEF n
        <5>2. r.pc = "check" /\ r.booked = 0
          BY <1>0, <2>3 DEF Delivery
        <5> HIDE DEF r
        <5> QED
          BY <5>1, <5>2
      <4>2. ASSUME Go(w, [at[w] EXCEPT !.pc = "recheck"])
            PROVE  \E r : /\ at' = [at EXCEPT ![w] = r]
                          /\ r.pc \notin {"invoke", "record"} /\ r.booked = 0
        <5> DEFINE r == [at[w] EXCEPT !.pc = "recheck"]
        <5>1. at' = [at EXCEPT ![w] = r]
          BY <4>2 DEF Go
        <5>2. r.pc = "recheck" /\ r.booked = 0
          BY <1>0, <2>3 DEF Delivery
        <5> HIDE DEF r
        <5> QED
          BY <5>1, <5>2
      <4>3. \/ Go(w, [at[w] EXCEPT !.pc = "recheck"])
            \/ \E kind, turn : Enter(w, kind, turn)
        <5>1. CASE Claim(w)
          <6>1. ~End(w)
            BY <2>3 DEF End, Go
          <6>2. Enter(w, "fresh", 1)
            BY <5>1, <6>1 DEF Claim
          <6> QED
            BY <6>2
        <5>2. CASE EnterResume(w) /\ thread[Task(w)] \in Turns
          <6>1. Enter(w, "stray", thread[Task(w)])
            BY <5>2 DEF EnterResume
          <6> QED
            BY <6>1
        <5>3. CASE EnterResume(w) /\ thread[Task(w)] \notin Turns
          BY <5>3 DEF EnterResume
        <5> QED
          BY <3>1, <5>1, <5>2, <5>3
      <4> QED
        BY <4>1, <4>2, <4>3
    <3>2. CASE AuditHalt(w) \/ FailTask(w) \/ FailSkipped(w) \/ Recheck(w) \/ SaveRow(w)
      <4>1. PICK step \in {"fail", "recheck", "read", "complete", "park"} :
              at' = [at EXCEPT ![w] = [at[w] EXCEPT !.pc = step]]
        BY <2>3, <3>2 DEF AuditHalt, FailTask, FailSkipped, Recheck, SaveRow, End, Go
      <4> DEFINE r == [at[w] EXCEPT !.pc = step]
      <4>2. r.pc = step /\ r.booked = 0
        BY <1>0, <2>3 DEF Delivery
      <4>3. at' = [at EXCEPT ![w] = r]
        BY <4>1
      <4> HIDE DEF r
      <4> QED
        BY <4>2, <4>3
    <3>3. CASE ReachGate(w)
      <4> DEFINE r == [at[w] EXCEPT !.pc = "recheck", !.proposes = Pauses(w)]
      <4>1. at' = [at EXCEPT ![w] = r] /\ r.pc = "recheck" /\ r.booked = 0
        BY <1>0, <2>3, <3>3 DEF ReachGate, Go, Delivery
      <4> HIDE DEF r
      <4> QED
        BY <4>1
    <3>4. CASE ReadRow(w)
      <4> DEFINE r == [at[w] EXCEPT !.pc = "save", !.seen = state[Task(w)]]
      <4>1. at' = [at EXCEPT ![w] = r] /\ r.pc = "save" /\ r.booked = 0
        BY <1>0, <2>3, <3>4 DEF ReadRow, Go, Delivery
      <4> HIDE DEF r
      <4> QED
        BY <4>1
    <3>5. CASE Park(w) \/ Complete(w) \/ Fault(w)
      BY <2>3, <3>5 DEF Park, Complete, Fault, End, Go
    <3> QED
      BY <2>3, <3>1, <3>2, <3>3, <3>4, <3>5
  <2>4. CASE at[w].pc = "record"
    <3>1. ASSUME ~\E t \in Tasks : Load(w, t) PROVE Fault(w)
      BY <2>4, <3>1 DEF Claim, EnterResume, AuditHalt, FailTask, FailSkipped, ReachGate,
                        Recheck, ReadRow, SaveRow, Park, Complete, At
    <3> QED
      BY <2>1, <2>2, <3>1 DEF Fault, End, Go
  <2> QED
    BY <2>1, <2>2, <2>3, <2>4
<1>4. PICK r : /\ at' = [at EXCEPT ![w] = r]
               /\ r.pc \notin {"invoke", "record"} /\ r.booked = 0
  BY <1>3
<1> QED
  BY <1>1, <1>2, <1>4, SpendQuiet

\* The provider is paid: what is due becomes what is in flight, or lost.
LEMMA SpendInvoke ==
  ASSUME RunInv, RunInv', SpendInv, NEW w \in Workers,
         Invoke(w) \/ InvokeFault(w)
  PROVE  SpendInv'
<1>0. /\ at[w] \in Delivery /\ at[w].pc = "invoke" /\ at[w].turn \in Turns
      /\ at[w].booked = 0 /\ Due(w) = MaxCost
      /\ MaxCost \in Nat /\ faults \in Nat /\ guesses \in Nat
      /\ month \in Months /\ ledger \in [Months -> Nat]
  BY WorkerAt, Numbers DEF Invoke, InvokeFault, At, Due, SpendInv, Turning
<1>1. /\ month' = month /\ ledger' = ledger
      /\ ledger' = [ledger EXCEPT ![month] = @ + 0]
  <2>1. month' = month /\ ledger' = ledger
    BY DEF Invoke, InvokeFault
  <2>2. ledger[month] + 0 = ledger[month]
    BY <1>0
  <2> QED
    BY <1>0, <2>1, <2>2
<1>2. ASSUME NEW price \in Prices
      PROVE  price \in Nat /\ price <= MaxCost
  BY <1>0, ConstantsAssumption
<1>3. CASE Invoke(w)
  <2>1. PICK price \in Prices, booked \in Prices \cup {Estimate[at[w].turn]} :
          /\ Bill(w, price)
          /\ IF booked = price THEN UNCHANGED guesses
             ELSE guesses < MaxGuesses /\ guesses' = guesses + 1
          /\ at' = [at EXCEPT ![w] = [at[w] EXCEPT !.pc = "record", !.booked = booked]]
    BY <1>3 DEF Invoke, Go
  <2>2. booked \in Nat /\ booked <= MaxCost
    <3>1. Estimate[at[w].turn] \in 0..MaxCost
      BY <1>0, ConstantsAssumption
    <3> QED
      BY <1>0, <1>2, <3>1
  <2>3. PICK g \in {0, 1} :
          /\ guesses' = guesses + g
          /\ 0 + booked <= price + 0 + g * MaxCost
          /\ price + 0 <= 0 + booked + (0 + g) * MaxCost
    <3>1. CASE booked = price
      <4>1. guesses' = guesses + 0
        BY <1>0, <2>1, <3>1
      <4> WITNESS 0 \in {0, 1}
      <4> QED
        BY <1>0, <1>2, <3>1, <4>1
    <3>2. CASE booked # price
      <4>1. guesses' = guesses + 1
        BY <2>1, <3>2
      <4> WITNESS 1 \in {0, 1}
      <4> QED
        BY <1>0, <1>2, <2>2, <4>1
    <3> QED
      BY <3>1, <3>2
  <2> DEFINE r == [at[w] EXCEPT !.pc = "record", !.booked = booked]
  <2>4. at' = [at EXCEPT ![w] = r] /\ r.pc = "record" /\ r.booked = booked
    BY <1>0, <2>1 DEF Delivery
  <2> HIDE DEF r
  <2>5. at'[w] = r /\ \A v \in Workers \ {w} : at'[v] = at[v]
    BY <2>4, OtherRows
  <2>6. price + Due(w)' <= Due(w)
    BY <1>0, <1>2, <2>4, <2>5 DEF Due, At
  <2>7. /\ paid' = [paid EXCEPT ![month] = @ + price] /\ faults' = faults + 0
        /\ At(w, "record")'
    <3>1. paid' = [paid EXCEPT ![month] = @ + price]
      BY <2>1 DEF Bill
    <3>2. faults' = faults
      BY <1>3 DEF Invoke
    <3> QED
      BY <1>0, <2>4, <2>5, <3>1, <3>2 DEF At
  <2>8. /\ 0 + at'[w].booked <= price + at[w].booked + g * MaxCost
        /\ price + at[w].booked <= 0 + at'[w].booked + (0 + g) * MaxCost
    BY <1>0, <2>3, <2>4, <2>5
  <2>9. price \in Nat /\ 0 \in Nat /\ 0 \in {0, 1} /\ guesses' = guesses + g
    BY <1>2, <2>3
  <2> QED
    BY <1>1, <2>5, <2>6, <2>7, <2>8, <2>9, SpendStep
<1>4. CASE InvokeFault(w)
  <2>1. PICK price \in Prices : Bill(w, price)
    BY <1>4 DEF InvokeFault
  <2> DEFINE r == Delivered(Task(w))
  <2>2. at' = [at EXCEPT ![w] = r] /\ r.pc = "idle" /\ r.booked = 0
    BY <1>4 DEF InvokeFault, End, Go, Delivered
  <2> HIDE DEF r
  <2>3. at'[w] = r /\ \A v \in Workers \ {w} : at'[v] = at[v]
    BY <2>2, OtherRows
  <2>4. price + Due(w)' <= Due(w)
    BY <1>0, <1>2, <2>2, <2>3 DEF Due, At
  <2>5. /\ paid' = [paid EXCEPT ![month] = @ + price] /\ faults' = faults + 1
        /\ guesses' = guesses + 0
    <3>1. paid' = [paid EXCEPT ![month] = @ + price]
      BY <2>1 DEF Bill
    <3>2. faults' = faults + 1 /\ guesses' = guesses
      BY <1>4 DEF InvokeFault
    <3> QED
      BY <1>0, <3>1, <3>2
  <2>6. /\ 0 + at'[w].booked <= price + at[w].booked + 0 * MaxCost
        /\ price + at[w].booked <= 0 + at'[w].booked + (1 + 0) * MaxCost
        /\ ~At(w, "record")' => at'[w].booked = 0
    BY <1>0, <1>2, <2>2, <2>3
  <2>7. price \in Nat /\ 0 \in Nat /\ 0 \in {0, 1} /\ 1 \in {0, 1}
    BY <1>2
  <2> QED
    BY <1>1, <2>3, <2>4, <2>5, <2>6, <2>7, SpendStep
<1> QED
  BY <1>3, <1>4

LEMMA SpendRecord ==
  ASSUME RunInv, RunInv', SpendInv, NEW w \in Workers, Record(w)
  PROVE  SpendInv'
<1> DEFINE step == IF at[w].turn = Len(Roles) THEN "gate" ELSE "check"
           turn == at[w].turn + 1
           r == [at[w] EXCEPT !.pc = step, !.turn = turn, !.booked = 0]
<1>0. /\ at[w] \in Delivery /\ faults \in Nat /\ guesses \in Nat /\ MaxCost \in Nat
      /\ at[w].booked \in Nat /\ Due(w) \in Nat
      /\ month \in Months /\ paid \in [Months -> Nat]
  BY WorkerAt, Numbers, SumsFinite
<1>1. /\ at' = [at EXCEPT ![w] = r]
      /\ ledger' = [ledger EXCEPT ![month] = @ + at[w].booked]
      /\ UNCHANGED <<month, paid, faults, guesses>>
  BY DEF Record, NextNode, Go
<1>2. step \notin {"invoke", "record"}
  OBVIOUS
<1> HIDE DEF step, turn
<1>3. r.pc = step /\ r.booked = 0
  BY <1>0 DEF Delivery
<1> HIDE DEF r
<1>4. at'[w] = r /\ \A v \in Workers \ {w} : at'[v] = at[v]
  BY <1>1, OtherRows
<1>5. Due(w)' = 0
  BY <1>2, <1>3, <1>4 DEF Due, At
<1>6. PICK rec \in Nat : rec = at[w].booked
  BY <1>0
<1>7. /\ paid' = [paid EXCEPT ![month] = @ + 0]
      /\ faults' = faults + 0 /\ guesses' = guesses + 0
  <2>1. paid[month] + 0 = paid[month]
    BY <1>0
  <2> QED
    BY <1>0, <1>1, <2>1
<1>8. /\ rec + at'[w].booked <= 0 + at[w].booked + 0 * MaxCost
      /\ 0 + at[w].booked <= rec + at'[w].booked + (0 + 0) * MaxCost
      /\ 0 + Due(w)' <= Due(w)
      /\ ~At(w, "record")' => at'[w].booked = 0
  BY <1>0, <1>3, <1>4, <1>5, <1>6
<1>9. /\ ledger' = [ledger EXCEPT ![month] = @ + rec] /\ month' = month
      /\ 0 \in Nat /\ 0 \in {0, 1}
  BY <1>1, <1>6
<1> QED
  BY <1>4, <1>7, <1>8, <1>9, SpendStep

\* A worker has a turn in flight, or one due, but not both.
LEMMA OneTurnEach ==
  ASSUME RunInv, NEW g \in [Workers -> Nat],
         \A w \in Workers : g[w] <= MaxCost /\ (at[w].booked = 0 \/ g[w] = 0)
  PROVE  InFlight + Total(g) <= Size * MaxCost
<1>1. \A w \in Workers :
        /\ Costs[w] <= MaxCost /\ (Costs[w] # 0 => w \in Workers)
        /\ g[w] <= MaxCost /\ (g[w] # 0 => w \in Workers)
        /\ Costs[w] = 0 \/ g[w] = 0
  <2>1. \A w \in Workers : Costs[w] = at[w].booked /\ Costs[w] <= MaxCost
    BY SumsFinite
  <2> QED
    BY <2>1
<1>2. Total(Costs) + Total(g) <= Cardinality(Workers) * MaxCost
  BY <1>1, SumsFinite, Numbers, TotalOfTwo
<1> QED
  BY <1>2, SumsFinite DEF Size

\* A check reads the ledger: what it lacks is in flight, was lost or was booked
\* too low, and what it cannot know is due.
LEMMA SpendCheck ==
  ASSUME RunInv, RunInv', SpendInv, NEW w \in Workers, CheckBudget(w)
  PROVE  SpendInv'
<1> DEFINE e == Estimate[at[w].turn]
           step == IF WithinBudget(e) THEN "invoke" ELSE "halt"
           r == [at[w] EXCEPT !.pc = step]
<1>0. /\ at[w] \in Delivery /\ at[w].pc = "check" /\ at[w].turn \in Turns
      /\ at[w].booked = 0 /\ Due(w) = 0
  BY WorkerAt DEF CheckBudget, At, Turning, SpendInv, Due
<1>1. /\ at' = [at EXCEPT ![w] = r]
      /\ UNCHANGED <<month, paid, ledger, faults, guesses>>
  BY DEF CheckBudget, Go, budget
<1>2. step \in {"invoke", "halt"} /\ (step = "invoke" => WithinBudget(e))
  OBVIOUS
<1> HIDE DEF step
<1>3. r.pc = step /\ r.booked = 0
  BY <1>0 DEF Delivery
<1> HIDE DEF r
<1>4. at'[w] = r /\ \A v \in Workers \ {w} : at'[v] = at[v]
  BY <1>1, OtherRows
<1>5. ASSUME step = "invoke" PROVE paid[month] + Total(Dues)' <= Ceiling'
  <2>1. Due(w)' = MaxCost
    BY <1>3, <1>4, <1>5 DEF Due, At
  <2>2. /\ MaxCost \in Nat /\ Total(Dues)' = Total(Dues) - Due(w) + Due(w)'
        /\ Total(Dues) \in Nat /\ InFlight \in Nat
    BY Numbers, SumsStep, <1>4, SumsFinite
  <2> DEFINE g == [Dues EXCEPT ![w] = MaxCost]
  <2>3. Total(g) = Total(Dues)'
    <3>0. Dues \in [Workers -> Nat] /\ IsFiniteSet(Units(Dues))
      BY SumsFinite
    <3>1. LET h == [Dues EXCEPT ![w] = MaxCost] IN
          Total(h) = Total(Dues) - Dues[w] + MaxCost
      <4>1. MaxCost \in Nat
        BY <2>2
      <4> QED
        BY <3>0, <4>1, TotalUpdate
    <3>2. Dues[w] = Due(w)
      BY DEF Dues
    <3> QED
      BY <2>1, <2>2, <3>1, <3>2
  <2>4. InFlight + Total(g) <= Size * MaxCost
    <3>1. \A v \in Workers : Dues[v] = Due(v) /\ Dues[v] <= MaxCost
      BY SumsFinite
    <3>2. \A v \in Workers : at[v].booked = 0 \/ Due(v) = 0
      BY DEF SpendInv, Due, At
    <3>3. g \in [Workers -> Nat]
      BY <2>2, SumsFinite
    <3>4. \A v \in Workers : g[v] <= MaxCost /\ (at[v].booked = 0 \/ g[v] = 0)
      BY <1>0, <2>2, <3>1, <3>2, SumsFinite
    <3> HIDE DEF g
    <3> QED
      BY <3>3, <3>4, OneTurnEach
  <2>5. ledger[month] <= UserCap /\ ledger[month] \in Nat /\ paid[month] \in Nat
    <3>1. e \in 0..MaxCost
      BY <1>0, ConstantsAssumption
    <3>2. e + ledger[month] <= UserCap
      BY <1>2, <1>5 DEF WithinBudget, MonthToDate
    <3>3. ledger[month] \in Nat /\ paid[month] \in Nat /\ UserCap \in Nat
      BY Numbers
    <3> HIDE DEF e
    <3> QED
      BY <2>2, <3>1, <3>2, <3>3
  <2>6. paid[month] <= ledger[month] + InFlight + (faults * MaxCost + guesses * MaxCost)
    BY Numbers DEF SpendInv
  <2>7. /\ Ceiling' = UserCap + (Size * MaxCost + faults * MaxCost + guesses * MaxCost)
        /\ UserCap \in Nat /\ faults * MaxCost \in Nat /\ guesses * MaxCost \in Nat
        /\ Size * MaxCost \in Nat
    BY <1>1, Numbers DEF Ceiling, Size
  <2>8. Total(Dues)' \in Nat
    BY <1>4, SumsStep
  <2> HIDE DEF g
  <2> QED
    BY <2>2, <2>3, <2>4, <2>5, <2>6, <2>7, <2>8
<1>6. /\ faults' = faults /\ at[w].pc # "record" /\ r.pc # "record"
      /\ UNCHANGED <<month, paid, ledger, guesses>>
  BY <1>0, <1>1, <1>2, <1>3
<1>7. \/ r.pc # "invoke"
      \/ paid[month] + Total(Dues)' <= Ceiling'
  BY <1>3, <1>5
<1> QED
  BY <1>1, <1>3, <1>6, <1>7, SpendQuiet

\* In the new month nothing is paid; what is due was checked in the old one.
LEMMA SpendMonth ==
  ASSUME RunInv, SpendInv, MonthEnds
  PROVE  SpendInv'
<1>0. /\ month \in Months /\ \A m \in Months : m \in Nat
      /\ ledger \in [Months -> Nat] /\ paid \in [Months -> Nat]
      /\ MaxCost \in Nat /\ UserCap \in Nat /\ MaxMonths \in Nat
      /\ InFlight \in Nat /\ Total(Dues) \in Nat
  BY Numbers, SumsFinite, ConstantsAssumption
<1>1. /\ month' = month + 1 /\ month' \in Months
      /\ UNCHANGED <<at, ledger, paid, faults, guesses>>
  BY <1>0 DEF MonthEnds, Months
<1>2. InFlight' = InFlight /\ Dues' = Dues /\ Ceiling' = Ceiling
  BY <1>1 DEF InFlight, Dues, Due, Ceiling, Size, At
<1>3. paid[month'] = 0
  BY <1>0, <1>1 DEF SpendInv
<1>4. InFlight + Total(Dues) <= Size * MaxCost
  <2>1. \A w \in Workers : Dues[w] = Due(w) /\ Dues[w] <= MaxCost
    BY SumsFinite
  <2>2. \A w \in Workers : at[w].booked = 0 \/ Due(w) = 0
    BY DEF SpendInv, Due, At
  <2> QED
    BY <2>1, <2>2, SumsFinite, OneTurnEach
<1>5. /\ Ceiling = UserCap + (Size * MaxCost + faults * MaxCost + guesses * MaxCost)
      /\ Size * MaxCost \in Nat /\ faults * MaxCost \in Nat /\ guesses * MaxCost \in Nat
      /\ (faults + guesses) * MaxCost = faults * MaxCost + guesses * MaxCost
  BY Numbers DEF Ceiling
<1>6. paid'[month'] + Total(Dues)' <= Ceiling'
  BY <1>0, <1>1, <1>2, <1>3, <1>4, <1>5
<1>7. paid'[month'] <= ledger'[month'] + InFlight' + (faults' + guesses') * MaxCost
  <2>1. ledger[month'] \in Nat
    BY <1>0, <1>1
  <2> QED
    BY <1>0, <1>1, <1>2, <1>3, <1>5, <2>1
<1>8. LedgerAccountsForSpend' /\ OverspendIsBounded'
  BY <1>1, <1>2 DEF SpendInv, LedgerAccountsForSpend, OverspendIsBounded
<1>9. /\ \A m \in Months : m > month' => paid'[m] = 0
      /\ \A w \in Workers : ~At(w, "record")' => at'[w].booked = 0
  BY <1>0, <1>1 DEF SpendInv, At
<1> QED
  BY <1>1, <1>6, <1>7, <1>8, <1>9 DEF SpendInv

\* A decision is nothing to the books.
LEMMA SpendIdle ==
  ASSUME SpendInv, UNCHANGED <<at, month, ledger, paid, faults, guesses>>
  PROVE  SpendInv'
<1>1. InFlight' = InFlight /\ Dues' = Dues /\ Ceiling' = Ceiling
  BY DEF InFlight, Dues, Due, Ceiling, Size, At
<1>2. LedgerAccountsForSpend' /\ OverspendIsBounded'
  BY <1>1 DEF SpendInv, LedgerAccountsForSpend, OverspendIsBounded
<1> QED
  BY <1>1, <1>2 DEF SpendInv, At

LEMMA SpendNext == RunInv /\ SpendInv /\ [Next]_vars => SpendInv'
<1> SUFFICES ASSUME RunInv, SpendInv, [Next]_vars PROVE SpendInv'
  OBVIOUS
<1>0. RunInv'
  BY RunNext
<1>1. ASSUME NEW w \in Workers, Step(w) \/ \E t \in Tasks : Load(w, t)
      PROVE  SpendInv'
  BY <1>0, <1>1, SpendElsewhere, SpendInvoke, SpendRecord, SpendCheck DEF Step
<1>2. ASSUME NEW t \in Tasks, Decide(t) PROVE SpendInv'
  BY <1>2, SpendIdle DEF Decide, budget
<1>3. CASE UNCHANGED vars
  BY <1>3, SpendIdle DEF vars, budget
<1> QED
  BY <1>1, <1>2, <1>3, SpendMonth DEF Next

\* The books balance at every moment, whoever is between check and record.
THEOREM SpendInvariance == Spec => []SpendInv
<1> QED
  BY RunInit, RunNext, SpendInit, SpendNext, PTL DEF Spec

\* The monthly cap is exceeded by at most one turn per worker, per fault and per
\* misjudged price, for any estimates, prices, deliveries and months.
THEOREM CapHoldsUpToConcurrency == Spec => []OverspendIsBounded
<1>1. SpendInv => OverspendIsBounded
  BY DEF SpendInv
<1> QED
  BY <1>1, SpendInvariance, PTL

\* The ledger and the turns in flight account for all that was paid, but for
\* what faults lost and estimates misjudged.
THEOREM LedgerIsComplete == Spec => []LedgerAccountsForSpend
<1>1. SpendInv => LedgerAccountsForSpend
  BY DEF SpendInv
<1> QED
  BY <1>1, SpendInvariance, PTL
=============================================================================
