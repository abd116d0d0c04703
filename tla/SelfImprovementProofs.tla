----------------------- MODULE SelfImprovementProofs -----------------------
(***************************************************************************)
(* Theorems about SelfImprovement, for any number of proposals, callers,   *)
(* versions and calls.  IInv is inductive: the invariants of the runs say  *)
(* what the tables hold, ActorInv what every call in flight remembers of   *)
(* them while others write, and both follow only together.                 *)
(***************************************************************************)
EXTENDS SelfImprovement, FiniteSetTheorems, SequenceTheorems, TLAPS

\* What a call in flight knows, at each of its steps, of the tables it read
\* before.  Other calls have run since, so all of it has to be stable.
ActorInv(a) ==
    LET r == actors[a] IN
    /\ r.pc # "idle" => /\ r.proposal \in Proposals
                        /\ proposals[r.proposal].status # "absent"
    /\ r.record # 0 => /\ r.record \in DOMAIN records
                       /\ records[r.record].hash.proposal = r.proposal
    /\ r.pc \in {"link_record", "record_decision", "set_decided",
                 "check_approval", "snapshot_bom", "upsert_promotion"} =>
         r.record # 0
    /\ r.pc = "set_evaluated" => r.verdict \in Outcome
    /\ r.pc = "set_decided" =>
         \/ r.verdict = "rejected"
         \/ r.verdict = "approved" /\ r.record \in granted
    /\ r.pc \in PromoteSteps => r.version \in Versions
    /\ r.pc \in {"check_approval", "snapshot_bom", "upsert_promotion"} =>
         Passed(r.proposal)
    /\ r.pc \in {"snapshot_bom", "upsert_promotion"} => r.record \in granted
    /\ r.pc = "upsert_promotion" /\ r.bom # None =>
         r.bom = r.version /\ r.bom \in boms
    /\ r.pc \in {"set_active", "mark_rolled_back", "restore"} =>
         r.promotion \in DOMAIN promotions
    /\ r.promotion \in {0} \cup DOMAIN promotions
    /\ r.pc = "set_active" => promotions[r.promotion].version = r.version
    /\ r.pc \in {"mark_rolled_back", "restore"} =>
         promotions[r.promotion].previous = r.previous
    /\ r.pc = "restore" => r.previous \in Versions

\* An approval record is bound to a stored proposal and its patch, and is
\* linked by that proposal only; an approved record was granted.
RecordInv ==
    /\ \A p \in Proposals :
         proposals[p].record # 0 =>
           records[proposals[p].record].hash.proposal = p
    /\ \A i \in DOMAIN records :
         /\ proposals[records[i].hash.proposal].status # "absent"
         /\ records[i].hash = PatchHash(records[i].hash.proposal)
         /\ records[i].decision = "approved" => i \in granted

IInv ==
    /\ TypeOK
    /\ overlaps <= calls
    /\ RecordInv
    /\ \A a \in Actors : ActorInv(a)
    /\ ApprovedNamesGrant
    /\ PromotionsTraceable

---------------------------------------------------------------------------

LEMMA InitInv == Init => IInv
<1> SUFFICES ASSUME Init PROVE IInv
  OBVIOUS
<1> USE DEF Init
<1>1. TypeOK
  BY ConstantsAssumption
  DEF TypeOK, NoProposal, ProposalRow, ProposalStatus, Patch, RecordRow,
      PromotionRow, ActorRow, Idle, Outcome, ApprovalDecision
<1>2. RecordInv
  BY DEF RecordInv, NoProposal
<1>3. \A a \in Actors : ActorInv(a)
  BY DEF ActorInv, Idle, PromoteSteps
<1>4. ApprovedNamesGrant /\ PromotionsTraceable
  BY DEF ApprovedNamesGrant, PromotionsTraceable, NoProposal
<1>5. overlaps <= calls
  OBVIOUS
<1> QED
  BY <1>1, <1>2, <1>3, <1>4, <1>5 DEF IInv

\* The tables as a stale snapshot sees them: rows are added, and what a
\* snapshot relies on never changes.
TablesGrow ==
    /\ \A p \in Proposals : proposals[p].status # "absent" =>
         /\ proposals'[p].status # "absent"
         /\ proposals'[p].patch = proposals[p].patch
    /\ evaluations \subseteq evaluations'
    /\ boms \subseteq boms'
    /\ granted \subseteq granted'
    /\ DOMAIN records \subseteq DOMAIN records'
    /\ \A i \in DOMAIN records : records'[i].hash = records[i].hash
    /\ DOMAIN promotions \subseteq DOMAIN promotions'
    /\ \A i \in DOMAIN promotions :
         /\ promotions'[i].proposal = promotions[i].proposal
         /\ promotions'[i].record = promotions[i].record
         /\ promotions'[i].version = promotions[i].version
         /\ promotions'[i].previous = promotions[i].previous
         /\ promotions'[i].bom = promotions[i].bom

\* What a call knows stays true while others run.
LEMMA ActorStable ==
  ASSUME NEW a \in Actors, ActorInv(a), TablesGrow,
         actors'[a] = actors[a]
  PROVE  ActorInv(a)'
  BY DEF ActorInv, TablesGrow, Passed

\* Promotions stay traceable in growing tables.
LEMMA TraceableStable ==
  ASSUME IInv, TablesGrow, DOMAIN promotions' = DOMAIN promotions
  PROVE  PromotionsTraceable'
<1> SUFFICES ASSUME NEW i \in DOMAIN promotions
             PROVE  /\ Passed(promotions[i].proposal)'
                    /\ promotions'[i].record \in granted'
                    /\ records'[promotions'[i].record].hash.proposal =
                         promotions'[i].proposal
                    /\ promotions'[i].bom # None =>
                         /\ promotions'[i].bom = promotions'[i].version
                         /\ promotions'[i].bom \in boms'
  BY DEF PromotionsTraceable
<1>1. /\ Passed(promotions[i].proposal)
      /\ promotions[i].record \in granted
      /\ records[promotions[i].record].hash.proposal = promotions[i].proposal
      /\ promotions[i].bom # None =>
           /\ promotions[i].bom = promotions[i].version
           /\ promotions[i].bom \in boms
  BY DEF IInv, PromotionsTraceable
<1>2. promotions[i].record \in DOMAIN records
  BY <1>1 DEF IInv, TypeOK
<1> QED
  BY <1>1, <1>2 DEF TablesGrow, Passed

LEMMA ActorLocals ==
  ASSUME TypeOK, NEW a \in Actors
  PROVE  actors[a] \in ActorRow
  BY DEF TypeOK

LEMMA RecordAt ==
  ASSUME TypeOK, NEW i \in DOMAIN records
  PROVE  /\ i \in Nat \ {0} /\ records[i] \in RecordRow
         /\ records[i].hash.proposal \in Proposals
<1>1. i \in Nat \ {0} /\ records[i] \in RecordRow
  BY DEF TypeOK
<1> QED
  BY <1>1 DEF RecordRow

\* A step that touches nothing but the locals of one call and the counters.
LEMMA LocalStep ==
  ASSUME IInv, NEW a \in Actors,
         UNCHANGED <<tables, granted, grants>>,
         served' \in Versions \cup {None},
         calls' \in 0..MaxCalls, faults' \in 0..MaxFaults,
         overlaps' \in Nat, overlaps' <= calls',
         NEW r \in ActorRow, actors' = [actors EXCEPT ![a] = r],
         ActorInv(a)'
  PROVE  IInv'
<1> USE ConstantsAssumption DEF tables
<1>1. TablesGrow
  BY DEF TablesGrow
<1>2. \A b \in Actors : ActorInv(b)'
  BY <1>1, ActorStable DEF IInv, TypeOK
<1>3. RecordInv'
  BY DEF IInv, RecordInv, PatchHash
<1>4. ApprovedNamesGrant'
  BY DEF IInv, ApprovedNamesGrant, PatchHash
<1>5. PromotionsTraceable'
  BY DEF IInv, PromotionsTraceable, Passed
<1>6. TypeOK'
  BY DEF IInv, TypeOK
<1> QED
  BY <1>1, <1>2, <1>3, <1>4, <1>5, <1>6 DEF IInv

LEMMA IdleRow == Idle \in ActorRow
  BY DEF Idle, ActorRow, ApprovalDecision

\* A call that returns or dies leaves nothing behind.
LEMMA ReturnKeepsActor ==
  ASSUME TypeOK, NEW a \in Actors, Return(a)
  PROVE  ActorInv(a)'
  BY DEF Return, TypeOK, ActorInv, Idle, PromoteSteps

\* Calls read the proposal they are about.
LEMMA CallInv ==
  ASSUME IInv, NEW a \in Actors, NEW p \in Proposals,
         Evaluate(a, p) \/ OpenApproval(a, p) \/ Decide(a, p)
  PROVE  IInv'
<1> DEFINE r(step) == [Idle EXCEPT !.pc = step, !.proposal = p,
                                   !.record = proposals[p].record]
<1>0. /\ TypeOK /\ RecordInv /\ overlaps <= calls
      /\ proposals[p].record \in {0} \cup DOMAIN records
      /\ DOMAIN records \subseteq Nat
      /\ calls \in 0..MaxCalls /\ overlaps \in 0..MaxCalls /\ MaxCalls \in Nat
  BY ConstantsAssumption DEF IInv, TypeOK, RecordRow
<1>1. PICK step \in {"upsert_evaluation", "open_record", "record_decision"} :
        /\ Call(a, step, p)
        /\ step = "record_decision" => proposals[p].record # 0
        /\ step # "record_decision" => proposals[p].status # "absent"
  BY DEF Evaluate, OpenApproval, Decide
<1>2. /\ UNCHANGED <<tables, served, faults, history>>
      /\ calls' = calls + 1 /\ calls < MaxCalls
      /\ actors' = [actors EXCEPT ![a] = r(step)]
  BY <1>1 DEF Evaluate, OpenApproval, Decide, Call
<1>3. proposals[p].status # "absent"
  BY <1>0, <1>1 DEF RecordInv
<1>4. r(step) \in ActorRow
  <2>1. proposals[p].record \in Nat
    BY <1>0
  <2> QED
    BY <1>1, <2>1 DEF Idle, ActorRow, ApprovalDecision
<1>5. ActorInv(a)'
  <2>1. actors'[a] = r(step)
    BY <1>0, <1>2 DEF TypeOK
  <2>2. /\ actors'[a].pc = step /\ actors'[a].proposal = p
        /\ actors'[a].record = proposals[p].record
        /\ actors'[a].promotion = 0
    BY <2>1 DEF Idle
  <2>3. proposals[p].record # 0 =>
          /\ proposals[p].record \in DOMAIN records
          /\ records[proposals[p].record].hash.proposal = p
    BY <1>0 DEF RecordInv
  <2> QED
    BY <1>1, <1>2, <1>3, <2>2, <2>3 DEF ActorInv, PromoteSteps, tables
<1>6. /\ served' \in Versions \cup {None}
      /\ calls' \in 0..MaxCalls /\ faults' \in 0..MaxFaults
      /\ overlaps' \in Nat /\ overlaps' <= calls'
  BY <1>0, <1>2 DEF TypeOK, history
<1> HIDE DEF r
<1> QED
  BY <1>2, <1>4, <1>5, <1>6, LocalStep DEF history

\* promote_proposal starts from what the caller names and the proposal row.
LEMMA PromoteInv ==
  ASSUME IInv, NEW a \in Actors, NEW p \in Proposals, NEW v \in Versions,
         Promote(a, p, v)
  PROVE  IInv'
<1>0. /\ TypeOK /\ RecordInv /\ overlaps <= calls
      /\ proposals[p].record \in {0} \cup DOMAIN records
      /\ DOMAIN records \subseteq Nat
      /\ active.version \in Versions \cup {None}
      /\ calls \in 0..MaxCalls /\ overlaps \in 0..MaxCalls /\ MaxCalls \in Nat
  BY ConstantsAssumption DEF IInv, TypeOK, RecordRow
<1>1. PICK previous \in Versions \cup {None} :
        actors' = [actors EXCEPT ![a] =
                     [Idle EXCEPT !.pc = "list_evaluations", !.proposal = p,
                                  !.record = proposals[p].record,
                                  !.version = v, !.previous = previous]]
  BY DEF Promote, PromoteRow
<1> DEFINE r == [Idle EXCEPT !.pc = "list_evaluations", !.proposal = p,
                             !.record = proposals[p].record,
                             !.version = v, !.previous = previous]
<1>2. /\ UNCHANGED <<tables, served, faults, granted, grants>>
      /\ calls' = calls + 1 /\ calls < MaxCalls
      /\ overlaps' \in Nat /\ overlaps' <= calls'
      /\ proposals[p].status = "approved"
  BY <1>0 DEF Promote
<1>3. r \in ActorRow
  <2>1. proposals[p].record \in Nat /\ previous \in Versions \cup {None}
    BY <1>0, <1>1
  <2> QED
    BY <2>1 DEF Idle, ActorRow, ApprovalDecision, PromoteSteps
<1>4. ActorInv(a)'
  <2>1. actors'[a] = r
    BY <1>0, <1>1 DEF TypeOK
  <2> QED
    BY <1>0, <1>2, <2>1 DEF ActorInv, Idle, PromoteSteps, tables, RecordInv
<1>5. /\ served' \in Versions \cup {None}
      /\ calls' \in 0..MaxCalls /\ faults' \in 0..MaxFaults
      /\ overlaps' \in Nat /\ overlaps' <= calls'
  BY <1>0, <1>2 DEF TypeOK
<1>6. actors' = [actors EXCEPT ![a] = r]
  BY <1>1
<1> HIDE DEF r
<1> QED
  BY <1>2, <1>3, <1>4, <1>5, <1>6, LocalStep

\* What counters and the pointer of the running process may become.
CountersOK ==
    /\ served' \in Versions \cup {None}
    /\ calls' \in 0..MaxCalls /\ faults' \in 0..MaxFaults
    /\ overlaps' \in Nat /\ overlaps' <= calls'

LEMMA UnchangedCounters ==
  ASSUME IInv, UNCHANGED <<served, calls, faults, overlaps>>
  PROVE  CountersOK
  BY ConstantsAssumption DEF IInv, TypeOK, CountersOK

\* The guards of promote_proposal, and the second read of a rollback.
LEMMA GuardInv ==
  ASSUME IInv, NEW a \in Actors,
         ListEvaluations(a) \/ CheckApproval(a) \/ ReadRolled(a)
  PROVE  IInv'
<1>0. TypeOK /\ RecordInv /\ ActorInv(a) /\ actors[a] \in ActorRow
  BY ActorLocals DEF IInv
<1>1. UNCHANGED <<tables, served, calls, faults, history>>
  BY DEF ListEvaluations, CheckApproval, ReadRolled
<1>2. CountersOK
  BY <1>1, UnchangedCounters DEF history
<1>3. CASE Return(a)
  BY <1>0, <1>1, <1>2, <1>3, IdleRow, ReturnKeepsActor, LocalStep
  DEF Return, CountersOK, history
<1>4. CASE ListEvaluations(a) /\ ~Return(a)
  <2> DEFINE r == [actors[a] EXCEPT !.pc = "check_approval"]
  <2>1. /\ actors' = [actors EXCEPT ![a] = r]
        /\ At(a, "list_evaluations")
        /\ Passed(actors[a].proposal) /\ actors[a].record # 0
    BY <1>4 DEF ListEvaluations, Goto
  <2>2. r \in ActorRow
    BY <1>0 DEF ActorRow, PromoteSteps
  <2>3. ActorInv(a)'
    BY <1>0, <1>1, <2>1
    DEF ActorInv, At, PromoteSteps, tables, history, TypeOK, ActorRow, Passed
  <2> QED
    BY <1>1, <1>2, <2>1, <2>2, <2>3, LocalStep DEF CountersOK, history
<1>5. CASE CheckApproval(a) /\ ~Return(a)
  <2> DEFINE r == [actors[a] EXCEPT !.pc = "snapshot_bom"]
  <2>1. /\ actors' = [actors EXCEPT ![a] = r]
        /\ At(a, "check_approval")
        /\ records[actors[a].record].decision = "approved"
    BY <1>5 DEF CheckApproval, Goto, IsApproved
  <2>2. r \in ActorRow
    BY <1>0 DEF ActorRow, PromoteSteps
  <2>3. actors[a].record \in granted
    BY <1>0, <2>1 DEF ActorInv, At, RecordInv
  <2>4. ActorInv(a)'
    BY <1>0, <1>1, <2>1, <2>3
    DEF ActorInv, At, PromoteSteps, tables, history, TypeOK, ActorRow, Passed
  <2> QED
    BY <1>1, <1>2, <2>1, <2>2, <2>4, LocalStep DEF CountersOK, history
<1>6. CASE ReadRolled(a)
  <2> DEFINE p == actors[a].proposal
             r == [actors[a] EXCEPT !.pc = "set_rolled_back",
                                    !.record = proposals[p].record]
  <2>1. /\ actors' = [actors EXCEPT ![a] = r]
        /\ At(a, "read_rolled")
    BY <1>6 DEF ReadRolled
  <2>2. /\ p \in Proposals /\ proposals[p].status # "absent"
        /\ proposals[p].record \in {0} \cup DOMAIN records
        /\ proposals[p].record \in Nat
    BY <1>0, <2>1 DEF ActorInv, At, TypeOK, RecordRow
  <2>3. r \in ActorRow
    BY <1>0, <2>2 DEF ActorRow
  <2>4. ActorInv(a)'
    BY <1>0, <1>1, <2>1, <2>2
    DEF ActorInv, RecordInv, PromoteSteps, tables, history, TypeOK, ActorRow
  <2> QED
    BY <1>1, <1>2, <2>1, <2>3, <2>4, LocalStep DEF CountersOK, history
<1> QED
  BY <1>3, <1>4, <1>5, <1>6

\* A rollback takes the ledger entry it names, whatever became of it since.
LEMMA RollbackInv ==
  ASSUME IInv, NEW a \in Actors, NEW i \in DOMAIN promotions, Rollback(a, i)
  PROVE  IInv'
<1> DEFINE r == [Idle EXCEPT !.pc = "mark_rolled_back", !.promotion = i,
                             !.proposal = promotions[i].proposal,
                             !.previous = promotions[i].previous]
<1>0. /\ TypeOK /\ RecordInv /\ PromotionsTraceable /\ overlaps <= calls
      /\ i \in Nat /\ promotions[i] \in PromotionRow
  BY DEF IInv, TypeOK
<1>1. /\ UNCHANGED <<tables, served, faults, history>>
      /\ calls < MaxCalls /\ calls' = calls + 1
      /\ actors' = [actors EXCEPT ![a] = r]
  BY DEF Rollback
<1>2. promotions[i].proposal \in Proposals
      /\ promotions[i].previous \in Versions \cup {None}
  BY <1>0 DEF PromotionRow
<1>3. proposals[promotions[i].proposal].status # "absent"
  <2>1. /\ promotions[i].record \in DOMAIN records
        /\ records[promotions[i].record].hash.proposal = promotions[i].proposal
    BY <1>0 DEF PromotionsTraceable, TypeOK
  <2> QED
    BY <1>0, <2>1 DEF RecordInv
<1>4. r \in ActorRow
  BY <1>0, <1>2 DEF Idle, ActorRow, ApprovalDecision
<1>5. ActorInv(a)'
  <2>1. actors'[a] = r
    BY <1>0, <1>1 DEF TypeOK
  <2>2. /\ actors'[a].pc = "mark_rolled_back" /\ actors'[a].record = 0
        /\ actors'[a].proposal = promotions[i].proposal
        /\ actors'[a].previous = promotions[i].previous
        /\ actors'[a].promotion = i
    BY <2>1 DEF Idle
  <2> QED
    BY <1>1, <1>2, <1>3, <2>2 DEF ActorInv, PromoteSteps, tables
<1>6. CountersOK
  BY <1>0, <1>1, ConstantsAssumption DEF TypeOK, CountersOK, history
<1> HIDE DEF r
<1> QED
  BY <1>1, <1>4, <1>5, <1>6, LocalStep DEF CountersOK, history

\* A caller that dies, and a process that boots.
LEMMA FaultInv ==
  ASSUME IInv, NEW a \in Actors, Fault(a)
  PROVE  IInv'
<1>0. TypeOK /\ overlaps <= calls
  BY DEF IInv
<1>1. CountersOK
  BY <1>0, ConstantsAssumption DEF Fault, TypeOK, CountersOK, history
<1> QED
  BY <1>0, <1>1, IdleRow, ReturnKeepsActor, LocalStep
  DEF Fault, Return, CountersOK, history

LEMMA BootInv ==
  ASSUME IInv, Boot
  PROVE  IInv'
<1> USE DEF IInv, Boot, tables, history
<1>1. TypeOK'
  BY DEF TypeOK
<1>2. RecordInv'
  BY DEF RecordInv, PatchHash
<1>3. \A a \in Actors : ActorInv(a)'
  BY DEF ActorInv, Passed
<1>4. ApprovedNamesGrant' /\ PromotionsTraceable'
  BY DEF ApprovedNamesGrant, PromotionsTraceable, PatchHash, Passed
<1> QED
  BY <1>1, <1>2, <1>3, <1>4

---------------------------------------------------------------------------
(* Steps that write a table *)

\* A step of one call in growing tables: what is left to show is about the
\* rows it wrote and the call itself.
LEMMA GrowStep ==
  ASSUME IInv, NEW a \in Actors, TablesGrow,
         \A b \in Actors : b # a => actors'[b] = actors[b],
         TypeOK', overlaps' <= calls', RecordInv', ActorInv(a)',
         ApprovedNamesGrant', PromotionsTraceable'
  PROVE  IInv'
<1>1. \A b \in Actors : ActorInv(b)'
  BY ActorStable DEF IInv
<1> QED
  BY <1>1 DEF IInv

\* upsert_proposal of a stale snapshot.  The status it writes may be any; only
\* "approved" needs a granted record in the same snapshot.
LEMMA SaveStep ==
  ASSUME IInv, NEW a \in Actors, ~At(a, "idle"),
         NEW status \in ProposalStatus,
         status = "approved" => actors[a].record \in granted,
         SaveProposal(a, status), Return(a),
         UNCHANGED <<evaluations, records, boms, promotions, active, served,
                     calls, faults, history>>
  PROVE  IInv'
<1> DEFINE p == actors[a].proposal
<1>0. /\ TypeOK /\ RecordInv /\ ActorInv(a) /\ ApprovedNamesGrant
      /\ actors[a] \in ActorRow /\ overlaps <= calls
  BY ActorLocals DEF IInv
<1>1. /\ p \in Proposals /\ proposals[p].status # "absent"
      /\ actors[a].record # 0 => /\ actors[a].record \in DOMAIN records
                                 /\ records[actors[a].record].hash.proposal = p
      /\ actors[a].record \in Nat
  BY <1>0 DEF ActorInv, At, ActorRow
<1>2. proposals' = [proposals EXCEPT
                      ![p] = [@ EXCEPT !.status = status,
                                       !.record = actors[a].record]]
  BY <1>0, <1>1 DEF SaveProposal, TypeOK, ProposalRow
<1>3. /\ \A q \in Proposals : q # p => proposals'[q] = proposals[q]
      /\ proposals'[p].status = status
      /\ proposals'[p].record = actors[a].record
      /\ proposals'[p].patch = proposals[p].patch
      /\ status # "absent"
  BY <1>0, <1>1, <1>2 DEF TypeOK, ProposalRow, ProposalStatus
<1>4. TypeOK'
  <2>1. proposals' \in [Proposals -> ProposalRow]
    BY <1>0, <1>1, <1>2 DEF TypeOK, ProposalRow
  <2>2. actors' \in [Actors -> ActorRow]
    BY <1>0, IdleRow DEF TypeOK, Return
  <2>3. \A q \in Proposals : proposals'[q].record \in {0} \cup DOMAIN records
    BY <1>0, <1>1, <1>3 DEF TypeOK
  <2> QED
    BY <1>0, <2>1, <2>2, <2>3 DEF TypeOK, history
<1>5. TablesGrow
  BY <1>1, <1>3 DEF TablesGrow, history
<1>6. RecordInv'
  <2>1. ASSUME NEW q \in Proposals, proposals'[q].record # 0
        PROVE  records[proposals'[q].record].hash.proposal = q
    BY <1>0, <1>1, <1>3, <2>1 DEF RecordInv
  <2>2. ASSUME NEW i \in DOMAIN records
        PROVE  LET q == records[i].hash.proposal IN
               /\ proposals'[q].status # "absent"
               /\ records[i].hash = PatchHash(q)'
               /\ records[i].decision = "approved" => i \in granted
    <3>1. records[i].hash.proposal \in Proposals
      BY <1>0, RecordAt
    <3> QED
      BY <1>0, <1>3, <3>1 DEF RecordInv, PatchHash
  <2> QED
    BY <2>1, <2>2 DEF RecordInv, history
<1>7. ApprovedNamesGrant'
  <2>1. ASSUME NEW q \in Proposals, proposals'[q].status = "approved"
        PROVE  /\ proposals'[q].record \in granted
               /\ records[proposals'[q].record].hash = PatchHash(q)'
    <3>1. CASE q = p
      BY <1>0, <1>1, <1>3, <2>1, <3>1 DEF RecordInv, PatchHash, TypeOK
    <3>2. CASE q # p
      BY <1>0, <1>3, <2>1, <3>2 DEF ApprovedNamesGrant, PatchHash
    <3> QED
      BY <3>1, <3>2
  <2> QED
    BY <2>1 DEF ApprovedNamesGrant, history
<1>8. PromotionsTraceable'
  BY <1>5, TraceableStable
<1>9. ActorInv(a)' /\ \A b \in Actors : b # a => actors'[b] = actors[b]
  BY <1>0, ReturnKeepsActor DEF Return, TypeOK
<1> QED
  BY <1>0, <1>4, <1>5, <1>6, <1>7, <1>8, <1>9, GrowStep DEF history

LEMMA SaveInv ==
  ASSUME IInv, NEW a \in Actors,
         \/ SetEvaluated(a) \/ LinkRecord(a) \/ SetDecided(a)
         \/ SetPromoted(a) \/ SetRolledBack(a)
  PROVE  IInv'
<1>0. ActorInv(a)
  BY DEF IInv
<1>1. PICK status :
        /\ status \in ProposalStatus
        /\ status = "approved" => actors[a].record \in granted
        /\ SaveProposal(a, status) /\ Return(a)
        /\ ~At(a, "idle")
        /\ UNCHANGED <<evaluations, records, boms, promotions, active, served,
                       calls, faults, history>>
  <2>1. CASE SetEvaluated(a)
    BY <1>0, <2>1
    DEF SetEvaluated, At, EvaluatedStatus, ActorInv, Outcome, ProposalStatus
  <2>2. CASE SetDecided(a)
    BY <1>0, <2>2 DEF SetDecided, At, ActorInv, ProposalStatus
  <2>3. CASE LinkRecord(a) \/ SetPromoted(a) \/ SetRolledBack(a)
    BY <2>3 DEF LinkRecord, SetPromoted, SetRolledBack, At, ProposalStatus
  <2> QED
    BY <2>1, <2>2, <2>3
<1> QED
  BY <1>1, SaveStep

\* The one insert of a proposal.
LEMMA ReflectInv ==
  ASSUME IInv, NEW a \in Actors, NEW p \in Proposals, Reflect(a, p)
  PROVE  IInv'
<1>0. TypeOK /\ RecordInv /\ ApprovedNamesGrant /\ overlaps <= calls
  BY DEF IInv
<1>1. PICK patch \in Patch :
        proposals' = [proposals EXCEPT ![p] =
                        [status |-> "draft", patch |-> patch, record |-> 0]]
  BY DEF Reflect
<1>2. /\ proposals[p].status = "absent"
      /\ calls < MaxCalls /\ calls' = calls + 1
      /\ UNCHANGED <<evaluations, records, boms, promotions, active, served,
                     actors, faults, history>>
  BY DEF Reflect
<1>3. /\ \A q \in Proposals : q # p => proposals'[q] = proposals[q]
      /\ proposals'[p].status = "draft" /\ proposals'[p].record = 0
  BY <1>0, <1>1 DEF TypeOK
<1>4. TypeOK'
  <2>1. proposals' \in [Proposals -> ProposalRow]
    BY <1>0, <1>1 DEF TypeOK, ProposalRow, ProposalStatus
  <2>2. \A q \in Proposals : proposals'[q].record \in {0} \cup DOMAIN records
    BY <1>0, <1>3 DEF TypeOK
  <2>3. calls' \in 0..MaxCalls
    BY <1>0, <1>2, ConstantsAssumption DEF TypeOK
  <2> QED
    BY <1>0, <1>2, <2>1, <2>2, <2>3 DEF TypeOK, history
<1>5. TablesGrow
  BY <1>2, <1>3 DEF TablesGrow, history
<1>6. RecordInv'
  <2>1. ASSUME NEW q \in Proposals, proposals'[q].record # 0
        PROVE  records[proposals'[q].record].hash.proposal = q
    BY <1>0, <1>3, <2>1 DEF RecordInv
  <2>2. ASSUME NEW i \in DOMAIN records
        PROVE  LET q == records[i].hash.proposal IN
               /\ proposals'[q].status # "absent"
               /\ records[i].hash = PatchHash(q)'
               /\ records[i].decision = "approved" => i \in granted
    <3>1. records[i].hash.proposal \in Proposals
      BY <1>0, RecordAt
    <3> QED
      BY <1>0, <1>2, <1>3, <3>1 DEF RecordInv, PatchHash
  <2> QED
    BY <1>2, <2>1, <2>2 DEF RecordInv, history
<1>7. ApprovedNamesGrant'
  BY <1>0, <1>2, <1>3 DEF ApprovedNamesGrant, PatchHash, history
<1>8. PromotionsTraceable'
  BY <1>2, <1>5, TraceableStable
<1>9. ActorInv(a)'
  BY <1>2, <1>5, ActorStable DEF IInv
<1>10. overlaps' <= calls'
  BY <1>0, <1>2 DEF history, TypeOK
<1> QED
  BY <1>2, <1>4, <1>5, <1>6, <1>7, <1>8, <1>9, <1>10, GrowStep

\* Nothing that RecordInv or ApprovedNamesGrant speaks of is written.
LEMMA RecordsKept ==
  ASSUME IInv, UNCHANGED <<proposals, records, granted>>
  PROVE  RecordInv' /\ ApprovedNamesGrant'
  BY DEF IInv, RecordInv, ApprovedNamesGrant, PatchHash

LEMMA EvaluationInv ==
  ASSUME IInv, NEW a \in Actors, UpsertEvaluation(a)
  PROVE  IInv'
<1>0. /\ TypeOK /\ ActorInv(a) /\ actors[a] \in ActorRow /\ overlaps <= calls
      /\ At(a, "upsert_evaluation")
  BY ActorLocals DEF IInv, UpsertEvaluation
<1>1. PICK o \in Outcome :
        /\ evaluations' = evaluations \cup
                            {[proposal |-> actors[a].proposal, outcome |-> o]}
        /\ actors' = [actors EXCEPT ![a].pc = "set_evaluated",
                                    ![a].verdict = o]
  BY DEF UpsertEvaluation
<1>2. UNCHANGED <<proposals, records, boms, promotions, active, served,
                  calls, faults, history>>
  BY DEF UpsertEvaluation
<1>3. actors[a].proposal \in Proposals
  BY <1>0 DEF ActorInv, At
<1> DEFINE r == [actors[a] EXCEPT !.pc = "set_evaluated", !.verdict = o]
<1>4. actors' = [actors EXCEPT ![a] = r] /\ r \in ActorRow
  BY <1>0, <1>1 DEF TypeOK, ActorRow
<1>5. TypeOK'
  <2>1. actors' \in [Actors -> ActorRow]
    BY <1>0, <1>4 DEF TypeOK
  <2>2. evaluations' \subseteq [proposal : Proposals, outcome : Outcome]
    BY <1>0, <1>1, <1>3 DEF TypeOK
  <2> QED
    BY <1>0, <1>2, <2>1, <2>2 DEF TypeOK, history
<1>6. TablesGrow
  BY <1>1, <1>2 DEF TablesGrow, history
<1>7. ActorInv(a)'
  <2>1. /\ actors'[a].pc = "set_evaluated" /\ actors'[a].verdict = o
        /\ actors'[a].proposal = actors[a].proposal
        /\ actors'[a].record = actors[a].record
        /\ actors'[a].promotion = actors[a].promotion
    BY <1>0, <1>4 DEF TypeOK, ActorRow
  <2> QED
    BY <1>0, <1>2, <2>1 DEF ActorInv, At, PromoteSteps, Outcome
<1>8. PromotionsTraceable'
  BY <1>2, <1>6, TraceableStable
<1> QED
  BY <1>0, <1>2, <1>4, <1>5, <1>6, <1>7, <1>8, RecordsKept, GrowStep
  DEF TypeOK, history

\* A new record is bound to the proposal of the call and its present patch.
LEMMA OpenRecordInv ==
  ASSUME IInv, NEW a \in Actors, OpenRecord(a)
  PROVE  IInv'
<1> DEFINE p == actors[a].proposal
           n == Len(records) + 1
           row == [hash |-> PatchHash(p), decision |-> "pending"]
           r == [actors[a] EXCEPT !.pc = "link_record", !.record = n]
<1>0. /\ TypeOK /\ RecordInv /\ ActorInv(a) /\ ApprovedNamesGrant
      /\ actors[a] \in ActorRow /\ overlaps <= calls
      /\ At(a, "open_record")
  BY ActorLocals DEF IInv, OpenRecord
<1>1. /\ records' = Append(records, row)
      /\ actors' = [actors EXCEPT ![a] = r]
      /\ UNCHANGED <<proposals, evaluations, boms, promotions, active, served,
                     calls, faults, history>>
  BY DEF OpenRecord
<1>2. p \in Proposals /\ proposals[p].status # "absent"
  BY <1>0 DEF ActorInv, At
<1>3. row \in RecordRow
  BY <1>0, <1>2 DEF RecordRow, PatchHash, ApprovalDecision, TypeOK, ProposalRow
<1>4. /\ Len(records) \in Nat /\ DOMAIN records = 1..Len(records)
      /\ records' \in Seq(RecordRow)
      /\ DOMAIN records' = 1..n
      /\ \A i \in DOMAIN records : records'[i] = records[i]
      /\ records'[n] = row
  BY <1>0, <1>1, <1>3 DEF TypeOK
<1>5. TypeOK'
  <2>0. r \in ActorRow
    <3>1. n \in Nat
      BY <1>4
    <3> QED
      BY <1>0, <3>1 DEF ActorRow
  <2>1. actors' \in [Actors -> ActorRow]
    BY <1>0, <1>1, <2>0 DEF TypeOK
  <2>2. granted \subseteq DOMAIN records'
    BY <1>0, <1>4 DEF TypeOK
  <2>3. \A q \in Proposals : proposals[q].record \in {0} \cup DOMAIN records'
    BY <1>0, <1>4 DEF TypeOK
  <2> QED
    BY <1>0, <1>1, <1>4, <2>1, <2>2, <2>3 DEF TypeOK, history
<1>6. TablesGrow
  BY <1>1, <1>4 DEF TablesGrow, history
<1>7. RecordInv'
  <2>1. ASSUME NEW q \in Proposals, proposals[q].record # 0
        PROVE  records'[proposals[q].record].hash.proposal = q
    BY <1>0, <1>4, <2>1 DEF RecordInv, TypeOK
  <2>2. ASSUME NEW i \in 1..n
        PROVE  LET q == records'[i].hash.proposal IN
               /\ proposals[q].status # "absent"
               /\ records'[i].hash = PatchHash(q)
               /\ records'[i].decision = "approved" => i \in granted
    <3>1. CASE i = n
      BY <1>2, <1>4, <3>1 DEF PatchHash
    <3>2. CASE i \in DOMAIN records
      BY <1>0, <1>4, <3>2 DEF RecordInv
    <3> QED
      BY <1>4, <3>1, <3>2
  <2> QED
    BY <1>1, <1>4, <2>1, <2>2 DEF RecordInv, PatchHash, history
<1>8. ApprovedNamesGrant'
  BY <1>0, <1>1, <1>4 DEF ApprovedNamesGrant, PatchHash, TypeOK, history
<1>9. ActorInv(a)'
  <2>1. /\ actors'[a].pc = "link_record" /\ actors'[a].record = n
        /\ actors'[a].proposal = p
        /\ actors'[a].promotion = actors[a].promotion
    BY <1>0, <1>1 DEF TypeOK, ActorRow
  <2> QED
    BY <1>0, <1>1, <1>2, <1>4, <2>1 DEF ActorInv, PromoteSteps, PatchHash
<1>10. PromotionsTraceable'
  BY <1>1, <1>6, TraceableStable
<1> HIDE DEF r, row
<1> QED
  BY <1>0, <1>1, <1>5, <1>6, <1>7, <1>8, <1>9, <1>10, GrowStep
  DEF TypeOK, history

\* A decision replaces whatever the record held; an approving one is a grant.
LEMMA DecisionInv ==
  ASSUME IInv, NEW a \in Actors, RecordDecision(a)
  PROVE  IInv'
<1> DEFINE k == actors[a].record
<1>0. /\ TypeOK /\ RecordInv /\ ActorInv(a) /\ ApprovedNamesGrant
      /\ actors[a] \in ActorRow /\ overlaps <= calls
      /\ At(a, "record_decision")
  BY ActorLocals DEF IInv, RecordDecision
<1>1. PICK d \in Decisions :
        /\ records' = [records EXCEPT ![k].decision = d]
        /\ IF d = "approved"
           THEN /\ granted' = granted \cup {k}
                /\ grants' = [grants EXCEPT ![actors[a].proposal] = @ + 1]
           ELSE UNCHANGED <<granted, grants>>
        /\ IF d \in {"approved", "rejected"}
           THEN actors' = [actors EXCEPT ![a].pc = "set_decided",
                                         ![a].verdict = d]
           ELSE Return(a)
  BY DEF RecordDecision
<1>2. UNCHANGED <<proposals, evaluations, boms, promotions, active, served,
                  calls, faults, overlaps>>
  BY DEF RecordDecision
<1>3. /\ k \in DOMAIN records /\ actors[a].proposal \in Proposals
      /\ d \in ApprovalDecision
  BY <1>0, ConstantsAssumption DEF ActorInv, At
<1>4. /\ records' \in Seq(RecordRow)
      /\ DOMAIN records' = DOMAIN records
      /\ \A i \in DOMAIN records :
           /\ records'[i].hash = records[i].hash
           /\ i # k => records'[i] = records[i]
      /\ records'[k].decision = d
  <2>1. records[k] \in RecordRow /\ \A i \in DOMAIN records : records[i] \in RecordRow
    BY <1>0, <1>3, RecordAt
  <2>2. [records[k] EXCEPT !.decision = d] \in RecordRow
    BY <1>3, <2>1 DEF RecordRow
  <2>3. records' = [records EXCEPT ![k] = [records[k] EXCEPT !.decision = d]]
    BY <1>1
  <2> QED
    BY <1>0, <1>3, <2>1, <2>2, <2>3 DEF TypeOK, RecordRow
<1>5. /\ granted' \subseteq DOMAIN records
      /\ granted \subseteq granted'
      /\ d = "approved" => k \in granted'
      /\ grants' \in [Proposals -> Nat]
  BY <1>0, <1>1, <1>3 DEF TypeOK
<1>6. /\ actors' \in [Actors -> ActorRow]
      /\ \A b \in Actors : b # a => actors'[b] = actors[b]
  <2>1. CASE d \in {"approved", "rejected"}
    <3> DEFINE r == [actors[a] EXCEPT !.pc = "set_decided", !.verdict = d]
    <3>1. r \in ActorRow /\ actors' = [actors EXCEPT ![a] = r]
      BY <1>0, <1>1, <1>3, <2>1 DEF ActorRow, TypeOK
    <3> QED
      BY <1>0, <3>1 DEF TypeOK
  <2>2. CASE d \notin {"approved", "rejected"}
    BY <1>0, <1>1, <2>2, IdleRow DEF TypeOK, Return
  <2> QED
    BY <2>1, <2>2
<1>7. TypeOK'
  BY <1>0, <1>2, <1>4, <1>5, <1>6 DEF TypeOK
<1>8. TablesGrow
  BY <1>2, <1>4, <1>5 DEF TablesGrow
<1>9. RecordInv'
  <2>1. ASSUME NEW q \in Proposals, proposals[q].record # 0
        PROVE  records'[proposals[q].record].hash.proposal = q
    BY <1>0, <1>4, <2>1 DEF RecordInv, TypeOK
  <2>2. ASSUME NEW i \in DOMAIN records
        PROVE  LET q == records'[i].hash.proposal IN
               /\ proposals[q].status # "absent"
               /\ records'[i].hash = PatchHash(q)
               /\ records'[i].decision = "approved" => i \in granted'
    BY <1>0, <1>4, <1>5 DEF RecordInv
  <2> QED
    BY <1>2, <1>4, <2>1, <2>2 DEF RecordInv, PatchHash
<1>10. ApprovedNamesGrant'
  BY <1>0, <1>2, <1>4, <1>5 DEF ApprovedNamesGrant, PatchHash, TypeOK
<1>11. ActorInv(a)'
  <2>1. CASE d \in {"approved", "rejected"}
    <3>1. /\ actors'[a].pc = "set_decided" /\ actors'[a].verdict = d
          /\ actors'[a].proposal = actors[a].proposal
          /\ actors'[a].record = k
          /\ actors'[a].promotion = actors[a].promotion
      BY <1>0, <1>1, <2>1 DEF TypeOK, ActorRow
    <3> QED
      BY <1>0, <1>2, <1>3, <1>4, <1>5, <2>1, <3>1
      DEF ActorInv, At, PromoteSteps
  <2>2. CASE d \notin {"approved", "rejected"}
    BY <1>0, <1>1, <2>2, ReturnKeepsActor
  <2> QED
    BY <2>1, <2>2
<1>12. PromotionsTraceable'
  BY <1>2, <1>8, TraceableStable
<1> QED
  BY <1>0, <1>2, <1>6, <1>7, <1>8, <1>9, <1>10, <1>11, <1>12, GrowStep

LEMMA SnapshotInv ==
  ASSUME IInv, NEW a \in Actors, SnapshotBom(a)
  PROVE  IInv'
<1>0. /\ TypeOK /\ ActorInv(a) /\ actors[a] \in ActorRow /\ overlaps <= calls
      /\ At(a, "snapshot_bom")
  BY ActorLocals DEF IInv, SnapshotBom
<1>1. actors[a].version \in Versions
  BY <1>0 DEF ActorInv, At, PromoteSteps
<1>2. PICK bom \in {None, actors[a].version} :
        /\ boms' = IF bom = None THEN boms ELSE boms \cup {bom}
        /\ actors' = [actors EXCEPT ![a].pc = "upsert_promotion",
                                    ![a].bom = bom]
  BY <1>1, ConstantsAssumption DEF SnapshotBom, GotBom
<1> DEFINE r == [actors[a] EXCEPT !.pc = "upsert_promotion", !.bom = bom]
<1>3. /\ actors' = [actors EXCEPT ![a] = r]
      /\ UNCHANGED <<proposals, evaluations, records, promotions, active,
                     served, calls, faults, history>>
  BY <1>2 DEF SnapshotBom
<1>4. bom \in Versions \cup {None} /\ (bom # None => bom \in boms')
  BY <1>1, <1>2
<1>5. r \in ActorRow
  BY <1>0, <1>4 DEF ActorRow, PromoteSteps
<1>6. TypeOK'
  <2>1. boms' \subseteq Versions
    BY <1>0, <1>1, <1>2 DEF TypeOK
  <2> QED
    BY <1>0, <1>3, <1>5, <2>1 DEF TypeOK, history
<1>7. TablesGrow
  BY <1>2, <1>3 DEF TablesGrow, history
<1>8. ActorInv(a)'
  <2>1. /\ actors'[a].pc = "upsert_promotion"
        /\ actors'[a].proposal = actors[a].proposal
        /\ actors'[a].record = actors[a].record
        /\ actors'[a].version = actors[a].version
        /\ actors'[a].promotion = actors[a].promotion
        /\ actors'[a].bom = bom
    BY <1>0, <1>3 DEF TypeOK, ActorRow
  <2> QED
    BY <1>0, <1>2, <1>3, <1>4, <2>1
    DEF ActorInv, At, PromoteSteps, Passed, history
<1>9. PromotionsTraceable'
  BY <1>3, <1>7, TraceableStable
<1> HIDE DEF r
<1> QED
  BY <1>0, <1>3, <1>5, <1>6, <1>7, <1>8, <1>9, RecordsKept, GrowStep
  DEF TypeOK, history

\* The new ledger entry is traceable by what its call checked before.
LEMMA PromotionInv ==
  ASSUME IInv, NEW a \in Actors, UpsertPromotion(a)
  PROVE  IInv'
<1> DEFINE n == Len(promotions) + 1
           entry == [proposal |-> actors[a].proposal,
                     record |-> actors[a].record,
                     version |-> actors[a].version,
                     previous |-> actors[a].previous,
                     bom |-> actors[a].bom, rolled_back |-> FALSE]
           r == [actors[a] EXCEPT !.pc = "set_active", !.promotion = n]
<1>0. /\ TypeOK /\ ActorInv(a) /\ actors[a] \in ActorRow /\ overlaps <= calls
      /\ At(a, "upsert_promotion") /\ PromotionsTraceable
  BY ActorLocals DEF IInv, UpsertPromotion
<1>1. /\ promotions' = Append(promotions, entry)
      /\ actors' = [actors EXCEPT ![a] = r]
      /\ UNCHANGED <<proposals, evaluations, records, boms, active, served,
                     calls, faults, history>>
  BY DEF UpsertPromotion
<1>2. /\ actors[a].proposal \in Proposals /\ actors[a].version \in Versions
      /\ actors[a].record \in granted
      /\ records[actors[a].record].hash.proposal = actors[a].proposal
      /\ Passed(actors[a].proposal)
      /\ actors[a].bom # None =>
           actors[a].bom = actors[a].version /\ actors[a].bom \in boms
      /\ proposals[actors[a].proposal].status # "absent"
  BY <1>0 DEF ActorInv, At, PromoteSteps
<1>3. entry \in PromotionRow
  BY <1>0, <1>2 DEF PromotionRow, ActorRow
<1>4. /\ Len(promotions) \in Nat /\ DOMAIN promotions = 1..Len(promotions)
      /\ promotions' \in Seq(PromotionRow)
      /\ DOMAIN promotions' = 1..n
      /\ \A i \in DOMAIN promotions : promotions'[i] = promotions[i]
      /\ promotions'[n] = entry
  BY <1>0, <1>1, <1>3 DEF TypeOK
<1>5. r \in ActorRow
  <2>1. n \in Nat
    BY <1>4
  <2> QED
    BY <1>0, <2>1 DEF ActorRow, PromoteSteps
<1>6. TypeOK'
  <2>1. actors' \in [Actors -> ActorRow]
    BY <1>0, <1>1, <1>5 DEF TypeOK
  <2>2. active.promotion \in {0} \cup DOMAIN promotions'
    BY <1>0, <1>4 DEF TypeOK
  <2> QED
    BY <1>0, <1>1, <1>4, <2>1, <2>2 DEF TypeOK, history
<1>7. TablesGrow
  BY <1>1, <1>4 DEF TablesGrow, history
<1>8. ActorInv(a)'
  <2>1. /\ actors'[a].pc = "set_active"
        /\ actors'[a].proposal = actors[a].proposal
        /\ actors'[a].record = actors[a].record
        /\ actors'[a].version = actors[a].version
        /\ actors'[a].promotion = n
    BY <1>0, <1>1 DEF TypeOK, ActorRow
  <2>2. n \in DOMAIN promotions' /\ promotions'[n].version = actors[a].version
    BY <1>4
  <2> HIDE DEF n
  <2> QED
    BY <1>0, <1>1, <1>2, <2>1, <2>2 DEF ActorInv, PromoteSteps
<1>9. PromotionsTraceable'
  <2>1. ASSUME NEW i \in 1..n
        PROVE  /\ Passed(promotions'[i].proposal)
               /\ promotions'[i].record \in granted
               /\ records[promotions'[i].record].hash.proposal =
                    promotions'[i].proposal
               /\ promotions'[i].bom # None =>
                    /\ promotions'[i].bom = promotions'[i].version
                    /\ promotions'[i].bom \in boms
    <3>1. CASE i = n
      BY <1>2, <1>4, <3>1
    <3>2. CASE i \in DOMAIN promotions
      BY <1>0, <1>4, <3>2 DEF PromotionsTraceable
    <3> QED
      BY <1>4, <3>1, <3>2
  <2> QED
    BY <1>1, <1>4, <2>1 DEF PromotionsTraceable, Passed, history
<1> HIDE DEF r, entry
<1> QED
  BY <1>0, <1>1, <1>6, <1>7, <1>8, <1>9, RecordsKept, GrowStep
  DEF TypeOK, history

\* The pointer is set to a version of the ledger entry the call holds.
LEMMA PointerInv ==
  ASSUME IInv, NEW a \in Actors, SetActive(a) \/ RestorePrevious(a)
  PROVE  IInv'
<1>0. /\ TypeOK /\ ActorInv(a) /\ actors[a] \in ActorRow /\ overlaps <= calls
  BY ActorLocals DEF IInv
<1>1. /\ UNCHANGED <<proposals, evaluations, records, boms, promotions, served,
                     calls, faults, history>>
      /\ ~At(a, "idle")
  BY DEF SetActive, RestorePrevious, At
<1>2. PICK step \in {"set_promoted", "read_rolled"} :
        actors' = [actors EXCEPT ![a] = [@ EXCEPT !.pc = step]]
  BY DEF SetActive, RestorePrevious, Goto
<1> DEFINE r == [actors[a] EXCEPT !.pc = step]
<1>3. /\ active'.version \in Versions
      /\ active'.promotion \in DOMAIN promotions
      /\ active' = [version |-> active'.version, promotion |-> active'.promotion]
      /\ step = "set_promoted" => actors[a].version \in Versions
  <2>1. CASE SetActive(a)
    BY <1>0, <2>1
    DEF SetActive, SetActiveVersion, ActorInv, At, PromoteSteps
  <2>2. CASE RestorePrevious(a)
    <3>1. step # "set_promoted"
      BY <1>0, <1>2, <2>2 DEF RestorePrevious, Goto, TypeOK, ActorRow
    <3> QED
      BY <1>0, <2>2, <3>1
      DEF RestorePrevious, SetActiveVersion, ActorInv, At, PromoteSteps
  <2> QED
    BY <2>1, <2>2
<1>4. r \in ActorRow /\ actors' = [actors EXCEPT ![a] = r]
  BY <1>0, <1>2 DEF ActorRow, PromoteSteps
<1>5. TypeOK'
  <2>1. active' \in [version : Versions \cup {None}, promotion : Nat]
    BY <1>0, <1>3 DEF TypeOK
  <2>2. actors' \in [Actors -> ActorRow]
    BY <1>0, <1>4 DEF TypeOK
  <2> QED
    BY <1>0, <1>1, <1>3, <2>1, <2>2 DEF TypeOK, history
<1>6. TablesGrow
  BY <1>1 DEF TablesGrow, history
<1>7. ActorInv(a)'
  <2>1. /\ actors'[a].pc = step
        /\ actors'[a].proposal = actors[a].proposal
        /\ actors'[a].record = actors[a].record
        /\ actors'[a].version = actors[a].version
        /\ actors'[a].promotion = actors[a].promotion
    BY <1>0, <1>4 DEF TypeOK, ActorRow
  <2> QED
    BY <1>0, <1>1, <1>2, <1>3, <2>1 DEF ActorInv, At, PromoteSteps
<1>8. PromotionsTraceable'
  BY <1>1, <1>6, TraceableStable
<1> HIDE DEF r
<1> QED
  BY <1>0, <1>1, <1>4, <1>5, <1>6, <1>7, <1>8, RecordsKept, GrowStep
  DEF TypeOK, history

LEMMA MarkInv ==
  ASSUME IInv, NEW a \in Actors, MarkRolledBack(a)
  PROVE  IInv'
<1> DEFINE i == actors[a].promotion
           step == IF actors[a].previous = None THEN "read_rolled" ELSE "restore"
           r == [actors[a] EXCEPT !.pc = step]
           row == [promotions[i] EXCEPT !.rolled_back = TRUE]
<1>0. /\ TypeOK /\ ActorInv(a) /\ actors[a] \in ActorRow /\ overlaps <= calls
      /\ At(a, "mark_rolled_back")
  BY ActorLocals DEF IInv, MarkRolledBack
<1>1. /\ promotions' = [promotions EXCEPT ![i] = row]
      /\ actors' = [actors EXCEPT ![a] = r]
      /\ UNCHANGED <<proposals, evaluations, records, boms, active, served,
                     calls, faults, history>>
  BY DEF MarkRolledBack, Goto
<1>2. /\ i \in DOMAIN promotions /\ promotions[i] \in PromotionRow
      /\ promotions[i].previous = actors[a].previous
  BY <1>0 DEF ActorInv, At, TypeOK
<1>3. /\ row \in PromotionRow
      /\ row.proposal = promotions[i].proposal
      /\ row.record = promotions[i].record
      /\ row.version = promotions[i].version
      /\ row.previous = promotions[i].previous
      /\ row.bom = promotions[i].bom
  BY <1>2 DEF PromotionRow
<1> HIDE DEF row
<1>4. /\ promotions' \in Seq(PromotionRow)
      /\ DOMAIN promotions' = DOMAIN promotions
      /\ \A j \in DOMAIN promotions :
           promotions'[j] = IF j = i THEN row ELSE promotions[j]
  BY <1>0, <1>1, <1>2, <1>3 DEF TypeOK
<1>5. r \in ActorRow
  BY <1>0 DEF ActorRow, PromoteSteps
<1>6. TypeOK'
  <2>1. actors' \in [Actors -> ActorRow]
    BY <1>0, <1>1, <1>5 DEF TypeOK
  <2> QED
    BY <1>0, <1>1, <1>4, <2>1 DEF TypeOK, history
<1>7. TablesGrow
  BY <1>1, <1>3, <1>4 DEF TablesGrow, history
<1>8. ActorInv(a)'
  <2>1. /\ actors'[a].pc = step
        /\ actors'[a].proposal = actors[a].proposal
        /\ actors'[a].record = actors[a].record
        /\ actors'[a].previous = actors[a].previous
        /\ actors'[a].promotion = i
    BY <1>0, <1>1 DEF TypeOK, ActorRow
  <2>2. step = "restore" => actors[a].previous \in Versions
    BY <1>0 DEF ActorRow
  <2>3. promotions'[i].previous = actors[a].previous
    BY <1>2, <1>3, <1>4
  <2> QED
    BY <1>0, <1>1, <1>2, <1>4, <2>1, <2>2, <2>3
    DEF ActorInv, At, PromoteSteps
<1>9. PromotionsTraceable'
  BY <1>4, <1>7, TraceableStable
<1>10. \A b \in Actors : b # a => actors'[b] = actors[b]
  BY <1>0, <1>1 DEF TypeOK
<1> HIDE DEF r
<1> QED
  BY <1>0, <1>1, <1>6, <1>7, <1>8, <1>9, <1>10, RecordsKept, GrowStep
  DEF history

LEMMA NextInv == IInv /\ [Next]_vars => IInv'
<1> SUFFICES ASSUME IInv, [Next]_vars PROVE IInv'
  OBVIOUS
<1>1. ASSUME NEW a \in Actors, Begin(a)
      PROVE  IInv'
  BY <1>1, ReflectInv, CallInv, PromoteInv, RollbackInv DEF Begin
<1>2. ASSUME NEW a \in Actors, Continue(a)
      PROVE  IInv'
  BY <1>2, EvaluationInv, SaveInv, OpenRecordInv, DecisionInv, GuardInv,
     SnapshotInv, PromotionInv, PointerInv, MarkInv
  DEF Continue
<1>3. CASE UNCHANGED vars
  <2> USE DEF IInv, vars
  <2>1. TypeOK'
    BY <1>3 DEF TypeOK
  <2>2. RecordInv' /\ overlaps' <= calls'
    BY <1>3 DEF RecordInv, PatchHash
  <2>3. \A a \in Actors : ActorInv(a)'
    BY <1>3 DEF ActorInv, Passed
  <2>4. ApprovedNamesGrant' /\ PromotionsTraceable'
    BY <1>3 DEF ApprovedNamesGrant, PromotionsTraceable, PatchHash, Passed
  <2> QED
    BY <2>1, <2>2, <2>3, <2>4
<1> QED
  BY <1>1, <1>2, <1>3, FaultInv, BootInv DEF Next

\* What holds between any two steps, whatever calls are in flight.
THEOREM Invariance == Spec => []IInv
<1> QED
  BY InitInv, NextInv, PTL DEF Spec

\* Type correctness of the pipeline's tables and of its calls in flight.
THEOREM TypeCorrect == Spec => []TypeOK
<1>1. IInv => TypeOK
  BY DEF IInv
<1> QED
  BY <1>1, Invariance, PTL

\* A proposal in status "approved" names a record that a human approved for
\* its identity and patch, however stale the snapshots that calls write back.
THEOREM ApprovedNamesItsGrant == Spec => []ApprovedNamesGrant
<1>1. IInv => ApprovedNamesGrant
  BY DEF IInv
<1> QED
  BY <1>1, Invariance, PTL

\* Every promotion has its evaluation, its human approval and its AI-BOM,
\* whichever calls overlapped it or died.
THEOREM PromotionsAreTraceable == Spec => []PromotionsTraceable
<1>1. IInv => PromotionsTraceable
  BY DEF IInv
<1> QED
  BY <1>1, Invariance, PTL

---------------------------------------------------------------------------
(* The pipeline implements GovernedVersions *)

EvaluatedBar == {p \in Proposals : Passed(p)}
GrantedBar == {records[r].hash.proposal : r \in granted}
Entry(i) == [proposal |-> promotions[i].proposal,
             version |-> promotions[i].version,
             previous |-> promotions[i].previous]
LedgerBar == [i \in DOMAIN promotions |-> Entry(i)]

LEMMA GovernedInit == Init => Governed!Init
<1> SUFFICES ASSUME Init PROVE Governed!Init
  OBVIOUS
<1>1. EvaluatedBar = {} /\ GrantedBar = {}
  BY DEF Init, EvaluatedBar, GrantedBar, Passed
<1>2. LedgerBar = <<>>
  BY DEF Init, LedgerBar
<1> QED
  BY <1>1, <1>2
  DEF Init, Governed!Init, EvaluatedBar, GrantedBar, LedgerBar, Entry

\* Steps that the abstraction does not see.
LEMMA GovernedStutter ==
  ASSUME IInv, UNCHANGED <<evaluations, granted, active, served>>,
         DOMAIN promotions' = DOMAIN promotions,
         \A i \in DOMAIN promotions : Entry(i)' = Entry(i),
         \A r \in granted :
           records'[r].hash.proposal = records[r].hash.proposal
  PROVE  UNCHANGED Governed!vars
<1>1. EvaluatedBar' = EvaluatedBar
  BY DEF EvaluatedBar, Passed
<1>2. GrantedBar' = GrantedBar
  BY DEF GrantedBar
<1>3. LedgerBar' = LedgerBar
  BY DEF LedgerBar
<1> QED
  BY <1>1, <1>2, <1>3
  DEF Governed!vars, EvaluatedBar, GrantedBar, LedgerBar, Entry

LEMMA EvaluationImplements ==
  ASSUME IInv, NEW a \in Actors, UpsertEvaluation(a)
  PROVE  [Governed!Next]_Governed!vars
<1> DEFINE p == actors[a].proposal
<1>1. PICK o \in Outcome :
        evaluations' = evaluations \cup {[proposal |-> p, outcome |-> o]}
  BY DEF UpsertEvaluation
<1>2. /\ p \in Proposals
      /\ UNCHANGED <<records, promotions, active, served, granted>>
  BY DEF IInv, UpsertEvaluation, ActorInv, At, history
<1>3. GrantedBar' = GrantedBar /\ LedgerBar' = LedgerBar
  BY <1>2 DEF GrantedBar, LedgerBar, Entry
<1>4. CASE o = "passed"
  <2>1. EvaluatedBar' = EvaluatedBar \cup {p}
    BY <1>1, <1>2, <1>4 DEF EvaluatedBar, Passed
  <2>2. Governed!PassEvaluation(p)
    BY <1>2, <1>3, <2>1
    DEF Governed!PassEvaluation, EvaluatedBar, GrantedBar, LedgerBar, Entry
  <2> QED
    BY <1>2, <2>2 DEF Governed!Next
<1>5. CASE o # "passed"
  <2>1. EvaluatedBar' = EvaluatedBar
    BY <1>1, <1>5 DEF EvaluatedBar, Passed
  <2> QED
    BY <1>2, <1>3, <2>1
    DEF Governed!vars, EvaluatedBar, GrantedBar, LedgerBar, Entry
<1> QED
  BY <1>4, <1>5

LEMMA DecisionImplements ==
  ASSUME IInv, NEW a \in Actors, RecordDecision(a)
  PROVE  [Governed!Next]_Governed!vars
<1> DEFINE k == actors[a].record
<1>1. PICK d \in Decisions :
        /\ records' = [records EXCEPT ![k].decision = d]
        /\ IF d = "approved" THEN granted' = granted \cup {k}
                             ELSE UNCHANGED granted
  BY DEF RecordDecision
<1>2. PICK p \in Proposals :
        /\ k \in DOMAIN records
        /\ records[k].hash.proposal = p
        /\ granted \subseteq DOMAIN records
        /\ UNCHANGED <<evaluations, promotions, active, served>>
  BY DEF IInv, RecordDecision, ActorInv, At, TypeOK
<1>3. \A r \in DOMAIN records : records'[r].hash = records[r].hash
  <2>1. TypeOK
    BY DEF IInv
  <2>2. \A r \in DOMAIN records : records[r] \in RecordRow
    BY <2>1, RecordAt
  <2>3. records' = [records EXCEPT ![k] = [records[k] EXCEPT !.decision = d]]
    BY <1>1
  <2> QED
    BY <1>2, <2>1, <2>2, <2>3 DEF TypeOK, RecordRow
<1>4. EvaluatedBar' = EvaluatedBar /\ LedgerBar' = LedgerBar
  BY <1>2 DEF EvaluatedBar, Passed, LedgerBar, Entry
<1>5. CASE d = "approved"
  <2>1. GrantedBar' = GrantedBar \cup {p}
    BY <1>1, <1>2, <1>3, <1>5 DEF GrantedBar
  <2>2. Governed!Grant(p)
    BY <1>2, <1>4, <2>1
    DEF Governed!Grant, EvaluatedBar, GrantedBar, LedgerBar, Entry
  <2> QED
    BY <1>2, <2>2 DEF Governed!Next
<1>6. CASE d # "approved"
  <2>1. GrantedBar' = GrantedBar
    BY <1>1, <1>2, <1>3, <1>6 DEF GrantedBar
  <2> QED
    BY <1>2, <1>4, <2>1
    DEF Governed!vars, EvaluatedBar, GrantedBar, LedgerBar, Entry
<1> QED
  BY <1>5, <1>6

LEMMA PromotionImplements ==
  ASSUME IInv, NEW a \in Actors, UpsertPromotion(a)
  PROVE  [Governed!Next]_Governed!vars
<1> DEFINE row == [proposal |-> actors[a].proposal,
                   record |-> actors[a].record,
                   version |-> actors[a].version,
                   previous |-> actors[a].previous,
                   bom |-> actors[a].bom, rolled_back |-> FALSE]
<1>0. /\ TypeOK /\ ActorInv(a) /\ actors[a] \in ActorRow
      /\ At(a, "upsert_promotion")
  BY ActorLocals DEF IInv, UpsertPromotion
<1>1. /\ promotions' = Append(promotions, row)
      /\ UNCHANGED <<evaluations, records, active, served, granted>>
  BY DEF UpsertPromotion, history
<1>2. /\ actors[a].proposal \in Proposals /\ actors[a].version \in Versions
      /\ actors[a].record \in granted
      /\ records[actors[a].record].hash.proposal = actors[a].proposal
      /\ Passed(actors[a].proposal)
  BY <1>0 DEF ActorInv, At, PromoteSteps
<1>3. actors[a].proposal \in EvaluatedBar \cap GrantedBar
  BY <1>2 DEF EvaluatedBar, GrantedBar
<1>4. PICK n \in Nat :
        /\ DOMAIN promotions = 1..n
        /\ DOMAIN promotions' = 1..(n + 1)
        /\ \A i \in 1..n : promotions'[i] = promotions[i]
        /\ promotions'[n + 1] = row
  <2>1. Len(promotions) \in Nat /\ DOMAIN promotions = 1..Len(promotions)
    BY <1>0 DEF TypeOK
  <2>2. /\ DOMAIN promotions' = 1..(Len(promotions) + 1)
        /\ \A i \in 1..Len(promotions) : promotions'[i] = promotions[i]
        /\ promotions'[Len(promotions) + 1] = row
    BY <1>0, <1>1, <2>1 DEF TypeOK
  <2> QED
    BY <2>1, <2>2
<1>5. PICK e \in Governed!Entry :
        e = [proposal |-> actors[a].proposal, version |-> actors[a].version,
             previous |-> actors[a].previous]
  BY <1>0, <1>2 DEF Governed!Entry, ActorRow
<1>6. LedgerBar' = Append(LedgerBar, e)
  <2> DEFINE T == {Entry(i) : i \in 1..n} \cup {e}
             L == Append(LedgerBar, e)
  <2>1. LedgerBar \in Seq(T) /\ Len(LedgerBar) = n /\ e \in T
    BY <1>4 DEF LedgerBar
  <2>2. /\ L \in Seq(T) /\ Len(L) = n + 1
        /\ \A i \in 1..n : L[i] = LedgerBar[i]
        /\ L[n + 1] = e
    <3> HIDE DEF T
    <3> QED
      BY <1>4, <2>1, AppendProperties
  <2>3. L \in [1..(n + 1) -> T]
    <3> HIDE DEF T, L
    <3> QED
      BY <2>2
  <2>4. LedgerBar' = [i \in 1..(n + 1) |-> Entry(i)']
    BY <1>4 DEF LedgerBar
  <2>5. \A i \in 1..n : Entry(i)' = LedgerBar[i]
    BY <1>4 DEF LedgerBar, Entry
  <2>6. Entry(n + 1)' = e
    BY <1>4, <1>5 DEF Entry
  <2>7. \A i \in 1..(n + 1) : Entry(i)' = L[i]
    <3> HIDE DEF T, L
    <3> QED
      BY <1>4, <2>2, <2>5, <2>6
  <2> HIDE DEF T, L
  <2>8. L = [i \in 1..(n + 1) |-> L[i]]
    BY <2>3
  <2>9. LedgerBar' = L
    BY <2>4, <2>7, <2>8
  <2> QED
    BY <2>9 DEF L
<1>7. EvaluatedBar' = EvaluatedBar /\ GrantedBar' = GrantedBar
  BY <1>1 DEF EvaluatedBar, GrantedBar, Passed
<1>8. Governed!Promote(e)
  BY <1>1, <1>3, <1>5, <1>6, <1>7
  DEF Governed!Promote, EvaluatedBar, GrantedBar, LedgerBar, Entry
<1> QED
  BY <1>5, <1>8 DEF Governed!Next

LEMMA PointerImplements ==
  ASSUME IInv, NEW a \in Actors, SetActive(a) \/ RestorePrevious(a)
  PROVE  [Governed!Next]_Governed!vars
<1> DEFINE i == actors[a].promotion
<1>1. UNCHANGED <<evaluations, records, promotions, served, granted>>
  BY DEF SetActive, RestorePrevious, history
<1>2. PICK v \in Versions :
        /\ active' = [version |-> v, promotion |-> i]
        /\ i \in DOMAIN promotions
        /\ v \in {promotions[i].version, promotions[i].previous} \ {None}
  <2>1. ActorInv(a)
    BY DEF IInv
  <2>2. CASE SetActive(a)
    BY <2>1, <2>2, ConstantsAssumption
    DEF SetActive, SetActiveVersion, At, ActorInv, PromoteSteps
  <2>3. CASE RestorePrevious(a)
    BY <2>1, <2>3, ConstantsAssumption
    DEF RestorePrevious, SetActiveVersion, At, ActorInv
  <2> QED
    BY <2>2, <2>3
<1>3. UNCHANGED <<EvaluatedBar, GrantedBar, LedgerBar>>
  BY <1>1 DEF EvaluatedBar, GrantedBar, LedgerBar, Entry, Passed
<1>4. /\ i \in DOMAIN LedgerBar
      /\ v \in {LedgerBar[i].version, LedgerBar[i].previous} \ {None}
  BY <1>2 DEF LedgerBar, Entry
<1>5. Governed!Point(i, v)
  BY <1>1, <1>2, <1>3, <1>4
  DEF Governed!Point, EvaluatedBar, GrantedBar, LedgerBar, Entry
<1> QED
  BY <1>4, <1>5 DEF Governed!Next, LedgerBar, Entry

\* Every step of the pipeline is a step of GovernedVersions or none.
LEMMA GovernedStep ==
  ASSUME IInv, [Next]_vars
  PROVE  [Governed!Next]_Governed!vars
<1>1. ASSUME NEW a \in Actors, Begin(a) \/ Fault(a)
      PROVE  UNCHANGED Governed!vars
  <2>1. UNCHANGED <<evaluations, granted, active, served, records, promotions>>
    BY <1>1
    DEF Begin, Fault, Reflect, Evaluate, OpenApproval, Decide, Promote,
        Rollback, tables, history
  <2> QED
    BY <2>1, GovernedStutter DEF Entry
<1>2. ASSUME NEW a \in Actors,
             \/ SetEvaluated(a) \/ LinkRecord(a) \/ SetDecided(a)
             \/ ListEvaluations(a) \/ CheckApproval(a) \/ SnapshotBom(a)
             \/ SetPromoted(a) \/ ReadRolled(a) \/ SetRolledBack(a)
      PROVE  UNCHANGED Governed!vars
  <2>1. UNCHANGED <<evaluations, granted, active, served, records, promotions>>
    BY <1>2
    DEF SetEvaluated, LinkRecord, SetDecided, ListEvaluations, CheckApproval,
        SnapshotBom, SetPromoted, ReadRolled, SetRolledBack, tables, history
  <2> QED
    BY <2>1, GovernedStutter DEF Entry
<1>3. ASSUME NEW a \in Actors, OpenRecord(a)
      PROVE  UNCHANGED Governed!vars
  <2>1. UNCHANGED <<evaluations, granted, active, served, promotions>>
    BY <1>3 DEF OpenRecord, history
  <2>2. \A r \in granted : records'[r] = records[r]
    BY <1>3 DEF OpenRecord, IInv, TypeOK
  <2> QED
    BY <2>1, <2>2, GovernedStutter DEF Entry
<1>4. ASSUME NEW a \in Actors, MarkRolledBack(a)
      PROVE  UNCHANGED Governed!vars
  <2> DEFINE i == actors[a].promotion
  <2>1. /\ UNCHANGED <<evaluations, granted, active, served, records>>
        /\ promotions' = [promotions EXCEPT ![i].rolled_back = TRUE]
        /\ i \in DOMAIN promotions /\ promotions[i] \in PromotionRow
    BY <1>4 DEF MarkRolledBack, history, IInv, ActorInv, At, TypeOK
  <2>2. promotions' = [promotions EXCEPT
                         ![i] = [promotions[i] EXCEPT !.rolled_back = TRUE]]
    BY <2>1
  <2>3. /\ DOMAIN promotions' = DOMAIN promotions
        /\ \A j \in DOMAIN promotions : Entry(j)' = Entry(j)
    BY <2>1, <2>2 DEF Entry, PromotionRow, IInv, TypeOK
  <2> QED
    BY <2>1, <2>3, GovernedStutter
<1>5. CASE Boot
  <2>1. UNCHANGED <<EvaluatedBar, GrantedBar, LedgerBar, active>>
    BY <1>5
    DEF Boot, tables, history, EvaluatedBar, GrantedBar, LedgerBar, Entry, Passed
  <2>2. Governed!Boot
    BY <1>5, <2>1
    DEF Boot, Governed!Boot, EvaluatedBar, GrantedBar, LedgerBar, Entry
  <2> QED
    BY <2>2 DEF Governed!Next
<1>6. CASE UNCHANGED vars
  BY <1>6, GovernedStutter DEF vars, Entry
<1>7. ASSUME NEW a \in Actors, Continue(a)
      PROVE  [Governed!Next]_Governed!vars
  BY <1>2, <1>3, <1>4, <1>7, EvaluationImplements, DecisionImplements,
     PromotionImplements, PointerImplements
  DEF Continue
<1> QED
  BY <1>1, <1>5, <1>6, <1>7 DEF Next

\* The pipeline implements GovernedVersions, for any overlap of its calls and
\* any of them dying: the ledger grows by evaluated and approved proposals,
\* and the pointer names versions of the ledger entry it refers to.
THEOREM Refinement == Spec => ImplementsGovernedVersions
<1> QED
  BY Invariance, GovernedInit, GovernedStep, PTL
  DEF Spec, ImplementsGovernedVersions, Governed!Spec

---------------------------------------------------------------------------
(* Promotions are paid for by decisions *)

\* PromotionsAreDecided is not inductive: a decision that was recorded pays
\* for a promotion that is still to come.  It is spoken for by a call that is
\* about to set the status or has passed promote_proposal's status check, or
\* by the status itself while no promotion of the proposal runs.
Claims(r, p) ==
    /\ r.proposal = p
    /\ \/ r.pc \in {"list_evaluations", "check_approval", "snapshot_bom",
                    "upsert_promotion"}
       \/ r.pc = "set_decided" /\ r.verdict = "approved"

Claimants(p) == {a \in Actors : Claims(actors[a], p)}

Owed(p) == IF proposals[p].status = "approved" /\ Promoting(p) = {}
           THEN 1 ELSE 0

Budget(p) == grants[p] + overlaps + faults

Decided(p) ==
    Cardinality(PromotionsOf(p)) + Cardinality(Claimants(p)) + Owed(p)
        <= Budget(p)

DecidedInv == \A p \in Proposals : Decided(p)

InPromotion(r, p) == r.pc \in PromoteSteps /\ r.proposal = p

LEMMA CountsFinite ==
  ASSUME TypeOK, NEW p \in Proposals
  PROVE  /\ IsFiniteSet(PromotionsOf(p)) /\ IsFiniteSet(Claimants(p))
         /\ Cardinality(PromotionsOf(p)) \in Nat
         /\ Cardinality(Claimants(p)) \in Nat
         /\ Owed(p) \in {0, 1}
         /\ Budget(p) \in Nat
<1>1. Len(promotions) \in Nat /\ DOMAIN promotions = 1..Len(promotions)
  BY DEF TypeOK
<1>2. IsFiniteSet(DOMAIN promotions)
  BY <1>1, FS_Interval
<1>3. IsFiniteSet(PromotionsOf(p)) /\ Cardinality(PromotionsOf(p)) \in Nat
  BY <1>2, FS_Subset, FS_CardinalityType DEF PromotionsOf
<1>4. IsFiniteSet(Claimants(p)) /\ Cardinality(Claimants(p)) \in Nat
  BY ConstantsAssumption, FS_Subset, FS_CardinalityType DEF Claimants
<1>5. Budget(p) \in Nat
  BY ConstantsAssumption DEF Budget, TypeOK
<1> QED
  BY <1>3, <1>4, <1>5 DEF Owed

\* One call changes: who claims a decision changes by that call at most.
LEMMA ClaimantsStep ==
  ASSUME TypeOK, NEW a \in Actors, NEW p \in Proposals,
         \A b \in Actors : b # a => actors'[b] = actors[b]
  PROVE  Cardinality(Claimants(p)') =
           Cardinality(Claimants(p))
             + (IF Claims(actors'[a], p) THEN 1 ELSE 0)
             - (IF Claims(actors[a], p) THEN 1 ELSE 0)
<1>0. IsFiniteSet(Claimants(p)) /\ Cardinality(Claimants(p)) \in Nat
  BY CountsFinite
<1>1. a \in Claimants(p) <=> Claims(actors[a], p)
  BY DEF Claimants
<1>2. CASE Claims(actors'[a], p)
  <2>1. Claimants(p)' = Claimants(p) \cup {a}
    BY <1>2 DEF Claimants, Claims
  <2>2. Cardinality(Claimants(p) \cup {a}) =
          IF a \in Claimants(p) THEN Cardinality(Claimants(p))
                                ELSE Cardinality(Claimants(p)) + 1
    BY <1>0, FS_AddElement
  <2>3. CASE Claims(actors[a], p)
    BY <1>0, <1>1, <1>2, <2>1, <2>2, <2>3
  <2>4. CASE ~Claims(actors[a], p)
    BY <1>0, <1>1, <1>2, <2>1, <2>2, <2>4
  <2> QED
    BY <2>3, <2>4
<1>3. CASE ~Claims(actors'[a], p)
  <2>1. Claimants(p)' = Claimants(p) \ {a}
    BY <1>3 DEF Claimants, Claims
  <2>2. Cardinality(Claimants(p) \ {a}) =
          IF a \in Claimants(p) THEN Cardinality(Claimants(p)) - 1
                                ELSE Cardinality(Claimants(p))
    BY <1>0, FS_RemoveElement
  <2>3. CASE Claims(actors[a], p)
    BY <1>0, <1>1, <1>3, <2>1, <2>2, <2>3
  <2>4. CASE ~Claims(actors[a], p)
    BY <1>0, <1>1, <1>3, <2>1, <2>2, <2>4
  <2> QED
    BY <2>3, <2>4
<1> QED
  BY <1>2, <1>3

\* A step of one call that adds no promotion: when k decisions, overlaps or
\* deaths are added, the account of proposal p stays covered.
LEMMA AccountStep ==
  ASSUME TypeOK, TypeOK', NEW a \in Actors, NEW p \in Proposals, Decided(p),
         \A b \in Actors : b # a => actors'[b] = actors[b],
         PromotionsOf(p)' = PromotionsOf(p),
         NEW k \in {0, 1}, Budget(p)' >= Budget(p) + k,
         \/ /\ Claims(actors'[a], p) => Claims(actors[a], p) \/ k = 1
            /\ proposals'[p].status = "approved" =>
                 proposals[p].status = "approved"
            /\ InPromotion(actors[a], p) => InPromotion(actors'[a], p)
         \/ /\ Claims(actors'[a], p) => Claims(actors[a], p)
            /\ \/ k = 1
               \/ proposals'[p].status # "approved"
               \/ Claims(actors[a], p) /\ ~Claims(actors'[a], p)
         \/ Owed(p) = 1 /\ Owed(p)' = 0
  PROVE  Decided(p)'
<1> DEFINE P == Cardinality(PromotionsOf(p))
           C == Cardinality(Claimants(p))
           O == Owed(p)
           B == Budget(p)
           new == IF Claims(actors'[a], p) THEN 1 ELSE 0
           old == IF Claims(actors[a], p) THEN 1 ELSE 0
<1>1. /\ P \in Nat /\ C \in Nat /\ O \in {0, 1} /\ B \in Nat
      /\ P + C + O <= B
  BY CountsFinite DEF Decided
<1>2. O' \in {0, 1} /\ B' \in Nat
  <2>1. O' \in {0, 1}
    BY DEF Owed
  <2>2. grants'[p] \in Nat /\ overlaps' \in Nat /\ faults' \in Nat
    BY ConstantsAssumption DEF TypeOK
  <2> QED
    BY <2>1, <2>2 DEF Budget
<1>3. C' = C + new - old /\ new \in {0, 1} /\ old \in {0, 1}
  BY ClaimantsStep
<1>4. P' = P
  OBVIOUS
<1>5. new + O' <= old + O + k
  <2>1. ASSUME proposals'[p].status = "approved" =>
                 proposals[p].status = "approved",
               InPromotion(actors[a], p) => InPromotion(actors'[a], p)
        PROVE  O' <= O
    BY <2>1 DEF Owed, Promoting, InPromotion
  <2>2. proposals'[p].status # "approved" => O' = 0
    BY DEF Owed
  <2> QED
    BY <1>1, <1>2, <2>1, <2>2
<1>6. P' + C' + O' <= B'
  <2>1. B' >= B + k
    OBVIOUS
  <2> HIDE DEF P, C, O, B, new, old
  <2> QED
    BY <1>1, <1>2, <1>3, <1>4, <1>5, <2>1
<1> QED
  BY <1>6 DEF Decided

LEMMA DecidedInit == Init => DecidedInv
<1> SUFFICES ASSUME Init, NEW p \in Proposals PROVE Decided(p)
  BY DEF DecidedInv
<1>1. PromotionsOf(p) = {}
  BY DEF Init, PromotionsOf
<1>2. Claimants(p) = {}
  BY DEF Init, Claimants, Claims, Idle
<1>3. Owed(p) = 0 /\ Budget(p) = 0
  BY DEF Init, Owed, Budget, NoProposal
<1> QED
  BY <1>1, <1>2, <1>3, FS_EmptySet DEF Decided

\* Calls begin, and none of them but promote_proposal claims a decision.
LEMMA DecidedCall ==
  ASSUME IInv, TypeOK', NEW a \in Actors, NEW p \in Proposals, Decided(p),
         \/ \E q \in Proposals : \/ Reflect(a, q) \/ Evaluate(a, q)
                                \/ OpenApproval(a, q) \/ Decide(a, q)
         \/ \E i \in DOMAIN promotions : Rollback(a, i)
  PROVE  Decided(p)'
<1>0. TypeOK /\ Decided(p)
  BY DEF IInv
<1>1. /\ UNCHANGED <<promotions, faults, grants, overlaps>>
      /\ actors[a].pc = "idle"
  BY DEF Reflect, Evaluate, OpenApproval, Decide, Call, Rollback, At, tables,
         history
<1>2. proposals'[p].status = "approved" => proposals[p].status = "approved"
  <2>1. ASSUME NEW q \in Proposals, Reflect(a, q)
        PROVE  proposals'[p] = proposals[p] \/ proposals'[p].status = "draft"
    BY <1>0, <2>1 DEF Reflect, TypeOK
  <2>2. ASSUME NEW q \in Proposals,
               Evaluate(a, q) \/ OpenApproval(a, q) \/ Decide(a, q)
        PROVE  UNCHANGED proposals
    BY <2>2 DEF Evaluate, OpenApproval, Decide, tables
  <2>3. ASSUME NEW i \in DOMAIN promotions, Rollback(a, i)
        PROVE  UNCHANGED proposals
    BY <2>3 DEF Rollback, tables
  <2> QED
    BY <2>1, <2>2, <2>3
<1>3. /\ \A b \in Actors : b # a => actors'[b] = actors[b]
      /\ actors'[a].pc \in {"idle", "upsert_evaluation", "open_record",
                            "record_decision", "mark_rolled_back"}
  <2>1. ASSUME NEW q \in Proposals, NEW step, Call(a, step, q)
        PROVE  /\ \A b \in Actors : b # a => actors'[b] = actors[b]
               /\ actors'[a].pc = step
    BY <1>0, <2>1 DEF Call, TypeOK, Idle
  <2>2. ASSUME NEW i \in DOMAIN promotions, Rollback(a, i)
        PROVE  /\ \A b \in Actors : b # a => actors'[b] = actors[b]
               /\ actors'[a].pc = "mark_rolled_back"
    BY <1>0, <2>2 DEF Rollback, TypeOK, Idle
  <2>3. ASSUME NEW q \in Proposals, Reflect(a, q)
        PROVE  actors' = actors
    BY <2>3 DEF Reflect
  <2> QED
    BY <1>1, <2>1, <2>2, <2>3 DEF Evaluate, OpenApproval, Decide
<1>4. PromotionsOf(p)' = PromotionsOf(p) /\ Budget(p)' = Budget(p)
  BY <1>1 DEF PromotionsOf, Budget
<1>5. Budget(p)' >= Budget(p) + 0
  BY <1>0, <1>4, CountsFinite
<1>6. ~Claims(actors'[a], p) /\ ~InPromotion(actors[a], p)
  BY <1>1, <1>3 DEF Claims, InPromotion, PromoteSteps
<1> QED
  BY <1>0, <1>2, <1>3, <1>4, <1>5, <1>6, AccountStep

\* promote_proposal takes the decision the status stands for, unless another
\* promotion of the proposal has taken it: then it is counted as an overlap.
LEMMA DecidedPromote ==
  ASSUME IInv, TypeOK', NEW a \in Actors, NEW p \in Proposals, Decided(p),
         NEW q \in Proposals, NEW v \in Versions, Promote(a, q, v)
  PROVE  Decided(p)'
<1>0. TypeOK /\ Decided(p)
  BY DEF IInv
<1>1. /\ UNCHANGED <<proposals, promotions, faults, grants>>
      /\ actors[a].pc = "idle" /\ proposals[q].status = "approved"
      /\ overlaps' = IF Promoting(q) # {} THEN overlaps + 1 ELSE overlaps
  BY DEF Promote, At, tables
<1>2. /\ \A b \in Actors : b # a => actors'[b] = actors[b]
      /\ actors'[a].pc = "list_evaluations" /\ actors'[a].proposal = q
  BY <1>0 DEF Promote, PromoteRow, TypeOK, Idle
<1>3. PromotionsOf(p)' = PromotionsOf(p)
  BY <1>1 DEF PromotionsOf
<1>4. CASE Promoting(q) # {}
  <2>1. Budget(p)' >= Budget(p) + 1
    BY <1>0, <1>1, <1>4, ConstantsAssumption DEF Budget, TypeOK
  <2>2. ~InPromotion(actors[a], p)
    BY <1>1 DEF InPromotion, PromoteSteps
  <2> QED
    BY <1>0, <1>1, <1>2, <1>3, <2>1, <2>2, AccountStep
<1>5. CASE Promoting(q) = {}
  <2>1. Budget(p)' >= Budget(p) + 0
    BY <1>0, <1>1, <1>5, ConstantsAssumption DEF Budget, TypeOK
  <2>2. CASE p = q
    <3>1. Owed(p) = 1
      BY <1>1, <1>5, <2>2 DEF Owed
    <3>2. a \in Promoting(p)'
      BY <1>2, <2>2 DEF Promoting, PromoteSteps
    <3>3. Owed(p)' = 0
      BY <3>2 DEF Owed
    <3> QED
      BY <1>0, <1>2, <1>3, <2>1, <3>1, <3>3, AccountStep
  <2>3. CASE p # q
    <3>1. ~Claims(actors'[a], p) /\ ~InPromotion(actors[a], p)
      BY <1>1, <1>2, <2>3 DEF Claims, InPromotion, PromoteSteps
    <3> QED
      BY <1>0, <1>1, <1>2, <1>3, <2>1, <3>1, AccountStep
  <2> QED
    BY <2>2, <2>3
<1> QED
  BY <1>4, <1>5

\* Steps that move a call on and neither decide, promote nor set a status.
LEMMA DecidedGoto ==
  ASSUME IInv, TypeOK', NEW a \in Actors, NEW p \in Proposals, Decided(p),
         \/ UpsertEvaluation(a) \/ OpenRecord(a) \/ ListEvaluations(a)
         \/ CheckApproval(a) \/ SnapshotBom(a) \/ SetActive(a)
         \/ MarkRolledBack(a) \/ RestorePrevious(a) \/ ReadRolled(a)
  PROVE  Decided(p)'
<1>0. TypeOK /\ Decided(p) /\ actors[a] \in ActorRow
  BY ActorLocals DEF IInv
<1>1. UNCHANGED <<proposals, faults, grants, overlaps>>
  BY DEF UpsertEvaluation, OpenRecord, ListEvaluations, CheckApproval,
         SnapshotBom, SetActive, MarkRolledBack, RestorePrevious, ReadRolled,
         tables, history
<1>2. PromotionsOf(p)' = PromotionsOf(p)
  <2>1. CASE MarkRolledBack(a)
    <3> DEFINE i == actors[a].promotion
    <3>1. /\ promotions' = [promotions EXCEPT ![i].rolled_back = TRUE]
          /\ i \in DOMAIN promotions /\ promotions[i] \in PromotionRow
      BY <2>1 DEF MarkRolledBack, IInv, ActorInv, At, TypeOK
    <3>2. promotions' = [promotions EXCEPT
                           ![i] = [promotions[i] EXCEPT !.rolled_back = TRUE]]
      BY <3>1
    <3>3. /\ DOMAIN promotions' = DOMAIN promotions
          /\ \A j \in DOMAIN promotions :
               promotions'[j].proposal = promotions[j].proposal
      <4>1. \A j \in DOMAIN promotions : promotions[j] \in PromotionRow
        BY <1>0 DEF TypeOK
      <4>2. [promotions[i] EXCEPT !.rolled_back = TRUE].proposal =
              promotions[i].proposal
        BY <3>1 DEF PromotionRow
      <4> QED
        BY <1>0, <3>1, <3>2, <4>2 DEF TypeOK
    <3> QED
      BY <3>3 DEF PromotionsOf
  <2>2. CASE ~MarkRolledBack(a)
    <3>1. UNCHANGED promotions
      BY <2>2
      DEF UpsertEvaluation, OpenRecord, ListEvaluations, CheckApproval,
          SnapshotBom, SetActive, RestorePrevious, ReadRolled, tables
    <3> QED
      BY <3>1 DEF PromotionsOf
  <2> QED
    BY <2>1, <2>2
<1>3. Budget(p)' >= Budget(p) + 0
  BY <1>0, <1>1, CountsFinite DEF Budget
<1>4. /\ \A b \in Actors : b # a => actors'[b] = actors[b]
      /\ \/ /\ Claims(actors'[a], p) => Claims(actors[a], p)
            /\ InPromotion(actors[a], p) => InPromotion(actors'[a], p)
         \/ Claims(actors[a], p) /\ ~Claims(actors'[a], p)
  <2>1. CASE \/ UpsertEvaluation(a) \/ OpenRecord(a) \/ MarkRolledBack(a)
             \/ RestorePrevious(a) \/ ReadRolled(a)
    <3>1. PICK r :
            /\ actors' = [actors EXCEPT ![a] = r]
            /\ actors[a].pc \in {"upsert_evaluation", "open_record",
                  "mark_rolled_back", "restore", "read_rolled"}
            /\ r.pc \in {"set_evaluated", "link_record", "restore",
                  "read_rolled", "set_rolled_back"}
      <4>1. CASE UpsertEvaluation(a)
        <5>1. PICK o \in Outcome :
                actors' = [actors EXCEPT ![a].pc = "set_evaluated",
                                         ![a].verdict = o]
          BY <4>1 DEF UpsertEvaluation
        <5> DEFINE x == [actors[a] EXCEPT !.pc = "set_evaluated", !.verdict = o]
        <5>2. actors' = [actors EXCEPT ![a] = x] /\ x.pc = "set_evaluated"
          BY <1>0, <5>1 DEF TypeOK, ActorRow
        <5> QED
          BY <4>1, <5>2 DEF UpsertEvaluation, At
      <4>2. CASE OpenRecord(a)
        <5> DEFINE x == [actors[a] EXCEPT !.pc = "link_record",
                                          !.record = Len(records) + 1]
        <5>1. actors' = [actors EXCEPT ![a] = x] /\ x.pc = "link_record"
          BY <1>0, <4>2 DEF OpenRecord, TypeOK, ActorRow
        <5> QED
          BY <4>2, <5>1 DEF OpenRecord, At
      <4>3. CASE ReadRolled(a)
        <5> DEFINE x == [actors[a] EXCEPT !.pc = "set_rolled_back",
                           !.record = proposals[actors[a].proposal].record]
        <5>1. actors' = [actors EXCEPT ![a] = x] /\ x.pc = "set_rolled_back"
          BY <1>0, <4>3 DEF ReadRolled, TypeOK, ActorRow
        <5> QED
          BY <4>3, <5>1 DEF ReadRolled, At
      <4>4. CASE MarkRolledBack(a) \/ RestorePrevious(a)
        <5>1. PICK step \in {"restore", "read_rolled"} : Goto(a, step)
          BY <4>4 DEF MarkRolledBack, RestorePrevious
        <5> DEFINE x == [actors[a] EXCEPT !.pc = step]
        <5>2. actors' = [actors EXCEPT ![a] = x] /\ x.pc = step
          BY <1>0, <5>1 DEF Goto, TypeOK, ActorRow
        <5> QED
          BY <4>4, <5>1, <5>2 DEF MarkRolledBack, RestorePrevious, At
      <4> QED
        BY <2>1, <4>1, <4>2, <4>3, <4>4
    <3>2. /\ \A b \in Actors : b # a => actors'[b] = actors[b]
          /\ actors'[a] = r
      BY <1>0, <3>1 DEF TypeOK
    <3> QED
      BY <3>1, <3>2 DEF Claims, InPromotion, PromoteSteps
  <2>2. CASE SnapshotBom(a)
    <3>1. PICK bom \in {None, actors[a].version} :
            /\ actors[a].pc = "snapshot_bom"
            /\ actors' = [actors EXCEPT ![a].pc = "upsert_promotion",
                                        ![a].bom = bom]
      BY <2>2 DEF SnapshotBom, GotBom, At
    <3>2. /\ \A b \in Actors : b # a => actors'[b] = actors[b]
          /\ actors'[a].pc = "upsert_promotion"
          /\ actors'[a].proposal = actors[a].proposal
      BY <1>0, <3>1 DEF TypeOK, ActorRow
    <3> QED
      BY <3>1, <3>2 DEF Claims, InPromotion, PromoteSteps
  <2>3. CASE SetActive(a)
    <3>1. /\ \A b \in Actors : b # a => actors'[b] = actors[b]
          /\ actors'[a].proposal = actors[a].proposal
          /\ actors[a].pc = "set_active"
          /\ actors'[a].pc = "set_promoted"
      BY <1>0, <2>3 DEF SetActive, Goto, At, TypeOK, ActorRow
    <3> QED
      BY <3>1 DEF Claims, InPromotion, PromoteSteps
  <2>4. CASE ListEvaluations(a) \/ CheckApproval(a)
    <3>1. \A b \in Actors : b # a => actors'[b] = actors[b]
      BY <1>0, <2>4
      DEF ListEvaluations, CheckApproval, Goto, Return, TypeOK
    <3>2. \/ /\ actors'[a].pc \in {"check_approval", "snapshot_bom"}
             /\ actors'[a].proposal = actors[a].proposal
          \/ actors'[a].pc = "idle"
      BY <1>0, <2>4
      DEF ListEvaluations, CheckApproval, Goto, Return, Idle, TypeOK, ActorRow
    <3>3. actors[a].pc \in {"list_evaluations", "check_approval"}
      BY <2>4 DEF ListEvaluations, CheckApproval, At
    <3> QED
      BY <3>1, <3>2, <3>3 DEF Claims, InPromotion, PromoteSteps
  <2> QED
    BY <2>1, <2>2, <2>3, <2>4
<1>5. proposals'[p].status = proposals[p].status
  BY <1>1
<1> QED
  BY <1>0, <1>2, <1>3, <1>4, <1>5, AccountStep

\* Status writes: only that of an approving decision sets "approved", and it
\* hands its claim to the status.
LEMMA DecidedSave ==
  ASSUME IInv, TypeOK', NEW a \in Actors, NEW p \in Proposals, Decided(p),
         \/ SetEvaluated(a) \/ LinkRecord(a) \/ SetDecided(a)
         \/ SetPromoted(a) \/ SetRolledBack(a)
  PROVE  Decided(p)'
<1> DEFINE q == actors[a].proposal
<1>0. TypeOK /\ Decided(p) /\ actors[a] \in ActorRow /\ ActorInv(a)
  BY ActorLocals DEF IInv
<1>1. /\ UNCHANGED <<promotions, faults, grants, overlaps>>
      /\ Return(a) /\ ~At(a, "idle")
  BY DEF SetEvaluated, LinkRecord, SetDecided, SetPromoted, SetRolledBack,
         At, history
<1>2. PromotionsOf(p)' = PromotionsOf(p)
  BY <1>1 DEF PromotionsOf
<1>3. Budget(p)' >= Budget(p) + 0
  BY <1>0, <1>1, CountsFinite DEF Budget
<1>4. /\ \A b \in Actors : b # a => actors'[b] = actors[b]
      /\ ~Claims(actors'[a], p)
  BY <1>0, <1>1 DEF Return, TypeOK, Idle, Claims
<1>5. q \in Proposals
  BY <1>0, <1>1 DEF ActorInv, At
<1>6. CASE p = q
  <2>1. proposals'[p].status # "approved" \/ Claims(actors[a], p)
    <3>1. PICK status :
            /\ status \in ProposalStatus
            /\ SaveProposal(a, status)
            /\ \/ status # "approved"
               \/ At(a, "set_decided") /\ status = actors[a].verdict
      <4>1. CASE SetEvaluated(a)
        <5>1. actors[a].verdict \in Outcome
          BY <1>0, <4>1 DEF SetEvaluated, At, ActorInv
        <5>2. EvaluatedStatus(actors[a].verdict) \in
                {"evaluation_passed", "evaluation_failed", "pending_evaluation"}
          BY <5>1 DEF Outcome, EvaluatedStatus
        <5> QED
          BY <4>1, <5>2 DEF SetEvaluated, ProposalStatus
      <4>2. CASE SetDecided(a)
        BY <1>0, <4>2 DEF SetDecided, At, ActorInv, ProposalStatus
      <4>3. CASE LinkRecord(a)
        BY <4>3 DEF LinkRecord, ProposalStatus
      <4>4. CASE SetPromoted(a)
        BY <4>4 DEF SetPromoted, ProposalStatus
      <4>5. CASE SetRolledBack(a)
        BY <4>5 DEF SetRolledBack, ProposalStatus
      <4> QED
        BY <4>1, <4>2, <4>3, <4>4, <4>5
    <3>2. proposals'[p].status = status
      BY <1>0, <1>5, <1>6, <3>1 DEF SaveProposal, TypeOK, ProposalRow
    <3> QED
      BY <1>6, <3>1, <3>2 DEF Claims, At
  <2> QED
    BY <1>0, <1>2, <1>3, <1>4, <2>1, AccountStep
<1>7. CASE p # q
  <2>1. proposals'[p].status = proposals[p].status
    BY <1>0, <1>5, <1>7
    DEF SetEvaluated, LinkRecord, SetDecided, SetPromoted, SetRolledBack,
        SaveProposal, TypeOK
  <2>2. ~InPromotion(actors[a], p)
    BY <1>7 DEF InPromotion
  <2> QED
    BY <1>0, <1>2, <1>3, <1>4, <2>1, <2>2, AccountStep
<1> QED
  BY <1>6, <1>7

LEMMA DecidedDecision ==
  ASSUME IInv, TypeOK', NEW a \in Actors, NEW p \in Proposals, Decided(p),
         RecordDecision(a)
  PROVE  Decided(p)'
<1> DEFINE q == actors[a].proposal
<1>0. TypeOK /\ Decided(p) /\ actors[a] \in ActorRow /\ ActorInv(a)
  BY ActorLocals DEF IInv
<1>1. PICK d \in Decisions :
        /\ IF d = "approved"
           THEN grants' = [grants EXCEPT ![q] = @ + 1]
           ELSE UNCHANGED grants
        /\ IF d \in {"approved", "rejected"}
           THEN actors' = [actors EXCEPT ![a].pc = "set_decided",
                                         ![a].verdict = d]
           ELSE Return(a)
  BY DEF RecordDecision
<1>2. /\ UNCHANGED <<proposals, promotions, faults, overlaps>>
      /\ actors[a].pc = "record_decision"
  BY DEF RecordDecision, At
<1>3. PromotionsOf(p)' = PromotionsOf(p)
  BY <1>2 DEF PromotionsOf
<1>4. q \in Proposals /\ ~InPromotion(actors[a], p)
  BY <1>0, <1>2 DEF ActorInv, InPromotion, PromoteSteps
<1>5. /\ \A b \in Actors : b # a => actors'[b] = actors[b]
      /\ Claims(actors'[a], p) => d = "approved" /\ p = q
  <2>1. CASE d \in {"approved", "rejected"}
    <3> DEFINE x == [actors[a] EXCEPT !.pc = "set_decided", !.verdict = d]
    <3>1. actors' = [actors EXCEPT ![a] = x]
      BY <1>0, <1>1, <2>1 DEF TypeOK
    <3>2. x.verdict = d /\ x.proposal = q /\ x.pc = "set_decided"
      BY <1>0 DEF ActorRow
    <3>3. actors'[a] = x /\ \A b \in Actors : b # a => actors'[b] = actors[b]
      BY <1>0, <3>1 DEF TypeOK
    <3> HIDE DEF x
    <3> QED
      BY <3>2, <3>3 DEF Claims
  <2>2. CASE d \notin {"approved", "rejected"}
    BY <1>0, <1>1, <2>2 DEF TypeOK, Return, Idle, Claims
  <2> QED
    BY <2>1, <2>2
<1>6. grants[p] \in Nat /\ grants'[p] \in Nat /\ overlaps \in Nat /\ faults \in Nat
  BY <1>0, ConstantsAssumption DEF TypeOK
<1>7. CASE d = "approved" /\ p = q
  <2>1. grants'[p] = grants[p] + 1
    BY <1>0, <1>1, <1>4, <1>7 DEF TypeOK
  <2>2. Budget(p)' >= Budget(p) + 1
    BY <1>2, <1>6, <2>1 DEF Budget
  <2> QED
    BY <1>0, <1>2, <1>3, <1>4, <1>5, <2>2, AccountStep
<1>8. CASE ~(d = "approved" /\ p = q)
  <2>1. grants'[p] = grants[p]
    BY <1>0, <1>1, <1>4, <1>8 DEF TypeOK
  <2>2. Budget(p)' >= Budget(p) + 0
    BY <1>2, <1>6, <2>1 DEF Budget
  <2> QED
    BY <1>0, <1>2, <1>3, <1>4, <1>5, <1>8, <2>2, AccountStep
<1> QED
  BY <1>7, <1>8

\* A promotion is inserted on the claim of its call.
LEMMA DecidedPromotion ==
  ASSUME IInv, TypeOK', NEW a \in Actors, NEW p \in Proposals, Decided(p),
         UpsertPromotion(a)
  PROVE  Decided(p)'
<1> DEFINE q == actors[a].proposal
           n == Len(promotions) + 1
           row == [proposal |-> q, record |-> actors[a].record,
                   version |-> actors[a].version,
                   previous |-> actors[a].previous,
                   bom |-> actors[a].bom, rolled_back |-> FALSE]
<1>0. TypeOK /\ Decided(p) /\ actors[a] \in ActorRow
  BY ActorLocals DEF IInv
<1>1. /\ UNCHANGED <<proposals, faults, grants, overlaps>>
      /\ actors[a].pc = "upsert_promotion"
      /\ promotions' = Append(promotions, row)
      /\ actors' = [actors EXCEPT ![a].pc = "set_active",
                                  ![a].promotion = n]
  BY DEF UpsertPromotion, At, history
<1>2. /\ \A b \in Actors : b # a => actors'[b] = actors[b]
      /\ actors'[a].pc = "set_active" /\ actors'[a].proposal = q
  BY <1>0, <1>1 DEF TypeOK, ActorRow
<1>3. /\ Len(promotions) \in Nat /\ DOMAIN promotions = 1..Len(promotions)
      /\ DOMAIN promotions' = 1..n
      /\ \A i \in DOMAIN promotions : promotions'[i] = promotions[i]
      /\ promotions'[n].proposal = q
  BY <1>0, <1>1 DEF TypeOK
<1>4. Budget(p)' = Budget(p) /\ Budget(p) \in Nat
  BY <1>0, <1>1, CountsFinite DEF Budget
<1>5. CASE p # q
  <2>1. PromotionsOf(p)' = PromotionsOf(p)
    BY <1>3, <1>5 DEF PromotionsOf
  <2>2. ~Claims(actors'[a], p) /\ ~InPromotion(actors[a], p)
    BY <1>2, <1>5 DEF Claims, InPromotion
  <2>3. Budget(p)' >= Budget(p) + 0
    BY <1>4
  <2> QED
    BY <1>0, <1>1, <1>2, <2>1, <2>2, <2>3, AccountStep
<1>6. CASE p = q
  <2>1. PromotionsOf(p)' = PromotionsOf(p) \cup {n} /\ n \notin PromotionsOf(p)
    BY <1>3, <1>6 DEF PromotionsOf
  <2>2. Cardinality(PromotionsOf(p)') = Cardinality(PromotionsOf(p)) + 1
    <3> HIDE DEF n
    <3> QED
      BY <1>0, <2>1, CountsFinite, FS_AddElement
  <2>3. Claims(actors[a], p) /\ ~Claims(actors'[a], p)
    BY <1>1, <1>2, <1>6 DEF Claims
  <2>4. Cardinality(Claimants(p)') = Cardinality(Claimants(p)) - 1
    BY <1>0, <1>2, <2>3, ClaimantsStep, CountsFinite
  <2>5. Owed(p)' <= Owed(p)
    <3>1. Promoting(p)' = Promoting(p)
      BY <1>1, <1>2, <1>6 DEF Promoting, PromoteSteps
    <3> QED
      BY <1>1, <3>1 DEF Owed
  <2>6. Owed(p) \in {0, 1} /\ Owed(p)' \in {0, 1}
    BY DEF Owed
  <2> QED
    BY <1>0, <1>4, <2>2, <2>4, <2>5, <2>6, CountsFinite DEF Decided
<1> QED
  BY <1>5, <1>6

\* A call that dies takes its claim with it, and pays for what it leaves.
LEMMA DecidedFault ==
  ASSUME IInv, TypeOK', NEW a \in Actors, NEW p \in Proposals, Decided(p),
         Fault(a)
  PROVE  Decided(p)'
<1>0. TypeOK /\ Decided(p)
  BY DEF IInv
<1>1. /\ UNCHANGED <<promotions, grants, overlaps>> /\ faults' = faults + 1
      /\ actors' = [actors EXCEPT ![a] = Idle]
  BY DEF Fault, Return, tables, history
<1>2. PromotionsOf(p)' = PromotionsOf(p)
  BY <1>1 DEF PromotionsOf
<1>3. Budget(p)' >= Budget(p) + 1
  BY <1>0, <1>1, ConstantsAssumption DEF Budget, TypeOK
<1>4. /\ \A b \in Actors : b # a => actors'[b] = actors[b]
      /\ ~Claims(actors'[a], p)
  BY <1>0, <1>1 DEF TypeOK, Idle, Claims
<1> QED
  BY <1>0, <1>2, <1>3, <1>4, AccountStep

LEMMA DecidedStep == IInv /\ DecidedInv /\ [Next]_vars => DecidedInv'
<1> SUFFICES ASSUME IInv, DecidedInv, [Next]_vars, NEW p \in Proposals
             PROVE  Decided(p)'
  BY DEF DecidedInv
<1>1. TypeOK'
  BY NextInv DEF IInv
<1>2. Decided(p)
  BY DEF DecidedInv
<1>3. ASSUME NEW a \in Actors, Begin(a)
      PROVE  Decided(p)'
  BY <1>1, <1>2, <1>3, DecidedCall, DecidedPromote DEF Begin
<1>4. ASSUME NEW a \in Actors, Continue(a)
      PROVE  Decided(p)'
  BY <1>1, <1>2, <1>4, DecidedGoto, DecidedSave, DecidedDecision,
     DecidedPromotion
  DEF Continue
<1>5. CASE Boot \/ UNCHANGED vars
  <2>1. UNCHANGED <<proposals, promotions, actors, grants, overlaps, faults>>
    BY <1>5 DEF Boot, vars, tables, history
  <2>2. UNCHANGED <<PromotionsOf(p), Claimants(p), Owed(p), Budget(p)>>
    BY <2>1 DEF PromotionsOf, Claimants, Owed, Budget, Promoting
  <2> QED
    BY <1>2, <2>2 DEF Decided
<1> QED
  BY <1>1, <1>2, <1>3, <1>4, <1>5, DecidedFault DEF Next

\* Each promotion of a proposal has an approving decision of its own, but for
\* overlapping promote calls and calls that died, for any number of callers.
THEOREM PromotionsHaveDecisions == Spec => []PromotionsAreDecided
<1>1. IInv /\ DecidedInv => PromotionsAreDecided
  <2> SUFFICES ASSUME IInv, DecidedInv, NEW p \in Proposals
               PROVE  Cardinality(PromotionsOf(p)) <= grants[p] + overlaps + faults
    BY DEF PromotionsAreDecided
  <2>1. TypeOK /\ Decided(p)
    BY DEF IInv, DecidedInv
  <2> QED
    BY <2>1, CountsFinite DEF Decided, Budget
<1> QED
  BY <1>1, Invariance, DecidedInit, DecidedStep, PTL DEF Spec

============================================================================
