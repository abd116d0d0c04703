-------------------------- MODULE SelfImprovement --------------------------
(***************************************************************************)
(* The approval-gated self-improvement pipeline                            *)
(* (services/self_improvement.py): reflect, evaluate, open an approval,    *)
(* decide, promote, roll back; and the boot-time version pin.  improve_loop *)
(* makes no other repository call than these (see ImproveLoop).            *)
(*                                                                         *)
(* A call is a sequence of repository calls, each its own transaction,     *)
(* with the proposal row it read first as its snapshot.  Other calls run   *)
(* in between, and a caller may die between any two.  Nothing resumes a    *)
(* call that died.                                                         *)
(*                                                                         *)
(* Abstracted: evaluations are kept up to their outcome; a patch hash is   *)
(* what it hashes; the risk level (it gates nothing: requires_approval is  *)
(* always true) and the texts are left out; one tenant.  get_approval in   *)
(* record_decision is part of the following upsert, which overwrites every *)
(* column that could have changed in between.                              *)
(***************************************************************************)
EXTENDS Naturals, Sequences, FiniteSets

CONSTANTS
    Proposals,      \* proposal ids (uuid4)
    Actors,         \* concurrent callers of the pipeline
    Versions,       \* capability versions
    Decisions,      \* what approvers decide
    None,           \* "no proposal / no version / no approval record"
    MaxCalls,       \* bound on calls into the pipeline
    MaxFaults       \* bound on callers that die

ApprovalDecision == {"pending", "approved", "rejected", "expired"}

ASSUME ConstantsAssumption ==
    /\ IsFiniteSet(Actors)
    /\ Decisions \subseteq ApprovalDecision
    /\ MaxCalls \in Nat
    /\ MaxFaults \in Nat
    /\ None \notin Proposals \cup Versions

VARIABLES
    proposals,    \* self_improvement_proposals
    evaluations,  \* self_improvement_evaluations, up to their outcome
    records,      \* approval_records of promotions, in the order opened
    boms,         \* versions an AI-BOM snapshot was persisted for
    promotions,   \* self_improvement_promotions, in the order inserted
    active,       \* self_improvement_active_version
    served,       \* version_pin._ACTIVE_VERSION of the running process
    actors,       \* calls in flight
    calls,        \* calls so far (bounded by MaxCalls)
    faults,       \* callers that died (bounded by MaxFaults)
    granted,      \* records ever decided "approved" (history)
    grants,       \* how often an approval of the proposal was decided so
    overlaps      \* promote calls that began during another one (history)

tables == <<proposals, evaluations, records, boms, promotions, active>>
history == <<granted, grants, overlaps>>
vars == <<proposals, evaluations, records, boms, promotions, active, served,
          actors, calls, faults, granted, grants, overlaps>>

ProposalStatus ==
    {"draft", "pending_evaluation", "evaluation_passed", "evaluation_failed",
     "awaiting_approval", "approved", "rejected", "promoted", "rolled_back"}

Patch == {"blank", "text"}

Outcome == {"passed", "failed", "pending"}

ProposalRow ==
    [status : ProposalStatus \cup {"absent"}, patch : Patch, record : Nat]

NoProposal == [status |-> "absent", patch |-> "blank", record |-> 0]

\* A record number of 0 stands for approval_record_id IS NULL.
RecordRow ==
    [hash : [proposal : Proposals, patch : Patch], decision : ApprovalDecision]

\* A bom of None is an ai_bom_snapshot_id that the caller supplied: nothing looks
\* it up.
PromotionRow ==
    [proposal : Proposals, record : Nat, version : Versions,
     previous : Versions \cup {None}, bom : Versions \cup {None},
     rolled_back : BOOLEAN]

PromoteSteps == {"list_evaluations", "check_approval", "snapshot_bom",
                 "upsert_promotion", "set_active", "set_promoted"}

ActorRow ==
    [pc : PromoteSteps \cup
          {"idle", "upsert_evaluation", "set_evaluated",
           "open_record", "link_record", "record_decision", "set_decided",
           "mark_rolled_back", "restore", "read_rolled", "set_rolled_back"},
     proposal : Proposals \cup {None},
     record : Nat,                            \* of the proposal snapshot
     verdict : Outcome \cup ApprovalDecision, \* what is being recorded
     version : Versions \cup {None},
     previous : Versions \cup {None},
     bom : Versions \cup {None},
     promotion : Nat]

Idle == [pc |-> "idle", proposal |-> None, record |-> 0, verdict |-> "pending",
         version |-> None, previous |-> None, bom |-> None, promotion |-> 0]

TypeOK ==
    /\ proposals \in [Proposals -> ProposalRow]
    /\ evaluations \subseteq [proposal : Proposals, outcome : Outcome]
    /\ records \in Seq(RecordRow)
    /\ boms \subseteq Versions
    /\ promotions \in Seq(PromotionRow)
    /\ active \in [version : Versions \cup {None}, promotion : Nat]
    /\ served \in Versions \cup {None}
    /\ actors \in [Actors -> ActorRow]
    /\ calls \in 0..MaxCalls
    /\ faults \in 0..MaxFaults
    /\ granted \subseteq DOMAIN records
    /\ grants \in [Proposals -> Nat]
    /\ overlaps \in 0..MaxCalls
    /\ \A p \in Proposals : proposals[p].record \in {0} \cup DOMAIN records
    /\ active.promotion \in {0} \cup DOMAIN promotions

Init ==
    /\ proposals = [p \in Proposals |-> NoProposal]
    /\ evaluations = {}
    /\ records = <<>>
    /\ boms = {}
    /\ promotions = <<>>
    /\ active = [version |-> None, promotion |-> 0]
    /\ served = None
    /\ actors = [a \in Actors |-> Idle]
    /\ calls = 0
    /\ faults = 0
    /\ granted = {}
    /\ grants = [p \in Proposals |-> 0]
    /\ overlaps = 0

---------------------------------------------------------------------------
(* Calls and the proposals table *)

At(a, step) == actors[a].pc = step

Goto(a, step) == actors' = [actors EXCEPT ![a].pc = step]

Return(a) == actors' = [actors EXCEPT ![a] = Idle]

\* A new call on proposal p, whose row the call reads first.
Call(a, step, p) ==
    /\ At(a, "idle")
    /\ calls < MaxCalls
    /\ calls' = calls + 1
    /\ actors' = [actors EXCEPT ![a] =
                    [Idle EXCEPT !.pc = step, !.proposal = p,
                                 !.record = proposals[p].record]]

\* upsert_proposal of the caller's snapshot: status and approval_record_id are
\* overwritten whatever they are by now, proposed_patch is not.
SaveProposal(a, status) ==
    proposals' = [proposals EXCEPT ![actors[a].proposal].status = status,
                                   ![actors[a].proposal].record =
                                       actors[a].record]

\* What an approval of proposal p is bound to.
PatchHash(p) == [proposal |-> p, patch |-> proposals[p].patch]

---------------------------------------------------------------------------
(* reflect_on_task *)

\* The one insert of a proposal row.
Reflect(a, p) ==
    /\ At(a, "idle")
    /\ calls < MaxCalls
    /\ calls' = calls + 1
    /\ proposals[p].status = "absent"
    /\ \E patch \in Patch :
         proposals' = [proposals EXCEPT ![p] =
                         [status |-> "draft", patch |-> patch, record |-> 0]]
    /\ UNCHANGED <<evaluations, records, boms, promotions, active, served,
                   actors, faults, history>>

---------------------------------------------------------------------------
(* evaluate_proposal *)

\* The call has no guard on the status it finds.
Evaluate(a, p) ==
    /\ proposals[p].status # "absent"
    /\ Call(a, "upsert_evaluation", p)
    /\ UNCHANGED <<tables, served, faults, history>>

\* can_run, the supplied checks or the held-out gate decide; a blank patch
\* never passes.
UpsertEvaluation(a) ==
    LET p == actors[a].proposal IN
    /\ At(a, "upsert_evaluation")
    /\ \E o \in Outcome :
         /\ o = "passed" => proposals[p].patch # "blank"
         /\ evaluations' = evaluations \cup {[proposal |-> p, outcome |-> o]}
         /\ actors' = [actors EXCEPT ![a].pc = "set_evaluated",
                                     ![a].verdict = o]
    /\ UNCHANGED <<proposals, records, boms, promotions, active, served,
                   calls, faults, history>>

EvaluatedStatus(outcome) ==
    CASE outcome = "passed" -> "evaluation_passed"
      [] outcome = "failed" -> "evaluation_failed"
      [] outcome = "pending" -> "pending_evaluation"

SetEvaluated(a) ==
    /\ At(a, "set_evaluated")
    /\ SaveProposal(a, EvaluatedStatus(actors[a].verdict))
    /\ Return(a)
    /\ UNCHANGED <<evaluations, records, boms, promotions, active, served,
                   calls, faults, history>>

---------------------------------------------------------------------------
(* open_promotion_approval *)

OpenApproval(a, p) ==
    /\ proposals[p].status = "evaluation_passed"
    /\ Call(a, "open_record", p)
    /\ UNCHANGED <<tables, served, faults, history>>

\* Mutant of OpenRecord: the proposal is linked to a record never stored.
OpenRecordUnsaved(a) ==
    /\ At(a, "open_record")
    /\ actors' = [actors EXCEPT ![a].pc = "link_record",
                                ![a].record = Len(records) + 1]
    /\ UNCHANGED <<tables, served, calls, faults, history>>

\* approvals.open_approval: a new pending record; the token is discarded.
OpenRecord(a) ==
    /\ At(a, "open_record")
    /\ records' = Append(records, [hash |-> PatchHash(actors[a].proposal),
                                   decision |-> "pending"])
    /\ actors' = [actors EXCEPT ![a].pc = "link_record",
                                ![a].record = Len(records) + 1]
    /\ UNCHANGED <<proposals, evaluations, boms, promotions, active, served,
                   calls, faults, history>>

LinkRecord(a) ==
    /\ At(a, "link_record")
    /\ SaveProposal(a, "awaiting_approval")
    /\ Return(a)
    /\ UNCHANGED <<evaluations, records, boms, promotions, active, served,
                   calls, faults, history>>

---------------------------------------------------------------------------
(* record_approval_decision *)

\* The only guard is that the proposal has a record, whatever its status and
\* whatever the record's decision.
Decide(a, p) ==
    /\ proposals[p].record # 0
    /\ Call(a, "record_decision", p)
    /\ UNCHANGED <<tables, served, faults, history>>

\* The status follows for two of the decisions only.
RecordDecision(a) ==
    LET r == actors[a].record IN
    /\ At(a, "record_decision")
    /\ \E d \in Decisions :
         /\ records' = [records EXCEPT ![r].decision = d]
         /\ IF d = "approved"
            THEN /\ granted' = granted \cup {r}
                 /\ grants' = [grants EXCEPT ![actors[a].proposal] = @ + 1]
            ELSE UNCHANGED <<granted, grants>>
         /\ IF d \in {"approved", "rejected"}
            THEN actors' = [actors EXCEPT ![a].pc = "set_decided",
                                          ![a].verdict = d]
            ELSE Return(a)
    /\ UNCHANGED <<proposals, evaluations, boms, promotions, active, served,
                   calls, faults, overlaps>>

\* Mutant of SetDecided: only the status column is written.
SetDecidedStatus(a) ==
    /\ At(a, "set_decided")
    /\ proposals' = [proposals EXCEPT ![actors[a].proposal].status =
                                           actors[a].verdict]
    /\ Return(a)
    /\ UNCHANGED <<evaluations, records, boms, promotions, active, served,
                   calls, faults, history>>

SetDecided(a) ==
    /\ At(a, "set_decided")
    /\ SaveProposal(a, actors[a].verdict)
    /\ Return(a)
    /\ UNCHANGED <<evaluations, records, boms, promotions, active, served,
                   calls, faults, history>>

---------------------------------------------------------------------------
(* promote_proposal *)

Promoting(p) == {a \in Actors : actors[a].pc \in PromoteSteps
                                /\ actors[a].proposal = p}

\* The caller names the promoted version and, if it likes, a previous one: any
\* string, whatever the pointer says.
PromoteRow(a, p, v) ==
    \E previous \in Versions \cup {None} :
        actors' = [actors EXCEPT ![a] =
                     [Idle EXCEPT !.pc = "list_evaluations", !.proposal = p,
                                  !.record = proposals[p].record,
                                  !.version = v, !.previous = previous]]

\* Mutant of Promote: the status is not checked (a rolled-back proposal still
\* has its passing evaluation and its approved record).
PromoteAnyStatus(a, p, v) ==
    /\ At(a, "idle")
    /\ calls < MaxCalls
    /\ proposals[p].record # 0
    /\ calls' = calls + 1
    /\ PromoteRow(a, p, v)
    /\ overlaps' = IF Promoting(p) # {} THEN overlaps + 1 ELSE overlaps
    /\ UNCHANGED <<tables, served, faults, granted, grants>>

Promote(a, p, v) ==
    /\ At(a, "idle")
    /\ calls < MaxCalls
    /\ proposals[p].status = "approved"
    /\ calls' = calls + 1
    /\ PromoteRow(a, p, v)
    /\ overlaps' = IF Promoting(p) # {} THEN overlaps + 1 ELSE overlaps
    /\ UNCHANGED <<tables, served, faults, granted, grants>>

Passed(p) == [proposal |-> p, outcome |-> "passed"] \in evaluations

\* PromotionRefused unless an evaluation passed and the proposal has a record.
ListEvaluations(a) ==
    /\ At(a, "list_evaluations")
    /\ IF Passed(actors[a].proposal) /\ actors[a].record # 0
       THEN Goto(a, "check_approval")
       ELSE Return(a)
    /\ UNCHANGED <<tables, served, calls, faults, history>>

IsApproved(r, hash) == records[r].decision = "approved" /\ records[r].hash = hash

\* PromotionRefused unless the record is approved for the current artifact.
CheckApproval(a) ==
    /\ At(a, "check_approval")
    /\ IF IsApproved(actors[a].record, PatchHash(actors[a].proposal))
       THEN Goto(a, "snapshot_bom")
       ELSE Return(a)
    /\ UNCHANGED <<tables, served, calls, faults, history>>

GotBom(a, bom) == actors' = [actors EXCEPT ![a].pc = "upsert_promotion",
                                           ![a].bom = bom]

\* Mutant of SnapshotBom: the snapshot is not persisted.
SnapshotBomUnsaved(a) ==
    /\ At(a, "snapshot_bom")
    /\ \E bom \in {None, actors[a].version} : GotBom(a, bom)
    /\ UNCHANGED <<tables, served, calls, faults, history>>

\* generate_ml_bom builds the document and inserts the snapshot; an id the
\* caller supplied is taken instead, as it is.
SnapshotBom(a) ==
    /\ At(a, "snapshot_bom")
    /\ \/ /\ boms' = boms \cup {actors[a].version}
          /\ GotBom(a, actors[a].version)
       \/ /\ GotBom(a, None)
          /\ UNCHANGED boms
    /\ UNCHANGED <<proposals, evaluations, records, promotions, active, served,
                   calls, faults, history>>

UpsertPromotion(a) ==
    /\ At(a, "upsert_promotion")
    /\ promotions' = Append(promotions,
         [proposal |-> actors[a].proposal, record |-> actors[a].record,
          version |-> actors[a].version, previous |-> actors[a].previous,
          bom |-> actors[a].bom, rolled_back |-> FALSE])
    /\ actors' = [actors EXCEPT ![a].pc = "set_active",
                                ![a].promotion = Len(promotions) + 1]
    /\ UNCHANGED <<proposals, evaluations, records, boms, active, served,
                   calls, faults, history>>

\* set_active_version: an unconditional upsert of the tenant's pointer.
SetActiveVersion(version, promotion) ==
    active' = [version |-> version, promotion |-> promotion]

SetActive(a) ==
    /\ At(a, "set_active")
    /\ SetActiveVersion(actors[a].version, actors[a].promotion)
    /\ Goto(a, "set_promoted")
    /\ UNCHANGED <<proposals, evaluations, records, boms, promotions, served,
                   calls, faults, history>>

SetPromoted(a) ==
    /\ At(a, "set_promoted")
    /\ SaveProposal(a, "promoted")
    /\ Return(a)
    /\ UNCHANGED <<evaluations, records, boms, promotions, active, served,
                   calls, faults, history>>

---------------------------------------------------------------------------
(* rollback_promotion *)

\* get_promotion; it may be rolled back already, or not the active one.
Rollback(a, i) ==
    /\ At(a, "idle")
    /\ calls < MaxCalls
    /\ calls' = calls + 1
    /\ actors' = [actors EXCEPT ![a] =
                    [Idle EXCEPT !.pc = "mark_rolled_back", !.promotion = i,
                                 !.proposal = promotions[i].proposal,
                                 !.previous = promotions[i].previous]]
    /\ UNCHANGED <<tables, served, faults, history>>

\* Without a previous version the pointer stays.
MarkRolledBack(a) ==
    /\ At(a, "mark_rolled_back")
    /\ promotions' = [promotions EXCEPT ![actors[a].promotion].rolled_back =
                                            TRUE]
    /\ Goto(a, IF actors[a].previous = None THEN "read_rolled" ELSE "restore")
    /\ UNCHANGED <<proposals, evaluations, records, boms, active, served,
                   calls, faults, history>>

\* Mutant of RestorePrevious: the pointer does not say which promotion set it.
RestoreAnonymously(a) ==
    /\ At(a, "restore")
    /\ SetActiveVersion(actors[a].previous, 0)
    /\ Goto(a, "read_rolled")
    /\ UNCHANGED <<proposals, evaluations, records, boms, promotions, served,
                   calls, faults, history>>

RestorePrevious(a) ==
    /\ At(a, "restore")
    /\ SetActiveVersion(actors[a].previous, actors[a].promotion)
    /\ Goto(a, "read_rolled")
    /\ UNCHANGED <<proposals, evaluations, records, boms, promotions, served,
                   calls, faults, history>>

\* get_proposal once more, for the snapshot that _set_status writes back.
ReadRolled(a) ==
    /\ At(a, "read_rolled")
    /\ actors' = [actors EXCEPT ![a].pc = "set_rolled_back",
                    ![a].record = proposals[actors[a].proposal].record]
    /\ UNCHANGED <<tables, served, calls, faults, history>>

SetRolledBack(a) ==
    /\ At(a, "set_rolled_back")
    /\ SaveProposal(a, "rolled_back")
    /\ Return(a)
    /\ UNCHANGED <<evaluations, records, boms, promotions, active, served,
                   calls, faults, history>>

---------------------------------------------------------------------------
(* The running process, and faults *)

\* load_active_version_at_boot: active_version() serves this until the next
\* boot, whatever is promoted or rolled back in the meantime.
Boot ==
    /\ served' = active.version
    /\ UNCHANGED <<tables, actors, calls, faults, history>>

\* The caller dies, or a repository call (or the BOM builder) raises.
Fault(a) ==
    /\ ~At(a, "idle")
    /\ faults < MaxFaults
    /\ faults' = faults + 1
    /\ Return(a)
    /\ UNCHANGED <<tables, served, calls, history>>

Begin(a) ==
    \/ \E p \in Proposals :
         \/ Reflect(a, p)
         \/ Evaluate(a, p)
         \/ OpenApproval(a, p)
         \/ Decide(a, p)
         \/ \E v \in Versions : Promote(a, p, v)
    \/ \E i \in DOMAIN promotions : Rollback(a, i)

Continue(a) ==
    \/ UpsertEvaluation(a) \/ SetEvaluated(a)
    \/ OpenRecord(a) \/ LinkRecord(a)
    \/ RecordDecision(a) \/ SetDecided(a)
    \/ ListEvaluations(a) \/ CheckApproval(a) \/ SnapshotBom(a)
    \/ UpsertPromotion(a) \/ SetActive(a) \/ SetPromoted(a)
    \/ MarkRolledBack(a) \/ RestorePrevious(a) \/ ReadRolled(a)
    \/ SetRolledBack(a)

Next ==
    \/ \E a \in Actors : Begin(a) \/ Continue(a) \/ Fault(a)
    \/ Boot

Spec == Init /\ [][Next]_vars

---------------------------------------------------------------------------
(* Properties *)

\* A proposal whose status is "approved" names an approval record that a human
\* did approve, for exactly its identity and patch.  Every status write is of
\* a snapshot that may be stale, so the status and the record id it names have
\* to come from the same decision (_set_status, record_approval_decision).
ApprovedNamesGrant ==
    \A p \in Proposals :
        proposals[p].status = "approved" =>
            /\ proposals[p].record \in granted
            /\ records[proposals[p].record].hash = PatchHash(p)

\* Every promotion can be traced: a passing evaluation of its proposal, a
\* record that a human approved for that proposal and, unless its caller named
\* a snapshot of its own, an AI-BOM snapshot of the promoted version exist,
\* whichever calls died in between (promote_proposal).
PromotionsTraceable ==
    \A i \in DOMAIN promotions :
        LET m == promotions[i] IN
        /\ Passed(m.proposal)
        /\ m.record \in granted
        /\ records[m.record].hash.proposal = m.proposal
        /\ m.bom # None => m.bom = m.version /\ m.bom \in boms

PromotionsOf(p) == {i \in DOMAIN promotions : promotions[i].proposal = p}

\* Each promotion of a proposal has an approving decision of its own, but for
\* promote calls that overlapped another one and callers that died before the
\* proposal became "promoted": a proposal that is promoted or rolled back is
\* not promoted again on the decision it already used (promote_proposal's
\* status check; its passing evaluation and approved record still exist).
PromotionsAreDecided ==
    \A p \in Proposals :
        Cardinality(PromotionsOf(p)) <= grants[p] + overlaps + faults

\* "A fresh promotion always requires a fresh APPROVED status": every
\* promotion has an approving decision of its own, also when two promote
\* calls overlap or one dies half way.
OnePromotionPerDecision ==
    \A p \in Proposals : Cardinality(PromotionsOf(p)) <= grants[p]

\* The pipeline implements GovernedVersions: the ledger only grows, by
\* evaluated and approved proposals; the pointer only names versions of the
\* ledger entry it refers to, under any overlap of promotions and rollbacks;
\* the running process serves a version the pointer had when it booted.
Governed ==
    INSTANCE GovernedVersions WITH
        evaluated <- {p \in Proposals : Passed(p)},
        granted <- {records[r].hash.proposal : r \in granted},
        ledger <- [i \in DOMAIN promotions |->
                     [proposal |-> promotions[i].proposal,
                      version |-> promotions[i].version,
                      previous |-> promotions[i].previous]]

\* Refinement of GovernedVersions, as a property of the behaviours.
ImplementsGovernedVersions == Governed!Spec

=============================================================================
