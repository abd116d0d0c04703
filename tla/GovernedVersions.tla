-------------------------- MODULE GovernedVersions --------------------------
(***************************************************************************)
(* What the self-improvement pipeline promises, without its calls and      *)
(* tables: a capability version enters the promotion ledger only for a     *)
(* proposal that an evaluation passed and a human approved, ledger entries *)
(* are never rewritten, the active-version pointer only ever names a       *)
(* version of the ledger entry it refers to, and a running process serves  *)
(* what the pointer said when the process booted.                          *)
(***************************************************************************)
EXTENDS Naturals, Sequences

CONSTANTS
    Proposals,  \* proposal ids
    Versions,   \* capability versions
    None        \* "no version"

VARIABLES
    evaluated,  \* proposals with a passing evaluation
    granted,    \* proposals a human approved, at some time
    ledger,     \* promotions, oldest first
    active,     \* the tenant's active-version pointer
    served      \* the version the running process serves

vars == <<evaluated, granted, ledger, active, served>>

\* A ledger entry: what was promoted, and the version a rollback restores.
Entry == [proposal : Proposals, version : Versions,
          previous : Versions \cup {None}]

Init ==
    /\ evaluated = {}
    /\ granted = {}
    /\ ledger = <<>>
    /\ active = [version |-> None, promotion |-> 0]
    /\ served = None

PassEvaluation(p) ==
    /\ evaluated' = evaluated \cup {p}
    /\ UNCHANGED <<granted, ledger, active, served>>

Grant(p) ==
    /\ granted' = granted \cup {p}
    /\ UNCHANGED <<evaluated, ledger, active, served>>

Promote(e) ==
    /\ e.proposal \in evaluated \cap granted
    /\ ledger' = Append(ledger, e)
    /\ UNCHANGED <<evaluated, granted, active, served>>

\* Promotion points at the promoted version, rollback at the previous one.
Point(i, v) ==
    /\ v \in {ledger[i].version, ledger[i].previous} \ {None}
    /\ active' = [version |-> v, promotion |-> i]
    /\ UNCHANGED <<evaluated, granted, ledger, served>>

Boot ==
    /\ served' = active.version
    /\ UNCHANGED <<evaluated, granted, ledger, active>>

Next ==
    \/ \E p \in Proposals : PassEvaluation(p) \/ Grant(p)
    \/ \E e \in Entry : Promote(e)
    \/ \E i \in DOMAIN ledger, v \in Versions : Point(i, v)
    \/ Boot

Spec == Init /\ [][Next]_vars

=============================================================================
