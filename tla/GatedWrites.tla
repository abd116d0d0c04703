---------------------------- MODULE GatedWrites ----------------------------
(***************************************************************************)
(* What the approval gate promises, without tasks, messages, workers and   *)
(* call rows: an approval record binds a write to one payload and is never *)
(* bound again, a human grants a write that is bound, and what goes out    *)
(* for a write is the bound payload, once it is granted.  How often it     *)
(* goes out is not promised: messages are delivered at least once.         *)
(***************************************************************************)
EXTENDS Sequences

CONSTANTS
    Calls,      \* tool-call ids
    Payloads,   \* parameters of a gated write
    None        \* "not bound"

VARIABLES
    bound,      \* bound[c]: the payload that the record of c binds
    granted,    \* calls a human approved, at some time
    sent        \* sent[c]: what went out for c, oldest first

vars == <<bound, granted, sent>>

Init ==
    /\ bound = [c \in Calls |-> None]
    /\ granted = {}
    /\ sent = [c \in Calls |-> <<>>]

\* approvals.open_approval
Bind(c, p) ==
    /\ bound[c] = None
    /\ bound' = [bound EXCEPT ![c] = p]
    /\ UNCHANGED <<granted, sent>>

\* approvals.record_decision with "approved", the first time for this call.
Grant(c) ==
    /\ bound[c] # None
    /\ granted' = granted \cup {c}
    /\ UNCHANGED <<bound, sent>>

\* _resume_after_approval hands a write on: "the ONLY place a write executes".
Send(c) ==
    /\ c \in granted
    /\ sent' = [sent EXCEPT ![c] = Append(@, bound[c])]
    /\ UNCHANGED <<bound, granted>>

Next == \E c \in Calls : Grant(c) \/ Send(c) \/ \E p \in Payloads : Bind(c, p)

Spec == Init /\ [][Next]_vars
============================================================================
