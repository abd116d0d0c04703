-------------------------- MODULE ToolGatewayProofs --------------------------
(***************************************************************************)
(* What ToolGateway's run checks on two calls and three threads, proved    *)
(* for any number of calls, threads, processes, deliveries and crashes and *)
(* for any subset of the pack.                                             *)
(*                                                                         *)
(* Four invariants carry the proofs.  GatewayInv says what a thread that   *)
(* is inside execute has already established of its call (validated,       *)
(* dispatched, sent) and what a row or a performed write implies of it.    *)
(* DeliveryInv counts, for each call, the deliveries that may still        *)
(* perform it: every performance uses one up; SchemaInv likewise counts    *)
(* the threads that may still ask for a schema.  LoopInv says that a loop  *)
(* has left an outcome behind for every call it has passed.                *)
(***************************************************************************)
EXTENDS ToolGateway, FiniteSetTheorems, TLAPS

---------------------------------------------------------------------------
(* The catalogue *)

Apps == {"google_workspace", "hubspot", "webflow", "bitscale", "calcom",
         "clockify", "beehiiv", "composio", "nango"}

\* Every tool's dispatch key names a module.
LEMMA AdapterFound ==
  ASSUME NEW t \in Tools
  PROVE  HasAdapter(t)
<1>1. DOMAIN Route = Apps
  BY DEF Route, Apps
<1>2. \E k \in DOMAIN Route : t \in Route[k]
  BY ToolsAssumption DEF Catalogue
<1>3. Secret(t) \in DOMAIN Route
  BY <1>2 DEF Secret
<1>4. Style(t) \in {"composio_aggregator", "nango_aggregator", "direct_api"}
  BY DEF Style
<1>5. CASE Style(t) = "direct_api"
  <2>1. Provider(t) \in DOMAIN Route
    BY <1>2, <1>5 DEF Provider
  <2>2. AdapterKey(t) = Provider(t)
    BY <1>5 DEF AdapterKey
  <2> QED
    BY <2>1, <2>2 DEF HasAdapter
<1>6. CASE Style(t) = "composio_aggregator"
  BY <1>1, <1>6 DEF HasAdapter, AdapterKey, Apps
<1>7. CASE Style(t) = "nango_aggregator"
  BY <1>1, <1>7 DEF HasAdapter, AdapterKey, Apps
<1> QED
  BY <1>4, <1>5, <1>6, <1>7

LEMMA RoutesAreDisjoint ==
  ASSUME NEW k \in Apps, NEW t \in Route[k]
  PROVE  \A j \in Apps : t \in Route[j] => j = k
  BY DEF Apps, Route

\* Of a write an adapter sends the write itself or a draft of it, of a
\* draft-only tool a draft, or it sends nothing; only HubSpot's degrades to None.
LEMMA WriteRequests ==
  ASSUME NEW t \in Tools, NEW q, t \in Writes
  PROVE  /\ Request(t, q) \in {"raise", "none", "write", "draft", "bound", "named"}
         /\ t \in DraftOnly => Request(t, q) \in {"raise", "draft"}
         /\ Request(t, q) = "none" => ~sdk /\ t \in Route["hubspot"]
<1>0. ASSUME NEW k \in Apps, t \in Route[k]
      PROVE  \A j \in Apps : t \in Route[j] => j = k
  BY <1>0, RoutesAreDisjoint
<1>1. CASE t \in {"gmail_send",
                   "google_sheets_append",
                   "google_calendar_create_event",
                   "google_docs_create",
                   "google_slides_create"}
  <2>1. "google_workspace" \in Apps /\ t \in Route["google_workspace"] /\ t \notin DraftOnly
    BY <1>1 DEF Apps, Route, DraftOnly
  <2>2. Request(t, q) = GoogleRequest(t, q)
    BY <1>0, <2>1 DEF Request, Apps
  <2> QED
    BY <2>1, <2>2 DEF GoogleRequest, Form
<1>2. CASE t \in {"hubspot_create_deal"}
  <2>1. "hubspot" \in Apps /\ t \in Route["hubspot"] /\ t \notin DraftOnly
    BY <1>2 DEF Apps, Route, DraftOnly
  <2>2. Request(t, q) = HubspotRequest(t, q)
    BY <1>0, <2>1 DEF Request, Apps
  <2> QED
    BY <2>1, <2>2 DEF HubspotRequest, Form
<1>3. CASE t \in {"xero_create_invoice"}
  <2>1. "composio" \in Apps /\ t \in Route["composio"] /\ t \in DraftOnly
    BY <1>3 DEF Apps, Route, DraftOnly
  <2>2. Request(t, q) = ComposioRequest(t, q)
    BY <1>0, <2>1 DEF Request, Apps
  <2> QED
    BY <2>1, <2>2 DEF ComposioRequest
<1>4. CASE t \in {"webflow_create_cms_item"}
  <2>1. "webflow" \in Apps /\ t \in Route["webflow"] /\ t \in DraftOnly
    BY <1>4 DEF Apps, Route, DraftOnly
  <2>2. Request(t, q) = WebflowRequest(t, q)
    BY <1>0, <2>1 DEF Request, Apps
  <2> QED
    BY <2>1, <2>2 DEF WebflowRequest
<1>5. CASE t \in {"bitscale_run_grid"}
  <2>1. "bitscale" \in Apps /\ t \in Route["bitscale"] /\ t \notin DraftOnly
    BY <1>5 DEF Apps, Route, DraftOnly
  <2>2. Request(t, q) = BitscaleRequest(t, q)
    BY <1>0, <2>1 DEF Request, Apps
  <2> QED
    BY <2>1, <2>2 DEF BitscaleRequest, GridId
<1>6. CASE t \in {"calcom_create_booking"}
  <2>1. "calcom" \in Apps /\ t \in Route["calcom"] /\ t \notin DraftOnly
    BY <1>6 DEF Apps, Route, DraftOnly
  <2>2. Request(t, q) = CalcomRequest(t, q)
    BY <1>0, <2>1 DEF Request, Apps
  <2> QED
    BY <2>1, <2>2 DEF CalcomRequest
<1>7. CASE t \in {"beehiiv_create_post"}
  <2>1. "beehiiv" \in Apps /\ t \in Route["beehiiv"] /\ t \in DraftOnly
    BY <1>7 DEF Apps, Route, DraftOnly
  <2>2. Request(t, q) = BeehiivRequest(t, q)
    BY <1>0, <2>1 DEF Request, Apps
  <2> QED
    BY <2>1, <2>2 DEF BeehiivRequest
<1> QED
  BY <1>1, <1>2, <1>3, <1>4, <1>5, <1>6, <1>7 DEF Writes

Bodies == {"none", "full", "odd", "error"}
RowValues == {"stub", "input_rejected", "ok", "output_quarantined"}

\* A result is ok only of an answer, and quarantined of an odd one or of None.
LEMMA Outcomes ==
  ASSUME NEW t, NEW body \in Bodies
  PROVE  /\ Outcome(t, body) \in {"ok", "output_quarantined", "raise"}
         /\ Outcome(t, body) = "ok" => body \in {"full", "odd"}
         /\ Outcome(t, body) = "output_quarantined" => body \in {"odd", "none"}
<1>1. OddBody(t) \in {"ok", "output_quarantined", "raise"}
  <2>1. GoogleOdd(t) \in {"ok", "raise"}
    BY DEF GoogleOdd, MailAndFilesOdd, CalendarOdd, DocsOdd, SlidesOdd
  <2>2. /\ WebflowOdd(t) \in {"ok", "raise"} /\ BeehiivOdd(t) = "raise"
        /\ CalcomOdd(t) \in {"ok", "output_quarantined"}
    BY DEF WebflowOdd, BeehiivOdd, CalcomOdd
  <2> QED
    BY <2>1, <2>2 DEF OddBody
<1> QED
  BY <1>1 DEF Outcome, Bodies

---------------------------------------------------------------------------
(* The invariants *)

Steps == [pc : {"idle", "next", "execute", "list", "ask", "sent", "body", "row"},
          loop : {"none", "reads", "writes"}, call : 1..(NumCalls + 1),
          body : {"none", "full", "odd", "error",
                  "stub", "input_rejected", "ok", "output_quarantined"}]

ToolOf(c) == calls[c].tool
IsWrite(c) == ToolOf(c) \in Writes

\* What execute asks before it dispatches, and what the adapter then sends.
Reached(c) ==
    /\ ~InputRejected(ToolOf(c), calls[c].params)
    /\ Secret(ToolOf(c)) \in secrets
Sent(c) == Request(ToolOf(c), calls[c].params)

\* Its adapter degrades to None.
Degraded(c) == ~sdk /\ ToolOf(c) \in Route["hubspot"]

\* What a row's outcome implies, of a call performed n times.
RowOK(c, outcome, n) ==
    /\ outcome = "stub" => ~Reached(c) /\ Secret(ToolOf(c)) \notin secrets
    /\ outcome = "input_rejected" => ~Reached(c)
    /\ outcome = "ok" /\ IsWrite(c) => n > 0
    /\ outcome = "output_quarantined" /\ IsWrite(c) => n > 0 \/ Degraded(c)

\* What a thread at step s knows of its call, performed n times.
StepOK(s, n) ==
    LET c == s.call IN
    /\ s.pc \in {"execute", "list", "ask", "sent", "body", "row"} =>
         c \in CallIds /\ IsWrite(c) = (s.loop = "writes")
    /\ s.pc \in {"next", "execute", "list", "ask", "sent"} => s.body = "none"
    /\ s.pc \in {"list", "ask", "sent"} => Reached(c) /\ Sent(c) \notin {"raise", "none"}
    /\ s.pc \in {"list", "ask"} => ToolOf(c) \in Route["composio"]
    /\ s.pc = "body" =>
         /\ Reached(c) /\ s.body \in Bodies
         /\ s.body \in {"full", "odd"} /\ IsWrite(c) => n > 0
         /\ s.body = "none" /\ IsWrite(c) => Degraded(c)
    /\ s.pc = "row" => s.body \in RowValues /\ RowOK(c, s.body, n)

\* What a call's history at its provider implies: performed n times, in forms.
CallOK(c, n, forms, outcome) ==
    /\ n > 0 => Reached(c) /\ IsWrite(c)
    /\ forms \subseteq {"write", "draft", "bound", "named"}
    /\ ToolOf(c) \in DraftOnly => forms \subseteq {"draft"}
    /\ RowOK(c, outcome, n)

GatewayInv ==
    /\ TypeOK
    /\ \A w \in Threads : StepOK(at[w], effects[at[w].call])
    /\ \A c \in CallIds : CallOK(c, effects[c], performed[c], rows[c])

\* The deliveries of the approved task that may still perform call c.
IsAhead(s, c) ==
    /\ s.pc # "idle" /\ s.loop = "writes"
    /\ \/ s.call < c
       \/ s.call = c /\ s.pc \in {"next", "execute", "list", "ask", "sent"}
Ahead(c) == {w \in Threads : IsAhead(at[w], c)}

DeliveryInv ==
    \A c \in CallIds : effects[c] + Cardinality(Ahead(c)) <= deliveries

\* Where a loop may run, and what it has left behind: a row for each of its calls
\* before the current one.  Only one delivery runs the reads.
Settled(c) == rows[c] # "pending"
Passed(s, c) == c < s.call /\ IsWrite(c) = (s.loop = "writes")
Looping(s) ==
    /\ \/ s.loop = "reads" /\ phase = "running"
       \/ s.loop = "writes" /\ phase \in {"approved", "done"}
    /\ \A c \in CallIds : Passed(s, c) => Settled(c)

LoopInv ==
    /\ \A w \in Threads : at[w].pc # "idle" => Looping(at[w])
    /\ \A v, w \in Threads :
         at[v].pc # "idle" /\ at[w].pc # "idle"
           /\ at[v].loop = "reads" /\ at[w].loop = "reads" => v = w
    /\ phase \in {"approved", "done"} =>
         \A c \in CallIds : ~IsWrite(c) => Settled(c)
    /\ phase = "done" => \A c \in CallIds : Settled(c)

\* The threads that have missed a process's cache for a tool and have not yet
\* stored what its session answered: as many questions are still to come.
IsAsking(w, p, t) == Home[w] = p /\ at[w].pc = "ask" /\ Tool(w) = t
Asking(p, t) == {w \in Threads : IsAsking(w, p, t)}
ThreadsOf(p) == {w \in Threads : Home[w] = p}

SchemaInv ==
    \A p \in Procs : \A t \in Tools \cap Route["composio"] :
        /\ asked[p][t] + Cardinality(Asking(p, t)) <= Cardinality(ThreadsOf(p))
        /\ cache[p][t] = "unset" => asked[p][t] = 0

IInv == GatewayInv /\ DeliveryInv /\ SchemaInv /\ LoopInv

---------------------------------------------------------------------------
(* GatewayInv is inductive *)

LEMMA ToolsAreTools ==
  ASSUME TypeOK, NEW c \in CallIds
  PROVE  ToolOf(c) \in Tools
  BY DEF TypeOK, ToolOf

\* What is established of a call stays established: the rows, secrets, SDKs and
\* bindings do not change while the task runs.
LEMMA SettingKept ==
  ASSUME UNCHANGED setting
  PROVE  /\ \A c : /\ Reached(c)' = Reached(c) /\ Sent(c)' = Sent(c)
                   /\ ToolOf(c)' = ToolOf(c)
         /\ \A s, n : StepOK(s, n)' = StepOK(s, n)
         /\ \A c, n, f, o : CallOK(c, n, f, o)' = CallOK(c, n, f, o)
<1>1. calls' = calls /\ secrets' = secrets /\ sdk' = sdk /\ config' = config
  BY DEF setting
<1>2. \A t, q : Request(t, q)' = Request(t, q)
  BY <1>1
  DEF Request, GoogleRequest, HubspotRequest, WebflowRequest, BeehiivRequest,
      BitscaleRequest, GridId, CalcomRequest, ClockifyRequest, ComposioRequest,
      NangoRequest
<1>3. \A c : /\ Reached(c)' = Reached(c) /\ Sent(c)' = Sent(c)
             /\ ToolOf(c)' = ToolOf(c)
  BY <1>1, <1>2 DEF Reached, Sent, ToolOf
<1>4. \A c, o, n : RowOK(c, o, n)' = RowOK(c, o, n)
  BY <1>1, <1>3 DEF RowOK, IsWrite, Degraded
<1>5. \A s, n : StepOK(s, n)' = StepOK(s, n)
  BY <1>1, <1>3, <1>4 DEF StepOK, IsWrite, Degraded
<1>6. \A c, n, f, o : CallOK(c, n, f, o)' = CallOK(c, n, f, o)
  BY <1>3, <1>4 DEF CallOK, IsWrite
<1> QED
  BY <1>3, <1>5, <1>6

\* More performances refute nothing a thread knows.
LEMMA StepMonotone ==
  ASSUME NEW s, NEW n \in Nat, NEW m \in Nat, n <= m, StepOK(s, n)
  PROVE  StepOK(s, m)
  BY DEF StepOK, RowOK

Phases == {"fresh", "running", "approved", "done"}
Forms == {"write", "draft", "live", "bound", "named"}
RowStates == {"pending", "stub", "input_rejected", "ok", "output_quarantined"}
Caches == [Procs -> [Tools \cap Route["composio"] -> {"unset", "none", "schema"}]]
Counts == [Procs -> [Tools \cap Route["composio"] -> Nat]]
SchemasOK == cache \in Caches /\ asked \in Counts

\* A thread moves to a step that is right, and leaves the calls right.
LEMMA Move ==
  ASSUME GatewayInv, UNCHANGED setting, NEW w \in Threads, NEW s \in Steps,
         at' = [at EXCEPT ![w] = s],
         phase' \in Phases, SchemasOK',
         rows' \in [CallIds -> RowStates],
         effects' \in [CallIds -> Nat],
         performed' \in [CallIds -> SUBSET Forms],
         deliveries' \in 0..MaxDeliveries, crashes' \in 0..MaxCrashes,
         \A c \in CallIds : effects[c] <= effects'[c],
         \A c \in CallIds : CallOK(c, effects'[c], performed'[c], rows'[c]),
         StepOK(s, effects'[s.call])
  PROVE  GatewayInv'
<1>1. at \in [Threads -> Steps] /\ effects \in [CallIds -> Nat]
  BY DEF GatewayInv, TypeOK, Steps
<1>2. TypeOK'
  <2>1. at' \in [Threads -> Steps]
    BY <1>1
  <2> QED
    BY <2>1 DEF GatewayInv, TypeOK, Steps, Phases, SchemasOK, Caches, Counts,
        RowStates, Forms, setting
<1>3. ASSUME NEW q \in Threads PROVE StepOK(at'[q], effects'[at'[q].call])
  <2>1. CASE q = w
    BY <1>1, <2>1
  <2>2. CASE q # w
    <3>1. at'[q] = at[q] /\ StepOK(at[q], effects[at[q].call])
      BY <1>1, <2>2 DEF GatewayInv
    <3>2. CASE at[q].call \in CallIds
      <4>1. /\ effects[at[q].call] \in Nat /\ effects'[at[q].call] \in Nat
            /\ effects[at[q].call] <= effects'[at[q].call]
        BY <1>1, <3>2
      <4> QED
        BY <3>1, <4>1, StepMonotone
    <3>3. CASE at[q].call \notin CallIds
      BY <3>1, <3>3 DEF StepOK
    <3> QED
      BY <3>2, <3>3
  <2> QED
    BY <2>1, <2>2
<1>4. \A q \in Threads : StepOK(at[q], effects[at[q].call])'
  BY <1>3, SettingKept
<1>5. \A c \in CallIds : CallOK(c, effects[c], performed[c], rows[c])'
  BY SettingKept
<1> QED
  BY <1>2, <1>4, <1>5 DEF GatewayInv

\* A thread moves and nothing else happens to the calls.
LEMMA QuietMove ==
  ASSUME GatewayInv, NEW w \in Threads, NEW s \in Steps,
         at' = [at EXCEPT ![w] = s],
         UNCHANGED <<setting, rows, effects, performed>>,
         phase' \in Phases, SchemasOK',
         deliveries' \in 0..MaxDeliveries, crashes' \in 0..MaxCrashes,
         StepOK(s, effects[s.call])
  PROVE  GatewayInv'
<1>1. /\ rows' \in [CallIds -> RowStates]
      /\ effects' \in [CallIds -> Nat]
      /\ performed' \in [CallIds -> SUBSET Forms]
  BY DEF GatewayInv, TypeOK, RowStates, Forms
<1>2. /\ \A c \in CallIds : effects[c] <= effects'[c]
      /\ \A c \in CallIds : CallOK(c, effects'[c], performed'[c], rows'[c])
      /\ StepOK(s, effects'[s.call])
  BY <1>1 DEF GatewayInv
<1>3. UNCHANGED setting
  OBVIOUS
<1> QED
  BY <1>1, <1>2, <1>3, Move

LEMMA StepAt ==
  ASSUME GatewayInv, NEW w \in Threads
  PROVE  /\ at[w] \in Steps /\ StepOK(at[w], effects[at[w].call])
         /\ effects \in [CallIds -> Nat] /\ NumCalls \in Nat \ {0}
         /\ phase \in Phases /\ SchemasOK
         /\ deliveries \in 0..MaxDeliveries /\ crashes \in 0..MaxCrashes
         /\ rows \in [CallIds -> RowStates]
  BY NumCallsAssumption
  DEF GatewayInv, TypeOK, Steps, Phases, SchemasOK, Caches, Counts, RowStates

\* The loop: its deliveries, its calls in turn, and its end.
LEMMA LoopOK ==
  ASSUME GatewayInv, NEW w \in Threads,
         \/ DeliverFresh(w) \/ DeliverApproved(w)
         \/ SkipCall(w) \/ TakeCall(w) \/ EndLoop(w)
  PROVE  GatewayInv'
<1>1. PICK s \in Steps : at' = [at EXCEPT ![w] = s] /\ StepOK(s, effects[s.call])
  <2>1. ASSUME NEW s \in Steps, at' = [at EXCEPT ![w] = s], s.pc = "idle"
        PROVE  StepOK(s, effects[s.call])
    BY <2>1 DEF StepOK
  <2>2. ASSUME NEW s \in Steps, at' = [at EXCEPT ![w] = s],
               s.pc = "next", s.body = "none"
        PROVE  StepOK(s, effects[s.call])
    BY <2>2 DEF StepOK
  <2>3. CASE EndLoop(w)
    <3>1. at' = [at EXCEPT ![w] = Idle] /\ Idle \in Steps /\ Idle.pc = "idle"
      BY <2>3, StepAt DEF EndLoop, Go, Idle, Steps
    <3> QED
      BY <2>1, <3>1
  <2>4. CASE DeliverFresh(w) \/ DeliverApproved(w)
    <3>1. PICK loop \in {"reads", "writes"} :
            at' = [at EXCEPT ![w] = [Idle EXCEPT !.pc = "next", !.loop = loop]]
      BY <2>4 DEF DeliverFresh, DeliverApproved, Go
    <3> DEFINE s == [Idle EXCEPT !.pc = "next", !.loop = loop]
    <3>2. Idle \in Steps /\ Idle.body = "none"
      BY StepAt DEF Idle, Steps
    <3>3. s \in Steps /\ s.pc = "next" /\ s.body = "none"
      BY <3>2 DEF Steps
    <3> QED
      BY <2>2, <3>1, <3>3
  <2>5. CASE SkipCall(w)
    <3> DEFINE s == [at[w] EXCEPT !.call = @ + 1]
    <3>1. at[w].pc = "next" /\ at[w].call \in CallIds /\ at[w].body = "none"
      BY <2>5, StepAt DEF SkipCall, StepOK
    <3>2. /\ at' = [at EXCEPT ![w] = s]
          /\ s \in Steps /\ s.pc = "next" /\ s.body = "none"
      BY <2>5, <3>1, StepAt DEF SkipCall, Go, Steps, CallIds
    <3> QED
      BY <2>2, <3>2
  <2>6. CASE TakeCall(w)
    <3> DEFINE s == [at[w] EXCEPT !.pc = "execute"]
    <3>1. /\ at[w].pc = "next" /\ at[w].call \in CallIds /\ at[w].body = "none"
          /\ IsWrite(at[w].call) = (at[w].loop = "writes")
      BY <2>6, StepAt DEF TakeCall, StepOK, InLoop, IsWrite, ToolOf
    <3>2. /\ at' = [at EXCEPT ![w] = s]
          /\ s \in Steps /\ s.pc = "execute" /\ s.body = "none"
          /\ s.call = at[w].call /\ s.loop = at[w].loop
      BY <2>6, <3>1, StepAt DEF TakeCall, Go, Steps
    <3> HIDE DEF s
    <3>3. StepOK(s, effects[s.call])
      BY <3>1, <3>2 DEF StepOK
    <3> QED
      BY <3>2, <3>3
  <2> QED
    BY <2>3, <2>4, <2>5, <2>6
<1>2. /\ phase' \in Phases /\ UNCHANGED <<setting, rows, effects, performed>>
      /\ deliveries' \in 0..MaxDeliveries /\ crashes' \in 0..MaxCrashes
  BY StepAt, BoundsAssumption
  DEF DeliverFresh, DeliverApproved, SkipCall, TakeCall, EndLoop, Phases
<1>3. SchemasOK'
  BY StepAt
  DEF DeliverFresh, DeliverApproved, SkipCall, TakeCall, EndLoop,
      SchemasOK, schemas
<1> QED
  BY <1>1, <1>2, <1>3, QuietMove

\* execute up to the request: rejection, the stub, dispatch, the schema lookup.
LEMMA ExecuteOK ==
  ASSUME GatewayInv, NEW w \in Threads,
         \/ RejectInput(w) \/ Stub(w) \/ Dispatch(w)
         \/ LookUpSchema(w) \/ StoreSchema(w)
  PROVE  GatewayInv'
<1> DEFINE c == at[w].call
<1>0. /\ at[w] \in Steps /\ at[w].body = "none" /\ c \in CallIds
      /\ IsWrite(c) = (at[w].loop = "writes")
      /\ Tool(w) = ToolOf(c) /\ Params(w) = calls[c].params
      /\ ToolOf(c) \in Tools
  BY StepAt, ToolsAreTools
  DEF StepOK, RejectInput, Stub, Dispatch, LookUpSchema, StoreSchema, Tool, Params, ToolOf,
      GatewayInv
<1>1. PICK s \in Steps : at' = [at EXCEPT ![w] = s] /\ StepOK(s, effects[s.call])
  <2>1. CASE RejectInput(w)
    <3> DEFINE s == [at[w] EXCEPT !.pc = "row", !.body = "input_rejected"]
    <3>1. /\ at' = [at EXCEPT ![w] = s] /\ s \in Steps
          /\ s.pc = "row" /\ s.body = "input_rejected"
          /\ s.call = c /\ s.loop = at[w].loop
      BY <1>0, <2>1 DEF RejectInput, Answer, Go, Steps
    <3>2. ~Reached(c)
      BY <1>0, <2>1 DEF RejectInput, Reached
    <3> HIDE DEF s
    <3> QED
      BY <1>0, <3>1, <3>2 DEF StepOK, RowOK, RowValues
  <2>2. CASE Stub(w)
    <3> DEFINE s == [at[w] EXCEPT !.pc = "row", !.body = "stub"]
    <3>1. /\ at' = [at EXCEPT ![w] = s] /\ s \in Steps
          /\ s.pc = "row" /\ s.body = "stub"
          /\ s.call = c /\ s.loop = at[w].loop
      BY <1>0, <2>2 DEF Stub, Answer, Go, Steps
    <3>2. Secret(ToolOf(c)) \notin secrets
      BY <1>0, <2>2, AdapterFound DEF Stub
    <3> HIDE DEF s
    <3> QED
      BY <1>0, <3>1, <3>2 DEF StepOK, RowOK, RowValues, Reached
  <2>3. CASE Dispatch(w)
    <3>1. Reached(c) /\ Sent(c) = Request(Tool(w), Params(w))
      BY <1>0, <2>3 DEF Dispatch, Reached, Sent
    <3>2. CASE Sent(c) = "raise"
      <4>1. at' = [at EXCEPT ![w] = Idle] /\ Idle \in Steps /\ Idle.pc = "idle"
        BY <2>3, <3>1, <3>2, StepAt DEF Dispatch, Raise, Go, Idle, Steps
      <4> QED
        BY <4>1 DEF StepOK
    <3>3. CASE Sent(c) = "none"
      <4> DEFINE s == [at[w] EXCEPT !.pc = "body"]
      <4>1. /\ at' = [at EXCEPT ![w] = s] /\ s \in Steps
            /\ s.pc = "body" /\ s.body = "none"
            /\ s.call = c /\ s.loop = at[w].loop
        BY <1>0, <2>3, <3>1, <3>3 DEF Dispatch, Go, Steps
      <4>2. IsWrite(c) => Degraded(c)
        BY <1>0, <3>1, <3>3, WriteRequests DEF IsWrite, Degraded
      <4> HIDE DEF s
      <4> QED
        BY <1>0, <3>1, <4>1, <4>2 DEF StepOK, Bodies
    <3>4. CASE Sent(c) \notin {"raise", "none"}
      <4>1. PICK pc \in {"list", "sent"} :
              /\ at' = [at EXCEPT ![w] = [at[w] EXCEPT !.pc = pc]]
              /\ pc = "list" => ToolOf(c) \in Route["composio"]
        BY <1>0, <2>3, <3>1, <3>4 DEF Dispatch, Go
      <4> DEFINE s == [at[w] EXCEPT !.pc = pc]
      <4>2. /\ at' = [at EXCEPT ![w] = s] /\ s \in Steps
            /\ s.pc = pc /\ s.body = "none"
            /\ s.call = c /\ s.loop = at[w].loop
        BY <1>0, <4>1 DEF Steps
      <4> HIDE DEF s
      <4> QED
        BY <1>0, <3>1, <3>4, <4>1, <4>2 DEF StepOK
    <3> QED
      BY <3>2, <3>3, <3>4
  <2>4. CASE LookUpSchema(w) \/ StoreSchema(w)
    <3>1. PICK pc \in {"ask", "sent"} : at' = [at EXCEPT ![w] = [at[w] EXCEPT !.pc = pc]]
      BY <2>4 DEF LookUpSchema, StoreSchema, Go
    <3> DEFINE s == [at[w] EXCEPT !.pc = pc]
    <3>2. /\ at' = [at EXCEPT ![w] = s] /\ s \in Steps
          /\ s.pc = pc /\ s.body = "none"
          /\ s.call = c /\ s.loop = at[w].loop
      BY <1>0, <3>1 DEF Steps
    <3>3. /\ Reached(c) /\ Sent(c) \notin {"raise", "none"}
          /\ ToolOf(c) \in Route["composio"]
      BY <2>4, StepAt DEF LookUpSchema, StoreSchema, StepOK
    <3> HIDE DEF s
    <3> QED
      BY <1>0, <3>1, <3>2, <3>3 DEF StepOK
  <2> QED
    BY <2>1, <2>2, <2>3, <2>4
<1>2. /\ UNCHANGED <<setting, rows, effects, performed>>
      /\ phase' \in Phases
      /\ deliveries' \in 0..MaxDeliveries /\ crashes' \in 0..MaxCrashes
  BY StepAt DEF RejectInput, Stub, Dispatch, LookUpSchema, StoreSchema
<1>3. SchemasOK'
  <2>0. SchemasOK
    BY StepAt
  <2>1. CASE StoreSchema(w)
    <3>1. Tool(w) \in Tools \cap Route["composio"] /\ Home[w] \in Procs
      BY <1>0, <2>1, StepAt, ThreadsAssumption DEF StoreSchema, StepOK
    <3>2. PICK found \in {"none", "schema"} :
            cache' = [cache EXCEPT ![Home[w]][Tool(w)] = found]
      BY <2>1 DEF StoreSchema
    <3>3. asked' = [asked EXCEPT ![Home[w]][Tool(w)] = @ + 1]
      BY <2>1 DEF StoreSchema
    <3> DEFINE mine == [cache[Home[w]] EXCEPT ![Tool(w)] = found]
               count == [asked[Home[w]] EXCEPT ![Tool(w)] = @ + 1]
    <3>4. /\ mine \in [Tools \cap Route["composio"] -> {"unset", "none", "schema"}]
          /\ count \in [Tools \cap Route["composio"] -> Nat]
      BY <2>0, <3>1 DEF SchemasOK, Caches, Counts
    <3>5. /\ cache' = [cache EXCEPT ![Home[w]] = mine]
          /\ asked' = [asked EXCEPT ![Home[w]] = count]
      BY <3>2, <3>3
    <3> HIDE DEF mine, count
    <3> QED
      BY <2>0, <3>1, <3>4, <3>5 DEF SchemasOK, Caches, Counts
  <2>2. CASE ~StoreSchema(w)
    BY <2>0, <2>2 DEF RejectInput, Stub, Dispatch, LookUpSchema, SchemasOK, schemas
  <2> QED
    BY <2>1, <2>2
<1> QED
  BY <1>1, <1>2, <1>3, QuietMove

\* What the provider did is known of the call before its answer is read.
LEMMA ProviderOK ==
  ASSUME GatewayInv, NEW w \in Threads, ProviderAnswers(w)
  PROVE  GatewayInv'
<1> DEFINE c == at[w].call
<1>0. /\ at[w] \in Steps /\ c \in CallIds
      /\ IsWrite(c) = (at[w].loop = "writes")
      /\ Tool(w) = ToolOf(c) /\ Sent(c) = Request(Tool(w), Params(w))
      /\ ToolOf(c) \in Tools
      /\ Reached(c) /\ Sent(c) \notin {"raise", "none"}
  BY StepAt, ToolsAreTools
  DEF StepOK, ProviderAnswers, Tool, Params, ToolOf, Sent, GatewayInv
<1>1. PICK b \in {"full", "odd", "error"}, done \in BOOLEAN :
        /\ b \in {"full", "odd"} => done
        /\ at' = [at EXCEPT ![w] = [at[w] EXCEPT !.pc = "body", !.body = b]]
        /\ IF done /\ Tool(w) \in Writes
           THEN /\ effects' = [effects EXCEPT ![c] = @ + 1]
                /\ performed' = [performed EXCEPT ![c] =
                                    @ \cup {Request(Tool(w), Params(w))}]
           ELSE UNCHANGED <<effects, performed>>
  BY DEF ProviderAnswers, Go
<1> DEFINE s == [at[w] EXCEPT !.pc = "body", !.body = b]
<1>2. /\ at' = [at EXCEPT ![w] = s] /\ s \in Steps
      /\ s.pc = "body" /\ s.body = b
      /\ s.call = c /\ s.loop = at[w].loop
  BY <1>0, <1>1 DEF Steps
<1> HIDE DEF s
<1>3. /\ UNCHANGED <<setting, rows, phase, schemas, deliveries, crashes>>
      /\ effects \in [CallIds -> Nat]
      /\ performed \in [CallIds -> SUBSET Forms]
      /\ \A k \in CallIds : CallOK(k, effects[k], performed[k], rows[k])
  BY DEF ProviderAnswers, GatewayInv, TypeOK, Forms
<1>4. CASE done /\ Tool(w) \in Writes
  <2>1. /\ effects' = [effects EXCEPT ![c] = @ + 1]
        /\ performed' = [performed EXCEPT ![c] = @ \cup {Sent(c)}]
    BY <1>0, <1>1, <1>4
  <2>2. IsWrite(c) /\ Sent(c) \in {"write", "draft", "bound", "named"}
        /\ (ToolOf(c) \in DraftOnly => Sent(c) = "draft")
    BY <1>0, <1>4, WriteRequests DEF IsWrite
  <2>3. /\ effects' \in [CallIds -> Nat] /\ effects'[c] > 0
        /\ \A k \in CallIds : effects[k] <= effects'[k]
    BY <1>0, <1>3, <2>1
  <2>4. performed' \in [CallIds -> SUBSET Forms]
    BY <1>0, <1>3, <2>1, <2>2 DEF Forms
  <2>5. ASSUME NEW k \in CallIds
        PROVE  CallOK(k, effects'[k], performed'[k], rows'[k])
    <3>1. CallOK(k, effects[k], performed[k], rows[k]) /\ rows'[k] = rows[k]
          /\ effects[k] \in Nat
      BY <1>3
    <3>2. CASE k = c
      <4>1. effects'[k] = effects[k] + 1 /\ performed'[k] = performed[k] \cup {Sent(c)}
        BY <1>3, <2>1, <3>2
      <4> QED
        BY <1>0, <2>2, <3>1, <3>2, <4>1 DEF CallOK, RowOK
    <3>3. CASE k # c
      <4>1. effects'[k] = effects[k] /\ performed'[k] = performed[k]
        BY <1>3, <2>1, <3>3
      <4> QED
        BY <3>1, <4>1
    <3> QED
      BY <3>2, <3>3
  <2>6. StepOK(s, effects'[s.call])
    BY <1>0, <1>2, <2>3 DEF StepOK, Bodies
  <2> QED
    BY <1>2, <1>3, <2>3, <2>4, <2>5, <2>6, StepAt, Move DEF schemas, SchemasOK
<1>5. CASE ~(done /\ Tool(w) \in Writes)
  <2>1. UNCHANGED <<effects, performed>>
    BY <1>1, <1>5
  <2>2. b \in {"full", "odd"} => ~IsWrite(c)
    BY <1>0, <1>1, <1>5 DEF IsWrite
  <2>3. StepOK(s, effects[s.call])
    BY <1>0, <1>2, <2>2 DEF StepOK, Bodies
  <2> QED
    BY <1>2, <1>3, <2>1, <2>3, StepAt, QuietMove DEF schemas, SchemasOK
<1> QED
  BY <1>4, <1>5

LEMMA ResultOK ==
  ASSUME GatewayInv, NEW w \in Threads, MapResult(w)
  PROVE  GatewayInv'
<1> DEFINE c == at[w].call
           o == Outcome(Tool(w), at[w].body)
<1>0. /\ at[w] \in Steps /\ c \in CallIds /\ at[w].body \in Bodies
      /\ IsWrite(c) = (at[w].loop = "writes") /\ Reached(c)
      /\ at[w].body \in {"full", "odd"} /\ IsWrite(c) => effects[c] > 0
      /\ at[w].body = "none" /\ IsWrite(c) => Degraded(c)
  BY StepAt DEF StepOK, MapResult
<1>1. /\ o \in {"ok", "output_quarantined", "raise"}
      /\ o = "ok" => at[w].body \in {"full", "odd"}
      /\ o = "output_quarantined" => at[w].body \in {"odd", "none"}
  BY <1>0, Outcomes
<1>2. PICK s \in Steps : at' = [at EXCEPT ![w] = s] /\ StepOK(s, effects[s.call])
  <2>1. CASE o = "raise"
    <3>1. at' = [at EXCEPT ![w] = Idle] /\ Idle \in Steps /\ Idle.pc = "idle"
      BY <2>1, StepAt DEF MapResult, Raise, Go, Idle, Steps
    <3> QED
      BY <3>1 DEF StepOK
  <2>2. CASE o # "raise"
    <3> DEFINE s == [at[w] EXCEPT !.pc = "row", !.body = o]
    <3>1. /\ at' = [at EXCEPT ![w] = s]
      BY <2>2 DEF MapResult, Answer, Go
    <3> HIDE DEF o
    <3>2. /\ s \in Steps /\ s.pc = "row" /\ s.body = o
          /\ s.call = c /\ s.loop = at[w].loop
      BY <1>0, <1>1, <2>2 DEF Steps
    <3> HIDE DEF s
    <3> QED
      BY <1>0, <1>1, <2>2, <3>1, <3>2 DEF StepOK, RowOK, RowValues
  <2> QED
    BY <2>1, <2>2
<1>3. UNCHANGED <<setting, rows, effects, performed, phase, schemas, deliveries,
                  crashes>>
  BY DEF MapResult
<1> QED
  BY <1>2, <1>3, StepAt, QuietMove DEF schemas, SchemasOK

LEMMA RecordOK ==
  ASSUME GatewayInv, NEW w \in Threads, RecordRow(w)
  PROVE  GatewayInv'
<1> DEFINE c == at[w].call
           s == [at[w] EXCEPT !.pc = "next", !.call = @ + 1, !.body = "none"]
<1>0. /\ at[w] \in Steps /\ c \in CallIds /\ at[w].body \in RowValues
      /\ RowOK(c, at[w].body, effects[c])
  BY StepAt DEF StepOK, RecordRow
<1>1. /\ at' = [at EXCEPT ![w] = s]
      /\ rows' = [rows EXCEPT ![c] = at[w].body]
      /\ UNCHANGED <<setting, effects, performed, phase, schemas, deliveries,
                     crashes>>
  BY DEF RecordRow, Go
<1>2. s \in Steps /\ s.pc = "next" /\ s.body = "none"
  <2>1. at[w].call + 1 \in 1..(NumCalls + 1)
    BY <1>0, NumCallsAssumption DEF CallIds
  <2> QED
    BY <1>0, <2>1 DEF Steps
<1> HIDE DEF s
<1>3. StepOK(s, effects'[s.call])
  BY <1>2 DEF StepOK
<1>4. /\ effects \in [CallIds -> Nat]
      /\ performed \in [CallIds -> SUBSET Forms]
      /\ \A k \in CallIds : CallOK(k, effects[k], performed[k], rows[k])
      /\ rows \in [CallIds -> RowStates]
  BY StepAt DEF GatewayInv, TypeOK, Forms
<1>5. rows' \in [CallIds -> RowStates]
  BY <1>0, <1>1, <1>4 DEF RowValues, RowStates
<1>6. ASSUME NEW k \in CallIds
      PROVE  CallOK(k, effects'[k], performed'[k], rows'[k])
  <2>1. CASE k = c
    BY <1>0, <1>1, <1>4, <2>1 DEF CallOK
  <2>2. CASE k # c
    BY <1>0, <1>1, <1>4, <2>2 DEF CallOK
  <2> QED
    BY <2>1, <2>2
<1>7. /\ \A k \in CallIds : effects[k] <= effects'[k]
      /\ effects' \in [CallIds -> Nat]
      /\ performed' \in [CallIds -> SUBSET Forms]
  BY <1>1, <1>4
<1>8. UNCHANGED setting /\ UNCHANGED <<phase, schemas, deliveries, crashes>>
  BY <1>1
<1> QED
  BY <1>1, <1>2, <1>3, <1>5, <1>6, <1>7, <1>8, StepAt, Move DEF schemas, SchemasOK

\* A death takes the threads of a process out of their calls, and its schemas.
LEMMA CrashOK ==
  ASSUME GatewayInv, NEW p \in Procs, Crash(p)
  PROVE  GatewayInv'
<1>1. at \in [Threads -> Steps] /\ Idle \in Steps /\ Idle.pc = "idle" /\ SchemasOK
  <2>1. at \in [Threads -> Steps] /\ SchemasOK
    BY DEF GatewayInv, TypeOK, Steps, SchemasOK, Caches, Counts
  <2>2. Idle \in Steps /\ Idle.pc = "idle"
    BY NumCallsAssumption DEF Idle, Steps
  <2> QED
    BY <2>1, <2>2
<1>2. /\ at' = [w \in Threads |-> IF Home[w] = p THEN Idle ELSE at[w]]
      /\ UNCHANGED <<setting, phase, rows, effects, performed, deliveries>>
      /\ UNCHANGED setting /\ crashes' \in 0..MaxCrashes
  BY BoundsAssumption DEF Crash, GatewayInv, TypeOK
<1>3. SchemasOK'
  <2>1. /\ NoSchemas \in [Tools \cap Route["composio"] -> {"unset", "none", "schema"}]
        /\ NotAsked \in [Tools \cap Route["composio"] -> Nat]
    BY DEF NoSchemas, NotAsked
  <2> QED
    BY <1>1, <2>1 DEF Crash, SchemasOK, Caches, Counts
<1>4. TypeOK'
  <2>1. at' \in [Threads -> Steps]
    BY <1>1, <1>2
  <2> QED
    BY <1>2, <1>3, <2>1 DEF GatewayInv, TypeOK, Steps, SchemasOK, Caches, Counts, setting
<1>5. ASSUME NEW w \in Threads PROVE StepOK(at'[w], effects'[at'[w].call])
  <2>1. at'[w] = Idle \/ at'[w] = at[w]
    BY <1>2
  <2>2. StepOK(Idle, effects'[Idle.call])
    BY <1>1 DEF StepOK
  <2> QED
    BY <1>2, <2>1, <2>2 DEF GatewayInv
<1>6. \A w \in Threads : StepOK(at[w], effects[at[w].call])'
  BY <1>2, <1>5, SettingKept
<1>7. \A c \in CallIds : CallOK(c, effects[c], performed[c], rows[c])'
  BY <1>2, SettingKept DEF GatewayInv
<1> QED
  BY <1>4, <1>6, <1>7 DEF GatewayInv

LEMMA GatewayInit == Init => GatewayInv
<1> SUFFICES ASSUME Init PROVE GatewayInv
  OBVIOUS
<1>1. TypeOK
  <2>1. Idle \in Steps
    BY NumCallsAssumption DEF Idle, Steps
  <2>2. secrets \subseteq {Secret(t) : t \in Tools}
    BY DEF Init
  <2> QED
    BY <2>1, <2>2, BoundsAssumption
    DEF Init, TypeOK, Steps, NoSchemas, NotAsked
<1>2. \A w \in Threads : StepOK(at[w], effects[at[w].call])
  BY DEF Init, StepOK, Idle
<1>3. \A c \in CallIds : CallOK(c, effects[c], performed[c], rows[c])
  BY DEF Init, CallOK, RowOK
<1> QED
  BY <1>1, <1>2, <1>3 DEF GatewayInv

LEMMA GatewayNext == GatewayInv /\ [Next]_vars => GatewayInv'
<1> SUFFICES ASSUME GatewayInv, [Next]_vars PROVE GatewayInv'
  OBVIOUS
<1>1. ASSUME NEW w \in Threads,
             \/ DeliverFresh(w) \/ DeliverApproved(w)
             \/ SkipCall(w) \/ TakeCall(w) \/ EndLoop(w) \/ RecordRow(w)
             \/ RejectInput(w) \/ Stub(w) \/ Dispatch(w)
             \/ LookUpSchema(w) \/ StoreSchema(w)
             \/ ProviderAnswers(w) \/ MapResult(w)
      PROVE  GatewayInv'
  BY <1>1, LoopOK, ExecuteOK, ProviderOK, ResultOK, RecordOK
<1>2. CASE UNCHANGED vars
  <2>1. /\ UNCHANGED setting
        /\ UNCHANGED <<phase, at, schemas, rows, effects, performed, deliveries,
                       crashes>>
    BY <1>2 DEF vars, setting, schemas
  <2>2. TypeOK'
    BY <2>1 DEF GatewayInv, TypeOK, setting, schemas
  <2>3. \A w \in Threads : StepOK(at[w], effects[at[w].call])'
    BY <2>1, SettingKept DEF GatewayInv
  <2>4. \A c \in CallIds : CallOK(c, effects[c], performed[c], rows[c])'
    BY <2>1, SettingKept DEF GatewayInv
  <2> QED
    BY <2>2, <2>3, <2>4 DEF GatewayInv
<1> QED
  BY <1>1, <1>2, CrashOK DEF Next

\* What a thread inside execute relies on of its call, and what a row and a
\* performed write imply, holds in every reachable state.
THEOREM GatewayInvariance == Spec => []GatewayInv
  BY GatewayInit, GatewayNext, PTL DEF Spec

---------------------------------------------------------------------------
(* DeliveryInv is inductive *)

LEMMA AheadFinite ==
  ASSUME NEW c
  PROVE  IsFiniteSet(Ahead(c)) /\ Cardinality(Ahead(c)) \in Nat
<1>1. Ahead(c) \subseteq Threads
  BY DEF Ahead
<1> QED
  BY <1>1, ThreadsAssumption, FS_Subset, FS_CardinalityType

\* A thread that moves without starting a delivery is ahead of no more calls.
LEMMA AheadShrinks ==
  ASSUME at \in [Threads -> Steps], NEW w \in Threads, NEW s,
         at' = [at EXCEPT ![w] = s], NEW c,
         IsAhead(s, c) => IsAhead(at[w], c)
  PROVE  /\ Ahead(c)' \subseteq Ahead(c)
         /\ Cardinality(Ahead(c)') <= Cardinality(Ahead(c))
         /\ Cardinality(Ahead(c)') \in Nat
<1>1. Ahead(c)' \subseteq Ahead(c)
  <2>1. \A q \in Threads : IsAhead(at'[q], c) => IsAhead(at[q], c)
    OBVIOUS
  <2> QED
    BY <2>1 DEF Ahead, IsAhead
<1>2. IsFiniteSet(Ahead(c)')
  BY <1>1, AheadFinite, FS_Subset
<1> QED
  BY <1>1, <1>2, AheadFinite, FS_Subset, FS_CardinalityType

Unperformed == {"next", "execute", "list", "ask", "sent"}

\* The moves inside a delivery.
LEMMA DeliveryMoves ==
  ASSUME GatewayInv, NEW w \in Threads,
         \/ DeliverFresh(w) \/ SkipCall(w) \/ TakeCall(w) \/ EndLoop(w)
         \/ RecordRow(w) \/ RejectInput(w) \/ Stub(w) \/ Dispatch(w)
         \/ LookUpSchema(w) \/ StoreSchema(w) \/ ProviderAnswers(w) \/ MapResult(w)
  PROVE  \E s : /\ at' = [at EXCEPT ![w] = s]
                /\ \A c \in CallIds : IsAhead(s, c) => IsAhead(at[w], c)
<1>0. at[w] \in Steps /\ \A c \in CallIds : c \in Nat
  BY StepAt DEF CallIds
<1>1. CASE \/ EndLoop(w)
           \/ Dispatch(w) /\ at' = [at EXCEPT ![w] = Idle]
           \/ MapResult(w) /\ at' = [at EXCEPT ![w] = Idle]
  <2>1. at' = [at EXCEPT ![w] = Idle]
    BY <1>1 DEF EndLoop, Go
  <2>2. \A c \in CallIds : ~IsAhead(Idle, c)
    BY DEF IsAhead, Idle
  <2> QED
    BY <2>1, <2>2
<1>2. CASE DeliverFresh(w)
  <2> DEFINE s == [Idle EXCEPT !.pc = "next", !.loop = "reads"]
  <2>1. at' = [at EXCEPT ![w] = s] /\ s.loop = "reads"
    BY <1>2 DEF DeliverFresh, Go, Idle
  <2> HIDE DEF s
  <2> QED
    BY <2>1 DEF IsAhead
<1>3. CASE SkipCall(w) \/ RecordRow(w)
  <2> DEFINE s == [at[w] EXCEPT !.call = @ + 1]
             r == [at[w] EXCEPT !.pc = "next", !.call = @ + 1, !.body = "none"]
  <2>1. /\ at' = [at EXCEPT ![w] = s] \/ at' = [at EXCEPT ![w] = r]
        /\ at[w].pc # "idle"
    BY <1>3 DEF SkipCall, RecordRow, Go
  <2>2. /\ s.call = at[w].call + 1 /\ s.loop = at[w].loop
        /\ r.call = at[w].call + 1 /\ r.loop = at[w].loop
        /\ at[w].call \in Nat
    BY <1>0 DEF Steps
  <2> HIDE DEF s, r
  <2>3. \A c \in CallIds : /\ IsAhead(s, c) => IsAhead(at[w], c)
                           /\ IsAhead(r, c) => IsAhead(at[w], c)
    BY <1>0, <2>1, <2>2 DEF IsAhead
  <2> QED
    BY <2>1, <2>3
<1>4. ASSUME NEW s, at' = [at EXCEPT ![w] = s], at[w].pc # "idle",
             s.call = at[w].call, s.loop = at[w].loop,
             s.pc \in Unperformed => at[w].pc \in Unperformed
      PROVE  \A c \in CallIds : IsAhead(s, c) => IsAhead(at[w], c)
  BY <1>4 DEF IsAhead, Unperformed
<1>5. CASE TakeCall(w) \/ LookUpSchema(w) \/ StoreSchema(w)
  <2>1. PICK pc \in {"execute", "ask", "sent"} :
          /\ at' = [at EXCEPT ![w] = [at[w] EXCEPT !.pc = pc]]
          /\ at[w].pc \in {"next", "list", "ask"}
    BY <1>5 DEF TakeCall, LookUpSchema, StoreSchema, Go
  <2> DEFINE s == [at[w] EXCEPT !.pc = pc]
  <2>2. /\ at' = [at EXCEPT ![w] = s]
        /\ s.call = at[w].call /\ s.loop = at[w].loop
    BY <1>0, <2>1 DEF Steps
  <2> HIDE DEF s
  <2> QED
    BY <1>4, <2>1, <2>2 DEF Unperformed
<1>6. CASE RejectInput(w) \/ Stub(w) \/ ProviderAnswers(w)
  <2>1. PICK pc \in {"row", "body"}, body \in Bodies \cup RowValues :
          /\ at' = [at EXCEPT ![w] = [at[w] EXCEPT !.pc = pc, !.body = body]]
          /\ at[w].pc # "idle"
    BY <1>6 DEF RejectInput, Stub, ProviderAnswers, Answer, Go, Bodies, RowValues
  <2> DEFINE s == [at[w] EXCEPT !.pc = pc, !.body = body]
  <2>2. /\ at' = [at EXCEPT ![w] = s] /\ s.pc = pc
        /\ s.call = at[w].call /\ s.loop = at[w].loop
    BY <1>0, <2>1 DEF Steps
  <2> HIDE DEF s
  <2> QED
    BY <1>4, <2>1, <2>2 DEF Unperformed
<1>7. CASE Dispatch(w) /\ at' # [at EXCEPT ![w] = Idle]
  <2> DEFINE step == IF Request(Tool(w), Params(w)) = "none" THEN "body"
                     ELSE IF Tool(w) \in Route["composio"] THEN "list"
                     ELSE "sent"
             s == [at[w] EXCEPT !.pc = step]
  <2>1. at' = [at EXCEPT ![w] = s] /\ at[w].pc = "execute"
    BY <1>7 DEF Dispatch, Raise, Go
  <2>2. s.call = at[w].call /\ s.loop = at[w].loop
    BY <1>0 DEF Steps
  <2> HIDE DEF s
  <2> QED
    BY <1>4, <2>1, <2>2 DEF Unperformed
<1>8. CASE MapResult(w) /\ at' # [at EXCEPT ![w] = Idle]
  <2> DEFINE o == Outcome(Tool(w), at[w].body)
             s == [at[w] EXCEPT !.pc = "row", !.body = o]
  <2>1. at' = [at EXCEPT ![w] = s] /\ at[w].pc = "body"
    BY <1>8 DEF MapResult, Raise, Answer, Go
  <2>2. s.pc = "row" /\ s.call = at[w].call /\ s.loop = at[w].loop
    BY <1>0 DEF Steps
  <2> HIDE DEF s
  <2> QED
    BY <1>4, <2>1, <2>2 DEF Unperformed
<1> QED
  BY <1>1, <1>2, <1>3, <1>5, <1>6, <1>7, <1>8

\* A delivery may perform each call once more; a performance ends that.
LEMMA DeliveryNext == IInv /\ [Next]_vars => DeliveryInv'
<1> SUFFICES ASSUME GatewayInv, DeliveryInv, [Next]_vars PROVE DeliveryInv'
  BY DEF IInv
<1>0. /\ at \in [Threads -> Steps] /\ effects \in [CallIds -> Nat]
      /\ deliveries \in Nat
      /\ \A c \in CallIds : effects[c] + Cardinality(Ahead(c)) <= deliveries
  BY DEF GatewayInv, TypeOK, Steps, DeliveryInv
<1>1. ASSUME NEW w \in Threads,
             \/ DeliverFresh(w) \/ SkipCall(w) \/ TakeCall(w) \/ EndLoop(w)
             \/ RecordRow(w) \/ RejectInput(w) \/ Stub(w) \/ Dispatch(w)
             \/ LookUpSchema(w) \/ StoreSchema(w) \/ MapResult(w)
      PROVE  DeliveryInv'
  <2>1. effects' = effects /\ deliveries' = deliveries
    BY <1>1
    DEF DeliverFresh, SkipCall, TakeCall, EndLoop, RecordRow, RejectInput,
        Stub, Dispatch, LookUpSchema, StoreSchema, MapResult
  <2>2. PICK s : /\ at' = [at EXCEPT ![w] = s]
                 /\ \A c \in CallIds : IsAhead(s, c) => IsAhead(at[w], c)
    BY <1>1, DeliveryMoves
  <2>3. ASSUME NEW c \in CallIds
        PROVE  effects'[c] + Cardinality(Ahead(c)') <= deliveries'
    <3>1. /\ Cardinality(Ahead(c)') <= Cardinality(Ahead(c))
          /\ Cardinality(Ahead(c)') \in Nat
      BY <1>0, <2>2, AheadShrinks
    <3>2. Cardinality(Ahead(c)) \in Nat /\ effects[c] \in Nat
      BY <1>0, AheadFinite
    <3> QED
      BY <1>0, <2>1, <3>1, <3>2
  <2> QED
    BY <2>3 DEF DeliveryInv
<1>2. ASSUME NEW w \in Threads, ProviderAnswers(w)
      PROVE  DeliveryInv'
  <2> DEFINE k == at[w].call
  <2>1. /\ deliveries' = deliveries /\ k \in CallIds
        /\ IsWrite(k) = (at[w].loop = "writes")
        /\ at[w].pc = "sent" /\ Tool(w) = ToolOf(k)
    BY <1>2, StepAt DEF ProviderAnswers, StepOK, Tool, ToolOf
  <2>2. PICK s : /\ at' = [at EXCEPT ![w] = s]
                 /\ \A c \in CallIds : IsAhead(s, c) => IsAhead(at[w], c)
    BY <1>2, DeliveryMoves
  <2>3. ASSUME NEW c \in CallIds
        PROVE  effects'[c] + Cardinality(Ahead(c)') <= deliveries'
    <3>1. /\ Cardinality(Ahead(c)') <= Cardinality(Ahead(c))
          /\ Cardinality(Ahead(c)') \in Nat /\ Ahead(c)' \subseteq Ahead(c)
      BY <1>0, <2>2, AheadShrinks
    <3>2. Cardinality(Ahead(c)) \in Nat /\ effects[c] \in Nat
      BY <1>0, AheadFinite
    <3>3. CASE effects'[c] = effects[c]
      BY <1>0, <2>1, <3>1, <3>2, <3>3
    <3>4. CASE effects'[c] # effects[c]
      <4>1. c = k /\ effects'[c] = effects[c] + 1 /\ Tool(w) \in Writes
        BY <1>0, <1>2, <2>1, <3>4 DEF ProviderAnswers
      <4>2. w \in Ahead(c)
        BY <2>1, <4>1 DEF Ahead, IsAhead, IsWrite
      <4>3. w \notin Ahead(c)'
        <5>1. PICK b : at' = [at EXCEPT ![w] = [at[w] EXCEPT !.pc = "body", !.body = b]]
          BY <1>2 DEF ProviderAnswers, Go
        <5>2. at'[w].pc = "body" /\ at'[w].call = k
          BY <1>0, <5>1 DEF Steps
        <5>3. ~(k < k)
          BY <2>1 DEF CallIds
        <5> QED
          BY <4>1, <5>2, <5>3 DEF Ahead, IsAhead
      <4>4. Cardinality(Ahead(c)') <= Cardinality(Ahead(c) \ {w})
        <5>1. Ahead(c)' \subseteq Ahead(c) \ {w} /\ IsFiniteSet(Ahead(c) \ {w})
          BY <3>1, <4>3, AheadFinite, FS_Subset
        <5> QED
          BY <5>1, FS_Subset
      <4>5. Cardinality(Ahead(c) \ {w}) = Cardinality(Ahead(c)) - 1
        BY <4>2, AheadFinite, FS_RemoveElement
      <4> QED
        BY <1>0, <2>1, <3>1, <3>2, <4>1, <4>4, <4>5
    <3> QED
      BY <3>3, <3>4
  <2> QED
    BY <2>3 DEF DeliveryInv
<1>3. ASSUME NEW w \in Threads, DeliverApproved(w)
      PROVE  DeliveryInv'
  <2>1. /\ deliveries' = deliveries + 1 /\ effects' = effects
        /\ \A q \in Threads : q # w => at'[q] = at[q]
    BY <1>0, <1>3 DEF DeliverApproved, Go
  <2>2. ASSUME NEW c \in CallIds
        PROVE  effects'[c] + Cardinality(Ahead(c)') <= deliveries'
    <3>1. Ahead(c)' \subseteq Ahead(c) \cup {w}
      BY <2>1 DEF Ahead, IsAhead
    <3>2. /\ IsFiniteSet(Ahead(c) \cup {w})
          /\ Cardinality(Ahead(c) \cup {w}) <= Cardinality(Ahead(c)) + 1
          /\ Cardinality(Ahead(c) \cup {w}) \in Nat
      <4>1. IsFiniteSet(Ahead(c)) /\ Cardinality(Ahead(c)) \in Nat
        BY AheadFinite
      <4>2. /\ IsFiniteSet(Ahead(c) \cup {w})
            /\ \/ Cardinality(Ahead(c) \cup {w}) = Cardinality(Ahead(c))
               \/ Cardinality(Ahead(c) \cup {w}) = Cardinality(Ahead(c)) + 1
        BY <4>1, FS_AddElement
      <4> QED
        BY <4>1, <4>2
    <3>3. /\ Cardinality(Ahead(c)') <= Cardinality(Ahead(c) \cup {w})
          /\ Cardinality(Ahead(c)') \in Nat
      BY <3>1, <3>2, FS_Subset, FS_CardinalityType
    <3>4. Cardinality(Ahead(c)) \in Nat /\ effects[c] \in Nat
      BY <1>0, AheadFinite
    <3> QED
      BY <1>0, <2>1, <3>2, <3>3, <3>4
  <2> QED
    BY <2>2 DEF DeliveryInv
<1>4. CASE UNCHANGED vars
  <2>1. effects' = effects /\ deliveries' = deliveries /\ at' = at
    BY <1>4 DEF vars
  <2> QED
    BY <1>0, <2>1 DEF DeliveryInv, Ahead, IsAhead
<1>5. ASSUME NEW p \in Procs, Crash(p)
      PROVE  DeliveryInv'
  <2>1. /\ effects' = effects /\ deliveries' = deliveries
        /\ at' = [w \in Threads |-> IF Home[w] = p THEN Idle ELSE at[w]]
    BY <1>5 DEF Crash
  <2>2. ASSUME NEW c \in CallIds
        PROVE  effects'[c] + Cardinality(Ahead(c)') <= deliveries'
    <3>1. Ahead(c)' \subseteq Ahead(c)
      BY <2>1 DEF Ahead, IsAhead, Idle
    <3>2. Cardinality(Ahead(c)') <= Cardinality(Ahead(c)) /\ Cardinality(Ahead(c)') \in Nat
      BY <3>1, AheadFinite, FS_Subset, FS_CardinalityType
    <3>3. Cardinality(Ahead(c)) \in Nat /\ effects[c] \in Nat
      BY <1>0, AheadFinite
    <3> QED
      BY <1>0, <2>1, <3>2, <3>3
  <2> QED
    BY <2>2 DEF DeliveryInv
<1> QED
  BY <1>1, <1>2, <1>3, <1>4, <1>5 DEF Next

LEMMA DeliveryInit == Init => DeliveryInv
<1> SUFFICES ASSUME Init, NEW c \in CallIds
             PROVE  effects[c] + Cardinality(Ahead(c)) <= deliveries
  BY DEF DeliveryInv
<1>1. Ahead(c) = {}
  BY DEF Init, Ahead, IsAhead, Idle
<1>2. Cardinality(Ahead(c)) = 0
  BY <1>1, FS_EmptySet
<1> QED
  BY <1>2 DEF Init

---------------------------------------------------------------------------
(* SchemaInv is inductive *)

LEMMA AskingFinite ==
  ASSUME NEW p, NEW t
  PROVE  /\ IsFiniteSet(ThreadsOf(p)) /\ Cardinality(ThreadsOf(p)) \in Nat
         /\ IsFiniteSet(Asking(p, t)) /\ Cardinality(Asking(p, t)) \in Nat
         /\ Cardinality(Asking(p, t)) <= Cardinality(ThreadsOf(p))
<1>1. ThreadsOf(p) \subseteq Threads /\ Asking(p, t) \subseteq ThreadsOf(p)
  BY DEF ThreadsOf, Asking, IsAsking
<1>2. IsFiniteSet(ThreadsOf(p))
  BY <1>1, ThreadsAssumption, FS_Subset
<1> QED
  BY <1>1, <1>2, FS_Subset, FS_CardinalityType

\* Nobody begins to ask and the schemas stay as they are.
LEMMA SchemaQuiet ==
  ASSUME SchemaInv, SchemasOK, UNCHANGED schemas,
         \A w \in Threads : \A p, t : IsAsking(w, p, t)' => IsAsking(w, p, t)
  PROVE  SchemaInv'
<1> SUFFICES ASSUME NEW p \in Procs, NEW t \in Tools \cap Route["composio"]
             PROVE  /\ asked'[p][t] + Cardinality(Asking(p, t)') <= Cardinality(ThreadsOf(p))
                    /\ cache'[p][t] = "unset" => asked'[p][t] = 0
  BY DEF SchemaInv, ThreadsOf
<1>1. Asking(p, t)' \subseteq Asking(p, t)
  BY DEF Asking
<1>2. Cardinality(Asking(p, t)') <= Cardinality(Asking(p, t))
      /\ Cardinality(Asking(p, t)') \in Nat
  BY <1>1, AskingFinite, FS_Subset, FS_CardinalityType
<1>3. cache' = cache /\ asked' = asked /\ asked[p][t] \in Nat
  BY DEF schemas, SchemasOK, Counts
<1>4. Cardinality(ThreadsOf(p)) \in Nat /\ Cardinality(Asking(p, t)) \in Nat
  BY AskingFinite
<1> QED
  BY <1>2, <1>3, <1>4 DEF SchemaInv

LEMMA SchemaNext == IInv /\ [Next]_vars => SchemaInv'
<1> SUFFICES ASSUME GatewayInv, SchemaInv, [Next]_vars PROVE SchemaInv'
  BY DEF IInv
<1>0. at \in [Threads -> Steps] /\ SchemasOK /\ Home \in [Threads -> Procs]
  BY ThreadsAssumption DEF GatewayInv, TypeOK, Steps, SchemasOK, Caches, Counts
<1>1. ASSUME NEW w \in Threads,
             \/ DeliverFresh(w) \/ DeliverApproved(w)
             \/ SkipCall(w) \/ TakeCall(w) \/ EndLoop(w) \/ RecordRow(w)
             \/ RejectInput(w) \/ Stub(w) \/ Dispatch(w)
             \/ ProviderAnswers(w) \/ MapResult(w)
      PROVE  SchemaInv'
  <2>1. /\ UNCHANGED <<calls, schemas>>
        /\ \A v \in Threads : v # w => at'[v] = at[v]
    BY <1>0, <1>1
    DEF DeliverFresh, DeliverApproved, SkipCall, TakeCall, EndLoop, RecordRow,
        RejectInput, Stub, Dispatch, ProviderAnswers, MapResult, Answer, Raise, Go,
        setting
  <2>2. at'[w].pc # "ask"
    <3>0. ASSUME at' = [at EXCEPT ![w] = Idle] PROVE at'[w].pc # "ask"
      BY <1>0, <3>0 DEF Idle
    <3>1. CASE DeliverFresh(w) \/ DeliverApproved(w) \/ EndLoop(w)
      <4>1. \/ at' = [at EXCEPT ![w] = Idle]
            \/ \E k : at' = [at EXCEPT ![w] = [Idle EXCEPT !.pc = "next", !.loop = k]]
        BY <3>1 DEF DeliverFresh, DeliverApproved, EndLoop, Go
      <4>2. ASSUME NEW k, at' = [at EXCEPT ![w] = [Idle EXCEPT !.pc = "next", !.loop = k]]
            PROVE  at'[w].pc # "ask"
        BY <1>0, <4>2 DEF Idle
      <4> QED
        BY <3>0, <4>1, <4>2
    <3>2. CASE SkipCall(w) \/ TakeCall(w) \/ RecordRow(w)
      BY <1>0, <3>2 DEF SkipCall, TakeCall, RecordRow, Go, Steps
    <3>5. CASE RejectInput(w) \/ Stub(w)
      BY <1>0, <3>5 DEF RejectInput, Stub, Answer, Go, Steps
    <3>6. CASE MapResult(w)
      <4>1. \/ at' = [at EXCEPT ![w] = Idle]
            \/ \E o : at' = [at EXCEPT ![w] = [at[w] EXCEPT !.pc = "row", !.body = o]]
        BY <3>6 DEF MapResult, Answer, Raise, Go
      <4>2. ASSUME NEW o, at' = [at EXCEPT ![w] = [at[w] EXCEPT !.pc = "row", !.body = o]]
            PROVE  at'[w].pc # "ask"
        BY <1>0, <4>2 DEF Steps
      <4> QED
        BY <3>0, <4>1, <4>2
    <3>3. CASE Dispatch(w)
      <4>1. \/ at' = [at EXCEPT ![w] = Idle]
            \/ \E pc \in {"body", "list", "sent"} :
                 at' = [at EXCEPT ![w] = [at[w] EXCEPT !.pc = pc]]
        BY <3>3 DEF Dispatch, Raise, Go
      <4> QED
        BY <1>0, <4>1 DEF Idle, Steps
    <3>4. CASE ProviderAnswers(w)
      <4>1. \E b : at' = [at EXCEPT ![w] = [at[w] EXCEPT !.pc = "body", !.body = b]]
        BY <3>4 DEF ProviderAnswers, Go
      <4> QED
        BY <1>0, <4>1 DEF Steps
    <3> QED
      BY <1>1, <3>1, <3>2, <3>3, <3>4, <3>5, <3>6
  <2>3. \A v \in Threads : \A p, t : IsAsking(v, p, t)' => IsAsking(v, p, t)
    BY <2>1, <2>2 DEF IsAsking, Tool
  <2> QED
    BY <1>0, <2>1, <2>3, SchemaQuiet
<1>2. ASSUME NEW w \in Threads, LookUpSchema(w)
      PROVE  SchemaInv'
  <2>1. /\ UNCHANGED <<calls, schemas>> /\ at[w].pc = "list"
        /\ \A v \in Threads : v # w => at'[v] = at[v]
        /\ at'[w] = [at[w] EXCEPT !.pc =
                       IF cache[Home[w]][Tool(w)] = "unset" THEN "ask" ELSE "sent"]
    BY <1>0, <1>2 DEF LookUpSchema, Go, setting
  <2>2. at'[w].call = at[w].call
        /\ (at'[w].pc = "ask" => cache[Home[w]][Tool(w)] = "unset")
    BY <1>0, <2>1 DEF Steps
  <2>3. cache' = cache /\ asked' = asked
    BY <2>1 DEF schemas
  <2> SUFFICES ASSUME NEW p \in Procs, NEW t \in Tools \cap Route["composio"]
               PROVE  /\ asked'[p][t] + Cardinality(Asking(p, t)') <= Cardinality(ThreadsOf(p))
                      /\ cache'[p][t] = "unset" => asked'[p][t] = 0
    BY DEF SchemaInv, ThreadsOf
  <2>4. asked[p][t] \in Nat
    BY <1>0 DEF SchemasOK, Counts
  <2>5. CASE cache[p][t] = "unset"
    <3>1. asked[p][t] = 0
      BY <2>5 DEF SchemaInv
    <3>2. Asking(p, t)' \subseteq ThreadsOf(p)
      BY DEF Asking, IsAsking, ThreadsOf
    <3>3. /\ Cardinality(Asking(p, t)') <= Cardinality(ThreadsOf(p))
          /\ Cardinality(Asking(p, t)') \in Nat
      BY <3>2, AskingFinite, FS_Subset, FS_CardinalityType
    <3> QED
      BY <2>3, <3>1, <3>3, AskingFinite
  <2>6. CASE cache[p][t] # "unset"
    <3>1. Asking(p, t)' \subseteq Asking(p, t)
      <4> SUFFICES ASSUME NEW v \in Threads, IsAsking(v, p, t)'
                   PROVE  IsAsking(v, p, t)
        BY DEF Asking
      <4>1. CASE v = w
        <5>1. Home[w] = p /\ Tool(w) = t /\ at'[w].pc = "ask"
          BY <2>1, <2>2, <4>1 DEF IsAsking, Tool
        <5> QED
          BY <2>2, <2>6, <5>1
      <4>2. CASE v # w
        BY <2>1, <4>2 DEF IsAsking, Tool
      <4> QED
        BY <4>1, <4>2
    <3>2. /\ Cardinality(Asking(p, t)') <= Cardinality(Asking(p, t))
          /\ Cardinality(Asking(p, t)') \in Nat
      BY <3>1, AskingFinite, FS_Subset, FS_CardinalityType
    <3>3. asked[p][t] + Cardinality(Asking(p, t)) <= Cardinality(ThreadsOf(p))
      BY DEF SchemaInv
    <3> QED
      BY <2>3, <2>4, <2>6, <3>2, <3>3, AskingFinite
  <2> QED
    BY <2>5, <2>6
<1>3. ASSUME NEW w \in Threads, StoreSchema(w)
      PROVE  SchemaInv'
  <2> DEFINE h == Home[w]
             k == Tool(w)
  <2>1. PICK found \in {"none", "schema"} :
          cache' = [cache EXCEPT ![h][k] = found]
    BY <1>3 DEF StoreSchema
  <2>2. /\ asked' = [asked EXCEPT ![h][k] = @ + 1]
        /\ UNCHANGED calls /\ at[w].pc = "ask"
        /\ at'[w].pc = "sent" /\ \A v \in Threads : v # w => at'[v] = at[v]
    BY <1>0, <1>3 DEF StoreSchema, Go, setting, Steps
  <2>3. h \in Procs /\ k \in Tools \cap Route["composio"]
    <3>1. StepOK(at[w], effects[at[w].call])
      BY StepAt
    <3> QED
      BY <1>0, <2>2, <3>1, ToolsAreTools DEF StepOK, Tool, ToolOf, GatewayInv
  <2> SUFFICES ASSUME NEW p \in Procs, NEW t \in Tools \cap Route["composio"]
               PROVE  /\ asked'[p][t] + Cardinality(Asking(p, t)') <= Cardinality(ThreadsOf(p))
                      /\ cache'[p][t] = "unset" => asked'[p][t] = 0
    BY DEF SchemaInv, ThreadsOf
  <2>4. /\ asked[p][t] \in Nat
        /\ asked[p][t] + Cardinality(Asking(p, t)) <= Cardinality(ThreadsOf(p))
        /\ cache[p][t] = "unset" => asked[p][t] = 0
    BY <1>0 DEF SchemasOK, Counts, SchemaInv
  <2>5. Asking(p, t)' \subseteq Asking(p, t) /\ w \notin Asking(p, t)'
    BY <2>2 DEF Asking, IsAsking, Tool
  <2>6. CASE p = h /\ t = k
    <3>1. cache'[p][t] = found /\ asked'[p][t] = asked[p][t] + 1
      BY <1>0, <2>1, <2>2, <2>3, <2>6 DEF SchemasOK, Caches, Counts
    <3>2. w \in Asking(p, t)
      BY <2>2, <2>6 DEF Asking, IsAsking
    <3>3. Asking(p, t)' \subseteq Asking(p, t) \ {w}
      BY <2>5
    <3>4. Cardinality(Asking(p, t) \ {w}) = Cardinality(Asking(p, t)) - 1
          /\ IsFiniteSet(Asking(p, t) \ {w})
      BY <3>2, AskingFinite, FS_RemoveElement
    <3>5. /\ Cardinality(Asking(p, t)') <= Cardinality(Asking(p, t) \ {w})
          /\ Cardinality(Asking(p, t)') \in Nat
      BY <3>3, <3>4, FS_Subset, FS_CardinalityType
    <3> QED
      BY <2>4, <3>1, <3>4, <3>5, AskingFinite
  <2>7. CASE ~(p = h /\ t = k)
    <3>1. cache'[p][t] = cache[p][t] /\ asked'[p][t] = asked[p][t]
      <4>1. cache[p] \in [Tools \cap Route["composio"] -> {"unset", "none", "schema"}]
            /\ asked[p] \in [Tools \cap Route["composio"] -> Nat]
        BY <1>0 DEF SchemasOK, Caches, Counts
      <4> QED
        BY <1>0, <2>1, <2>2, <2>3, <2>7, <4>1 DEF SchemasOK, Caches, Counts
    <3>2. /\ Cardinality(Asking(p, t)') <= Cardinality(Asking(p, t))
          /\ Cardinality(Asking(p, t)') \in Nat
      BY <2>5, AskingFinite, FS_Subset, FS_CardinalityType
    <3> QED
      BY <2>4, <3>1, <3>2, AskingFinite
  <2> QED
    BY <2>6, <2>7
<1>4. ASSUME NEW p \in Procs, Crash(p)
      PROVE  SchemaInv'
  <2>1. /\ at' = [w \in Threads |-> IF Home[w] = p THEN Idle ELSE at[w]]
        /\ cache' = [cache EXCEPT ![p] = NoSchemas]
        /\ asked' = [asked EXCEPT ![p] = NotAsked] /\ UNCHANGED calls
    BY <1>4 DEF Crash, setting
  <2> SUFFICES ASSUME NEW q \in Procs, NEW t \in Tools \cap Route["composio"]
               PROVE  /\ asked'[q][t] + Cardinality(Asking(q, t)') <= Cardinality(ThreadsOf(q))
                      /\ cache'[q][t] = "unset" => asked'[q][t] = 0
    BY DEF SchemaInv, ThreadsOf
  <2>2. Asking(q, t)' \subseteq Asking(q, t)
    BY <2>1 DEF Asking, IsAsking, Tool, Idle
  <2>3. /\ Cardinality(Asking(q, t)') <= Cardinality(Asking(q, t))
        /\ Cardinality(Asking(q, t)') \in Nat
    BY <2>2, AskingFinite, FS_Subset, FS_CardinalityType
  <2>4. /\ asked[q][t] \in Nat
        /\ asked[q][t] + Cardinality(Asking(q, t)) <= Cardinality(ThreadsOf(q))
        /\ cache[q][t] = "unset" => asked[q][t] = 0
    BY <1>0 DEF SchemasOK, Counts, SchemaInv
  <2>5. \/ cache'[q][t] = cache[q][t] /\ asked'[q][t] = asked[q][t]
        \/ asked'[q][t] = 0
    BY <1>0, <2>1 DEF SchemasOK, Caches, Counts, NotAsked
  <2> QED
    BY <2>3, <2>4, <2>5, AskingFinite
<1>5. CASE UNCHANGED vars
  <2>1. UNCHANGED schemas /\ at' = at /\ calls' = calls
    BY <1>5 DEF vars, setting, schemas
  <2>2. \A v \in Threads : \A p, t : IsAsking(v, p, t)' => IsAsking(v, p, t)
    BY <2>1 DEF IsAsking, Tool
  <2> QED
    BY <1>0, <2>1, <2>2, SchemaQuiet
<1> QED
  BY <1>1, <1>2, <1>3, <1>4, <1>5 DEF Next

LEMMA SchemaInit == Init => SchemaInv
<1> SUFFICES ASSUME Init, NEW p \in Procs, NEW t \in Tools \cap Route["composio"]
             PROVE  /\ asked[p][t] + Cardinality(Asking(p, t)) <= Cardinality(ThreadsOf(p))
                    /\ cache[p][t] = "unset" => asked[p][t] = 0
  BY DEF SchemaInv
<1>1. Asking(p, t) = {}
  BY DEF Init, Asking, IsAsking, Idle
<1>2. Cardinality(Asking(p, t)) = 0 /\ asked[p][t] = 0
  BY <1>1, FS_EmptySet DEF Init, NotAsked
<1> QED
  BY <1>2, AskingFinite

---------------------------------------------------------------------------
(* LoopInv is inductive *)

\* A move of thread w that stays in its loop, or leaves it, in the same phase; it
\* passes a call only when the call's row is written.
LEMMA LoopMove ==
  ASSUME GatewayInv, LoopInv, UNCHANGED <<calls, phase>>, NEW w \in Threads, NEW s,
         at' = [at EXCEPT ![w] = s],
         \A c \in CallIds : Settled(c) => Settled(c)',
         s.pc # "idle" =>
           /\ at[w].pc # "idle" /\ s.loop = at[w].loop
           /\ \A c \in CallIds : Passed(s, c) => Passed(at[w], c) \/ Settled(c)'
  PROVE  LoopInv'
<1>0. at \in [Threads -> Steps] /\ at' = [at EXCEPT ![w] = s]
  BY DEF GatewayInv, TypeOK, Steps
<1>1. \A c : IsWrite(c)' = IsWrite(c)
  BY DEF IsWrite, ToolOf
<1>2. ASSUME NEW v \in Threads, at'[v].pc # "idle"
      PROVE  Looping(at[v])' /\ at[v].pc # "idle" /\ at'[v].loop = at[v].loop
  <2>1. /\ at[v].pc # "idle" /\ at'[v].loop = at[v].loop
        /\ \A c \in CallIds : Passed(at'[v], c) => Passed(at[v], c) \/ Settled(c)'
    <3>1. CASE v = w
      BY <1>0, <1>2, <3>1
    <3>2. CASE v # w
      BY <1>0, <1>2, <3>2
    <3> QED
      BY <3>1, <3>2
  <2>2. Looping(at[v])
    BY <2>1 DEF LoopInv
  <2>3. \A c \in CallIds : Passed(at[v], c)' => Settled(c)'
    <3>1. \A c \in CallIds : Passed(at[v], c)' = Passed(at'[v], c)
      BY <1>1 DEF Passed
    <3> QED
      BY <2>1, <2>2, <3>1 DEF Looping
  <2> QED
    BY <2>1, <2>2, <2>3 DEF Looping
<1> QED
  BY <1>1, <1>2 DEF LoopInv

LEMMA LoopNext == IInv /\ [Next]_vars => LoopInv'
<1> SUFFICES ASSUME GatewayInv, LoopInv, [Next]_vars PROVE LoopInv'
  BY DEF IInv
<1>0. at \in [Threads -> Steps] /\ rows \in [CallIds -> RowStates]
  BY DEF GatewayInv, TypeOK, Steps, RowStates
<1>1. ASSUME NEW w \in Threads,
             \/ TakeCall(w) \/ RejectInput(w) \/ Stub(w) \/ Dispatch(w)
             \/ LookUpSchema(w) \/ StoreSchema(w) \/ ProviderAnswers(w) \/ MapResult(w)
      PROVE  LoopInv'
  <2>1. /\ UNCHANGED <<calls, phase, rows>> /\ at[w].pc # "idle"
    BY <1>1
    DEF TakeCall, RejectInput, Stub, Dispatch, LookUpSchema, StoreSchema,
        ProviderAnswers, MapResult, setting
  <2>2. PICK s : /\ at' = [at EXCEPT ![w] = s]
                 /\ s.pc # "idle" => s.call = at[w].call /\ s.loop = at[w].loop
    <3>1. \/ at' = [at EXCEPT ![w] = Idle]
          \/ \E pc, b : at' = [at EXCEPT ![w] = [at[w] EXCEPT !.pc = pc, !.body = b]]
          \/ \E pc : at' = [at EXCEPT ![w] = [at[w] EXCEPT !.pc = pc]]
      BY <1>1
      DEF TakeCall, RejectInput, Stub, Dispatch, LookUpSchema, StoreSchema,
          ProviderAnswers, MapResult, Answer, Raise, Go
    <3>2. Idle.pc = "idle"
      BY DEF Idle
    <3>3. ASSUME NEW pc, NEW b
          PROVE  /\ [at[w] EXCEPT !.pc = pc, !.body = b].call = at[w].call
                 /\ [at[w] EXCEPT !.pc = pc, !.body = b].loop = at[w].loop
                 /\ [at[w] EXCEPT !.pc = pc].call = at[w].call
                 /\ [at[w] EXCEPT !.pc = pc].loop = at[w].loop
      BY <1>0 DEF Steps
    <3>4. CASE at' = [at EXCEPT ![w] = Idle]
      BY <3>2, <3>4
    <3>5. ASSUME NEW pc, NEW b,
                 \/ at' = [at EXCEPT ![w] = [at[w] EXCEPT !.pc = pc, !.body = b]]
                 \/ at' = [at EXCEPT ![w] = [at[w] EXCEPT !.pc = pc]]
          PROVE  \E s : /\ at' = [at EXCEPT ![w] = s]
                        /\ s.pc # "idle" => s.call = at[w].call /\ s.loop = at[w].loop
      <4> DEFINE m == [at[w] EXCEPT !.pc = pc, !.body = b]
                 n == [at[w] EXCEPT !.pc = pc]
      <4>1. /\ m.call = at[w].call /\ m.loop = at[w].loop
            /\ n.call = at[w].call /\ n.loop = at[w].loop
            /\ at' = [at EXCEPT ![w] = m] \/ at' = [at EXCEPT ![w] = n]
        BY <3>3, <3>5
      <4> HIDE DEF m, n
      <4> QED
        BY <4>1
    <3> QED
      BY <3>1, <3>4, <3>5
  <2>3. \A c \in CallIds : Settled(c) => Settled(c)'
    BY <2>1 DEF Settled
  <2>4. s.pc # "idle" =>
          /\ s.loop = at[w].loop
          /\ \A c \in CallIds : Passed(s, c) => Passed(at[w], c)
    BY <2>2 DEF Passed
  <2> QED
    BY <2>1, <2>2, <2>3, <2>4, LoopMove
<1>2. ASSUME NEW w \in Threads, SkipCall(w) \/ RecordRow(w)
      PROVE  LoopInv'
  <2> DEFINE k == at[w].call
             s == IF SkipCall(w) THEN [at[w] EXCEPT !.call = @ + 1]
                  ELSE [at[w] EXCEPT !.pc = "next", !.call = @ + 1, !.body = "none"]
  <2>1. /\ UNCHANGED <<calls, phase>> /\ at' = [at EXCEPT ![w] = s]
        /\ at[w].pc # "idle" /\ k \in CallIds
    <3>1. UNCHANGED <<calls, phase>> /\ at' = [at EXCEPT ![w] = s] /\ at[w].pc # "idle"
      BY <1>2 DEF SkipCall, RecordRow, setting, Go
    <3>2. k \in CallIds
      BY <1>2, StepAt DEF SkipCall, RecordRow, StepOK
    <3> QED
      BY <3>1, <3>2
  <2>2. s.call = k + 1 /\ s.loop = at[w].loop
    BY <1>0 DEF Steps
  <2>3. ASSUME NEW c \in CallIds
        PROVE  Settled(c) => Settled(c)'
    <3>1. CASE SkipCall(w)
      BY <3>1 DEF SkipCall, Settled
    <3>2. CASE RecordRow(w)
      <4>1. at[w].body \in RowValues
        BY <3>2, StepAt DEF RecordRow, StepOK
      <4> QED
        BY <1>0, <3>2, <4>1 DEF RecordRow, Settled, RowValues
    <3> QED
      BY <1>2, <3>1, <3>2
  <2>4. ASSUME NEW c \in CallIds, Passed(s, c)
        PROVE  Passed(at[w], c) \/ Settled(c)'
    <3>1. c < k + 1 /\ c \in Nat /\ k \in Nat /\ IsWrite(c) = (at[w].loop = "writes")
      BY <2>1, <2>2, <2>4 DEF Passed, CallIds
    <3>2. CASE c < k
      BY <3>1, <3>2 DEF Passed
    <3>3. CASE c = k
      <4>1. ~SkipCall(w)
        BY <3>1, <3>3 DEF SkipCall, InLoop, IsWrite, ToolOf
      <4>2. RecordRow(w) /\ at[w].body \in RowValues
        BY <1>2, <4>1, StepAt DEF RecordRow, StepOK
      <4> QED
        BY <1>0, <3>3, <4>2 DEF RecordRow, Settled, RowValues
    <3> QED
      BY <3>1, <3>2, <3>3
  <2> HIDE DEF s
  <2> QED
    BY <2>1, <2>2, <2>3, <2>4, LoopMove
<1>3. ASSUME NEW w \in Threads, DeliverFresh(w) \/ DeliverApproved(w)
      PROVE  LoopInv'
  <2>1. PICK loop \in {"reads", "writes"} :
          /\ at' = [at EXCEPT ![w] = [Idle EXCEPT !.pc = "next", !.loop = loop]]
          /\ loop = "reads" => phase = "fresh" /\ phase' = "running"
          /\ loop = "writes" => phase = "approved" /\ phase' = "approved"
          /\ at[w].pc = "idle" /\ UNCHANGED <<calls, rows>>
    BY <1>3 DEF DeliverFresh, DeliverApproved, Go, setting
  <2> DEFINE s == [Idle EXCEPT !.pc = "next", !.loop = loop]
  <2>2. s.call = 1 /\ s.loop = loop /\ at' = [at EXCEPT ![w] = s]
    BY <2>1 DEF Idle
  <2> HIDE DEF s
  <2>3. \A c : IsWrite(c)' = IsWrite(c) /\ Settled(c)' = Settled(c)
    BY <2>1 DEF IsWrite, ToolOf, Settled
  <2>4. ASSUME NEW v \in Threads, v # w, at[v].pc # "idle"
        PROVE  Looping(at[v]) /\ phase = phase'
    <3>1. Looping(at[v])
      BY <2>4 DEF LoopInv
    <3> QED
      BY <2>1, <3>1 DEF Looping
  <2>5. ASSUME NEW v \in Threads, at'[v].pc # "idle"
        PROVE  Looping(at[v])'
    <3>1. CASE v = w
      <4>1. at'[v] = s /\ \A c \in CallIds : ~(c < s.call)
        BY <1>0, <2>2, <3>1 DEF CallIds
      <4> QED
        BY <2>1, <2>2, <4>1 DEF Looping, Passed
    <3>2. CASE v # w
      <4>1. at'[v] = at[v]
        BY <1>0, <2>2, <3>2
      <4>2. Looping(at[v]) /\ phase' = phase
        BY <2>4, <2>5, <3>2, <4>1
      <4> QED
        BY <2>3, <4>1, <4>2 DEF Looping, Passed
    <3> QED
      BY <3>1, <3>2
  <2>6. ASSUME NEW u \in Threads, NEW v \in Threads,
               at'[u].pc # "idle", at'[v].pc # "idle",
               at'[u].loop = "reads", at'[v].loop = "reads"
        PROVE  u = v
    <3>1. ASSUME NEW x \in Threads, x # w, at'[x].pc # "idle", at'[x].loop = "reads"
          PROVE  loop # "reads" /\ phase = "running"
      <4>1. at'[x] = at[x]
        BY <1>0, <2>2, <3>1
      <4>2. Looping(at[x])
        BY <2>4, <3>1, <4>1
      <4> QED
        BY <2>1, <3>1, <4>1, <4>2 DEF Looping
    <3>2. loop = "writes" => phase # "running"
      BY <2>1
    <3> QED
      BY <2>1, <2>6, <3>1, <3>2
  <2>7. /\ phase' \in {"approved", "done"} =>
             \A c \in CallIds : ~IsWrite(c)' => Settled(c)'
        /\ phase' = "done" => \A c \in CallIds : Settled(c)'
    BY <2>1, <2>3 DEF LoopInv
  <2> QED
    BY <2>5, <2>6, <2>7 DEF LoopInv
<1>4. ASSUME NEW w \in Threads, EndLoop(w)
      PROVE  LoopInv'
  <2>1. /\ UNCHANGED <<calls, rows>> /\ at' = [at EXCEPT ![w] = Idle]
        /\ at[w].pc # "idle" /\ Looping(at[w])
        /\ phase' = IF at[w].loop = "writes" THEN "done"
                    ELSE IF \E c \in CallIds : IsWrite(c) THEN "approved" ELSE "done"
    BY <1>4 DEF EndLoop, Go, setting, IsWrite, ToolOf, LoopInv
  <2>2. \A c : IsWrite(c)' = IsWrite(c) /\ Settled(c)' = Settled(c)
    BY <2>1 DEF IsWrite, ToolOf, Settled
  <2>3. \A c \in CallIds : c < at[w].call
    BY <1>0, <1>4, NumCallsAssumption DEF EndLoop, Steps, CallIds
  <2>4. ASSUME NEW v \in Threads, at'[v].pc # "idle"
        PROVE  /\ at'[v] = at[v] /\ Looping(at[v]) /\ at[w].loop = "writes"
               /\ at[v].loop = "writes"
    <3>1. v # w /\ at'[v] = at[v]
      BY <1>0, <2>1, <2>4 DEF Idle
    <3>2. Looping(at[v])
      BY <2>4, <3>1 DEF LoopInv
    <3>3. ~(at[v].loop = "reads" /\ at[w].loop = "reads")
      BY <2>1, <2>4, <3>1 DEF LoopInv
    <3> QED
      BY <2>1, <3>1, <3>2, <3>3 DEF Looping
  <2>5. ASSUME NEW v \in Threads, at'[v].pc # "idle"
        PROVE  Looping(at[v])'
    BY <2>1, <2>2, <2>4, <2>5 DEF Looping, Passed
  <2>6. /\ phase' \in {"approved", "done"} =>
             \A c \in CallIds : ~IsWrite(c) => Settled(c)
        /\ phase' = "done" => \A c \in CallIds : Settled(c)
    <3>1. CASE at[w].loop = "writes"
      <4>1. \A c \in CallIds : IsWrite(c) => Settled(c)
        BY <2>1, <2>3, <3>1 DEF Looping, Passed
      <4>2. \A c \in CallIds : ~IsWrite(c) => Settled(c)
        BY <2>1, <3>1 DEF Looping, LoopInv
      <4> QED
        BY <4>1, <4>2
    <3>2. CASE at[w].loop = "reads"
      <4>1. \A c \in CallIds : ~IsWrite(c) => Settled(c)
        BY <2>1, <2>3, <3>2 DEF Looping, Passed, IsWrite
      <4> QED
        BY <2>1, <3>2, <4>1
    <3> QED
      BY <2>1, <3>1, <3>2 DEF Looping
  <2> QED
    BY <2>2, <2>4, <2>5, <2>6 DEF LoopInv
<1>5. ASSUME NEW p \in Procs, Crash(p)
      PROVE  LoopInv'
  <2>1. /\ at' = [w \in Threads |-> IF Home[w] = p THEN Idle ELSE at[w]]
        /\ UNCHANGED <<calls, phase, rows>>
    BY <1>5 DEF Crash, setting
  <2>2. \A w \in Threads : at'[w].pc # "idle" => at'[w] = at[w]
    BY <2>1 DEF Idle
  <2>3. \A c : IsWrite(c)' = IsWrite(c) /\ Settled(c)' = Settled(c)
    BY <2>1 DEF IsWrite, ToolOf, Settled
  <2>4. \A w \in Threads : at'[w].pc # "idle" => Looping(at[w])'
    BY <2>1, <2>2, <2>3 DEF LoopInv, Looping, Passed
  <2> QED
    BY <2>1, <2>2, <2>3, <2>4 DEF LoopInv
<1>6. CASE UNCHANGED vars
  BY <1>6 DEF vars, setting, LoopInv, Looping, Passed, Settled, IsWrite, ToolOf
<1> QED
  BY <1>1, <1>2, <1>3, <1>4, <1>5, <1>6 DEF Next

LEMMA LoopInit == Init => LoopInv
  BY DEF Init, LoopInv, Idle

THEOREM Invariance == Spec => []IInv
<1>1. Init => IInv
  BY GatewayInit, DeliveryInit, SchemaInit, LoopInit DEF IInv
<1>2. IInv /\ [Next]_vars => IInv'
  BY GatewayNext, DeliveryNext, SchemaNext, LoopNext DEF IInv
<1> QED
  BY <1>1, <1>2, PTL DEF Spec

---------------------------------------------------------------------------
(* What it implies *)

\* The rows, caches and positions of the processes have their types whatever
\* the providers answer and whenever a process dies.
THEOREM TypeCorrect == Spec => []TypeOK
<1>1. GatewayInv => TypeOK
  BY DEF GatewayInv
<1> QED
  BY <1>1, GatewayInvariance, PTL

\* A row that says the call was stubbed or its input rejected says nothing was
\* sent, by this delivery or by any other: the answer depends on what no
\* delivery changes.
THEOREM UnsentIsUnsent == Spec => []UnsentRowsTouchedNothing
<1>1. GatewayInv => UnsentRowsTouchedNothing
  <2> SUFFICES ASSUME GatewayInv, NEW c \in CallIds,
                      rows[c] \in {"stub", "input_rejected"}
               PROVE  effects[c] = 0
    BY DEF UnsentRowsTouchedNothing
  <2>1. effects[c] \in Nat /\ CallOK(c, effects[c], performed[c], rows[c])
    BY DEF GatewayInv, TypeOK
  <2> QED
    BY <2>1 DEF CallOK, RowOK
<1> QED
  BY <1>1, GatewayInvariance, PTL

\* An ok row of a write follows a performance of it.
THEOREM OkIsPerformed == Spec => []OkWritesWerePerformed
<1>1. GatewayInv => OkWritesWerePerformed
  BY DEF GatewayInv, CallOK, RowOK, IsWrite, ToolOf, OkWritesWerePerformed
<1> QED
  BY <1>1, GatewayInvariance, PTL

\* The adapters of the publishing and financial tools never do more than draft.
THEOREM DraftsAreAllTheySend == Spec => []DraftsStayDrafts
<1>1. GatewayInv => DraftsStayDrafts
  BY DEF GatewayInv, CallOK, ToolOf, DraftsStayDrafts
<1> QED
  BY <1>1, GatewayInvariance, PTL

\* Retries come from redelivery alone: each delivery of the approved task
\* performs each of its calls at most once.
THEOREM PerformedOncePerDelivery == Spec => []OnePerformancePerDelivery
<1>1. IInv => OnePerformancePerDelivery
  <2> SUFFICES ASSUME IInv, NEW c \in CallIds
               PROVE  effects[c] <= deliveries
    BY DEF OnePerformancePerDelivery
  <2>1. effects[c] \in Nat /\ deliveries \in Nat
        /\ effects[c] + Cardinality(Ahead(c)) <= deliveries
    BY DEF IInv, GatewayInv, TypeOK, DeliveryInv
  <2> QED
    BY <2>1, AheadFinite
<1> QED
  BY <1>1, Invariance, PTL

\* A task completes, or goes on to its writes, with an outcome in the row of each
\* call it has passed, also when deliveries overlap, raise or die in between.
THEOREM NothingIsLeftPending == Spec => []NothingLeftPending
<1>1. LoopInv => NothingLeftPending
  BY DEF LoopInv, Settled, IsWrite, ToolOf, NothingLeftPending
<1> QED
  BY <1>1, Invariance, PTL DEF IInv

\* A quarantined write was performed, unless it is HubSpot's without its SDK: of
\* all the adapters only HubSpot's returns None in place of an answer.
THEOREM QuarantinedIsPerformed == Spec => []QuarantinedWritesWerePerformed
<1>1. GatewayInv => QuarantinedWritesWerePerformed
  BY DEF GatewayInv, CallOK, RowOK, IsWrite, ToolOf, Degraded,
         QuarantinedWritesWerePerformed
<1> QED
  BY <1>1, GatewayInvariance, PTL

\* However the threads of a process overlap between the lookup and the store,
\* each asks for a tool's schema at most once while the process lives.
THEOREM SchemaIsAskedOncePerThread == Spec => []SchemaAskedOncePerThread
<1>1. IInv => SchemaAskedOncePerThread
  <2> SUFFICES ASSUME IInv, NEW p \in Procs, NEW t \in DOMAIN asked[p]
               PROVE  asked[p][t] <= Cardinality(ThreadsOf(p))
    BY DEF SchemaAskedOncePerThread, ThreadsOf
  <2>1. t \in Tools \cap Route["composio"] /\ asked[p][t] \in Nat
    BY DEF IInv, GatewayInv, TypeOK
  <2>2. asked[p][t] + Cardinality(Asking(p, t)) <= Cardinality(ThreadsOf(p))
    BY <2>1 DEF IInv, SchemaInv
  <2> QED
    BY <2>1, <2>2, AskingFinite
<1> QED
  BY <1>1, Invariance, PTL

=============================================================================
