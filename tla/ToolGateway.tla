----------------------------- MODULE ToolGateway -----------------------------
(***************************************************************************)
(* Tool calls from the worker's loops to the providers: tools/gateway.py,  *)
(* tools/validation.py, tools/aggregate_schema.py and tools/adapters/*,    *)
(* driven by the two loops of worker/runner.py (the ungated reads of a     *)
(* fresh run, the approved writes of a resume).                            *)
(*                                                                         *)
(* Pub/Sub runs the deliveries on callback threads; the threads of one     *)
(* process share its module state and die with it.  A provider may perform *)
(* a write and lose the answer, answer 2xx with a body the adapter does    *)
(* not expect, or fail cleanly; a delivery that raised is delivered again. *)
(* Parameters are what the code tells apart: "invalid" breaks the tool's   *)
(* input schema; "risky" satisfies it and asks for what the adapter must   *)
(* not do (publish live, finalise an invoice by its Status, run a          *)
(* placeholder grid) or omits a field the schema does not require and the  *)
(* adapter reads.                                                          *)
(***************************************************************************)
EXTENDS Naturals, FiniteSets

CONSTANTS
    Threads,        \* callback threads, each with one delivery at a time
    Procs,          \* worker processes
    Home,           \* [Threads -> Procs]: the process of a thread
    Tools,          \* the tools of the pack that calls may name
    NumCalls,       \* tool calls of the task, in creation order
    MaxDeliveries,  \* bound: deliveries of the task's message
    MaxCrashes      \* bound: process deaths

ASSUME NumCallsAssumption == NumCalls \in Nat \ {0}
ASSUME ThreadsAssumption == IsFiniteSet(Threads) /\ Home \in [Threads -> Procs]
ASSUME BoundsAssumption == MaxDeliveries \in Nat /\ MaxCrashes \in Nat

CallIds == 1..NumCalls

VARIABLES
    calls,       \* [CallIds -> [tool, params]]: tool_calls rows, fixed once written
    secrets,     \* providers' secrets present in the environment
    sdk,         \* are the optional provider SDKs installed
    config,      \* resource bindings and proxy variables: real, placeholder, missing
    phase,       \* the task: fresh, running, approved, done
    at,          \* per thread: where its delivery is
    cache,       \* per process: aggregate_schema._SCHEMA_CACHE
    asked,       \* per process: how often it asked a session for a tool's schema
    rows,        \* per call: the outcome written back to its row
    effects,     \* per call: how often its provider performed the write
    performed,   \* per call: the forms in which it was performed
    deliveries,  \* deliveries of the approved task
    crashes

vars == <<calls, secrets, sdk, config, phase, at, cache, asked, rows, effects,
          performed, deliveries, crashes>>
setting == <<calls, secrets, sdk, config>>
schemas == <<cache, asked>>

-----------------------------------------------------------------------------
(* The pack (manifests/tool_pack_manifest.yaml) as the code reads it.      *)

Route == [google_workspace |->
             {"google_drive_search", "gmail_send", "google_sheets_append",
              "google_calendar_list_events", "google_calendar_create_event",
              "google_docs_get", "google_docs_create",
              "google_slides_get", "google_slides_create"},
          hubspot  |-> {"hubspot_lookup_company", "hubspot_create_deal"},
          webflow  |-> {"webflow_list_cms_items", "webflow_create_cms_item"},
          bitscale |-> {"bitscale_list_grids", "bitscale_get_workspace",
                        "bitscale_run_grid"},
          calcom   |-> {"calcom_list_bookings", "calcom_create_booking"},
          clockify |-> {"clockify_read_time_entries"},
          beehiiv  |-> {"beehiiv_create_post"},
          composio |-> {"xero_read_invoices", "xero_create_invoice",
                        "composio_gmail_list_messages"},
          nango    |-> {"nango_hubspot_list_contacts"}]

Catalogue == UNION {Route[k] : k \in DOMAIN Route}

Writes == {"gmail_send", "google_sheets_append", "google_calendar_create_event",
           "google_docs_create", "google_slides_create", "hubspot_create_deal",
           "xero_create_invoice", "webflow_create_cms_item",
           "bitscale_run_grid", "calcom_create_booking", "beehiiv_create_post"}

DraftOnly == {"webflow_create_cms_item", "beehiiv_create_post", "xero_create_invoice"}

Style(t) ==
    CASE t \in Route["composio"] -> "composio_aggregator"
      [] t \in Route["nango"] -> "nango_aggregator"
      [] OTHER -> "direct_api"

\* The manifest's provider: the adapter's module for a direct tool, a name of
\* its own (xero, composio_gmail, nango_hubspot) for an aggregated one.
Provider(t) ==
    IF Style(t) = "direct_api" THEN CHOOSE k \in DOMAIN Route : t \in Route[k]
                               ELSE "aggregated"

Secret(t) == CHOOSE k \in DOMAIN Route : t \in Route[k]

ASSUME ToolsAssumption == Tools \subseteq Catalogue

AdapterKey(t) ==
    CASE Style(t) = "composio_aggregator" -> "composio"
      [] Style(t) = "nango_aggregator" -> "nango"
      [] OTHER -> Provider(t)

\* get_adapter: the module named by the key is imported on the first miss and
\* registers itself; a key without a module yields None.  Every tool of the pack
\* has a module, and no module imports a provider's SDK at its top level.
HasAdapter(t) == AdapterKey(t) \in DOMAIN Route

\* validate_tool_input: direct tools against the schema on disk, aggregated
\* ones against a runtime schema, which execute passes as None: never blocked.
InputRejected(t, q) == Style(t) = "direct_api" /\ q = "invalid"

ParamsOf(t) ==
    {"plain", "invalid"}
        \cup (IF t \in DraftOnly \cup {"bitscale_run_grid", "calcom_create_booking"}
              THEN {"risky"} ELSE {})

-----------------------------------------------------------------------------
(* What each adapter does before it talks to its provider: "raise", "none" *)
(* (returns None), or the form of the request it sends.                    *)

Form(t) == IF t \in Writes THEN "write" ELSE "read"

\* A mutant: the adapter degrades to None without its SDK.
GoogleRequestDegrading(t, q) == IF sdk THEN Form(t) ELSE "none"

GoogleRequest(t, q) == IF sdk THEN Form(t) ELSE "raise"

HubspotRequest(t, q) == IF sdk THEN Form(t) ELSE "none"

\* A mutant: the caller's isDraft is honoured.
WebflowRequestAsAsked(t, q) ==
    IF config = "missing" THEN "raise"
    ELSE IF t \notin Writes THEN "read"
    ELSE IF q = "risky" THEN "live" ELSE "draft"

WebflowRequest(t, q) ==
    IF config = "missing" THEN "raise"
    ELSE IF t \in Writes THEN "draft" ELSE "read"

BeehiivRequest(t, q) == IF config = "missing" THEN "raise" ELSE "draft"

\* The grid a run is sent to: the operator's binding if it is a real id, the
\* parameters' one otherwise.
GridId(q) ==
    IF config = "real" THEN "bound"
    ELSE IF q = "risky" THEN "placeholder" ELSE "named"

BitscaleRequest(t, q) ==
    CASE t \notin Writes -> "read"
      [] GridId(q) = "placeholder" -> "raise"
      [] OTHER -> GridId(q)

CalcomRequest(t, q) ==
    CASE t \notin Writes -> "read"
      [] config = "missing" \/ q = "risky" -> "raise"
      [] OTHER -> "write"

ClockifyRequest(t, q) == IF config = "missing" THEN "raise" ELSE "read"

\* A financial write whose Status says anything but DRAFT is refused, before the
\* SDK is imported; Status is overwritten with DRAFT otherwise.
ComposioRequest(t, q) ==
    CASE t \in DraftOnly /\ q = "risky" -> "raise"
      [] ~sdk -> "raise"
      [] OTHER -> IF t \in DraftOnly THEN "draft" ELSE "read"

NangoRequest(t, q) == IF config = "missing" THEN "raise" ELSE "read"

Request(t, q) ==
    CASE t \in Route["google_workspace"] -> GoogleRequest(t, q)
      [] t \in Route["hubspot"] -> HubspotRequest(t, q)
      [] t \in Route["webflow"] -> WebflowRequest(t, q)
      [] t \in Route["beehiiv"] -> BeehiivRequest(t, q)
      [] t \in Route["bitscale"] -> BitscaleRequest(t, q)
      [] t \in Route["calcom"] -> CalcomRequest(t, q)
      [] t \in Route["clockify"] -> ClockifyRequest(t, q)
      [] t \in Route["composio"] -> ComposioRequest(t, q)
      [] t \in Route["nango"] -> NangoRequest(t, q)

-----------------------------------------------------------------------------
(* What each adapter makes of a 2xx body without the key it maps: it       *)
(* raises, or its defaults conform to the output schema, or do not.        *)

MailAndFilesOdd(t) == IF t = "gmail_send" THEN "raise" ELSE "ok"
CalendarOdd(t) == IF t = "google_calendar_create_event" THEN "raise" ELSE "ok"
DocsOdd(t) == IF t = "google_docs_create" THEN "raise" ELSE "ok"
SlidesOdd(t) == IF t = "google_slides_create" THEN "raise" ELSE "ok"

GoogleOdd(t) ==
    CASE t \in {"google_calendar_list_events", "google_calendar_create_event"} ->
              CalendarOdd(t)
      [] t \in {"google_docs_get", "google_docs_create"} -> DocsOdd(t)
      [] t \in {"google_slides_get", "google_slides_create"} -> SlidesOdd(t)
      [] OTHER -> MailAndFilesOdd(t)

WebflowOdd(t) == IF t \in Writes THEN "raise" ELSE "ok"
BeehiivOdd(t) == "raise"
CalcomOdd(t) == IF t \in Writes THEN "output_quarantined" ELSE "ok"

\* HubSpot's SDK objects, Bitscale's permissive schemas, Clockify's wrapped
\* entry and the aggregators' raw results all pass.
OddBody(t) ==
    CASE t \in Route["google_workspace"] -> GoogleOdd(t)
      [] t \in Route["webflow"] -> WebflowOdd(t)
      [] t \in Route["beehiiv"] -> BeehiivOdd(t)
      [] t \in Route["calcom"] -> CalcomOdd(t)
      [] OTHER -> "ok"

\* A mutant: a request that failed is put down to its input.
OutcomeBlamingInput(t, body) ==
    CASE body = "full" -> "ok"
      [] body = "odd" -> OddBody(t)
      [] body = "none" -> "output_quarantined"
      [] body = "error" -> "input_rejected"

\* A mutant: a result of None has nothing to validate.
OutcomeUnvalidated(t, body) ==
    CASE body \in {"full", "none"} -> "ok"
      [] body = "odd" -> OddBody(t)
      [] body = "error" -> "raise"

\* Steps (4) and (5) of execute for the body the provider answered; None does
\* not satisfy an output schema, and every tool that can yield it has one.
Outcome(t, body) ==
    CASE body = "full" -> "ok"
      [] body = "odd" -> OddBody(t)
      [] body = "none" -> "output_quarantined"
      [] body = "error" -> "raise"

-----------------------------------------------------------------------------
Idle == [pc |-> "idle", loop |-> "none", call |-> 1, body |-> "none"]

TypeOK ==
    /\ calls \in [CallIds -> [tool : Tools, params : {"plain", "invalid", "risky"}]]
    /\ secrets \subseteq {Secret(t) : t \in Tools}
    /\ sdk \in BOOLEAN
    /\ config \in {"real", "placeholder", "missing"}
    /\ phase \in {"fresh", "running", "approved", "done"}
    /\ at \in [Threads ->
         [pc : {"idle", "next", "execute", "list", "ask", "sent", "body", "row"},
          loop : {"none", "reads", "writes"}, call : 1..(NumCalls + 1),
          body : {"none", "full", "odd", "error",
                  "stub", "input_rejected", "ok", "output_quarantined"}]]
    /\ cache \in [Procs -> [Tools \cap Route["composio"] -> {"unset", "none", "schema"}]]
    /\ asked \in [Procs -> [Tools \cap Route["composio"] -> Nat]]
    /\ rows \in [CallIds -> {"pending", "stub", "input_rejected", "ok",
                             "output_quarantined"}]
    /\ effects \in [CallIds -> Nat]
    /\ performed \in [CallIds -> SUBSET {"write", "draft", "live", "bound", "named"}]
    /\ deliveries \in 0..MaxDeliveries
    /\ crashes \in 0..MaxCrashes

NoSchemas == [t \in Tools \cap Route["composio"] |-> "unset"]
NotAsked == [t \in Tools \cap Route["composio"] |-> 0]

Init ==
    /\ calls \in {f \in [CallIds -> [tool : Tools, params : {"plain", "invalid", "risky"}]] :
                     \A c \in CallIds : f[c].params \in ParamsOf(f[c].tool)}
    /\ secrets \in SUBSET {Secret(calls[c].tool) : c \in CallIds}
    /\ sdk \in BOOLEAN
    /\ config \in {"real", "placeholder", "missing"}
    /\ phase = "fresh"
    /\ at = [w \in Threads |-> Idle]
    /\ cache = [p \in Procs |-> NoSchemas]
    /\ asked = [p \in Procs |-> NotAsked]
    /\ rows = [c \in CallIds |-> "pending"]
    /\ effects = [c \in CallIds |-> 0]
    /\ performed = [c \in CallIds |-> {}]
    /\ deliveries = 0
    /\ crashes = 0

Go(w, step) == at' = [at EXCEPT ![w] = step]
Tool(w) == calls[at[w].call].tool
Params(w) == calls[at[w].call].params
Answer(w, b) == Go(w, [at[w] EXCEPT !.pc = "row", !.body = b])

\* The exception leaves execute, the loop and process; the message is nacked.
Raise(w) == Go(w, Idle)

-----------------------------------------------------------------------------
(* The loops of runner.py.                                                 *)

\* process on a fresh task takes the read loop; a second delivery finds it
\* running and its transition raises, so only one ever does.  (The stale rerun of
\* an approved task, see ApprovalMesh, proposes calls of its own.)
DeliverFresh(w) ==
    /\ at[w].pc = "idle" /\ phase = "fresh"
    /\ phase' = "running"
    /\ Go(w, [Idle EXCEPT !.pc = "next", !.loop = "reads"])
    /\ UNCHANGED <<setting, schemas, rows, effects, performed, deliveries, crashes>>

\* _resume_after_approval: the state is read once, and stays approved until the
\* loop ends, so each redelivery takes every call again.
DeliverApproved(w) ==
    /\ at[w].pc = "idle" /\ phase = "approved"
    /\ deliveries < MaxDeliveries
    /\ deliveries' = deliveries + 1
    /\ Go(w, [Idle EXCEPT !.pc = "next", !.loop = "writes"])
    /\ UNCHANGED <<setting, phase, schemas, rows, effects, performed, crashes>>

InLoop(w, c) == (calls[c].tool \in Writes) = (at[w].loop = "writes")

SkipCall(w) ==
    /\ at[w].pc = "next" /\ at[w].call \in CallIds /\ ~InLoop(w, at[w].call)
    /\ Go(w, [at[w] EXCEPT !.call = @ + 1])
    /\ UNCHANGED <<setting, phase, schemas, rows, effects, performed, deliveries, crashes>>

TakeCall(w) ==
    /\ at[w].pc = "next" /\ at[w].call \in CallIds /\ InLoop(w, at[w].call)
    /\ Go(w, [at[w] EXCEPT !.pc = "execute"])
    /\ UNCHANGED <<setting, phase, schemas, rows, effects, performed, deliveries, crashes>>

\* After the reads the task pauses; its approval is external and given here.
\* After the writes it completes; a second completion is an illegal transition.
EndLoop(w) ==
    /\ at[w].pc = "next" /\ at[w].call \notin CallIds
    /\ phase' = IF at[w].loop = "writes" THEN "done"
                ELSE IF \E c \in CallIds : calls[c].tool \in Writes THEN "approved" ELSE "done"
    /\ Go(w, Idle)
    /\ UNCHANGED <<setting, schemas, rows, effects, performed, deliveries, crashes>>

\* upsert_tool_call of the executed row, whatever the outcome was.
RecordRow(w) ==
    /\ at[w].pc = "row"
    /\ rows' = [rows EXCEPT ![at[w].call] = at[w].body]
    /\ Go(w, [at[w] EXCEPT !.pc = "next", !.call = @ + 1, !.body = "none"])
    /\ UNCHANGED <<setting, phase, schemas, effects, performed, deliveries, crashes>>

-----------------------------------------------------------------------------
(* ToolGateway.execute.                                                    *)

RejectInput(w) ==
    /\ at[w].pc = "execute"
    /\ InputRejected(Tool(w), Params(w))
    /\ Answer(w, "input_rejected")
    /\ UNCHANGED <<setting, phase, schemas, rows, effects, performed, deliveries, crashes>>

\* No adapter or no credential: the deterministic stub.
Stub(w) ==
    /\ at[w].pc = "execute"
    /\ ~InputRejected(Tool(w), Params(w))
    /\ ~HasAdapter(Tool(w)) \/ Secret(Tool(w)) \notin secrets
    /\ Answer(w, "stub")
    /\ UNCHANGED <<setting, phase, schemas, rows, effects, performed, deliveries, crashes>>

Dispatch(w) ==
    /\ at[w].pc = "execute"
    /\ ~InputRejected(Tool(w), Params(w))
    /\ HasAdapter(Tool(w)) /\ Secret(Tool(w)) \in secrets
    /\ LET request == Request(Tool(w), Params(w)) IN
         CASE request = "raise" -> Raise(w)
           [] request = "none" -> Go(w, [at[w] EXCEPT !.pc = "body"])
           [] OTHER -> Go(w, [at[w] EXCEPT !.pc =
                                 IF Tool(w) \in Route["composio"] THEN "list" ELSE "sent"])
    /\ UNCHANGED <<setting, phase, schemas, rows, effects, performed, deliveries, crashes>>

\* fetch_runtime_schema: an answer in the cache, None included, is used ...
LookUpSchema(w) ==
    /\ at[w].pc = "list"
    /\ Go(w, [at[w] EXCEPT !.pc =
                IF cache[Home[w]][Tool(w)] = "unset" THEN "ask" ELSE "sent"])
    /\ UNCHANGED <<setting, phase, schemas, rows, effects, performed, deliveries, crashes>>

\* A mutant: only a schema that was found is kept.
StoreSchemaFound(w) ==
    /\ at[w].pc = "ask"
    /\ \E found \in {"unset", "schema"} :
         cache' = [cache EXCEPT ![Home[w]][Tool(w)] = found]
    /\ asked' = [asked EXCEPT ![Home[w]][Tool(w)] = @ + 1]
    /\ Go(w, [at[w] EXCEPT !.pc = "sent"])
    /\ UNCHANGED <<setting, phase, rows, effects, performed, deliveries, crashes>>

\* ... otherwise session.tools() is asked, without a lock, and what it answered
\* is stored, None for an error.
StoreSchema(w) ==
    /\ at[w].pc = "ask"
    /\ \E found \in {"none", "schema"} :
         cache' = [cache EXCEPT ![Home[w]][Tool(w)] = found]
    /\ asked' = [asked EXCEPT ![Home[w]][Tool(w)] = @ + 1]
    /\ Go(w, [at[w] EXCEPT !.pc = "sent"])
    /\ UNCHANGED <<setting, phase, rows, effects, performed, deliveries, crashes>>

\* The provider (external) performs a write and answers, or fails; the failure
\* may hide a write that was performed.
ProviderAnswers(w) ==
    /\ at[w].pc = "sent"
    /\ \E b \in {"full", "odd", "error"}, done \in BOOLEAN :
         /\ b \in {"full", "odd"} => done
         /\ Go(w, [at[w] EXCEPT !.pc = "body", !.body = b])
         /\ IF done /\ Tool(w) \in Writes
            THEN /\ effects' = [effects EXCEPT ![at[w].call] = @ + 1]
                 /\ performed' = [performed EXCEPT ![at[w].call] =
                                    @ \cup {Request(Tool(w), Params(w))}]
            ELSE UNCHANGED <<effects, performed>>
    /\ UNCHANGED <<setting, phase, schemas, rows, deliveries, crashes>>

\* A mutant: a failed request is sent again by the gateway.
MapResultRetrying(w) ==
    /\ at[w].pc = "body"
    /\ LET o == Outcome(Tool(w), at[w].body) IN
         IF o = "raise" THEN Go(w, [at[w] EXCEPT !.pc = "sent", !.body = "none"])
                        ELSE Answer(w, o)
    /\ UNCHANGED <<setting, phase, schemas, rows, effects, performed, deliveries, crashes>>

\* A mutant: a call that raised is skipped, and the loop goes on.
MapResultSkipping(w) ==
    /\ at[w].pc = "body"
    /\ LET o == Outcome(Tool(w), at[w].body) IN
         IF o = "raise" THEN Go(w, [at[w] EXCEPT !.pc = "next", !.call = @ + 1, !.body = "none"])
                        ELSE Answer(w, o)
    /\ UNCHANGED <<setting, phase, schemas, rows, effects, performed, deliveries, crashes>>

\* A mutant: the result is handed on as it came.
MapResultRaw(w) ==
    /\ at[w].pc = "body"
    /\ IF Outcome(Tool(w), at[w].body) = "raise" THEN Raise(w) ELSE Answer(w, at[w].body)
    /\ UNCHANGED <<setting, phase, schemas, rows, effects, performed, deliveries, crashes>>

\* The adapter maps the body; the gateway validates what it returned.
MapResult(w) ==
    /\ at[w].pc = "body"
    /\ LET o == Outcome(Tool(w), at[w].body) IN
         IF o = "raise" THEN Raise(w) ELSE Answer(w, o)
    /\ UNCHANGED <<setting, phase, schemas, rows, effects, performed, deliveries, crashes>>

\* A process dies: the deliveries of its threads and its module state are gone.
Crash(p) ==
    /\ crashes < MaxCrashes
    /\ \E w \in Threads : Home[w] = p /\ at[w].pc # "idle"
    /\ crashes' = crashes + 1
    /\ at' = [w \in Threads |-> IF Home[w] = p THEN Idle ELSE at[w]]
    /\ cache' = [cache EXCEPT ![p] = NoSchemas]
    /\ asked' = [asked EXCEPT ![p] = NotAsked]
    /\ UNCHANGED <<setting, phase, rows, effects, performed, deliveries>>

Next ==
    \/ \E w \in Threads :
         \/ DeliverFresh(w) \/ DeliverApproved(w)
         \/ SkipCall(w) \/ TakeCall(w) \/ EndLoop(w) \/ RecordRow(w)
         \/ RejectInput(w) \/ Stub(w) \/ Dispatch(w)
         \/ LookUpSchema(w) \/ StoreSchema(w)
         \/ ProviderAnswers(w) \/ MapResult(w)
    \/ \E p \in Procs : Crash(p)

Spec == Init /\ [][Next]_vars

-----------------------------------------------------------------------------
\* A row that says nothing was sent (a stub, a rejected input) is true of every
\* delivery, also of one that died before it could write a row.
UnsentRowsTouchedNothing ==
    \A c \in CallIds : rows[c] \in {"stub", "input_rejected"} => effects[c] = 0

\* A write whose row says ok, and is not a stub's, was performed.
OkWritesWerePerformed ==
    \A c \in CallIds :
        rows[c] = "ok" /\ calls[c].tool \in Writes => effects[c] > 0

\* Whatever the caller asks, on every delivery, a publishing or financial tool
\* leaves a draft at its provider.
DraftsStayDrafts ==
    \A c \in CallIds : calls[c].tool \in DraftOnly => performed[c] \subseteq {"draft"}

\* A write is performed at most once per delivery of the approved task: neither
\* the gateway nor an adapter repeats a request whose answer was lost or odd.
OnePerformancePerDelivery == \A c \in CallIds : effects[c] <= deliveries

\* A task completes, or goes on to its writes, only when each of its calls, or
\* reads, has an outcome in its row: a call that raised in one delivery is not
\* left behind by another (the loops of runner.py; EndLoop reads no row).
NothingLeftPending ==
    \A c \in CallIds :
        \/ phase = "done"
        \/ phase = "approved" /\ calls[c].tool \notin Writes
        => rows[c] # "pending"

\* A quarantined row of a write, which a reader takes for an answer that did not
\* conform, follows a performance of it.  The exception is a credentialed HubSpot
\* write without the SDK: the adapter degrades to None, which execute takes for
\* the provider's answer, where the adapters' documentation has the engine stub
\* (hubspot.py:14-18).
QuarantinedWritesWerePerformed ==
    \A c \in CallIds :
        rows[c] = "output_quarantined" /\ calls[c].tool \in Writes =>
            \/ effects[c] > 0
            \/ ~sdk /\ calls[c].tool \in Route["hubspot"]

\* The cache is read before the session is asked and written after, without a
\* lock, so the one question per process it is there for (aggregate_schema.py:
\* 14-17) becomes one per thread at most: whatever the session answers, errors
\* included, no thread that looks later asks again while the process lives.
SchemaAskedOncePerThread ==
    \A p \in Procs : \A t \in DOMAIN asked[p] :
        asked[p][t] <= Cardinality({w \in Threads : Home[w] = p})
=============================================================================
