---------------------------- MODULE MCToolGateway ----------------------------
(* A small instance of ToolGateway: one tool per way an adapter can behave. *)
EXTENDS ToolGateway, TLC

CONSTANTS w1, w2, w3, p1, p2

\* Two threads of one process and one of another.
TwoAndOne == w1 :> p1 @@ w2 :> p1 @@ w3 :> p2

\* The two threads of the first process are interchangeable.
Symmetry == Permutations({w1, w2})

\* A raising and a quarantining direct write, an SDK that degrades to None, the
\* three draft-only tools, the paid grid, an aggregated and a direct read.
PackSample ==
    {"gmail_send", "google_docs_get", "hubspot_create_deal", "calcom_create_booking",
     "webflow_create_cms_item", "beehiiv_create_post", "bitscale_run_grid",
     "xero_create_invoice", "nango_hubspot_list_contacts"}
=============================================================================
