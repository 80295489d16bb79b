------------------------------- MODULE MCGateway -------------------------------
(* Small sets of HTTP requests for Gateway.  Alice owns the job there is and  *)
(* Mal is trusted by nobody.                                                  *)
EXTENDS Gateway

CONSTANTS alice, mal, doc

(* Every message is about the one job there is. *)
Message(endpoint, get, credentials, fields, who, amount) ==
    [endpoint |-> endpoint, get |-> get, functionName |-> "none", credentials |-> credentials, fields |-> fields,
     who |-> who, id |-> 1, content |-> doc, amount |-> amount, other |-> mal]

Get(endpoint, fields) == Message(endpoint, TRUE, "missing", fields, alice, 0)

Post(endpoint, credentials, fields, who, amount) ==
    Message(endpoint, FALSE, credentials, fields, who, amount)

InBody == {"body"}

(* The same with a functionName in its query. *)
Naming(m, name) == [m EXCEPT !.functionName = name]

(* Requests that write, by the owner, by a stranger, unsigned or invalid. *)
WriteMessages ==
    {Post(e, "given", InBody, who, 1) :
         e \in {"abort", "storeFinalResults"}, who \in {alice, mal}}
        \cup {Post("fund", "given", InBody, alice, 1), Post("cancel", "given", InBody, alice, 0),
              Post("complete", "given", InBody, mal, 0),
              Post("noteIntermediateResults", "given", InBody, mal, 0)}
        \cup {Post("storeFinalResults", "missing", InBody, alice, 0),
              Post("bulkPayout", "given", {}, alice, 1)}

(* A request to each of the endpoints not among these, and one of each way out. *)
OtherMessages ==
    {Get(e, {"query"}) :
         e \in {"manifest_validate", "escrow", "status", "manifestUrl", "manifestHash", "launcher",
                "balance", "intermediateResults", "finalResults", "factory_get"}}
        \cup {Get(e, InBody) : e \in {"manifest_validate", "balance", "factory_get", "none"}}
        \cup {Naming(Get("status", {"query"}), name) : name \in {"finalResults", "other"}}
        \cup {Post(e, "given", InBody, alice, 1) :
                  e \in {"factory_create", "create", "storeIntermediateResults", "bulkPayout",
                         "addTrustedHandlers"}}
        \cup {Post("create", "given", {}, alice, 0), Post("factory_create", "missing", {}, alice, 0),
              Post("bulkPayout", "bad", InBody, alice, 1), Post("none", "given", InBody, alice, 0)}

AllMessages == WriteMessages \cup OtherMessages

(* What the services may make of these. *)
AllRequests ==
    {Asking(r, m, api) :
        r \in Tasks, m \in {n \in AllMessages : Routed(n) /\ Operation(n) # "other"}, api \in BOOLEAN}
===============================================================================
