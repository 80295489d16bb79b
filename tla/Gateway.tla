-------------------------------- MODULE Gateway --------------------------------
(***************************************************************************)
(* The express wrapper (src/express): each HTTP request passes             *)
(* keysMiddleware and the router to a controller, whose service validates  *)
(* it, runs one operation of Job or JobReads, a task of Jobs, and answers  *)
(* with a status.  The server listens before setup has given it an api and *)
(* a keyring.                                                              *)
(***************************************************************************)
EXTENDS Jobs

CONSTANTS Messages    \* HTTP requests an instance may get

(* The controllers of each router: the operation behind each endpoint. *)
FactoryFunction == [factory_create |-> "createFactory", factory_get |-> "getAllJobs"]

ManifestFunction == [manifest_validate |-> "manifest"]

JobFunction ==
    [create                   |-> "createEscrow",
     storeIntermediateResults |-> "noteIntermediateResults",
     bulkPayout               |-> "bulkPayout",
     addTrustedHandlers       |-> "addTrustedHandlers",
     escrow                   |-> "escrow",
     status                   |-> "escrow",
     manifestUrl              |-> "escrow",
     manifestHash             |-> "escrow",
     launcher                 |-> "escrow",
     balance                  |-> "balance",
     abort                    |-> "abort",
     cancel                   |-> "cancel",
     fund                     |-> "fundEscrow",
     storeFinalResults        |-> "storeFinalResults",
     complete                 |-> "complete",
     noteIntermediateResults  |-> "noteIntermediateResults",
     intermediateResults      |-> "finalResults",
     finalResults             |-> "finalResults"]

(* The routers express mounts. *)
Function ==
    [e \in DOMAIN FactoryFunction \cup DOMAIN ManifestFunction \cup DOMAIN JobFunction |->
        CASE e \in DOMAIN FactoryFunction -> FactoryFunction[e]
          [] e \in DOMAIN ManifestFunction -> ManifestFunction[e]
          [] e \in DOMAIN JobFunction -> JobFunction[e]]

(* Endpoints of GET; every other is POST or PATCH. *)
FactoryGets == {"factory_get"}

ManifestGets == {"manifest_validate"}

JobGets ==
    {"escrow", "status", "manifestUrl", "manifestHash", "launcher", "balance",
     "intermediateResults", "finalResults"}

Gets == FactoryGets \cup ManifestGets \cup JobGets

(* Where a service looks for the fields its schema requires. *)
Places(op) ==
    CASE op \in {"escrow", "balance", "finalResults"} -> {"body", "query"}
      [] op = "manifest" -> {"query"}
      [] OTHER -> {"body"}

(* The operations readNoParams may call, by their name. *)
ReadNames == {"escrow", "balance", "finalResults"}

(***************************************************************************)
(* A message: its endpoint ("none": no route has it), its method, the      *)
(* functionName of its query ("other": of nothing that can be called       *)
(* without arguments), the credentials of its body, the places that hold   *)
(* all the required fields, and what these say.                            *)
(***************************************************************************)
MessageType ==
    [endpoint : DOMAIN Function \cup {"none"}, get : BOOLEAN,
     functionName : ReadNames \cup {"none", "other"},
     credentials : {"given", "bad", "missing"}, fields : SUBSET {"body", "query"},
     who : Accounts, id : EscrowIds, content : Contents, amount : Nat, other : Accounts]

(* Only the body of what is not a GET is asked for credentials. *)
Sender(m) == IF m.get \/ m.credentials = "missing" THEN None ELSE m.who

(* The operation behind m: readNoParams lets the query replace the controller's name. *)
Operation(m) ==
    IF Function[m.endpoint] \in ReadNames /\ m.functionName # "none"
      THEN m.functionName ELSE Function[m.endpoint]

(* What the services ask of the library for m, given an api or none: of a Job of its own. *)
Asking(r, m, api) ==
    [op |-> Operation(m), job |-> r, who |-> Sender(m), api |-> api, id |-> m.id,
     content |-> m.content, amount |-> m.amount, other |-> m.other]

Routed(m) == m.endpoint # "none"

(* The statuses a request is answered with. *)
Codes == {200, 400, 401, 404, 500}

ASSUME GatewayAssumption ==
    /\ Messages \subseteq MessageType
    /\ None \notin Messages /\ None \notin Codes
    /\ \A m \in Messages : Routed(m) =>
           /\ m.get <=> m.endpoint \in Gets
           /\ Operation(m) # "other" =>
                  \A r \in Tasks, api \in BOOLEAN : Asking(r, m, api) \in Requests

VARIABLES
    globals,   \* which of the globals the server works with are set
    message,   \* message[r]: the HTTP request r, None before it arrives
    phase,     \* phase[r]: none, validating, operating or over
    answer,    \* answer[r]: the status the client of r gets, None before
    broken     \* requests whose controller failed to answer a second time

gwVars == <<globals, message, phase, answer, broken>>
allVars == <<vars, gwVars>>

--------------------------------------------------------------------------------
GwInit ==
    /\ Init
    /\ globals = {}
    /\ message = [r \in Tasks |-> None]
    /\ phase = [r \in Tasks |-> "none"]
    /\ answer = [r \in Tasks |-> None]
    /\ broken = {}

(* res.status(code).send: a second answer throws, and no one handles it. *)
Send(r, code) ==
    IF answer[r] = None
      THEN answer' = [answer EXCEPT ![r] = code] /\ UNCHANGED broken
      ELSE broken' = broken \cup {r} /\ UNCHANGED answer

(* What setup returns, if ever: an api that is connected, and a keyring. *)
setup == {"substrate", "keyring"}

(* listen's callback: setup has returned and the globals are set. *)
SetUp ==
    /\ globals = {}
    /\ globals' = setup
    /\ UNCHANGED <<message, phase, answer, broken, vars>>

(* keysMiddleware throws without a keyring, or on keys it cannot read. *)
KeysThrow(m) ==
    /\ ~ m.get
    /\ m.credentials # "missing"
    /\ "keyring" \notin globals \/ m.credentials = "bad"

(* Mutated: the middleware is async, and its errors are nobody's. *)
ArriveAsync(r, m) ==
    /\ message[r] = None
    /\ message' = [message EXCEPT ![r] = m]
    /\ LET refused == ~ m.get /\ m.credentials = "missing"
           routed  == Routed(m) /\ ~ KeysThrow(m)
       IN /\ phase' = [phase EXCEPT ![r] = IF routed THEN "validating" ELSE "over"]
          /\ answer' = [answer EXCEPT ![r] =
                          IF refused THEN 400 ELSE IF ~ Routed(m) THEN 404 ELSE None]
    /\ UNCHANGED <<globals, broken, vars>>

(* The request passes the middleware, without credentials after an answer, to a route if any. *)
Arrive(r, m) ==
    /\ message[r] = None
    /\ message' = [message EXCEPT ![r] = m]
    /\ LET refused == ~ m.get /\ m.credentials = "missing"
           routed  == Routed(m) /\ ~ KeysThrow(m)
       IN /\ phase' = [phase EXCEPT ![r] = IF routed THEN "validating" ELSE "over"]
          /\ answer' = [answer EXCEPT ![r] =
                          IF KeysThrow(m) THEN 500
                          ELSE IF refused THEN 400
                          ELSE IF ~ routed THEN 404 ELSE None]
    /\ UNCHANGED <<globals, broken, vars>>

(* createFactory has no schema; the others look for their fields in their places. *)
Valid(m) ==
    \/ Function[m.endpoint] = "createFactory"
    \/ m.fields \cap Places(Function[m.endpoint]) # {}

(* Mutated: the api is taken to be there. *)
RequestOfReady(r) == Asking(r, message[r], TRUE)

(* The request to the library, with the api there is at this moment. *)
Request(r) == Asking(r, message[r], "substrate" \in globals)

(* Mutated: an invalid request is answered, and carried out all the same. *)
ValidateGoesOn(r) ==
    /\ phase[r] = "validating"
    /\ Operation(message[r]) # "other"
    /\ IF Valid(message[r]) THEN UNCHANGED <<answer, broken>> ELSE Send(r, 400)
    /\ Start(r, Request(r))
    /\ phase' = [phase EXCEPT ![r] = "operating"]
    /\ UNCHANGED <<globals, message>>

(* The service validates its fields, then calls the operation, or throws if there is none. *)
Validate(r) ==
    /\ phase[r] = "validating"
    /\ \/ /\ ~ Valid(message[r])
          /\ Send(r, 400)
          /\ phase' = [phase EXCEPT ![r] = "over"]
          /\ UNCHANGED vars
       \/ /\ Valid(message[r])
          /\ Operation(message[r]) = "other"
          /\ Send(r, 500)
          /\ phase' = [phase EXCEPT ![r] = "over"]
          /\ UNCHANGED vars
       \/ /\ Valid(message[r])
          /\ Operation(message[r]) # "other"
          /\ Start(r, Request(r))
          /\ phase' = [phase EXCEPT ![r] = "operating"]
          /\ UNCHANGED <<answer, broken>>
    /\ UNCHANGED <<globals, message>>

(* Mutated: no status for the other errors; or an error known by its message. *)
StatusOfKnown(rep) ==
    CASE rep.cause = "untrusted" -> 401
      [] rep.cause = "none" -> 404
      [] OTHER -> 0

StatusOfMessage(rep) ==
    CASE rep.cause = "untrusted" /\ rep.kind = "plain" -> 401
      [] rep.cause = "none" -> 404
      [] OTHER -> 500

(* handleError: NonTrustedAccount by its name, an empty Option by its message. *)
StatusOf(rep) ==
    CASE rep.cause = "untrusted" -> 401
      [] rep.cause = "none" -> 404
      [] OTHER -> 500

(* Mutated: the operation is not awaited. *)
RespondAtOnce(r) ==
    /\ phase[r] = "operating"
    /\ Send(r, IF status[r] = "failed" THEN StatusOf(report[r]) ELSE 200)
    /\ phase' = [phase EXCEPT ![r] = "over"]
    /\ UNCHANGED <<globals, message, vars>>

(* The controller answers when the operation is over. *)
Respond(r) ==
    /\ phase[r] = "operating"
    /\ status[r] \in {"done", "failed"}
    /\ Send(r, IF status[r] = "done" THEN 200 ELSE StatusOf(report[r]))
    /\ phase' = [phase EXCEPT ![r] = "over"]
    /\ UNCHANGED <<globals, message, vars>>

(* The operations and the chain go on. *)
Library ==
    /\ \/ \E r \in Tasks : Work(r)
       \/ \E c \in Calls : Execute(c) \/ GiveUp(c)
    /\ UNCHANGED gwVars

GwNext ==
    \/ SetUp
    \/ \E r \in Tasks :
           \/ \E m \in Messages : Arrive(r, m)
           \/ Validate(r)
           \/ Respond(r)
    \/ Library

GwSpec == GwInit /\ [][GwNext]_allVars

(***************************************************************************)
(* As in Jobs for the operations; the server's event loop runs.  Setup     *)
(* waits for the node and need never return.                               *)
(***************************************************************************)
GwFairness ==
    /\ \A r \in Tasks : WF_allVars(Validate(r)) /\ WF_allVars(Respond(r))
    /\ \A r \in Tasks : WF_allVars(Work(r) /\ UNCHANGED gwVars)
    /\ \A c \in Calls : WF_allVars((Execute(c) \/ GiveUp(c)) /\ UNCHANGED gwVars)

GwFairSpec == GwSpec /\ GwFairness

--------------------------------------------------------------------------------
GwTypeOK ==
    /\ globals \in {{}, setup}
    /\ message \in [Tasks -> Messages \cup {None}]
    /\ phase \in [Tasks -> {"none", "validating", "operating", "over"}]
    /\ answer \in [Tasks -> Codes \cup {None}]
    /\ broken \subseteq Tasks

(***************************************************************************)
(* The status tells what became of the request on the chain, now and       *)
(* later: 200 means that its calls took effect, 400, 401 and 404 that none *)
(* has nor will.                                                           *)
(***************************************************************************)
StatusIsTrue ==
    \A r \in Tasks :
        /\ answer[r] = 200 =>
               \A k \in CallKinds : k \in {Plan[request[r].op][i] : i \in DOMAIN Plan[request[r].op]}
                                    => Effective(<<r, k>>)
        /\ answer[r] \in {400, 401, 404} => \A k \in CallKinds : ~ Effective(<<r, k>>)

(***************************************************************************)
(* Every error an escrow raises because the account is not trusted comes   *)
(* to the client of the endpoints that go through sendAndWait as 401, and  *)
(* never as 500 or 404.                                                    *)
(***************************************************************************)
UntrustedIsUnauthorized ==
    \A r \in Tasks :
        \A k \in CallKinds \ FilteredKinds :
            (phase[r] = "over" /\ \E x \in executed[<<r, k>>] : x.tag = "untrusted")
                => answer[r] = 401

(***************************************************************************)
(* Before setup is over no request succeeds or touches the chain; one that *)
(* was taken up by then fails, though setup may end while it uploads.      *)
(***************************************************************************)
NothingBeforeSetUp ==
    \A r \in Tasks :
        ("substrate" \notin globals \/ (request[r] # None /\ ~ request[r].api)) =>
            /\ status[r] # "done" /\ answer[r] # 200
            /\ \A k \in CallKinds : executed[<<r, k>>] = {}

(* A controller answers twice only after the middleware has answered for it. *)
AnsweredOnce ==
    \A r \in broken : message[r].credentials = "missing" /\ answer[r] = 400

(***************************************************************************)
(* Every request is answered, whether or not setup ever returns.           *)
(***************************************************************************)
EveryRequestAnswered ==
    \A r \in Tasks : message[r] # None ~> answer[r] # None
===============================================================================
