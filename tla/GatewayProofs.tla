----------------------------- MODULE GatewayProofs -----------------------------
(***************************************************************************)
(* Theorems about the express wrapper, for any messages, tasks, accounts   *)
(* and documents.  It drives the library as Jobs allows, so that what is   *)
(* proved of Jobs holds behind it; the meaning of its answers rests on the *)
(* invariant of Jobs and on one of its own.                                *)
(***************************************************************************)
EXTENDS Gateway, JobsResultsProofs

LEMMA MessageTyped ==
    ASSUME NEW m \in Messages
    PROVE  /\ m # None
           /\ m.endpoint \in DOMAIN Function \cup {"none"}
           /\ m.get \in BOOLEAN
           /\ m.credentials \in {"given", "bad", "missing"}
           /\ (Routed(m) /\ Operation(m) # "other") => Operation(m) \in Ops \ {"launch"}
<1>1. m \in MessageType /\ m # None
  BY GatewayAssumption DEF GatewayAssumption
<1>2. /\ \A e \in DOMAIN FactoryFunction : FactoryFunction[e] \in Ops \ {"launch"}
      /\ \A e \in DOMAIN ManifestFunction : ManifestFunction[e] \in Ops \ {"launch"}
      /\ \A e \in DOMAIN JobFunction : JobFunction[e] \in Ops \ {"launch"}
  BY OpsAre DEF FactoryFunction, ManifestFunction, JobFunction
<1>3. \A e \in DOMAIN Function : Function[e] \in Ops \ {"launch"}
  BY <1>2 DEF Function
<1>4. m.functionName \in ReadNames \cup {"none", "other"} /\ ReadNames \subseteq Ops \ {"launch"}
  BY <1>1, OpsAre DEF MessageType, ReadNames
<1>5. (Routed(m) /\ Operation(m) # "other") => Operation(m) \in Ops \ {"launch"}
  BY <1>1, <1>3, <1>4 DEF MessageType, Routed, Operation
<1> QED
  BY <1>1, <1>5 DEF MessageType

LEMMA AskingTyped ==
    ASSUME NEW r \in Tasks, NEW m \in Messages, Routed(m), Operation(m) # "other",
           NEW api \in BOOLEAN
    PROVE  /\ Asking(r, m, api) \in Requests
           /\ Asking(r, m, api) # None
           /\ Asking(r, m, api).op = Operation(m)
           /\ Asking(r, m, api).who = Sender(m)
           /\ Asking(r, m, api).api = api
<1>1. Asking(r, m, api) \in Requests
  BY GatewayAssumption DEF GatewayAssumption
<1>2. Asking(r, m, api) # None
  BY <1>1, JobsAssumption DEF JobsAssumption
<1> QED
  BY <1>1, <1>2 DEF Asking

(* But for launch, which no endpoint calls, an operation sends one call, the last of its plan. *)
LEMMA CallIsLast ==
    ASSUME NEW op \in Ops \ {"launch"}, NEW i \in 1 .. Len(Plan[op]), Plan[op][i] \in CallKinds
    PROVE  i = Len(Plan[op])
<1>1. op \in Ops /\ op # "launch"
  OBVIOUS
<1>2. Plan[op][i] \notin Reads
  BY DEF Reads, CallKinds
<1>3. Plan[op][i] # "upload"
  BY DEF CallKinds
<1>4. \/ op \in Posts /\ i = 2
      \/ op \in OneCall \cup {"createEscrow", "fundEscrow"} /\ i = 1
  BY <1>1, <1>2, <1>3, PlanCases
<1>5. CASE op \in Posts /\ i = 2
  <2>1. op \in Pairs  BY <1>5 DEF Posts, Pairs
  <2> QED  BY <1>5, <2>1, PlanTable
<1>6. CASE op \in OneCall \cup {"createEscrow", "fundEscrow"} /\ i = 1
  <2>1. op \notin Pairs  BY <1>6 DEF OneCall, Pairs
  <2> QED  BY <1>1, <1>6, <2>1, PlanTable
<1> QED
  BY <1>4, <1>5, <1>6

LEMMA UploadIsNotLast ==
    ASSUME NEW op \in Ops, NEW i \in 1 .. Len(Plan[op]), Plan[op][i] = "upload"
    PROVE  i < Len(Plan[op])
BY PlanCases, PlanTable DEF Pairs, Posts, OneCall, Reads

(* Without an api no operation comes to its end. *)
LEMMA EndNeedsApi ==
    ASSUME IInv, NEW t \in Tasks, Work(t), status'[t] = "done"
    PROVE  request[t].api
<1>1. /\ Running(t) /\ request[t] # None /\ request[t].op \in Ops
      /\ at[t] \in 1 .. Len(Plan[request[t].op])
  <2>1. Running(t)  BY WorkCases DEF Onward, Failing
  <2> QED  BY <2>1, RequestTyped DEF IInv, Sound, Placed, Running
<1>2. ~ \E cause \in Causes : Fail(t, cause)
  BY DEF Fail, IInv, TypeOK
<1>3. CASE Upload(t)
  <2>1. Advance(t) /\ Step(t) = "upload"
    BY <1>2, <1>3 DEF Upload, At, Causes
  <2>2. at[t] < Len(Plan[request[t].op])
    BY <1>1, <2>1, UploadIsNotLast DEF Step
  <2> QED  BY <1>1, <2>1, <2>2 DEF Advance, Running
<1>4. CASE BadAmount(t) \/ SendUnsigned(t) \/ WithoutApi(t)
  BY <1>2, <1>4 DEF BadAmount, SendUnsigned, WithoutApi, Causes
<1>5. CASE Download(t) \/ Query(t) \/ LookUpNoted(t)
  BY <1>5 DEF Download, Query, LookUpNoted, At
<1>6. CASE Reply(t)
  BY <1>6 DEF Reply, At, CallKinds
<1> QED
  BY <1>3, <1>4, <1>5, <1>6 DEF Work

(* The operations go on without the wrapper: what is asked and what is over stay. *)
LEMMA LibraryFrame ==
    ASSUME IInv, Library
    PROVE  /\ request' = request
           /\ \A r \in Tasks : status[r] \in {"idle", "done", "failed"} =>
                  status'[r] = status[r] /\ report'[r] = report[r]
           /\ \A r \in Tasks : status'[r] = "done" => status[r] = "done" \/ request[r].api
<1>1. CASE \E c \in Calls : Execute(c) \/ GiveUp(c)
  BY <1>1 DEF Execute, GiveUp, taskVars
<1>2. CASE \E t \in Tasks : Work(t)
  <2>1. PICK t \in Tasks : Work(t)  BY <1>2
  <2>2. /\ Running(t)
        /\ request' = request
        /\ \A r \in Tasks \ {t} : status'[r] = status[r] /\ report'[r] = report[r]
    <3>1. /\ status \in [Tasks -> {"idle", "running", "done", "failed", "crashed"}]
          /\ report \in [Tasks -> Reports]
      BY DEF IInv, TypeOK
    <3>2. CASE Onward(t)
      BY <3>1, <3>2 DEF Onward, Advance
    <3>3. CASE Failing(t)
      BY <3>1, <3>3 DEF Failing, Fail
    <3> QED  BY <2>1, <3>2, <3>3, WorkCases
  <2>3. status'[t] = "done" => request[t].api
    BY <2>1, EndNeedsApi
  <2> QED  BY <2>2, <2>3 DEF Running
<1> QED
  BY <1>1, <1>2 DEF Library

--------------------------------------------------------------------------------
(***************************************************************************)
(* What holds of each request: which message it came with and what was     *)
(* asked of the library for it; why it was answered; what it lacks before  *)
(* setup is over.                                                          *)
(***************************************************************************)
Unsigned(m) == ~ m.get /\ m.credentials = "missing"

Shaped(r) ==
    /\ message[r] = None <=> phase[r] = "none"
    /\ phase[r] = "none" => answer[r] = None
    /\ phase[r] = "validating" => Routed(message[r])
    /\ phase[r] \in {"none", "validating"} => request[r] = None
    /\ request[r] # None =>
           /\ message[r] \in Messages /\ Routed(message[r])
           /\ Operation(message[r]) # "other"
           /\ \E api \in BOOLEAN : request[r] = Asking(r, message[r], api)

Answered(r) ==
    /\ (phase[r] \in {"validating", "operating"} /\ answer[r] # None) =>
           answer[r] = 400 /\ Unsigned(message[r])
    /\ answer[r] = 200 => status[r] = "done"
    /\ (answer[r] = 400 /\ request[r] # None) => request[r].who = None
    /\ answer[r] \in {401, 404} =>
           /\ phase[r] = "over"
           /\ request[r] # None => status[r] = "failed" /\ report[r].cause \in {"untrusted", "none"}
    /\ (phase[r] = "over" /\ request[r] # None) =>
           \/ request[r].who = None
           \/ status[r] = "done" /\ answer[r] = 200
           \/ status[r] = "failed" /\ answer[r] = StatusOf(report[r])
    /\ r \in broken => phase[r] # "none" /\ answer[r] = 400 /\ Unsigned(message[r])

Unset(r) ==
    request[r] # None =>
        /\ globals = {} => ~ request[r].api
        /\ ~ request[r].api => status[r] # "done"

Fits(r) == Shaped(r) /\ Answered(r) /\ Unset(r)

GwIInv == GwTypeOK /\ \A r \in Tasks : Fits(r)

LEMMA NoCode == None \notin Codes /\ None # 200 /\ None # 400 /\ None # 401 /\ None # 404
BY GatewayAssumption DEF GatewayAssumption, Codes

LEMMA GwInitHolds == GwInit => GwIInv
<1> SUFFICES ASSUME GwInit PROVE GwIInv  OBVIOUS
<1>1. GwTypeOK  BY DEF GwInit, GwTypeOK
<1>2. ASSUME NEW r \in Tasks PROVE Fits(r)
  <2>1. /\ message[r] = None /\ phase[r] = "none" /\ answer[r] = None /\ r \notin broken
        /\ request[r] = None
    BY DEF GwInit, Init
  <2> QED  BY <2>1, NoCode DEF Fits, Shaped, Answered, Unset
<1> QED  BY <1>1, <1>2 DEF GwIInv

LEMMA SetUpKeeps ==
    ASSUME GwIInv, SetUp
    PROVE  GwIInv'
<1>1. globals = {} /\ globals' = setup /\ setup # {}  BY DEF SetUp, setup
<1>2. UNCHANGED <<message, phase, answer, broken, request, status, report>>
  BY DEF SetUp, vars, taskVars
<1> QED
  BY <1>1, <1>2 DEF GwIInv, GwTypeOK, Fits, Shaped, Answered, Unset

LEMMA ArriveKeeps ==
    ASSUME GwIInv, NEW r \in Tasks, NEW m \in Messages, Arrive(r, m)
    PROVE  GwIInv'
<1>1. /\ message[r] = None
      /\ UNCHANGED <<globals, broken, request, status, report>>
      /\ message' = [message EXCEPT ![r] = m]
      /\ phase' = [phase EXCEPT ![r] = phase'[r]]
      /\ answer' = [answer EXCEPT ![r] = answer'[r]]
      /\ phase'[r] = IF Routed(m) /\ ~ KeysThrow(m) THEN "validating" ELSE "over"
      /\ answer'[r] = IF KeysThrow(m) THEN 500 ELSE IF Unsigned(m) THEN 400
                      ELSE IF ~ Routed(m) THEN 404 ELSE None
  <2> DEFINE refused == ~ m.get /\ m.credentials = "missing"
             routed  == Routed(m) /\ ~ KeysThrow(m)
             ph == IF routed THEN "validating" ELSE "over"
             an == IF KeysThrow(m) THEN 500
                   ELSE IF refused THEN 400 ELSE IF ~ routed THEN 404 ELSE None
  <2>1. /\ message[r] = None
        /\ UNCHANGED <<globals, broken, request, status, report>>
        /\ message' = [message EXCEPT ![r] = m]
        /\ phase' = [phase EXCEPT ![r] = ph]
        /\ answer' = [answer EXCEPT ![r] = an]
    BY DEF Arrive, vars, taskVars
  <2>2. an = IF KeysThrow(m) THEN 500 ELSE IF Unsigned(m) THEN 400
             ELSE IF ~ Routed(m) THEN 404 ELSE None
    BY DEF Unsigned
  <2> HIDE DEF ph, an
  <2>3. phase'[r] = ph /\ answer'[r] = an
    BY <2>1 DEF GwIInv, GwTypeOK
  <2> QED  BY <2>1, <2>2, <2>3 DEF ph
<1>2. GwTypeOK'
  BY <1>1 DEF GwIInv, GwTypeOK, Codes
<1>3. Fits(r)'
  <2>1. phase[r] = "none" /\ request[r] = None /\ r \notin broken
    BY <1>1 DEF GwIInv, Fits, Shaped, Answered
  <2>2. message'[r] = m /\ m # None
    BY <1>1, MessageTyped DEF GwIInv, GwTypeOK
  <2>3. Shaped(r)'
    BY <1>1, <2>1, <2>2 DEF Shaped
  <2>4. Answered(r)'
    BY <1>1, <2>1, <2>2, NoCode DEF Answered
  <2>5. Unset(r)'
    BY <1>1, <2>1 DEF Unset
  <2> QED  BY <2>3, <2>4, <2>5 DEF Fits
<1>4. \A u \in Tasks \ {r} : Fits(u)'
  BY <1>1 DEF GwIInv, GwTypeOK, Fits, Shaped, Answered, Unset
<1> QED  BY <1>2, <1>3, <1>4 DEF GwIInv

(* A second answer breaks; a first one is given. *)
LEMMA SendCases ==
    ASSUME GwTypeOK, NEW r \in Tasks, NEW code \in Codes, Send(r, code)
    PROVE  /\ answer' \in [Tasks -> Codes \cup {None}]
           /\ broken' \subseteq Tasks
           /\ \A u \in Tasks \ {r} : answer'[u] = answer[u] /\ (u \in broken' => u \in broken)
           /\ IF answer[r] = None THEN answer'[r] = code /\ broken' = broken
                                  ELSE answer'[r] = answer[r]
BY DEF GwTypeOK, Send

LEMMA ValidateKeeps ==
    ASSUME IInv, GwIInv, NEW r \in Tasks, Validate(r)
    PROVE  GwIInv'
<1> DEFINE m == message[r]
<1>1. /\ phase[r] = "validating" /\ request[r] = None /\ UNCHANGED <<globals, message>>
      /\ m \in Messages /\ Routed(m)
      /\ answer[r] # None => answer[r] = 400 /\ Unsigned(m)
  BY DEF Validate, GwIInv, GwTypeOK, Fits, Shaped, Answered
<1>2. CASE ~ Valid(m) \/ Operation(m) = "other"
  <2>1. PICK code \in {400, 500} :
           /\ Send(r, code) /\ phase' = [phase EXCEPT ![r] = "over"]
           /\ UNCHANGED <<request, status, report>>
    BY <1>2 DEF Validate, vars, taskVars
  <2>2. /\ answer' \in [Tasks -> Codes \cup {None}]
        /\ broken' \subseteq Tasks
        /\ \A u \in Tasks \ {r} : answer'[u] = answer[u] /\ (u \in broken' => u \in broken)
        /\ IF answer[r] = None THEN answer'[r] = code /\ broken' = broken
                               ELSE answer'[r] = answer[r]
    BY <2>1, SendCases DEF GwIInv, Codes
  <2>3. GwTypeOK'
    BY <1>1, <2>1, <2>2 DEF GwIInv, GwTypeOK
  <2>4. Fits(r)'
    BY <1>1, <2>1, <2>2, NoCode DEF GwIInv, GwTypeOK, Fits, Shaped, Answered, Unset
  <2>5. \A u \in Tasks \ {r} : Fits(u)'
    BY <1>1, <2>1, <2>2 DEF GwIInv, GwTypeOK, Fits, Shaped, Answered, Unset
  <2> QED  BY <2>3, <2>4, <2>5 DEF GwIInv
<1>3. CASE Valid(m) /\ Operation(m) # "other"
  <2> DEFINE q == Request(r)
             api == "substrate" \in globals
  <2>1. /\ Start(r, q) /\ phase' = [phase EXCEPT ![r] = "operating"]
        /\ UNCHANGED <<answer, broken>>
    BY <1>3 DEF Validate
  <2>2. q = Asking(r, m, api) /\ q # None /\ q.who = Sender(m) /\ q.api = api /\ api \in BOOLEAN
    <3>1. api \in BOOLEAN /\ q = Asking(r, m, api)  BY DEF Request
    <3> HIDE DEF q, api, m
    <3> QED  BY <1>1, <1>3, <3>1, AskingTyped
  <2>3. /\ request' = [request EXCEPT ![r] = q]
        /\ status' = [status EXCEPT ![r] = "running"]
        /\ report' = report
        /\ request \in [Tasks -> Requests \cup {None}]
        /\ status \in [Tasks -> {"idle", "running", "done", "failed", "crashed"}]
    BY <2>1 DEF Start, IInv, TypeOK
  <2> HIDE DEF q, api
  <2>4. GwTypeOK'
    BY <1>1, <2>1 DEF GwIInv, GwTypeOK
  <2>5. /\ request'[r] = q /\ status'[r] = "running" /\ phase'[r] = "operating"
        /\ \A u \in Tasks \ {r} : /\ request'[u] = request[u] /\ status'[u] = status[u]
                                  /\ phase'[u] = phase[u]
    BY <2>1, <2>3 DEF GwIInv, GwTypeOK
  <2>6. Shaped(r)'
    BY <1>1, <1>3, <2>1, <2>2, <2>5 DEF Shaped, GwIInv, Fits
  <2>7. Answered(r)'
    BY <1>1, <2>1, <2>2, <2>5, NoCode DEF Answered, Sender, Unsigned, GwIInv, Fits
  <2>8. Unset(r)'
    BY <1>1, <2>2, <2>5 DEF Unset, api
  <2>9. \A u \in Tasks \ {r} : Fits(u)'
    BY <1>1, <2>1, <2>3, <2>5 DEF GwIInv, Fits, Shaped, Answered, Unset
  <2> QED  BY <2>4, <2>6, <2>7, <2>8, <2>9 DEF GwIInv, Fits
<1> QED  BY <1>2, <1>3

LEMMA RespondKeeps ==
    ASSUME GwIInv, NEW r \in Tasks, Respond(r)
    PROVE  GwIInv'
<1> DEFINE code == IF status[r] = "done" THEN 200 ELSE StatusOf(report[r])
<1>1. /\ phase[r] = "operating" /\ status[r] \in {"done", "failed"}
      /\ phase' = [phase EXCEPT ![r] = "over"]
      /\ UNCHANGED <<globals, message, request, status, report>>
      /\ Send(r, code)
  BY DEF Respond, vars, taskVars
<1>2. /\ code \in {200, 401, 404, 500}
      /\ code = 200 => status[r] = "done"
      /\ code \in {401, 404} => status[r] = "failed" /\ report[r].cause \in {"untrusted", "none"}
  BY <1>1 DEF StatusOf
<1> HIDE DEF code
<1>3. /\ answer' \in [Tasks -> Codes \cup {None}]
      /\ broken' \subseteq Tasks
      /\ \A u \in Tasks \ {r} : answer'[u] = answer[u] /\ (u \in broken' => u \in broken)
      /\ IF answer[r] = None THEN answer'[r] = code /\ broken' = broken
                             ELSE answer'[r] = answer[r]
  BY <1>1, <1>2, SendCases DEF GwIInv, Codes
<1>4. GwTypeOK'
  BY <1>1, <1>3 DEF GwIInv, GwTypeOK
<1>5. /\ phase'[r] = "over"
      /\ \A u \in Tasks \ {r} : phase'[u] = phase[u]
  BY <1>1 DEF GwIInv, GwTypeOK
<1>6. Shaped(r)' /\ Unset(r)'
  BY <1>1, <1>5 DEF GwIInv, Fits, Shaped, Unset
<1>7. Answered(r)'
  <2>1. answer[r] # None => answer[r] = 400 /\ Unsigned(message[r])
    BY <1>1 DEF GwIInv, Fits, Answered
  <2>2. request[r] # None => (answer[r] # None => request[r].who = None)
    BY <2>1, NoCode DEF GwIInv, Fits, Answered
  <2>3. code = IF status[r] = "done" THEN 200 ELSE StatusOf(report[r])
    BY DEF code
  <2>4. r \in broken' => answer[r] = 400 /\ Unsigned(message[r])
    BY <1>3, <2>1 DEF GwIInv, Fits, Answered
  <2> QED
    BY <1>1, <1>2, <1>3, <1>5, <2>1, <2>2, <2>3, <2>4, NoCode DEF Answered
<1>8. \A u \in Tasks \ {r} : Fits(u)'
  BY <1>1, <1>3, <1>5 DEF GwIInv, Fits, Shaped, Answered, Unset
<1> QED  BY <1>4, <1>6, <1>7, <1>8 DEF GwIInv, Fits

LEMMA LibraryKeeps ==
    ASSUME IInv, GwIInv, Library
    PROVE  GwIInv'
<1>1. UNCHANGED <<globals, message, phase, answer, broken>>
  BY DEF Library, gwVars
<1> QED
  BY <1>1, LibraryFrame DEF GwIInv, GwTypeOK, Fits, Shaped, Answered, Unset

(* Each step of the wrapper is a step of the library, or none. *)
LEMMA DrivesStep ==
    ASSUME GwIInv, [GwNext]_allVars
    PROVE  [Next]_vars
<1>1. CASE SetUp \/ \E r \in Tasks : Respond(r) \/ \E m \in Messages : Arrive(r, m)
  BY <1>1 DEF SetUp, Respond, Arrive
<1>2. ASSUME NEW r \in Tasks, Validate(r) PROVE [Next]_vars
  <2> DEFINE m == message[r]
             api == "substrate" \in globals
             q == Request(r)
  <2>1. m \in Messages /\ Routed(m)
    BY <1>2 DEF Validate, GwIInv, GwTypeOK, Fits, Shaped
  <2>2. Operation(m) # "other" => q \in Requests
    <3>1. api \in BOOLEAN /\ q = Asking(r, m, api)  BY DEF Request
    <3> HIDE DEF q, api, m
    <3> QED  BY <2>1, <3>1, AskingTyped
  <2>3. UNCHANGED vars \/ (Start(r, q) /\ Operation(m) # "other")
    BY <1>2 DEF Validate
  <2> HIDE DEF q
  <2> QED  BY <2>2, <2>3 DEF Next
<1>3. CASE Library
  BY <1>3 DEF Library, Next
<1>4. CASE UNCHANGED allVars
  BY <1>4 DEF allVars
<1> QED
  BY <1>1, <1>2, <1>3, <1>4 DEF GwNext

LEMMA GwNextKeeps ==
    ASSUME IInv, GwIInv, [GwNext]_allVars
    PROVE  IInv' /\ GwIInv'
<1>1. IInv'
  BY DrivesStep, NextKeeps
<1>2. ASSUME UNCHANGED allVars PROVE GwIInv'
  BY <1>2 DEF allVars, gwVars, vars, taskVars, GwIInv, GwTypeOK, Fits, Shaped, Answered, Unset
<1>3. ASSUME SetUp PROVE GwIInv'  BY <1>3, SetUpKeeps
<1>4. ASSUME Library PROVE GwIInv'  BY <1>4, LibraryKeeps
<1>5. ASSUME NEW r \in Tasks, NEW m \in Messages, Arrive(r, m) PROVE GwIInv'
  BY <1>5, ArriveKeeps
<1>6. ASSUME NEW r \in Tasks, Validate(r) PROVE GwIInv'  BY <1>6, ValidateKeeps
<1>7. ASSUME NEW r \in Tasks, Respond(r) PROVE GwIInv'  BY <1>7, RespondKeeps
<1> QED
  BY <1>1, <1>2, <1>3, <1>4, <1>5, <1>6, <1>7 DEF GwNext

LEMMA WrapperInvariant == GwSpec => [](IInv /\ GwIInv)
<1>1. GwInit => IInv /\ GwIInv
  BY GwInitHolds, InitHolds DEF GwInit
<1>2. IInv /\ GwIInv /\ [GwNext]_allVars => (IInv /\ GwIInv)'
  BY GwNextKeeps
<1> QED
  BY <1>1, <1>2, PTL DEF GwSpec

(***************************************************************************)
(* Whatever requests come and whenever setup ends, the wrapper uses the    *)
(* library as any client does: all that is proved of Jobs holds behind it. *)
(***************************************************************************)
THEOREM DrivesTheLibrary == GwSpec => Spec
<1>1. GwInit => Init
  BY DEF GwInit
<1>2. IInv /\ GwIInv /\ [GwNext]_allVars => [Next]_vars
  BY DrivesStep
<1> QED
  BY <1>1, <1>2, WrapperInvariant, PTL DEF GwSpec, Spec

(***************************************************************************)
(* So, whatever messages come and whoever signs them, the library behind   *)
(* the wrapper keeps what it promises its callers: true errors, documents  *)
(* stored before they are posted, an escrow of its own for each launch,    *)
(* notes that are on the chain, results that were once posted, and escrows *)
(* that one client closed and that stay as this one left them; and its     *)
(* operations go as their contract says.                                   *)
(***************************************************************************)
THEOREM PromisesBehindTheWrapper ==
    GwSpec => /\ [](/\ ReportsAreTrue
                    /\ PostedIsStored
                    /\ LaunchFundsItsEscrow
                    /\ NotesAreOnChain
                    /\ ResultsReadWerePosted
                    /\ ClosingIsFinal)
              /\ ImplementsOperations
BY DrivesTheLibrary, ReportsTrue, PostedStored, LaunchPaysItsOwn, NotesOnChain, ReadsArePosted,
   ClosedForGood, KeepsOperations, PTL

(* The types, for any messages. *)
THEOREM GatewayTyped == GwSpec => []GwTypeOK
<1>1. GwIInv => GwTypeOK
  BY DEF GwIInv
<1> QED
  BY <1>1, WrapperInvariant, PTL

(* A second answer is attempted only after the middleware's 400. *)
THEOREM OnceAnswered == GwSpec => []AnsweredOnce
<1>1. GwIInv => AnsweredOnce
  BY DEF GwIInv, GwTypeOK, Fits, Answered, AnsweredOnce, Unsigned
<1> QED
  BY <1>1, WrapperInvariant, PTL

(* What was not sent has not run. *)
LEMMA UnsentIsVoid ==
    ASSUME IInv, NEW r \in Tasks, NEW k \in CallKinds,
           request[r] = None \/ request[r].who = None \/ ~ request[r].api
    PROVE  executed[<<r, k>>] = {}
BY DEF IInv, Sound, RanAsSent, Sent

(* Before setup is over nothing succeeds or touches the chain. *)
THEOREM NothingEarly == GwSpec => []NothingBeforeSetUp
<1>1. ASSUME IInv, GwIInv, NEW r \in Tasks,
             "substrate" \notin globals \/ (request[r] # None /\ ~ request[r].api)
      PROVE  /\ status[r] # "done" /\ answer[r] # 200
             /\ \A k \in CallKinds : executed[<<r, k>>] = {}
  <2>1. request[r] = None \/ ~ request[r].api
    BY <1>1 DEF GwIInv, GwTypeOK, setup, Fits, Unset
  <2>2. status[r] # "done"
    BY <1>1, <2>1 DEF IInv, Sound, Placed, GwIInv, Fits, Unset
  <2>3. answer[r] # 200
    BY <1>1, <2>2 DEF GwIInv, Fits, Answered
  <2> QED
    BY <1>1, <2>1, <2>2, <2>3, UnsentIsVoid
<1>2. IInv /\ GwIInv => NothingBeforeSetUp
  BY <1>1 DEF NothingBeforeSetUp
<1> QED
  BY <1>2, WrapperInvariant, PTL

(* A call of a request that got as far as its await is the call it awaits. *)
LEMMA SentIsAwaited ==
    ASSUME IInv, GwIInv, NEW r \in Tasks, NEW k \in CallKinds, executed[<<r, k>>] # {}
    PROVE  request[r] # None /\ Step(r) = k
<1>1. Sent(<<r, k>>)
  BY DEF IInv, Sound, RanAsSent
<1>2. request[r] # None /\ request[r].op \in Ops
  BY <1>1, SentPlace
<1>3. request[r].op # "launch"
  BY <1>2, AskingTyped, MessageTyped DEF GwIInv, Fits, Shaped
<1>4. PICK i \in 1 .. Len(Plan[request[r].op]) : i <= at[r] /\ Plan[request[r].op][i] = k
  BY <1>1, SentPlace
<1>5. i = Len(Plan[request[r].op])
  BY <1>2, <1>3, <1>4, CallIsLast
<1>6. at[r] \in 1 .. Len(Plan[request[r].op])
  BY <1>2 DEF IInv, Sound, Placed
<1>7. at[r] = i
  BY <1>4, <1>5, <1>6
<1> QED
  BY <1>2, <1>4, <1>7 DEF Step

(***************************************************************************)
(* The status is true: 200 says that every call of the operation took      *)
(* effect, 400, 401 and 404 that none did or, its task being over, will.   *)
(***************************************************************************)
THEOREM StatusTrue == GwSpec => []StatusIsTrue
<1>1. ASSUME IInv, GwIInv, NEW r \in Tasks, answer[r] = 200,
             NEW k \in CallKinds,
             k \in {Plan[request[r].op][i] : i \in DOMAIN Plan[request[r].op]}
      PROVE  Effective(<<r, k>>)
  <2>1. status[r] = "done" /\ request[r] # None
    BY <1>1 DEF GwIInv, Fits, Answered, IInv, Sound, Placed
  <2>2. request[r].op \in Ops
    BY <2>1, <1>1, RequestTyped DEF IInv
  <2>3. PICK i \in 1 .. Len(Plan[request[r].op]) : k = Plan[request[r].op][i]
    BY <1>1, <2>2, PlanDomain
  <2>4. Behind(r)
    BY <1>1 DEF IInv, Sound
  <2>5. Plan[request[r].op][i] \in CallKinds => Effective(<<r, Plan[request[r].op][i]>>)
    BY <2>1, <2>3, <2>4 DEF Behind
  <2> QED
    BY <2>3, <2>5
<1>2. ASSUME IInv, GwIInv, NEW r \in Tasks, answer[r] \in {400, 401, 404}, NEW k \in CallKinds
      PROVE  ~ Effective(<<r, k>>)
  <2>1. CASE executed[<<r, k>>] = {}
    BY <2>1 DEF Effective
  <2>2. CASE executed[<<r, k>>] # {}
    <3>1. request[r] # None /\ Step(r) = k
      BY <1>2, <2>2, SentIsAwaited
    <3>2. answer[r] # 400
      BY <1>2, <2>2, <3>1, UnsentIsVoid DEF GwIInv, Fits, Answered
    <3>3. status[r] = "failed" /\ report[r].cause \in {"untrusted", "none"}
      BY <1>2, <3>1, <3>2 DEF GwIInv, Fits, Answered
    <3> QED
      BY <1>2, <3>1, <3>3 DEF IInv, Sound, TrueReport
  <2> QED
    BY <2>1, <2>2
<1>3. IInv /\ GwIInv => StatusIsTrue
  BY <1>1, <1>2 DEF StatusIsTrue
<1> QED
  BY <1>3, WrapperInvariant, PTL

--------------------------------------------------------------------------------
(* A task that failed because the account is not trusted says so, where sendAndWait was used. *)
Blamed(t) ==
    (/\ status[t] = "failed"
     /\ Step(t) \in CallKinds \ FilteredKinds
     /\ \E x \in executed[<<t, Step(t)>>] : x.tag = "untrusted")
    => report[t].cause = "untrusted"

LEMMA ReplyBlames ==
    ASSUME IInv, NEW t \in Tasks, Reply(t)
    PROVE  Blamed(t)'
<1> DEFINE k == Step(t)
           c == <<t, k>>
<1>1. k \in CallKinds /\ c \in Calls /\ Running(t)
  BY DEF Reply, At, Calls
<1>2. PICK reply \in RC!Promises :
          /\ \/ RC!Answer(c, reply)
             \/ RC!Refuse(c) /\ reply = RC!Rejected("send")
          /\ IF reply.state = "resolved"
               THEN UseRecord(t, k, reply.value) /\ Advance(t)
               ELSE Fail(t, reply.error) /\ UNCHANGED noted
  BY DEF Reply
<1>3. executed' = executed
  BY <1>2 DEF RC!Answer, RC!Refuse
<1>4. CASE reply.state = "resolved"
  BY <1>1, <1>2, <1>4 DEF Advance, Running, Blamed, IInv, TypeOK
<1>5. CASE reply.state # "resolved"
  <2>1. Fail(t, reply.error)
    BY <1>2, <1>5
  <2>2. Step(t)' = k /\ report'[t].cause = reply.error
    BY <2>1 DEF Fail, Step, IInv, TypeOK
  <2>3. ASSUME k \notin FilteredKinds, NEW x \in executed[c], x.tag = "untrusted"
        PROVE  reply.error = "untrusted"
    <3>1. PICK y \in executed[c] : RC!Entitles(c, y, reply)
      BY <1>2, <2>3 DEF RC!Answer, RC!Refuse
    <3>2. x = y
      BY <1>1, <2>3, <3>1 DEF IInv, Sound, RanAsSent
    <3> QED
      BY <1>5, <2>3, <3>1, <3>2 DEF RC!Entitles, RC!ErrorName, RC!FailureTags
  <2> QED
    BY <1>3, <2>2, <2>3 DEF Blamed
<1> QED
  BY <1>4, <1>5

LEMMA WorkBlames ==
    ASSUME IInv, NEW t \in Tasks, Work(t)
    PROVE  Blamed(t)'
<1>1. executed' = executed /\ Running(t)
  BY WorkCases DEF Onward, Failing
<1>2. CASE Reply(t)
  BY <1>2, ReplyBlames
<1>3. CASE SendUnsigned(t) \/ WithoutApi(t)
  <2>1. request[t].who = None \/ ~ request[t].api
    BY <1>3 DEF SendUnsigned, WithoutApi
  <2>2. \A k \in CallKinds : executed'[<<t, k>>] = {}
    BY <1>1, <2>1, UnsentIsVoid
  <2> QED
    BY <2>2 DEF Blamed
<1>4. CASE Upload(t) \/ BadAmount(t) \/ Download(t) \/ Query(t) \/ LookUpNoted(t)
  <2>1. Step(t) \in Reads \cup {"upload"}
    BY <1>4 DEF Upload, BadAmount, Download, Query, LookUpNoted, At, Reads
  <2>2. Step(t) \notin CallKinds
    BY <2>1 DEF Reads, CallKinds
  <2>3. CASE Failing(t)
    <3>1. Step(t)' = Step(t)
      BY <2>3 DEF Failing, Fail, Step
    <3> QED  BY <2>2, <3>1 DEF Blamed
  <2>4. CASE Onward(t)
    BY <1>1, <2>4 DEF Onward, Advance, Running, Blamed, IInv, TypeOK
  <2> QED
    BY <2>3, <2>4, WorkCases
<1> QED
  BY <1>2, <1>3, <1>4 DEF Work

LEMMA LibraryBlames ==
    ASSUME IInv, Library, \A t \in Tasks : Blamed(t)
    PROVE  \A t \in Tasks : Blamed(t)'
<1>1. CASE \E u \in Tasks : Work(u)
  <2>1. PICK u \in Tasks : Work(u)  BY <1>1
  <2>2. /\ executed' = executed /\ request' = request
        /\ \A t \in Tasks \ {u} : /\ status'[t] = status[t] /\ report'[t] = report[t]
                                  /\ at'[t] = at[t]
    <3>1. /\ status \in [Tasks -> {"idle", "running", "done", "failed", "crashed"}]
          /\ report \in [Tasks -> Reports] /\ at \in [Tasks -> 1 .. 4]
      BY DEF IInv, TypeOK
    <3>2. CASE Onward(u)
      BY <3>1, <3>2 DEF Onward, Advance
    <3>3. CASE Failing(u)
      BY <3>1, <3>3 DEF Failing, Fail
    <3> QED  BY <2>1, <3>2, <3>3, WorkCases
  <2>3. \A t \in Tasks \ {u} : Blamed(t)'
    BY <2>2 DEF Blamed, Step
  <2> QED
    BY <2>1, <2>3, WorkBlames
<1>2. CASE \E c \in Calls : Execute(c) \/ GiveUp(c)
  <2>1. PICK u \in Tasks, k \in CallKinds : Execute(<<u, k>>) \/ GiveUp(<<u, k>>)
    BY <1>2 DEF Calls
  <2>2. UNCHANGED <<request, at, status, report>>
    BY <2>1 DEF Execute, GiveUp, taskVars
  <2>3. ASSUME NEW t \in Tasks, status[t] = "failed", Step(t) \in CallKinds
        PROVE  executed'[<<t, Step(t)>>] = executed[<<t, Step(t)>>]
    <3>1. CASE GiveUp(<<u, k>>)
      BY <3>1 DEF GiveUp, RC!GiveUp
    <3>2. CASE Execute(<<u, k>>)
      <4>1. /\ Sent(<<u, k>>) /\ executed[<<u, k>>] = {} /\ ~ dead[<<u, k>>]
            /\ \A c \in Calls : c # <<u, k>> => executed'[c] = executed[c]
        BY <3>2 DEF Execute, RC!Execute, IInv, TypeOK
      <4>2. <<t, Step(t)>> # <<u, k>>
        BY <2>3, <4>1 DEF IInv, Sound, Stopped
      <4> QED
        BY <2>3, <4>1, <4>2 DEF Calls
    <3> QED
      BY <2>1, <3>1, <3>2
  <2> QED
    BY <2>2, <2>3 DEF Blamed, Step
<1> QED
  BY <1>1, <1>2 DEF Library

AllBlamed == \A t \in Tasks : Blamed(t)

LEMMA BlamedInvariant == GwSpec => []AllBlamed
<1>1. GwInit => AllBlamed
  BY DEF GwInit, Init, Blamed, AllBlamed
<1>2. ASSUME IInv, GwIInv, \A t \in Tasks : Blamed(t), [GwNext]_allVars
      PROVE  \A t \in Tasks : Blamed(t)'
  <2>1. CASE Library
    BY <1>2, <2>1, LibraryBlames
  <2>2. CASE UNCHANGED vars
    BY <1>2, <2>2 DEF Blamed, Step, vars, taskVars, callVars
  <2>3. ASSUME NEW r \in Tasks, Validate(r), ~ UNCHANGED vars
        PROVE  \A t \in Tasks : Blamed(t)'
    <3>1. PICK q : Start(r, q)
      BY <2>3 DEF Validate
    <3>2. /\ status'[r] = "running" /\ UNCHANGED <<at, report, executed>>
          /\ \A t \in Tasks \ {r} : status'[t] = status[t] /\ request'[t] = request[t]
      BY <1>2, <3>1 DEF Start, callVars, IInv, TypeOK
    <3> QED
      BY <1>2, <3>2 DEF Blamed, Step
  <2>4. CASE SetUp \/ \E r \in Tasks : Respond(r) \/ \E m \in Messages : Arrive(r, m)
    BY <2>2, <2>4 DEF SetUp, Respond, Arrive
  <2> QED
    BY <1>2, <2>1, <2>2, <2>3, <2>4 DEF GwNext, allVars
<1>3. IInv /\ GwIInv /\ AllBlamed /\ [GwNext]_allVars => AllBlamed'
  BY <1>2 DEF AllBlamed
<1> QED
  BY <1>1, <1>3, WrapperInvariant, PTL DEF GwSpec

(***************************************************************************)
(* An account the escrow does not trust gets 401, whatever else happens    *)
(* between the error's making and the answer.                              *)
(***************************************************************************)
THEOREM UntrustedGets401 == GwSpec => []UntrustedIsUnauthorized
<1>1. ASSUME IInv, GwIInv, \A t \in Tasks : Blamed(t),
             NEW r \in Tasks, NEW k \in CallKinds \ FilteredKinds, phase[r] = "over",
             NEW x \in executed[<<r, k>>], x.tag = "untrusted"
      PROVE  answer[r] = 401
  <2>1. request[r] # None /\ Step(r) = k
    BY <1>1, SentIsAwaited
  <2>2. request[r].who # None
    BY <1>1, UnsentIsVoid
  <2>3. ~ Effective(<<r, k>>)
    BY <1>1 DEF Effective, RC!FailureTags, IInv, Sound, RanAsSent
  <2>4. status[r] # "done"
    <3>1. request[r].op \in Ops /\ at[r] \in 1 .. Len(Plan[request[r].op])
      BY <1>1, <2>1, RequestTyped DEF IInv, Sound, Placed
    <3> QED
      BY <1>1, <2>1, <2>3, <3>1 DEF IInv, Sound, Behind, Step
  <2>5. status[r] = "failed" /\ answer[r] = StatusOf(report[r])
    BY <1>1, <2>1, <2>2, <2>4 DEF GwIInv, Fits, Answered
  <2>6. report[r].cause = "untrusted"
    BY <1>1, <2>1, <2>5 DEF Blamed
  <2> QED
    BY <2>5, <2>6 DEF StatusOf
<1>2. IInv /\ GwIInv /\ AllBlamed => UntrustedIsUnauthorized
  BY <1>1 DEF UntrustedIsUnauthorized, AllBlamed
<1> QED
  BY <1>2, WrapperInvariant, BlamedInvariant, PTL
===============================================================================
