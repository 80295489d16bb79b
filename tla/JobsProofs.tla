------------------------------- MODULE JobsProofs -------------------------------
(***************************************************************************)
(* Theorems about Jobs, for any tasks, requests, accounts and documents.   *)
(***************************************************************************)
EXTENDS Jobs, EscrowPalletProofs

(***************************************************************************)
(* The plans, looked up: where each await stands.                          *)
(***************************************************************************)

LEMMA OpsAre ==
    Ops = {"createFactory", "launch", "createEscrow", "fundEscrow", "addTrustedHandlers", "bulkPayout",
           "storeFinalResults", "abort", "cancel", "noteIntermediateResults", "complete", "escrow",
           "isTrustedHandler", "balance", "manifest", "intermediateResults", "finalResults", "getAllJobs"}
BY DEF Ops, Plan

Pairs == {"storeFinalResults", "noteIntermediateResults", "balance", "intermediateResults", "finalResults"}

LEMMA PlanTable ==
    /\ \A op \in Ops : op # "launch" /\ op \notin Pairs => Len(Plan[op]) = 1
    /\ \A op \in Pairs : op \in Ops /\ Len(Plan[op]) = 2
    /\ "launch" \in Ops /\ Len(Plan["launch"]) = 4
    /\ Plan["launch"][1] = "upload" /\ Plan["launch"][2] = "create" /\ Plan["launch"][3] = "escrow" /\ Plan["launch"][4] = "fund"
    /\ Plan["storeFinalResults"][1] = "upload" /\ Plan["storeFinalResults"][2] = "storeFinalResults"
    /\ Plan["noteIntermediateResults"][1] = "upload" /\ Plan["noteIntermediateResults"][2] = "noteIntermediateResults"
BY OpsAre DEF Plan, Pairs

LEMMA PlanOnes ==
  /\ Plan["createEscrow"][1] = "create" /\ Plan["createFactory"][1] = "createFactory" /\ Plan["fundEscrow"][1] = "fund"
  /\ Plan["addTrustedHandlers"][1] = "addTrustedHandlers" /\ Plan["bulkPayout"][1] = "bulkPayout" /\ Plan["abort"][1] = "abort"
  /\ Plan["cancel"][1] = "cancel" /\ Plan["complete"][1] = "complete" /\ Plan["escrow"][1] = "escrow" /\ Plan["isTrustedHandler"][1] = "trusted"
  /\ Plan["balance"][1] = "escrow" /\ Plan["balance"][2] = "account"
  /\ Plan["manifest"][1] = "download"  /\ Plan["getAllJobs"][1] = "jobs" 
  /\ Plan["intermediateResults"][1] = "noted" /\ Plan["intermediateResults"][2] = "download"
  /\ Plan["finalResults"][1] = "final" /\ Plan["finalResults"][2] = "download"
BY DEF Plan

LEMMA PlanLength ==
    ASSUME NEW op \in Ops
    PROVE  Len(Plan[op]) \in 1 .. 4
BY PlanTable

Posts == {"storeFinalResults", "noteIntermediateResults"}
OneCall == {"createFactory", "addTrustedHandlers", "bulkPayout", "abort", "cancel", "complete"}
Reads == {"escrow", "account", "trusted", "noted", "final", "jobs", "download"}

LEMMA PlanCases ==
    ASSUME NEW op \in Ops, NEW i \in 1 .. Len(Plan[op])
    PROVE  \/ op = "launch" /\ i = 1 /\ Plan[op][i] = "upload"
           \/ op = "launch" /\ i = 2 /\ Plan[op][i] = "create"
           \/ op = "launch" /\ i = 3 /\ Plan[op][i] = "escrow"
           \/ op = "launch" /\ i = 4 /\ Plan[op][i] = "fund"
           \/ op \in Posts /\ i = 1 /\ Plan[op][i] = "upload"
           \/ op \in Posts /\ i = 2 /\ Plan[op][i] = op
           \/ op = "createEscrow" /\ i = 1 /\ Plan[op][i] = "create"
           \/ op = "fundEscrow" /\ i = 1 /\ Plan[op][i] = "fund"
           \/ op \in OneCall /\ i = 1 /\ Plan[op][i] = op
           \/ Plan[op][i] \in Reads
<1>1. CASE op = "launch"
  <2>1. i \in 1 .. 4
    BY <1>1, PlanTable
  <2>2. i = 1 \/ i = 2 \/ i = 3 \/ i = 4
    BY <2>1
  <2>3. CASE i = 1
    BY <1>1, <2>3, PlanTable
  <2>4. CASE i = 2
    BY <1>1, <2>4, PlanTable
  <2>5. CASE i = 3
    BY <1>1, <2>5, PlanTable
  <2>6. CASE i = 4
    BY <1>1, <2>6, PlanTable
  <2> QED
    BY <2>2, <2>3, <2>4, <2>5, <2>6
<1>2. CASE op \in Pairs
  <2>1. i \in 1 .. 2
    BY <1>2, PlanTable
  <2>2. i = 1 \/ i = 2
    BY <2>1
  <2> QED
    BY <1>2, <2>1, <2>2, PlanTable, PlanOnes DEF Pairs, Posts, Reads
<1>3. CASE op # "launch" /\ op \notin Pairs
  <2>1. Len(Plan[op]) = 1
    BY <1>3, PlanTable
  <2>2. i = 1
    BY <2>1
  <2> QED
    BY <1>3, <2>2, OpsAre, PlanOnes DEF Pairs, OneCall, Reads
<1> QED
  BY <1>1, <1>2, <1>3

LEMMA CallPlaces ==
    ASSUME NEW op \in Ops, NEW i \in 1 .. Len(Plan[op]), NEW j \in 1 .. Len(Plan[op]), 
           Plan[op][i] \in CallKinds, Plan[op][i] = Plan[op][j]
    PROVE  i = j
BY PlanCases DEF CallKinds, Pairs, OneCall, Reads, Posts

LEMMA PostPlaces ==
    ASSUME NEW op \in Ops, NEW i \in 1 .. Len(Plan[op]),
           Plan[op][i] \in {"storeFinalResults", "noteIntermediateResults"}
    PROVE  i = 2 /\ Plan[op][1] = "upload" /\ op = Plan[op][i]
BY PlanCases, PlanTable DEF OneCall, Reads, Posts

LEMMA CreatePlace ==
    ASSUME NEW op \in Ops, NEW i \in 1 .. Len(Plan[op]), Plan[op][i] = "create"
    PROVE  op = "createEscrow" \/ (op = "launch" /\ i = 2 /\ Plan[op][1] = "upload")
BY PlanCases, PlanTable DEF OneCall, Reads, Posts

LEMMA FundPlace ==
    ASSUME NEW op \in Ops, NEW i \in 1 .. Len(Plan[op]), Plan[op][i] = "fund"
    PROVE  op = "fundEscrow" \/ (op = "launch" /\ i = 4)
BY PlanCases DEF OneCall, Reads, Posts

LEMMA OtherPlaces ==
    ASSUME NEW op \in Ops, NEW i \in 1 .. Len(Plan[op]), Plan[op][i] \in CallKinds
    PROVE  Plan[op][i] = op \/ op \in {"launch", "createEscrow", "fundEscrow"}
BY PlanCases DEF CallKinds, OneCall, Reads, Posts

--------------------------------------------------------------------------------
(* A task that started is at an await of its plan. *)
Placed(t) ==
    /\ (request[t] = None) <=> (status[t] = "idle")
    /\ request[t] = None => at[t] = 1
    /\ request[t] # None => at[t] \in 1 .. Len(Plan[request[t].op])

(* A call runs once, only when it was sent, and not when it was given up. *)
RanAsSent(t) ==
    \A k \in CallKinds :
        /\ executed[<<t, k>>] # {} => Sent(<<t, k>>)
        /\ executed[<<t, k>>] # {} => ~ dead[<<t, k>>]
        /\ \A r, s \in executed[<<t, k>>] : r = s

(* The event of a call is about what the call is about. *)
EventsFit(t) ==
    \A k \in CallKinds : \A r \in executed[<<t, k>>] :
        /\ r.tag = "found" =>
               \/ k \in {"create", "createFactory"} /\ r.id \in EscrowIds
               \/ k \in {"fund", "bulkPayout", "cancel"} /\ r.id = jobId[t]
               \/ k = "noteIntermediateResults" /\ r.id = request[t].content
        /\ r.tag = "missing" =>
               /\ k \notin {"create", "createFactory", "bulkPayout", "noteIntermediateResults"}
               /\ k = "fund" => request[t].amount = 0

(* The Job of a launch is the escrow it created; others are given theirs. *)
JobKnown(t) ==
    /\ Asked(t, "launch") /\ at[t] > 2 =>
           \E s \in executed[<<t, "create">>] : s.tag = "found" /\ jobId[t] = s.id
    /\ request[t] # None /\ request[t].op \notin {"launch", "createEscrow", "createFactory"} =>
           jobId[t] = request[t].id

(* What a task has left behind it is done. *)
Behind(t) ==
    request[t] # None =>
        \A i \in 1 .. Len(Plan[request[t].op]) :
            (i < at[t] \/ status[t] = "done") =>
                /\ Plan[request[t].op][i] \in CallKinds =>
                       Effective(<<t, Plan[request[t].op][i]>>)
                /\ Plan[request[t].op][i] = "upload" => request[t].content \in store

(* A call whose task failed has run, or never will. *)
Stopped(t) ==
    (status[t] = "failed" /\ Step(t) \in CallKinds /\ executed[<<t, Step(t)>>] = {}) =>
        dead[<<t, Step(t)>>] \/ ~ Sent(<<t, Step(t)>>)

(* ReportsAreTrue, of one task. *)
TrueReport(t) ==
    status[t] = "failed" =>
        /\ report[t].kind = "notFunded" => Effective(<<t, "create">>) /\ jobId[t] # None
        /\ report[t].kind = "notPosted" => request[t].content \in store
        /\ Step(t) \in CallKinds =>
               \/ report[t].cause = "send" /\ Void(<<t, Step(t)>>)
               \/ report[t].cause \in {"untrusted", "module", "other"}
                      /\ ~ Effective(<<t, Step(t)>>)
               \/ report[t].cause \in {"noSender", "noApi"} /\ executed[<<t, Step(t)>>] = {}
               \/ /\ report[t].cause = "noRecord"
                  /\ Effective(<<t, Step(t)>>)
                  /\ Step(t) = "cancel" \/ (Step(t) = "fund" /\ request[t].amount = 0)

Sound(t) ==
    Placed(t) /\ RanAsSent(t) /\ EventsFit(t) /\ JobKnown(t) /\ Behind(t) /\ Stopped(t) /\ TrueReport(t)

(* The inductive invariant. *)
IInv == TypeOK /\ \A t \in Tasks : Sound(t)

LEMMA RequestTyped ==
    ASSUME TypeOK, NEW t \in Tasks, request[t] # None
    PROVE  /\ request[t] \in Requests
           /\ request[t].op \in Ops
           /\ request[t].job \in Instances
           /\ request[t].who \in Accounts \cup {None}
           /\ request[t].api \in BOOLEAN
           /\ request[t].id \in EscrowIds
           /\ request[t].content \in Contents
           /\ request[t].amount \in Nat
           /\ request[t].other \in Accounts
BY JobsAssumption DEF TypeOK, JobsAssumption, RequestType, EscrowIds, FactoryIds

(* A call is at one place of the plan of its task. *)
LEMMA SentPlace ==
    ASSUME IInv, NEW t \in Tasks, NEW k \in CallKinds, Sent(<<t, k>>)
    PROVE  /\ request[t] # None
           /\ request[t].op \in Ops
           /\ \E i \in 1 .. Len(Plan[request[t].op]) : i <= at[t] /\ Plan[request[t].op][i] = k
<1>1. request[t] # None /\ request[t].op \in Ops
  BY RequestTyped DEF IInv, Sent
<1>2. at[t] \in 1 .. Len(Plan[request[t].op]) /\ Len(Plan[request[t].op]) \in Nat
  BY <1>1, PlanLength DEF IInv, Sound, Placed
<1> QED
  BY <1>1, <1>2 DEF Sent

LEMMA GoodExtrinsic ==
    ASSUME IInv, NEW t \in Tasks, NEW k \in CallKinds, Sent(<<t, k>>)
    PROVE  GoodCall(Extrinsic(<<t, k>>)) /\ Extrinsic(<<t, k>>).kind = k
<1> DEFINE op == request[t].op
<1>1. /\ request[t] # None
      /\ op \in Ops
      /\ request[t].who \in Accounts
      /\ request[t].id \in EscrowIds
      /\ request[t].content \in Contents
      /\ request[t].amount \in Nat
      /\ request[t].other \in Accounts
  BY SentPlace, RequestTyped DEF IInv, Sent
<1>2. PICK i \in 1 .. Len(Plan[op]) : i <= at[t] /\ Plan[op][i] = k
  BY SentPlace
<1>3. k \notin {"create", "createFactory"} => jobId[t] \in EscrowIds
  <2> SUFFICES ASSUME k \notin {"create", "createFactory"} PROVE jobId[t] \in EscrowIds
    OBVIOUS
  <2>1. CASE op = "launch"
    <3>1. i = 4 /\ at[t] > 2
      <4>1. k = "fund"
        BY <1>1, <1>2, <2>1, PlanCases DEF Posts, OneCall, Reads, CallKinds
      <4>2. i = 4 /\ at[t] \in 1 .. 4
        BY <1>1, <1>2, <2>1, <4>1, FundPlace DEF IInv, TypeOK
      <4> QED
        BY <1>2, <4>2
    <3>2. PICK s \in executed[<<t, "create">>] : s.tag = "found" /\ jobId[t] = s.id
      BY <1>1, <2>1, <3>1 DEF IInv, Sound, JobKnown, Asked
    <3>3. "create" \in CallKinds /\ "create" \notin {"fund", "bulkPayout", "cancel"}
      BY DEF CallKinds
    <3> QED
      BY <3>2, <3>3 DEF IInv, Sound, EventsFit
  <2>2. CASE op # "launch"
    <3>1. op \notin {"createEscrow", "createFactory"}
      BY <1>1, <1>2, <2>2, PlanCases DEF Posts, OneCall, Reads, CallKinds
    <3> QED
      BY <1>1, <2>2, <3>1 DEF IInv, Sound, JobKnown
  <2> QED
    BY <2>1, <2>2
<1>4. Extrinsic(<<t, k>>) = [kind |-> k, who |-> request[t].who, id |-> jobId[t],
                             factory |-> request[t].id, content |-> request[t].content,
                             amount |-> request[t].amount, other |-> request[t].other]
  BY DEF Extrinsic
<1> QED
  BY <1>1, <1>3, <1>4 DEF GoodCall, EscrowIds, FactoryIds

--------------------------------------------------------------------------------
(* What every await of a task does that its caller can tell: it is over, *)
Onward(t) ==
    /\ Running(t)
    /\ Advance(t)
    /\ store \subseteq store' /\ store' \subseteq Contents
    /\ Step(t) \in CallKinds => Effective(<<t, Step(t)>>)
    /\ Step(t) = "upload" => request[t].content \in store'
    /\ IF Step(t) = "create"
         THEN \E s \in executed[<<t, "create">>] :
                  s.tag = "found" /\ jobId' = [jobId EXCEPT ![t] = s.id]
         ELSE UNCHANGED jobId
    /\ noted' \in [Objects -> Seq(Contents)]
    /\ promise' \in [Calls -> RC!Promises]
    /\ UNCHANGED <<chain, executed, dead>>

(* or it has failed, and for what happened to its call. *)
Deserved(t, cause) ==
    LET c == <<t, Step(t)>>
    IN \/ cause = "send" /\ Void(c)
       \/ cause \in {"untrusted", "module", "other"} /\ executed[c] # {} /\ ~ Effective(c)
       \/ cause = "noSender" /\ request[t].who = None
       \/ cause = "noApi" /\ ~ request[t].api
       \/ /\ cause = "noRecord" /\ executed[c] # {} /\ Effective(c)
          /\ Step(t) = "cancel" \/ (Step(t) = "fund" /\ request[t].amount = 0)

Failing(t) ==
    /\ Running(t)
    /\ \E cause \in Causes :
           /\ Fail(t, cause)
           /\ Step(t) \in CallKinds => Deserved(t, cause)
    /\ store \subseteq store' /\ store' \subseteq Contents
    /\ promise' \in [Calls -> RC!Promises]
    /\ UNCHANGED <<chain, noted, executed, dead>>

LEMMA UploadCases ==
    ASSUME IInv, NEW t \in Tasks, Upload(t)
    PROVE  Onward(t) \/ Failing(t)
<1>1. request[t] # None /\ request[t].content \in Contents /\ Running(t) /\ Step(t) = "upload"
  BY RequestTyped DEF Upload, At, Running, IInv, Sound, Placed
<1>2. "upload" \notin CallKinds /\ "upload" # "create" /\ "storage" \in Causes
  BY DEF CallKinds, Causes
<1>3. CASE store' = store \cup {request[t].content} /\ Advance(t) /\ UNCHANGED <<jobId, value>>
  BY <1>1, <1>2, <1>3 DEF Upload, Onward, IInv, TypeOK, callVars
<1>4. CASE store' \in {store, store \cup {request[t].content}} /\ Fail(t, "storage")
  BY <1>1, <1>2, <1>4 DEF Upload, Failing, IInv, TypeOK, callVars
<1> QED
  BY <1>3, <1>4 DEF Upload

(* Awaits that only read. *)
LEMMA ReadCases ==
    ASSUME IInv, NEW t \in Tasks,
           BadAmount(t) \/ Download(t) \/ Query(t) \/ LookUpNoted(t)
    PROVE  Onward(t) \/ Failing(t)
<1>1. Running(t) /\ Step(t) \in Reads \cup {"upload"}
  BY DEF BadAmount, Download, Query, LookUpNoted, At, Reads
<1>2. Step(t) \notin CallKinds /\ Step(t) # "create"
  BY <1>1 DEF Reads, CallKinds
<1>3. UNCHANGED <<chain, store, noted, executed, dead, promise>>
  BY DEF BadAmount, Download, Query, LookUpNoted, callVars
<1>4. \/ \E cause \in Causes : Fail(t, cause)
      \/ Advance(t) /\ UNCHANGED jobId /\ Step(t) # "upload"
  BY DEF BadAmount, Download, Query, LookUpNoted, At, Unwrap, Causes
<1> QED
  BY <1>1, <1>2, <1>3, <1>4 DEF Onward, Failing, IInv, TypeOK

LEMMA ReplyCases ==
    ASSUME IInv, NEW t \in Tasks, Reply(t)
    PROVE  Onward(t) \/ Failing(t)
<1> DEFINE k == Step(t)
           c == <<t, k>>
<1>1. k \in CallKinds /\ Running(t) /\ c \in Calls /\ request[t] # None
  BY DEF Reply, At, Calls, IInv, Sound, Placed, Running
<1>2. PICK reply \in RC!Promises :
          /\ \/ RC!Answer(c, reply)
             \/ RC!Refuse(c) /\ reply = RC!Rejected("send")
          /\ IF reply.state = "resolved"
               THEN UseRecord(t, k, reply.value) /\ Advance(t)
               ELSE Fail(t, reply.error) /\ UNCHANGED noted
  BY DEF Reply
<1>3. UNCHANGED <<chain, store, executed, dead>> /\ promise' \in [Calls -> RC!Promises]
  <2>1. RC!Rejected("send") \in RC!Promises
    BY DEF RC!Promises, RC!RejectReasons
  <2>2. promise' = [promise EXCEPT ![c] = reply]
    BY <1>2 DEF RC!Answer, RC!Refuse
  <2>3. UNCHANGED <<chain, store, executed, dead>>
    BY <1>2 DEF Reply, RC!Answer, RC!Refuse
  <2> QED
    BY <2>2, <2>3 DEF IInv, TypeOK
<1>4. CASE RC!Refuse(c) /\ reply = RC!Rejected("send")
  <2>1. reply.state = "rejected" /\ reply.error = "send"
    BY <1>4 DEF RC!Rejected
  <2>2. Void(c)
    BY <1>4 DEF RC!Refuse, Void
  <2>3. Deserved(t, "send") /\ "send" \in Causes
    BY <2>2 DEF Deserved, Causes
  <2>4. Fail(t, "send") /\ UNCHANGED noted
    BY <1>2, <2>1
  <2> QED
    BY <1>1, <1>3, <2>3, <2>4 DEF Failing, IInv, TypeOK
<1>5. CASE RC!Answer(c, reply)
  <2>1. PICK r \in executed[c] : RC!Entitles(c, r, reply)
    BY <1>5 DEF RC!Answer
  <2>2. /\ r.tag = "found" =>
               \/ k \in {"create", "createFactory"} /\ r.id \in EscrowIds
               \/ k \in {"fund", "bulkPayout", "cancel"} /\ r.id = jobId[t]
               \/ k = "noteIntermediateResults" /\ r.id = request[t].content
        /\ r.tag = "missing" =>
               /\ k \notin {"create", "createFactory", "bulkPayout", "noteIntermediateResults"}
               /\ k = "fund" => request[t].amount = 0
    BY <1>1, <2>1 DEF IInv, Sound, EventsFit
  <2>3. c \in Tasks \X FilteredKinds <=> k \in FilteredKinds
    OBVIOUS
  <2>4. CASE reply.state = "resolved"
    <3>1. UseRecord(t, k, reply.value) /\ Advance(t)
      BY <1>2, <2>4
    <3>2. r.tag \in {"found", "missing"} /\ (k \in FilteredKinds => r.tag = "found" /\ reply.value = r.id)
      BY <2>1, <2>3, <2>4 DEF RC!Entitles
    <3>3. Effective(c)
      BY <2>1, <3>2 DEF Effective, RC!FailureTags
    <3>4. IF k = "create"
            THEN \E s \in executed[<<t, "create">>] :
                     s.tag = "found" /\ jobId' = [jobId EXCEPT ![t] = s.id]
            ELSE UNCHANGED jobId
      BY <2>1, <3>1, <3>2 DEF UseRecord, FilteredKinds
    <3>5. noted' \in [Objects -> Seq(Contents)]
      <4>1. CASE k = "noteIntermediateResults"
        <5>1. reply.value \in Contents
          BY <1>1, <2>2, <3>2, <4>1, RequestTyped DEF FilteredKinds, IInv
        <5>2. noted' = [noted EXCEPT ![Object(t)] = Append(@, reply.value)]
          BY <3>1, <4>1 DEF UseRecord
        <5>3. Object(t) \in Objects => Append(noted[Object(t)], reply.value) \in Seq(Contents)
          BY <5>1 DEF IInv, TypeOK
        <5> HIDE DEF k, c
        <5> QED
          BY <5>2, <5>3 DEF IInv, TypeOK
      <4>2. CASE k # "noteIntermediateResults"
        BY <3>1, <4>2 DEF UseRecord, IInv, TypeOK
      <4> QED
        BY <4>1, <4>2
    <3>6. k # "upload"
      BY <1>1 DEF CallKinds
    <3> QED
      BY <1>1, <1>3, <3>1, <3>3, <3>4, <3>5, <3>6 DEF Onward, IInv, TypeOK
  <2>5. CASE reply.state # "resolved"
    <3>1. Fail(t, reply.error) /\ UNCHANGED noted
      BY <1>2, <2>5
    <3>2. \/ reply.error = "noRecord" /\ r.tag = "missing" /\ k \in FilteredKinds
          \/ reply.error = RC!ErrorName(c, r.tag) /\ r.tag \in RC!FailureTags
      BY <2>1, <2>3, <2>5 DEF RC!Entitles
    <3>3. CASE reply.error = "noRecord" /\ r.tag = "missing" /\ k \in FilteredKinds
      <4>1. k = "cancel" \/ (k = "fund" /\ request[t].amount = 0)
        BY <2>2, <3>3 DEF FilteredKinds
      <4>2. executed[c] # {} /\ Effective(c)
        BY <2>1, <3>3 DEF Effective, RC!FailureTags
      <4>3. Deserved(t, reply.error) /\ reply.error \in Causes
        BY <3>3, <4>1, <4>2 DEF Deserved, Causes
      <4> QED
        BY <1>1, <1>3, <3>1, <4>3 DEF Failing, IInv, TypeOK
    <3>4. CASE reply.error = RC!ErrorName(c, r.tag) /\ r.tag \in RC!FailureTags
      <4>1. reply.error \in {"untrusted", "module", "other"}
        BY <3>4 DEF RC!ErrorName, RC!FailureTags
      <4>2. ~ Effective(c)
        BY <1>1, <2>1, <3>4 DEF Effective, IInv, Sound, RanAsSent
      <4>3. Deserved(t, reply.error) /\ reply.error \in Causes
        BY <2>1, <4>1, <4>2 DEF Deserved, Causes
      <4> QED
        BY <1>1, <1>3, <3>1, <4>3 DEF Failing, IInv, TypeOK
    <3> QED
      BY <3>2, <3>3, <3>4
  <2> QED
    BY <2>4, <2>5
<1> QED
  BY <1>2, <1>4, <1>5

LEMMA UnsentCases ==
    ASSUME IInv, NEW t \in Tasks, SendUnsigned(t) \/ WithoutApi(t)
    PROVE  Failing(t)
<1>1. CASE SendUnsigned(t)
  <2>1. Running(t) /\ Fail(t, "noSender") /\ Deserved(t, "noSender") /\ "noSender" \in Causes
    BY <1>1 DEF SendUnsigned, At, Deserved, Causes
  <2> QED
    BY <1>1, <2>1 DEF SendUnsigned, Failing, IInv, TypeOK, callVars
<1>2. CASE WithoutApi(t)
  <2>1. Running(t) /\ Fail(t, "noApi") /\ Deserved(t, "noApi") /\ "noApi" \in Causes
    BY <1>2 DEF WithoutApi, Deserved, Causes
  <2> QED
    BY <1>2, <2>1 DEF WithoutApi, Failing, IInv, TypeOK, callVars
<1> QED
  BY <1>1, <1>2

LEMMA WorkCases ==
    ASSUME IInv, NEW t \in Tasks, Work(t)
    PROVE  Onward(t) \/ Failing(t)
BY UploadCases, ReadCases, ReplyCases, UnsentCases DEF Work

--------------------------------------------------------------------------------
(***************************************************************************)
(* The invariant is kept.  A step is about one task; the others see only   *)
(* the store grow.                                                         *)
(***************************************************************************)
Untouched(u) ==
    /\ request'[u] = request[u]
    /\ at'[u] = at[u]
    /\ jobId'[u] = jobId[u]
    /\ status'[u] = status[u]
    /\ report'[u] = report[u]
    /\ \A k \in CallKinds : executed'[<<u, k>>] = executed[<<u, k>>] /\ dead'[<<u, k>>] = dead[<<u, k>>]
    /\ store \subseteq store'

LEMMA Frame ==
    ASSUME NEW u \in Tasks, Sound(u), Untouched(u)
    PROVE  Sound(u)'
<1>1. \A k \in CallKinds : Sent(<<u, k>>)' <=> Sent(<<u, k>>)
  BY DEF Untouched, Sent
<1>2. \A k \in CallKinds : /\ Effective(<<u, k>>)' <=> Effective(<<u, k>>)
                          /\ Void(<<u, k>>)' <=> Void(<<u, k>>)
  BY DEF Untouched, Effective, Void
<1>3. Step(u)' = Step(u)
  BY DEF Untouched, Step
<1>4. Asked(u, "launch")' <=> Asked(u, "launch")
  BY DEF Untouched, Asked
<1>5. "create" \in CallKinds
  BY DEF CallKinds
<1>6. Placed(u)' /\ RanAsSent(u)' /\ EventsFit(u)'
  BY <1>1 DEF Sound, Placed, RanAsSent, EventsFit, Untouched
<1>7. JobKnown(u)'
  BY <1>4, <1>5 DEF Sound, JobKnown, Untouched
<1>8. Behind(u)'
  BY DEF Sound, Behind, Untouched, Effective
<1>9. Stopped(u)'
  BY DEF Sound, Stopped, Untouched, Step, Sent
<1>10. TrueReport(u)'
  BY <1>5 DEF Sound, TrueReport, Untouched, Step, Effective, Void
<1> QED
  BY <1>6, <1>7, <1>8, <1>9, <1>10 DEF Sound

LEMMA StartKeeps ==
    ASSUME IInv, NEW t \in Tasks, NEW q \in Requests, Start(t, q)
    PROVE  IInv'
<1>1. /\ q.op \in Ops
      /\ q.id \in EscrowIds
      /\ q # None
  BY JobsAssumption DEF JobsAssumption, RequestType, EscrowIds, FactoryIds
<1>2. TypeOK'
  BY <1>1 DEF IInv, TypeOK, Start, callVars
<1>3. /\ request'[t] = q
      /\ status'[t] = "running"
      /\ at'[t] = 1
      /\ jobId'[t] = IF q.op \in {"launch", "createEscrow", "createFactory"} THEN None ELSE q.id
      /\ UNCHANGED <<executed, dead>>
  BY DEF IInv, TypeOK, Sound, Placed, Start, callVars
<1>4. \A k \in CallKinds : executed[<<t, k>>] = {}
  BY DEF IInv, Sound, RanAsSent, Sent, Placed, Start
<1>5. Sound(t)'
  <2>1. Placed(t)'
    <3>1. Len(Plan[q.op]) \in 1 .. 4
      BY <1>1, PlanLength
    <3>2. 1 \in 1 .. Len(Plan[q.op])
      BY <3>1
    <3> QED
      BY <1>1, <1>3, <3>2 DEF Placed
  <2>2. RanAsSent(t)' /\ EventsFit(t)'
    BY <1>3, <1>4 DEF RanAsSent, EventsFit
  <2>3. JobKnown(t)'
    BY <1>3 DEF JobKnown
  <2>4. Behind(t)'
    BY <1>1, <1>3, PlanLength DEF Behind
  <2>5. Stopped(t)' /\ TrueReport(t)'
    BY <1>3 DEF Stopped, TrueReport
  <2> QED
    BY <2>1, <2>2, <2>3, <2>4, <2>5 DEF Sound
<1>6. \A u \in Tasks \ {t} : Untouched(u)
  BY DEF IInv, TypeOK, Start, callVars, Untouched
<1> QED
  BY <1>2, <1>5, <1>6, Frame DEF IInv

LEMMA CrashKeeps ==
    ASSUME IInv, NEW t \in Tasks, Crash(t)
    PROVE  IInv'
<1>1. TypeOK'
  BY DEF IInv, TypeOK, Crash, callVars
<1>2. status'[t] = "crashed" /\ UNCHANGED <<store, request, at, jobId, executed, dead>>
  BY DEF IInv, TypeOK, Crash, callVars
<1>3. Sound(t)'
  <2>1. Placed(t)'
    BY <1>2 DEF IInv, Sound, Placed, Crash, Running
  <2>2. RanAsSent(t)' /\ EventsFit(t)'
    BY <1>2 DEF IInv, Sound, RanAsSent, EventsFit, Sent
  <2>3. JobKnown(t)'
    BY <1>2 DEF IInv, Sound, JobKnown, Asked
  <2>4. Behind(t)'
    BY <1>2 DEF IInv, Sound, Behind, Effective
  <2>5. Stopped(t)' /\ TrueReport(t)'
    BY <1>2 DEF Stopped, TrueReport
  <2> QED
    BY <2>1, <2>2, <2>3, <2>4, <2>5 DEF Sound
<1>4. \A u \in Tasks \ {t} : Untouched(u)
  BY DEF IInv, TypeOK, Crash, callVars, Untouched
<1> QED
  BY <1>1, <1>3, <1>4, Frame DEF IInv

(* Where a task is, and where its calls can be. *)
LEMMA Place ==
    ASSUME IInv, NEW t \in Tasks, request[t] # None
    PROVE  /\ request[t] \in Requests
           /\ request[t].op \in Ops
           /\ Len(Plan[request[t].op]) \in 1 .. 4
           /\ at[t] \in 1 .. Len(Plan[request[t].op])
           /\ Step(t) = Plan[request[t].op][at[t]]
BY RequestTyped, PlanLength DEF IInv, Sound, Placed, Step

(* Creating an escrow comes before every call about it. *)
LEMMA CreateFirst ==
    ASSUME IInv, NEW t \in Tasks, Running(t), Step(t) = "create",
           NEW k \in {"fund", "bulkPayout", "cancel"}
    PROVE  executed[<<t, k>>] = {}
<1>1. request[t] # None /\ k \in CallKinds
  BY DEF IInv, Sound, Placed, Running, CallKinds
<1>2. request[t].op = "createEscrow" \/ (request[t].op = "launch" /\ at[t] = 2)
  BY <1>1, Place, CreatePlace
<1>3. ~ Sent(<<t, k>>)
  <2> SUFFICES ASSUME Sent(<<t, k>>) PROVE FALSE
    OBVIOUS
  <2>1. PICK i \in 1 .. Len(Plan[request[t].op]) : i <= at[t] /\ Plan[request[t].op][i] = k
    BY <1>1, SentPlace
  <2>2. request[t].op \in Ops /\ at[t] \in Nat /\ i \in Nat
    BY <1>1, <2>1, Place
  <2>3. k \notin Reads /\ ~ (request[t].op \in Posts) /\ ~ (request[t].op \in OneCall)
    BY <1>2 DEF Reads, Posts, OneCall
  <2>4. request[t].op = "launch" /\ i = 4
    BY <1>2, <2>1, <2>2, <2>3, PlanCases
  <2> QED
    BY <1>2, <2>1, <2>2, <2>4
<1> QED
  BY <1>1, <1>3 DEF IInv, Sound, RanAsSent

LEMMA OnwardTyped ==
    ASSUME IInv, NEW t \in Tasks, Onward(t)
    PROVE  TypeOK'
<1>1. request[t] # None
  BY DEF IInv, Sound, Placed, Onward, Running
<1>2. at' \in [Tasks -> 1 .. 4] /\ UNCHANGED <<request, report>>
  <2> DEFINE n == Len(Plan[request[t].op])
  <2>1. n \in 1 .. 4 /\ at[t] \in 1 .. n
    BY <1>1, Place
  <2> HIDE DEF n
  <2>2. at[t] < n => at[t] + 1 \in 1 .. 4
    BY <2>1
  <2> USE DEF n
  <2> QED
    BY <2>2 DEF IInv, TypeOK, Onward, Advance
<1>3. status' \in [Tasks -> {"idle", "running", "done", "failed", "crashed"}]
  BY DEF IInv, TypeOK, Onward, Advance
<1>4. jobId' \in [Tasks -> EscrowIds \cup {None}]
  <2>1. CASE Step(t) = "create"
    <3>1. PICK s \in executed[<<t, "create">>] :
              s.tag = "found" /\ jobId' = [jobId EXCEPT ![t] = s.id]
      BY <2>1 DEF Onward
    <3>2. "create" \in CallKinds /\ "create" \notin {"fund", "bulkPayout", "cancel"}
      BY DEF CallKinds
    <3>3. s.id \in EscrowIds
      BY <3>1, <3>2 DEF IInv, Sound, EventsFit
    <3> QED
      BY <3>1, <3>3 DEF IInv, TypeOK
  <2>2. CASE Step(t) # "create"
    BY <2>2 DEF IInv, TypeOK, Onward
  <2> QED
    BY <2>1, <2>2
<1> QED
  BY <1>2, <1>3, <1>4 DEF IInv, TypeOK, Onward

LEMMA OnwardKeeps ==
    ASSUME IInv, NEW t \in Tasks, Onward(t)
    PROVE  IInv'
<1> DEFINE op == request[t].op
           n == Len(Plan[op])
<1>1. TypeOK'
  BY OnwardTyped
<1>2. /\ request[t] # None
      /\ op \in Ops
      /\ n \in 1 .. 4
      /\ at[t] \in 1 .. n
      /\ Step(t) = Plan[op][at[t]]
  <2>1. request[t] # None
    BY DEF IInv, Sound, Placed, Onward, Running
  <2> QED
    BY <2>1, Place
<1>3. UNCHANGED <<request, report, executed, dead>> /\ store \subseteq store'
  BY DEF Onward, Advance
<1>4. \/ at[t] < n /\ at'[t] = at[t] + 1 /\ status'[t] = "running"
      \/ at[t] = n /\ at'[t] = at[t] /\ status'[t] = "done"
  BY <1>2 DEF IInv, TypeOK, Onward, Advance, Running
<1>5. at'[t] \in 1 .. n /\ at[t] <= at'[t] /\ status'[t] \in {"running", "done"}
  BY <1>2, <1>4
<1>6. Step(t) # "create" => jobId'[t] = jobId[t]
  BY DEF Onward
<1>7. Placed(t)'
  BY <1>2, <1>3, <1>5 DEF Placed
<1>8. RanAsSent(t)'
  <2>1. \A k \in CallKinds : Sent(<<t, k>>) => Sent(<<t, k>>)'
    BY <1>2, <1>3, <1>5 DEF Sent
  <2> QED
    BY <1>3, <2>1 DEF IInv, Sound, RanAsSent
<1>9. EventsFit(t)'
  <2>1. CASE Step(t) = "create"
    <3>1. \A k \in {"fund", "bulkPayout", "cancel"} : executed[<<t, k>>] = {}
      BY <2>1, CreateFirst DEF Onward
    <3> QED
      BY <1>3, <3>1 DEF IInv, Sound, EventsFit
  <2>2. CASE Step(t) # "create"
    BY <1>3, <1>6, <2>2 DEF IInv, Sound, EventsFit
  <2> QED
    BY <2>1, <2>2
<1>10. JobKnown(t)'
  <2>1. ASSUME op = "launch", at'[t] > 2
        PROVE  \E s \in executed[<<t, "create">>] : s.tag = "found" /\ jobId'[t] = s.id
    <3>1. CASE at[t] = 2
      <4>1. Step(t) = "create"
        BY <1>2, <2>1, <3>1, PlanTable
      <4> QED
        BY <4>1 DEF IInv, TypeOK, Onward
    <3>2. CASE at[t] > 2
      <4>1. Step(t) # "create"
        BY <1>2, <2>1, <3>2, CreatePlace
      <4> QED
        BY <1>2, <1>6, <2>1, <3>2, <4>1 DEF IInv, Sound, JobKnown, Asked
    <3> QED
      BY <1>2, <1>4, <2>1, <3>1, <3>2
  <2>2. ASSUME op \notin {"launch", "createEscrow", "createFactory"}
        PROVE  jobId'[t] = request[t].id
    <3>1. Step(t) # "create"
      BY <1>2, <2>2, CreatePlace
    <3> QED
      BY <1>2, <1>6, <2>2, <3>1 DEF IInv, Sound, JobKnown
  <2> QED
    BY <1>3, <2>1, <2>2 DEF JobKnown, Asked
<1>11. Behind(t)'
  <2> SUFFICES ASSUME NEW i \in 1 .. n, i < at'[t] \/ status'[t] = "done"
               PROVE  /\ Plan[op][i] \in CallKinds => Effective(<<t, Plan[op][i]>>)
                      /\ Plan[op][i] = "upload" => request[t].content \in store'
    BY <1>3 DEF Behind, Effective
  <2>1. i < at[t] \/ i = at[t]
    BY <1>2, <1>4
  <2>2. CASE i < at[t]
    BY <1>2, <1>3, <2>2 DEF IInv, Sound, Behind
  <2>3. CASE i = at[t]
    BY <1>2, <2>3 DEF Onward
  <2> QED
    BY <2>1, <2>2, <2>3
<1>12. Stopped(t)' /\ TrueReport(t)'
  BY <1>5 DEF Stopped, TrueReport
<1>13. \A u \in Tasks \ {t} : Untouched(u)
  BY <1>3 DEF IInv, TypeOK, Onward, Advance, Untouched
<1> QED
  BY <1>1, <1>7, <1>8, <1>9, <1>10, <1>11, <1>12, <1>13, Frame DEF IInv, Sound

LEMMA FailingTyped ==
    ASSUME IInv, NEW t \in Tasks, Failing(t)
    PROVE  TypeOK'
<1>1. PICK cause \in Causes : Fail(t, cause)
  BY DEF Failing
<1>2. report' \in [Tasks -> Reports]
  BY <1>1 DEF Fail, Wrapping, Reports, IInv, TypeOK
<1>3. status' \in [Tasks -> {"idle", "running", "done", "failed", "crashed"}]
  BY <1>1 DEF Fail, IInv, TypeOK
<1> QED
  BY <1>1, <1>2, <1>3 DEF Fail, Failing, IInv, TypeOK

(* The errors of the handlers are true when they are given. *)
LEMMA ReportMade ==
    ASSUME IInv, NEW t \in Tasks, Running(t), NEW cause \in Causes, Fail(t, cause)
    PROVE  /\ report'[t].cause = cause
           /\ report'[t].kind = "notFunded" => Effective(<<t, "create">>) /\ jobId[t] # None
           /\ report'[t].kind = "notPosted" => request[t].content \in store
<1> DEFINE op == request[t].op
<1>1. request[t] # None
  BY DEF IInv, Sound, Placed, Running
<1>2. /\ op \in Ops
      /\ Len(Plan[op]) \in 1 .. 4
      /\ at[t] \in 1 .. Len(Plan[op])
      /\ Step(t) = Plan[op][at[t]]
  BY <1>1, Place
<1>3. /\ report'[t].cause = cause
      /\ report'[t].kind = IF cause = "noApi" THEN "plain" ELSE Wrapping(t)
  BY DEF Fail, IInv, TypeOK
<1>4. ASSUME report'[t].kind = "notFunded"
      PROVE  Effective(<<t, "create">>) /\ jobId[t] # None
  <2>1. op = "launch" /\ Step(t) = "fund"
    BY <1>3, <1>4 DEF Wrapping
  <2>2. at[t] = 4 /\ Len(Plan[op]) = 4
    BY <1>2, <2>1, FundPlace, PlanTable
  <2>3. Effective(<<t, "create">>)
    <3>1. 2 \in 1 .. Len(Plan[op]) /\ 2 < at[t] /\ Plan[op][2] = "create" /\ "create" \in CallKinds
      BY <2>1, <2>2, PlanTable DEF CallKinds
    <3> QED
      BY <1>1, <3>1 DEF IInv, Sound, Behind
  <2>4. PICK s \in executed[<<t, "create">>] : s.tag = "found" /\ jobId[t] = s.id
    BY <1>1, <2>1, <2>2 DEF IInv, Sound, JobKnown, Asked
  <2>5. "create" \in CallKinds /\ "create" \notin {"fund", "bulkPayout", "cancel"}
    BY DEF CallKinds
  <2>6. jobId[t] \in EscrowIds
    BY <2>4, <2>5 DEF IInv, Sound, EventsFit
  <2> QED
    BY <2>3, <2>6, PalletAssumption DEF PalletAssumption, EscrowIds
<1>5. ASSUME report'[t].kind = "notPosted"
      PROVE  request[t].content \in store
  <2>1. Step(t) \in {"storeFinalResults", "noteIntermediateResults"}
    BY <1>3, <1>5 DEF Wrapping
  <2>2. at[t] = 2 /\ Plan[op][1] = "upload"
    BY <1>2, <2>1, PostPlaces
  <2>3. 1 \in 1 .. Len(Plan[op]) /\ 1 < at[t]
    BY <1>2, <2>2
  <2> QED
    BY <1>1, <2>2, <2>3 DEF IInv, Sound, Behind
<1> QED
  BY <1>3, <1>4, <1>5

LEMMA FailingKeeps ==
    ASSUME IInv, NEW t \in Tasks, Failing(t)
    PROVE  IInv'
<1>1. TypeOK'
  BY FailingTyped
<1>2. PICK cause \in Causes : Fail(t, cause) /\ (Step(t) \in CallKinds => Deserved(t, cause))
  BY DEF Failing
<1>3. /\ UNCHANGED <<request, at, jobId, executed, dead>>
      /\ store \subseteq store'
      /\ status'[t] = "failed"
      /\ Running(t)
  BY <1>2 DEF Failing, Fail, IInv, TypeOK
<1>4. /\ report'[t].cause = cause
      /\ report'[t].kind = "notFunded" => Effective(<<t, "create">>) /\ jobId[t] # None
      /\ report'[t].kind = "notPosted" => request[t].content \in store
  BY <1>2, <1>3, ReportMade
<1>5. Placed(t)' /\ RanAsSent(t)' /\ EventsFit(t)' /\ JobKnown(t)'
  <2>1. \A k \in CallKinds : Sent(<<t, k>>)' <=> Sent(<<t, k>>)
    BY <1>3 DEF Sent
  <2>2. Placed(t)'
    BY <1>3 DEF IInv, Sound, Placed, Running
  <2> QED
    BY <1>3, <2>1, <2>2 DEF IInv, Sound, RanAsSent, EventsFit, JobKnown, Asked
<1>6. Behind(t)'
  BY <1>3 DEF IInv, Sound, Behind, Effective, Running
<1>7. ASSUME Step(t) \in CallKinds
      PROVE  \/ cause = "send" /\ Void(<<t, Step(t)>>)
             \/ /\ cause \in {"untrusted", "module", "other"}
                /\ executed[<<t, Step(t)>>] # {}
                /\ ~ Effective(<<t, Step(t)>>)
             \/ /\ cause \in {"noSender", "noApi"}
                /\ ~ Sent(<<t, Step(t)>>)
                /\ executed[<<t, Step(t)>>] = {}
             \/ /\ cause = "noRecord"
                /\ Step(t) = "cancel" \/ (Step(t) = "fund" /\ request[t].amount = 0)
                /\ executed[<<t, Step(t)>>] # {}
                /\ Effective(<<t, Step(t)>>)
  BY <1>2, <1>7 DEF Deserved, IInv, Sound, RanAsSent, Sent
<1>8. Stopped(t)'
  BY <1>3, <1>7 DEF Stopped, Step, Sent, Void
<1>9. TrueReport(t)'
  BY <1>3, <1>4, <1>7 DEF TrueReport, Step, Void, Effective
<1>10. \A u \in Tasks \ {t} : Untouched(u)
  BY <1>2, <1>3 DEF IInv, TypeOK, Fail, Untouched
<1> QED
  BY <1>1, <1>5, <1>6, <1>8, <1>9, <1>10, Frame DEF IInv, Sound

(***************************************************************************)
(* What makes a rejection final: a call can still run only while its task  *)
(* awaits it, or has crashed there.                                        *)
(***************************************************************************)
LEMMA NoLateCalls ==
    ASSUME IInv, NEW t \in Tasks, NEW k \in CallKinds,
           Sent(<<t, k>>), executed[<<t, k>>] = {}, ~ dead[<<t, k>>]
    PROVE  /\ status[t] \in {"running", "crashed"}
           /\ k = Step(t)
<1>1. PICK i \in 1 .. Len(Plan[request[t].op]) : i <= at[t] /\ Plan[request[t].op][i] = k
  BY SentPlace
<1>2. request[t] # None
  BY SentPlace
<1>3. ~ Effective(<<t, k>>)
  BY DEF Effective
<1>4. ~ (i < at[t]) /\ status[t] # "done"
  BY <1>1, <1>2, <1>3 DEF IInv, Sound, Behind
<1>5. i = at[t] /\ k = Step(t)
  BY <1>1, <1>2, <1>4, Place
<1>6. status[t] # "failed"
  BY <1>5 DEF IInv, Sound, Stopped
<1>7. status[t] # "idle"
  BY <1>2 DEF IInv, Sound, Placed
<1> QED
  BY <1>4, <1>5, <1>6, <1>7 DEF IInv, TypeOK

LEMMA GiveUpKeeps ==
    ASSUME IInv, NEW t \in Tasks, NEW k \in CallKinds, GiveUp(<<t, k>>)
    PROVE  IInv'
<1>1. UNCHANGED <<chain, store, noted, request, at, jobId, status, report, executed, promise>>
  BY DEF GiveUp, taskVars, RC!GiveUp
<1>2. dead' = [dead EXCEPT ![<<t, k>>] = TRUE]
  BY DEF GiveUp, RC!GiveUp
<1>3. status[t] \in {"running", "crashed"} /\ executed[<<t, k>>] = {}
  BY NoLateCalls DEF GiveUp
<1>4. TypeOK'
  BY <1>1, <1>2 DEF IInv, TypeOK
<1>5. Sound(t)'
  <2>1. \A h \in CallKinds : Sent(<<t, h>>)' <=> Sent(<<t, h>>)
    BY <1>1 DEF Sent
  <2>2. \A h \in CallKinds : executed[<<t, h>>] # {} => dead'[<<t, h>>] = dead[<<t, h>>]
    BY <1>2, <1>3 DEF IInv, TypeOK, Calls
  <2>3. RanAsSent(t)'
    BY <1>1, <2>1, <2>2 DEF IInv, Sound, RanAsSent
  <2>4. Placed(t)' /\ EventsFit(t)'
    BY <1>1 DEF IInv, Sound, Placed, EventsFit
  <2>5. JobKnown(t)'
    BY <1>1 DEF IInv, Sound, JobKnown, Asked
  <2>6. Behind(t)'
    BY <1>1 DEF IInv, Sound, Behind, Effective
  <2>7. Stopped(t)' /\ TrueReport(t)'
    BY <1>1, <1>3 DEF Stopped, TrueReport
  <2> QED
    BY <2>3, <2>4, <2>5, <2>6, <2>7 DEF Sound
<1>6. \A u \in Tasks \ {t} : Untouched(u)
  <2>1. \A u \in Tasks \ {t}, h \in CallKinds : dead'[<<u, h>>] = dead[<<u, h>>]
    BY <1>2 DEF IInv, TypeOK, Calls
  <2> QED
    BY <1>1, <2>1 DEF Untouched
<1> QED
  BY <1>4, <1>5, <1>6, Frame DEF IInv

(* What the chain makes of a call, as its caller may learn of it. *)
Ran(c, r) ==
    /\ r \in RC!Results
    /\ executed' = [executed EXCEPT ![c] = {r}]
    /\ chain' \in Chains
    /\ OneStepOfLife(chain, chain')
    /\ UNCHANGED <<store, noted, request, at, jobId, status, report, dead, promise>>

LEMMA ExecuteCases ==
    ASSUME IInv, NEW t \in Tasks, NEW k \in CallKinds, Execute(<<t, k>>)
    PROVE  \E r \in RC!Results :
               /\ Ran(<<t, k>>, r)
               /\ r.tag = "found" =>
                      \/ k \in {"create", "createFactory"} /\ r.id \in EscrowIds
                      \/ k \in {"fund", "bulkPayout", "cancel"} /\ r.id = jobId[t]
                      \/ k = "noteIntermediateResults" /\ r.id = request[t].content
               /\ r.tag = "missing" =>
                      /\ k \notin {"create", "createFactory", "bulkPayout", "noteIntermediateResults"}
                      /\ k = "fund" => request[t].amount = 0
<1> DEFINE c == <<t, k>>
           call == Extrinsic(c)
<1>1. PICK o \in Dispatch(chain, call) :
          /\ RC!Execute(c, [tag |-> o.tag, id |-> IF o.tag = "found" THEN o.payload ELSE Nothing])
          /\ chain' = o.chain
  BY DEF Execute
<1> DEFINE r == [tag |-> o.tag, id |-> IF o.tag = "found" THEN o.payload ELSE Nothing]
<1>2. /\ Sent(c)
      /\ executed[c] = {}
      /\ UNCHANGED <<store, noted, request, at, jobId, status, report>>
  BY DEF Execute, taskVars
<1>3. /\ GoodCall(call) /\ call.kind = k /\ call.id = jobId[t]
      /\ call.content = request[t].content /\ call.amount = request[t].amount
  BY <1>2, GoodExtrinsic DEF Extrinsic
<1>4. chain \in Chains
  BY DEF IInv, TypeOK
<1>5. GoodOutcome(call, o) /\ OneStepOfLife(chain, o.chain)
  <2> HIDE DEF call
  <2> QED
    BY <1>1, <1>3, <1>4, DispatchGood DEF CallKinds
<1>6. executed' = [executed EXCEPT ![c] = {r}] /\ UNCHANGED <<dead, promise>>
  BY <1>1, <1>2 DEF RC!Execute, IInv, TypeOK, Calls
<1>7. r.tag = o.tag /\ (o.tag = "found" => r.id = o.payload)
  OBVIOUS
<1>8. o.tag = "found" => o.payload \in EscrowIds \cup Contents
  BY <1>3, <1>5 DEF GoodOutcome, GoodCall
<1>9. r \in RC!Results
  BY <1>5, <1>8 DEF GoodOutcome, RC!Results, RC!FailureTags, Payloads
<1>10. Ran(c, r)
  BY <1>1, <1>2, <1>5, <1>6, <1>9 DEF Ran, GoodOutcome
<1> QED
  BY <1>3, <1>5, <1>7, <1>9, <1>10 DEF GoodOutcome

LEMMA ExecuteKeeps ==
    ASSUME IInv, NEW t \in Tasks, NEW k \in CallKinds, Execute(<<t, k>>)
    PROVE  IInv'
<1> DEFINE c == <<t, k>>
<1>1. PICK r \in RC!Results :
          /\ Ran(c, r)
          /\ r.tag = "found" =>
                 \/ k \in {"create", "createFactory"} /\ r.id \in EscrowIds
                 \/ k \in {"fund", "bulkPayout", "cancel"} /\ r.id = jobId[t]
                 \/ k = "noteIntermediateResults" /\ r.id = request[t].content
          /\ r.tag = "missing" =>
                 /\ k \notin {"create", "createFactory", "bulkPayout", "noteIntermediateResults"}
                 /\ k = "fund" => request[t].amount = 0
  BY ExecuteCases
<1>2. /\ UNCHANGED <<store, noted, request, at, jobId, status, report, dead, promise>>
      /\ Sent(c)
      /\ executed[c] = {}
      /\ ~ dead[c]
  BY <1>1 DEF Ran, Execute, RC!Execute
<1>3. status[t] \in {"running", "crashed"}
  BY <1>2, NoLateCalls
<1>4. executed'[c] = {r} /\ \A h \in CallKinds \ {k} : executed'[<<t, h>>] = executed[<<t, h>>]
  BY <1>1 DEF Ran, IInv, TypeOK, Calls
<1>5. \A h \in CallKinds : executed[<<t, h>>] \subseteq executed'[<<t, h>>]
  BY <1>2, <1>4
<1>6. TypeOK'
  BY <1>1 DEF Ran, IInv, TypeOK
<1>7. Placed(t)'
  BY <1>2 DEF IInv, Sound, Placed
<1>8. RanAsSent(t)'
  <2>1. \A h \in CallKinds : Sent(<<t, h>>)' <=> Sent(<<t, h>>)
    BY <1>2 DEF Sent
  <2> HIDE DEF c
  <2>2. ASSUME NEW h \in CallKinds
        PROVE  /\ executed'[<<t, h>>] # {} => Sent(<<t, h>>)'
               /\ executed'[<<t, h>>] # {} => ~ dead'[<<t, h>>]
               /\ \A p, s \in executed'[<<t, h>>] : p = s
    <3>1. CASE h = k
      BY <1>2, <1>4, <2>1, <3>1 DEF c
    <3>2. CASE h # k
      BY <1>2, <1>4, <2>1, <3>2 DEF IInv, Sound, RanAsSent
    <3> QED
      BY <3>1, <3>2
  <2> QED
    BY <2>2 DEF RanAsSent
<1>9. EventsFit(t)'
  <2>1. ASSUME NEW h \in CallKinds, NEW s \in executed'[<<t, h>>]
        PROVE  /\ s.tag = "found" =>
                      \/ h \in {"create", "createFactory"} /\ s.id \in EscrowIds
                      \/ h \in {"fund", "bulkPayout", "cancel"} /\ s.id = jobId[t]
                      \/ h = "noteIntermediateResults" /\ s.id = request[t].content
               /\ s.tag = "missing" =>
                      /\ h \notin {"create", "createFactory", "bulkPayout", "noteIntermediateResults"}
                      /\ h = "fund" => request[t].amount = 0
    <3>1. CASE h = k
      BY <1>1, <1>4, <2>1, <3>1
    <3>2. CASE h # k
      BY <1>4, <2>1, <3>2 DEF IInv, Sound, EventsFit
    <3> QED
      BY <3>1, <3>2
  <2> QED
    BY <1>2, <2>1 DEF EventsFit
<1>10. JobKnown(t)'
  <2>1. "create" \in CallKinds
    BY DEF CallKinds
  <2> QED
    BY <1>2, <1>5, <2>1 DEF IInv, Sound, JobKnown, Asked
<1>11. Behind(t)'
  BY <1>2, <1>5 DEF IInv, Sound, Behind, Effective
<1>12. Stopped(t)' /\ TrueReport(t)'
  BY <1>2, <1>3 DEF Stopped, TrueReport
<1>13. \A u \in Tasks \ {t} : Untouched(u)
  <2>1. \A u \in Tasks \ {t}, h \in CallKinds : executed'[<<u, h>>] = executed[<<u, h>>]
    BY <1>1 DEF Ran, IInv, TypeOK, Calls
  <2> QED
    BY <1>2, <2>1 DEF Untouched
<1> QED
  BY <1>6, <1>7, <1>8, <1>9, <1>10, <1>11, <1>12, <1>13, Frame DEF IInv, Sound

LEMMA StutterKeeps ==
    ASSUME IInv, UNCHANGED vars
    PROVE  IInv'
<1>1. TypeOK'
  BY DEF IInv, TypeOK, vars, taskVars, callVars
<1>2. \A u \in Tasks : Untouched(u)
  BY DEF Untouched, vars, taskVars, callVars
<1> QED
  BY <1>1, <1>2, Frame DEF IInv

LEMMA InitHolds == Init => IInv
<1> SUFFICES ASSUME Init PROVE IInv
  OBVIOUS
<1>1. TypeOK
  <2>1. NoReport \in Reports
    BY DEF NoReport, Reports, Causes
  <2>2. \A j \in Objects : <<>> \in Seq(Contents)
    OBVIOUS
  <2>3. RC!Pending \in RC!Promises
    BY DEF RC!Promises
  <2> QED
    BY <2>1, <2>2, <2>3, GenesisTyped DEF Init, TypeOK, RC!Init
<1>2. ASSUME NEW t \in Tasks PROVE Sound(t)
  <2>1. \A k \in CallKinds : executed[<<t, k>>] = {}
    BY DEF Init, RC!Init, Calls
  <2>2. request[t] = None /\ status[t] = "idle" /\ at[t] = 1
    BY DEF Init
  <2> QED
    BY <2>1, <2>2 DEF Sound, Placed, RanAsSent, EventsFit, JobKnown, Asked, Behind, Stopped, TrueReport
<1> QED
  BY <1>1, <1>2 DEF IInv

LEMMA NextKeeps == IInv /\ [Next]_vars => IInv'
<1> SUFFICES ASSUME IInv, [Next]_vars PROVE IInv'
  OBVIOUS
<1>1. CASE \E t \in Tasks : \E q \in Requests : Start(t, q)
  BY <1>1, StartKeeps
<1>2. CASE \E t \in Tasks : Work(t)
  BY <1>2, WorkCases, OnwardKeeps, FailingKeeps
<1>3. CASE \E t \in Tasks : Crash(t)
  BY <1>3, CrashKeeps
<1>4. CASE \E c \in Calls : Execute(c) \/ GiveUp(c)
  <2>1. PICK t \in Tasks, k \in CallKinds : Execute(<<t, k>>) \/ GiveUp(<<t, k>>)
    BY <1>4 DEF Calls
  <2> QED
    BY <2>1, ExecuteKeeps, GiveUpKeeps
<1>5. CASE UNCHANGED vars
  BY <1>5, StutterKeeps
<1> QED
  BY <1>1, <1>2, <1>3, <1>4, <1>5 DEF Next

(* Every reachable state is sound. *)
THEOREM Inductive == Spec => []IInv
BY InitHolds, NextKeeps, PTL DEF Spec

(* The types, for any tasks, requests, accounts and documents. *)
THEOREM JobsTyped == Spec => []TypeOK
<1>1. IInv => TypeOK
  BY DEF IInv
<1> QED
  BY <1>1, Inductive, PTL

(* The errors of failed operations say what became of them. *)
THEOREM ReportsTrue == Spec => []ReportsAreTrue
<1>1. IInv => ReportsAreTrue
  BY DEF IInv, Sound, TrueReport, ReportsAreTrue
<1> QED
  BY <1>1, Inductive, PTL

(* A url is on the chain only after its document is in S3. *)
THEOREM PostedStored == Spec => []PostedIsStored
<1>1. ASSUME IInv, NEW t \in Tasks,
             NEW k \in {"create", "storeFinalResults", "noteIntermediateResults"},
             Effective(<<t, k>>), ~ Asked(t, "createEscrow")
      PROVE  request[t].content \in store
  <2> DEFINE op == request[t].op
  <2>1. k \in CallKinds /\ executed[<<t, k>>] # {}
    BY <1>1 DEF CallKinds, Effective
  <2>2. Sent(<<t, k>>)
    BY <1>1, <2>1 DEF IInv, Sound, RanAsSent
  <2>3. request[t] # None
    BY <2>2 DEF Sent
  <2>4. PICK i \in 1 .. Len(Plan[op]) : i <= at[t] /\ Plan[op][i] = k
    BY <1>1, <2>1, <2>2, SentPlace
  <2>5. op \in Ops /\ Len(Plan[op]) \in 1 .. 4 /\ at[t] \in 1 .. Len(Plan[op])
    BY <1>1, <2>3, Place
  <2>6. i = 2 /\ Plan[op][1] = "upload"
    <3>1. CASE k = "create"
      BY <1>1, <2>3, <2>4, <2>5, <3>1, CreatePlace DEF Asked
    <3>2. CASE k # "create"
      BY <1>1, <2>4, <2>5, <3>2, PostPlaces
    <3> QED
      BY <3>1, <3>2
  <2>7. 1 \in 1 .. Len(Plan[op]) /\ 1 < at[t]
    BY <2>4, <2>5, <2>6
  <2> QED
    BY <1>1, <2>3, <2>6, <2>7 DEF IInv, Sound, Behind
<1>2. ASSUME IInv PROVE PostedIsStored
  <2> DEFINE Posts3 == {"create", "storeFinalResults", "noteIntermediateResults"}
  <2>1. \A t \in Tasks, k \in Posts3 :
            Effective(<<t, k>>) /\ ~ Asked(t, "createEscrow") => request[t].content \in store
    BY <1>1, <1>2
  <2> HIDE DEF Posts3
  <2>2. \A t \in Tasks : \A c \in {t} \X Posts3 : \E k \in Posts3 : c = <<t, k>>
    OBVIOUS
  <2>3. \A t \in Tasks : (\E c \in {t} \X Posts3 : Effective(c) /\ ~ Asked(t, "createEscrow"))
                             => request[t].content \in store
    BY <2>1, <2>2
  <2> QED
    BY <2>3 DEF PostedIsStored, Posts3
<1> QED
  BY <1>2, Inductive, PTL

(* launch pays the escrow it created. *)
THEOREM LaunchPaysItsOwn == Spec => []LaunchFundsItsEscrow
<1>1. ASSUME IInv PROVE LaunchFundsItsEscrow
  <2> SUFFICES ASSUME NEW t \in Tasks, Asked(t, "launch"),
                      NEW r \in executed[<<t, "fund">>], r.tag = "found"
               PROVE  \E s \in executed[<<t, "create">>] :
                          s.tag = "found" /\ s.id = r.id /\ jobId[t] = r.id
    BY DEF LaunchFundsItsEscrow
  <2>1. "fund" \in CallKinds /\ "fund" \notin {"create", "createFactory", "noteIntermediateResults"}
    BY DEF CallKinds
  <2>2. r.id = jobId[t] /\ Sent(<<t, "fund">>)
    BY <1>1, <2>1 DEF IInv, Sound, EventsFit, RanAsSent
  <2>3. PICK i \in 1 .. Len(Plan["launch"]) : i <= at[t] /\ Plan["launch"][i] = "fund"
    BY <1>1, <2>1, <2>2, SentPlace DEF Asked
  <2>4. i = 4 /\ at[t] \in Nat
    BY <1>1, <2>3, PlanTable, FundPlace DEF Asked, IInv, TypeOK
  <2>5. at[t] > 2
    BY <2>3, <2>4
  <2> QED
    BY <1>1, <2>2, <2>5 DEF IInv, Sound, JobKnown
<1> QED
  BY <1>1, Inductive, PTL

--------------------------------------------------------------------------------
(***************************************************************************)
(* Jobs implements JobOperations: every step is one of the contract's, or  *)
(* changes nothing it speaks of.                                           *)
(***************************************************************************)
LEMMA PlanDomain ==
    ASSUME NEW op \in Ops
    PROVE  DOMAIN Plan[op] = 1 .. Len(Plan[op])
<1>1. \A a, b, c, d \in STRING :
          /\ DOMAIN <<a>> = 1 .. Len(<<a>>)
          /\ DOMAIN <<a, b>> = 1 .. Len(<<a, b>>)
          /\ DOMAIN <<a, b, c, d>> = 1 .. Len(<<a, b, c, d>>)
  OBVIOUS
<1>2. /\ Plan["launch"] = <<"upload", "create", "escrow", "fund">>
      /\ Plan["createFactory"] = <<"createFactory">>
      /\ Plan["createEscrow"] = <<"create">>
      /\ Plan["fundEscrow"] = <<"fund">>
      /\ Plan["addTrustedHandlers"] = <<"addTrustedHandlers">>
      /\ Plan["bulkPayout"] = <<"bulkPayout">>
      /\ Plan["abort"] = <<"abort">>
      /\ Plan["cancel"] = <<"cancel">>
      /\ Plan["complete"] = <<"complete">>
      /\ Plan["escrow"] = <<"escrow">>
      /\ Plan["isTrustedHandler"] = <<"trusted">>
      /\ Plan["manifest"] = <<"download">>
      /\ Plan["getAllJobs"] = <<"jobs">>
      /\ Plan["storeFinalResults"] = <<"upload", "storeFinalResults">>
      /\ Plan["noteIntermediateResults"] = <<"upload", "noteIntermediateResults">>
      /\ Plan["balance"] = <<"escrow", "account">>
      /\ Plan["intermediateResults"] = <<"noted", "download">>
      /\ Plan["finalResults"] = <<"final", "download">>
  BY DEF Plan
<1> QED
  BY <1>1, <1>2, OpsAre

LEMMA StartBegins ==
    ASSUME IInv, NEW t \in Tasks, NEW q \in Requests, Start(t, q)
    PROVE  JO!Begin(t, q.op)
<1>1. q # None
  BY JobsAssumption DEF JobsAssumption
<1>2. AskedOps' = [AskedOps EXCEPT ![t] = q.op]
  BY <1>1 DEF AskedOps, Start, IInv, TypeOK
<1>3. UNCHANGED Effects
  BY DEF Effects, Effective, Start, callVars
<1> QED
  BY <1>2, <1>3 DEF JO!Begin, Start

LEMMA SameAsked ==
    ASSUME UNCHANGED <<request, executed>>
    PROVE  UNCHANGED <<AskedOps, Effects>>
BY DEF AskedOps, Effects, Effective

LEMMA OnwardResolves ==
    ASSUME IInv, NEW t \in Tasks, Onward(t)
    PROVE  JO!Resolve(t) \/ UNCHANGED JO!vars
<1> DEFINE op == request[t].op
<1>1. request[t] # None /\ op \in Ops
  <2>1. request[t] # None
    BY DEF IInv, Sound, Placed, Onward, Running
  <2> QED
    BY <2>1, Place
<1>2. UNCHANGED <<AskedOps, Effects>> /\ request' = request
  BY SameAsked DEF Onward, Advance
<1>3. CASE UNCHANGED status
  BY <1>2, <1>3 DEF JO!vars
<1>4. CASE status' = [status EXCEPT ![t] = "done"]
  <2>1. IInv' /\ status'[t] = "done"
    BY <1>4, OnwardKeeps DEF IInv, TypeOK
  <2>2. \A i \in 1 .. Len(Plan[op]) :
            Plan[op][i] \in CallKinds =>
                \E r \in executed'[<<t, Plan[op][i]>>] : r.tag \notin RC!FailureTags
    BY <1>1, <1>2, <2>1 DEF IInv, Sound, Behind, Effective
  <2>3. \A i \in DOMAIN Plan[op] : Plan[op][i] \in CallKinds => Plan[op][i] \in Effects'[t]
    <3>1. DOMAIN Plan[op] = 1 .. Len(Plan[op])
      BY <1>1, PlanDomain
    <3>2. Effects'[t] = {k \in CallKinds : \E r \in executed'[<<t, k>>] : r.tag \notin RC!FailureTags}
      BY DEF Effects, Effective
    <3> QED
      BY <2>2, <3>1, <3>2
  <2>4. AskedOps[t] = op
    BY <1>1 DEF AskedOps
  <2>5. {Plan[AskedOps[t]][i] : i \in DOMAIN Plan[AskedOps[t]]} \cap CallKinds \subseteq Effects[t]
    BY <1>2, <2>3, <2>4
  <2> QED
    BY <1>2, <1>4, <2>5 DEF JO!Resolve, Onward, Running
<1> QED
  BY <1>3, <1>4 DEF Onward, Advance

LEMMA FailingRejects ==
    ASSUME NEW t \in Tasks, Failing(t)
    PROVE  JO!Reject(t)
BY SameAsked DEF Failing, Fail, Running, JO!Reject

LEMMA CrashCrashes ==
    ASSUME NEW t \in Tasks, Crash(t)
    PROVE  JO!Crash(t)
BY SameAsked DEF Crash, Running, callVars, JO!Crash

LEMMA ExecuteTakesEffect ==
    ASSUME IInv, NEW t \in Tasks, NEW k \in CallKinds, Execute(<<t, k>>)
    PROVE  JO!TakeEffect(t) \/ UNCHANGED JO!vars
<1> DEFINE c == <<t, k>>
           op == request[t].op
<1>1. PICK r \in RC!Results : Ran(c, r)
  BY ExecuteCases
<1>2. /\ Sent(c)
      /\ executed[c] = {}
      /\ ~ dead[c]
      /\ UNCHANGED <<request, status>>
      /\ executed' = [executed EXCEPT ![c] = {r}]
  BY <1>1 DEF Ran, Execute, RC!Execute
<1>3. status[t] \in {"running", "crashed"} /\ k = Step(t)
  BY <1>2, NoLateCalls
<1>4. request[t] # None
  BY <1>2 DEF Sent
<1>5. /\ op \in Ops
      /\ Len(Plan[op]) \in 1 .. 4
      /\ at[t] \in 1 .. Len(Plan[op])
      /\ k = Plan[op][at[t]]
  BY <1>3, <1>4, Place
<1>6. UNCHANGED AskedOps /\ AskedOps[t] = op
  BY <1>2, <1>4 DEF AskedOps
<1>7. ASSUME NEW u \in Tasks, NEW h \in CallKinds, <<u, h>> # c
      PROVE  Effective(<<u, h>>)' <=> Effective(<<u, h>>)
  BY <1>2, <1>7 DEF Effective, IInv, TypeOK, Calls
<1>8. ~ Effective(c) /\ (Effective(c)' <=> r.tag \notin RC!FailureTags)
  BY <1>2 DEF Effective, IInv, TypeOK, Calls
<1>9. CASE r.tag \in RC!FailureTags
  <2>1. \A u \in Tasks, h \in CallKinds : Effective(<<u, h>>)' <=> Effective(<<u, h>>)
    BY <1>7, <1>8, <1>9
  <2>2. UNCHANGED Effects
    BY <2>1 DEF Effects
  <2> QED
    BY <1>2, <1>6, <2>2 DEF JO!vars
<1>10. CASE r.tag \notin RC!FailureTags
  <2>1. Effects' = [Effects EXCEPT ![t] = @ \cup {k}]
    <3>1. \A u \in Tasks : Effects'[u] = {h \in CallKinds : Effective(<<u, h>>)'}
      BY DEF Effects
    <3>2. \A u \in Tasks \ {t} : Effects'[u] = Effects[u]
      BY <1>7, <3>1 DEF Effects
    <3>3. Effects'[t] = Effects[t] \cup {k}
      BY <1>7, <1>8, <1>10, <3>1 DEF Effects
    <3> QED
      BY <3>2, <3>3 DEF Effects
  <2>2. k \in CallKinds \ Effects[t]
    BY <1>8 DEF Effects
  <2>3. \A j \in 1 .. at[t] - 1 : Plan[op][j] \in CallKinds => Plan[op][j] \in Effects[t]
    <3> SUFFICES ASSUME NEW j \in 1 .. at[t] - 1, Plan[op][j] \in CallKinds
                 PROVE  Effective(<<t, Plan[op][j]>>)
      BY DEF Effects
    <3>1. j \in 1 .. Len(Plan[op]) /\ j < at[t]
      BY <1>5
    <3> QED
      BY <1>4, <3>1 DEF IInv, Sound, Behind
  <2>4. JO!Earlier(op, at[t]) \subseteq Effects[t]
    BY <2>3 DEF JO!Earlier
  <2>5. at[t] \in DOMAIN Plan[op]
    BY <1>5, PlanDomain
  <2> QED
    BY <1>2, <1>3, <1>5, <1>6, <2>1, <2>2, <2>4, <2>5 DEF JO!TakeEffect
<1> QED
  BY <1>9, <1>10

LEMMA OperationStep == IInv /\ [Next]_vars => [JO!Next]_(JO!vars)
<1> SUFFICES ASSUME IInv, [Next]_vars PROVE [JO!Next]_(JO!vars)
  OBVIOUS
<1>1. CASE \E t \in Tasks : \E q \in Requests : Start(t, q)
  <2>1. PICK t \in Tasks, q \in Requests : Start(t, q)
    BY <1>1
  <2>2. q.op \in DOMAIN Plan
    BY JobsAssumption DEF JobsAssumption, RequestType, Ops
  <2> QED
    BY <2>1, <2>2, StartBegins DEF JO!Next
<1>2. CASE \E t \in Tasks : Work(t)
  BY <1>2, WorkCases, OnwardResolves, FailingRejects DEF JO!Next
<1>3. CASE \E t \in Tasks : Crash(t)
  BY <1>3, CrashCrashes DEF JO!Next
<1>4. CASE \E c \in Calls : Execute(c)
  <2>1. PICK t \in Tasks, k \in CallKinds : Execute(<<t, k>>)
    BY <1>4 DEF Calls
  <2> QED
    BY <2>1, ExecuteTakesEffect DEF JO!Next
<1>5. CASE \E c \in Calls : GiveUp(c)
  BY <1>5, SameAsked DEF GiveUp, taskVars, RC!GiveUp, JO!vars
<1>6. CASE UNCHANGED vars
  BY <1>6, SameAsked DEF vars, taskVars, callVars, JO!vars
<1> QED
  BY <1>1, <1>2, <1>3, <1>4, <1>5, <1>6 DEF Next

LEMMA OperationInit == Init => JO!Init
<1> SUFFICES ASSUME Init PROVE JO!Init
  OBVIOUS
<1>1. \A t \in Tasks, k \in CallKinds : ~ Effective(<<t, k>>)
  BY DEF Init, RC!Init, Calls, Effective
<1>2. Effects = [t \in Tasks |-> {}]
  BY <1>1 DEF Effects
<1>3. AskedOps = [t \in Tasks |-> None]
  BY DEF AskedOps, Init
<1> QED
  BY <1>2, <1>3 DEF JO!Init, Init

(* Every operation keeps the contract of JobOperations, however many are in progress. *)
THEOREM KeepsOperations == Spec => ImplementsOperations
<1>1. IInv /\ [Next]_vars => [JO!Next]_(JO!vars)
  BY OperationStep
<1> QED
  BY <1>1, OperationInit, Inductive, PTL DEF Spec, ImplementsOperations, JO!Spec

--------------------------------------------------------------------------------
(***************************************************************************)
(* Effects last: of the clients that close an escrow, one does, and the    *)
(* escrow stays closed.                                                    *)
(***************************************************************************)

(* What a task was asked, and what became of its calls, is not undone. *)
LEMMA NothingUndone ==
    ASSUME IInv, [Next]_vars, NEW u \in Tasks
    PROVE  /\ request[u] # None => request'[u] = request[u]
           /\ \A k \in CallKinds : executed[<<u, k>>] \subseteq executed'[<<u, k>>]
           /\ status[u] = "done" => status'[u] = "done"
<1> DEFINE Kept == /\ request[u] # None => request'[u] = request[u]
                   /\ \A k \in CallKinds : executed[<<u, k>>] \subseteq executed'[<<u, k>>]
                   /\ status[u] = "done" => status'[u] = "done"
<1>1. ASSUME NEW t \in Tasks, NEW q \in Requests, Start(t, q)
      PROVE  Kept
  BY <1>1 DEF Start, callVars, IInv, TypeOK, Sound, Placed
<1>2. ASSUME NEW t \in Tasks, Work(t)
      PROVE  Kept
  <2>1. CASE Onward(t)
    BY <2>1 DEF Onward, Advance, IInv, TypeOK
  <2>2. CASE Failing(t)
    BY <2>2 DEF Failing, Fail, Running, IInv, TypeOK
  <2> QED
    BY <1>2, <2>1, <2>2, WorkCases
<1>3. ASSUME NEW t \in Tasks, Crash(t)
      PROVE  Kept
  BY <1>3 DEF Crash, callVars, Running, IInv, TypeOK
<1>4. ASSUME NEW t \in Tasks, NEW k \in CallKinds, Execute(<<t, k>>)
      PROVE  Kept
  <2>1. PICK r \in RC!Results : Ran(<<t, k>>, r)
    BY <1>4, ExecuteCases
  <2>2. executed[<<t, k>>] = {}
    BY <1>4 DEF Execute
  <2> QED
    BY <2>1, <2>2 DEF Ran, IInv, TypeOK, Calls
<1>5. ASSUME NEW c, GiveUp(c)
      PROVE  Kept
  BY <1>5 DEF GiveUp, taskVars, RC!GiveUp
<1>6. CASE UNCHANGED vars
  BY <1>6 DEF vars, taskVars, callVars
<1>7. CASE Next
  <2>1. CASE \E c \in Calls : Execute(c) \/ GiveUp(c)
    <3>1. PICK t \in Tasks, k \in CallKinds : Execute(<<t, k>>) \/ GiveUp(<<t, k>>)
      BY <2>1 DEF Calls
    <3> QED
      BY <1>4, <1>5, <3>1
  <2> QED
    BY <1>1, <1>2, <1>3, <1>7, <2>1 DEF Next
<1> QED
  BY <1>6, <1>7

(* A call that is not of creating or funding is one of the operation of that name, *)
(* whose Job is the one asked for.                                                 *)
LEMMA CallAsked ==
    ASSUME IInv, NEW u \in Tasks, NEW k \in CallKinds \ {"create", "createFactory", "fund"},
           executed[<<u, k>>] # {}
    PROVE  /\ request[u] # None
           /\ request[u].op = k
           /\ jobId[u] = request[u].id
           /\ jobId[u] \in EscrowIds
<1>1. Sent(<<u, k>>)
  BY DEF IInv, Sound, RanAsSent
<1>2. PICK i \in 1 .. Len(Plan[request[u].op]) : i <= at[u] /\ Plan[request[u].op][i] = k
  BY <1>1, SentPlace
<1>3. request[u] # None /\ request[u].op \in Ops
  BY <1>1, SentPlace
<1>4. request[u].op = k
  BY <1>2, <1>3, PlanCases DEF CallKinds, Posts, OneCall, Reads
<1>5. jobId[u] = request[u].id
  BY <1>3, <1>4 DEF IInv, Sound, JobKnown, CallKinds
<1> QED
  BY <1>3, <1>4, <1>5, RequestTyped DEF IInv

(* Only the execution of a call changes the chain, or what calls have come to. *)
LEMMA ChainStep ==
    ASSUME IInv, [Next]_vars
    PROVE  \/ UNCHANGED <<chain, executed>>
           \/ \E t \in Tasks, k \in CallKinds : Execute(<<t, k>>)
<1>1. CASE \E c \in Calls : Execute(c)
  BY <1>1 DEF Calls
<1>2. CASE \E t \in Tasks : Work(t)
  BY <1>2, WorkCases DEF Onward, Failing
<1>3. CASE \/ \E t \in Tasks : (\E q \in Requests : Start(t, q)) \/ Crash(t)
           \/ \E c \in Calls : GiveUp(c)
           \/ UNCHANGED vars
  BY <1>3 DEF Start, Crash, GiveUp, RC!GiveUp, callVars, vars
<1> QED
  BY <1>1, <1>2, <1>3 DEF Next

(* Calls that closed an escrow, and what they leave. *)
ClosedIt(t, k) == k \in Closers /\ Effective(<<t, k>>)

CInv ==
    /\ NumberedOn(chain)
    /\ \A t \in Tasks, k \in Closers :
           ClosedIt(t, k) => jobId[t] <= chain.counter /\ Closed(chain, jobId[t], k)
    /\ \A t, u \in Tasks, k, h \in Closers :
           ClosedIt(t, k) /\ ClosedIt(u, h) /\ jobId[t] = jobId[u] => t = u

LEMMA ClosersAre ==
    /\ Closers \subseteq CallKinds \ {"create", "createFactory", "fund"}
    /\ RC!FailureTags = {"untrusted", "module", "other"}
BY DEF Closers, CallKinds, RC!FailureTags

LEMMA CloserKnown ==
    ASSUME IInv, NEW t \in Tasks, NEW k, ClosedIt(t, k)
    PROVE  /\ request[t] # None
           /\ request[t].op = k
           /\ jobId[t] = request[t].id
           /\ jobId[t] \in EscrowIds
BY ClosersAre, CallAsked DEF ClosedIt, Effective

(* Where nothing is executed a closer keeps its escrow. *)
LEMMA CloserStays ==
    ASSUME IInv, [Next]_vars, NEW t \in Tasks, NEW k, ClosedIt(t, k)
    PROVE  jobId'[t] = jobId[t]
<1>1. request[t] # None /\ request[t].op = k /\ jobId[t] = request[t].id /\ k \in Closers
  BY CloserKnown DEF ClosedIt
<1>2. request'[t] = request[t]
  BY <1>1, NothingUndone
<1>3. IInv'
  BY NextKeeps
<1> QED
  BY <1>1, <1>2, <1>3 DEF IInv, Sound, JobKnown, Closers

LEMMA ClosingQuiet ==
    ASSUME IInv, CInv, [Next]_vars, UNCHANGED <<chain, executed>>
    PROVE  CInv'
<1>1. \A t \in Tasks, k \in Closers : ClosedIt(t, k)' <=> ClosedIt(t, k)
  BY DEF ClosedIt, Effective
<1>2. \A t \in Tasks, k \in Closers : ClosedIt(t, k) => jobId'[t] = jobId[t]
  BY CloserStays
<1>3. NumberedOn(chain)'
  BY DEF CInv
<1>4. ASSUME NEW t \in Tasks, NEW k \in Closers, ClosedIt(t, k)
      PROVE  jobId'[t] <= chain'.counter /\ Closed(chain', jobId'[t], k)
  BY <1>2, <1>4 DEF CInv
<1> QED
  BY <1>1, <1>2, <1>3, <1>4 DEF CInv

LEMMA ClosingExecutes ==
    ASSUME IInv, CInv, NEW t \in Tasks, NEW k \in CallKinds, Execute(<<t, k>>)
    PROVE  CInv'
<1> DEFINE c == <<t, k>>
           call == Extrinsic(c)
<1>1. PICK o \in Dispatch(chain, call) :
          /\ RC!Execute(c, [tag |-> o.tag, id |-> IF o.tag = "found" THEN o.payload ELSE Nothing])
          /\ chain' = o.chain
  BY DEF Execute
<1>2. /\ Sent(c)
      /\ executed[c] = {}
      /\ UNCHANGED <<request, jobId>>
  BY DEF Execute, taskVars
<1>3. GoodCall(call) /\ call.kind = k /\ call.id = jobId[t]
  BY <1>2, GoodExtrinsic DEF Extrinsic
<1>4. chain \in Chains /\ chain' \in Chains /\ OneStepOfLife(chain, chain')
  <2>1. chain \in Chains
    BY DEF IInv, TypeOK
  <2> HIDE DEF call
  <2> QED
    BY <1>1, <1>3, <2>1, DispatchGood DEF CallKinds, GoodOutcome
<1>5. executed' = [executed EXCEPT ![c] = {[tag |-> o.tag, id |-> IF o.tag = "found" THEN o.payload ELSE Nothing]}]
  BY <1>1, <1>2 DEF RC!Execute, IInv, TypeOK, Calls
<1>6. ASSUME NEW u \in Tasks, NEW h \in Closers, ClosedIt(u, h)', ~ ClosedIt(u, h)
      PROVE  u = t /\ h = k /\ o.tag \notin {"untrusted", "module", "other"}
  <2>1. <<u, h>> = c
    BY <1>5, <1>6, ClosersAre DEF ClosedIt, Effective, IInv, TypeOK, Calls
  <2>2. executed'[c] = {[tag |-> o.tag, id |-> IF o.tag = "found" THEN o.payload ELSE Nothing]}
    BY <1>5 DEF IInv, TypeOK, Calls
  <2> QED
    BY <1>6, <2>1, <2>2, ClosersAre DEF ClosedIt, Effective
<1>7. ASSUME NEW u \in Tasks, NEW h \in Closers, ClosedIt(u, h)', ~ ClosedIt(u, h)
      PROVE  /\ Exists(chain, jobId[u])
             /\ chain.escrow[jobId[u]].status \in {"Pending", "Partial", "Paid"}
             /\ Closed(chain', jobId[u], h)
             /\ jobId[u] \in EscrowIds
  <2>1. u = t /\ h = k /\ o.tag \notin {"untrusted", "module", "other"}
    BY <1>6, <1>7
  <2>2. call.kind \in Closers /\ call.id \in EscrowIds
    BY <1>3, <2>1 DEF GoodCall, Closers
  <2> HIDE DEF call
  <2> QED
    BY <1>1, <1>3, <1>4, <2>1, <2>2, DispatchCloses
<1>8. NumberedOn(chain)'
  BY <1>4, LifeKeepsNumbers DEF CInv
<1>9. ASSUME NEW u \in Tasks, NEW h \in Closers, ClosedIt(u, h)'
      PROVE  jobId'[u] <= chain'.counter /\ Closed(chain', jobId'[u], h)
  <2>1. CASE ClosedIt(u, h)
    <3>1. jobId[u] \in EscrowIds /\ jobId[u] <= chain.counter /\ Closed(chain, jobId[u], h)
      BY <2>1, CloserKnown DEF CInv
    <3>2. PICK id \in EscrowIds : id = jobId[u]
      BY <3>1
    <3>3. id <= chain'.counter /\ Closed(chain', id, h)
      BY <1>4, <3>1, <3>2, LifeKeepsClosed
    <3> QED
      BY <1>2, <3>2, <3>3
  <2>2. CASE ~ ClosedIt(u, h)
    <3>1. PICK id \in EscrowIds : id = jobId[u]
      BY <1>7, <1>9, <2>2
    <3>2. Exists(chain, id) /\ chain.escrow[id].status \in {"Pending", "Partial", "Paid"}
      BY <1>7, <1>9, <2>2, <3>1
    <3>3. Closed(chain', jobId'[u], h)
      BY <1>2, <1>7, <1>9, <2>2
    <3>4. id <= chain'.counter
      <4>1. id <= chain.counter /\ chain.counter \in Nat /\ chain'.counter \in Nat /\ id \in Nat
        BY <1>4, <3>2, Fields DEF CInv, NumberedOn, EscrowIds
      <4>2. chain.counter <= chain'.counter
        BY <1>4, LifeCounts
      <4> QED
        BY <4>1, <4>2
    <3> QED
      BY <1>2, <3>1, <3>3, <3>4
  <2> QED
    BY <2>1, <2>2
<1>10. ASSUME NEW u \in Tasks, NEW w \in Tasks, NEW h \in Closers, NEW i \in Closers,
              ClosedIt(u, h)', ClosedIt(w, i)', jobId'[u] = jobId'[w], ~ ClosedIt(u, h)
       PROVE  u = w
  <2>1. CASE ClosedIt(w, i)
    <3>1. Closed(chain, jobId[w], i)
      BY <2>1 DEF CInv
    <3> QED
      BY <1>2, <1>7, <1>10, <3>1 DEF Closed, Closers
  <2>2. CASE ~ ClosedIt(w, i)
    BY <1>6, <1>10, <2>2
  <2> QED
    BY <2>1, <2>2
<1>11. ASSUME NEW u \in Tasks, NEW w \in Tasks, NEW h \in Closers, NEW i \in Closers,
              ClosedIt(u, h)', ClosedIt(w, i)', jobId'[u] = jobId'[w]
       PROVE  u = w
  BY <1>2, <1>10, <1>11 DEF CInv
<1> QED
  BY <1>8, <1>9, <1>11 DEF CInv

(* What a client was told of closing an escrow had happened. *)
LEMMA ToldClosers ==
    ASSUME IInv, NEW t \in Tasks, ToldClosed(t)
    PROVE  ClosedIt(t, request[t].op)
<1> DEFINE op == request[t].op
<1>1. op \in Closers /\ op \in CallKinds /\ request[t] # None
  BY DEF ToldClosed, Asked, Closers, CallKinds
<1>2. /\ op \in Ops
      /\ Len(Plan[op]) = 1
      /\ at[t] = 1
      /\ Plan[op][1] = op
      /\ Step(t) = op
  <2>1. op \in Ops /\ op # "launch" /\ op \notin Pairs
    BY <1>1, Place DEF Closers, Pairs
  <2>2. Len(Plan[op]) = 1 /\ Plan[op][1] = op
    BY <1>1, <2>1, PlanTable, PlanOnes DEF Closers
  <2>3. at[t] \in 1 .. 1 /\ Step(t) = Plan[op][at[t]]
    BY <1>1, <2>2, Place
  <2> QED
    BY <2>1, <2>2, <2>3
<1>3. Effective(<<t, op>>)
  <2>1. CASE status[t] = "done"
    <3>1. 1 \in 1 .. Len(Plan[op])
      BY <1>2
    <3> QED
      BY <1>1, <1>2, <2>1, <3>1 DEF IInv, Sound, Behind
  <2>2. CASE status[t] = "failed" /\ report[t].cause = "noRecord"
    BY <1>1, <1>2, <2>2 DEF IInv, Sound, TrueReport
  <2> QED
    BY <2>1, <2>2 DEF ToldClosed
<1> QED
  BY <1>1, <1>3 DEF ClosedIt

(* One client closes an escrow, and it stays as this one left it. *)
THEOREM ClosedForGood == Spec => []ClosingIsFinal
<1>1. Init => CInv
  <2> SUFFICES ASSUME Init PROVE CInv
    OBVIOUS
  <2>1. \A t \in Tasks, k \in Closers : ~ ClosedIt(t, k)
    BY ClosersAre DEF Init, RC!Init, Calls, ClosedIt, Effective
  <2>2. NumberedOn(chain)
    BY DEF Init, Genesis, NumberedOn, Exists
  <2> QED
    BY <2>1, <2>2 DEF CInv
<1>2. IInv /\ CInv /\ [Next]_vars => CInv'
  BY ChainStep, ClosingQuiet, ClosingExecutes
<1>3. IInv /\ CInv => ClosingIsFinal
  <2> SUFFICES ASSUME IInv, CInv, NEW t \in Tasks, ToldClosed(t)
               PROVE  /\ Closed(chain, jobId[t], request[t].op)
                      /\ \A u \in Tasks \ {t} : ~ (ToldClosed(u) /\ jobId[u] = jobId[t])
    BY DEF ClosingIsFinal
  <2>1. ClosedIt(t, request[t].op)
    BY ToldClosers
  <2>2. ASSUME NEW u \in Tasks \ {t}, ToldClosed(u), jobId[u] = jobId[t]
        PROVE  FALSE
    <3>1. ClosedIt(u, request[u].op)
      BY <2>2, ToldClosers
    <3> QED
      BY <2>1, <2>2, <3>1 DEF CInv, ClosedIt
  <2> QED
    BY <2>1, <2>2 DEF CInv, ClosedIt
<1> QED
  BY <1>1, <1>2, <1>3, Inductive, PTL DEF Spec
================================================================================
