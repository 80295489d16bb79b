--------------------------------- MODULE Jobs ---------------------------------
(***************************************************************************)
(* The operations of Job and JobReads (src/job) as concurrent tasks.  A    *)
(* task runs one operation: a sequence of awaits, each an upload or a      *)
(* download, a query of the chain, or a call sent with sendAndWait or      *)
(* sendAndWaitFor.  Between two awaits anything may happen elsewhere.  A   *)
(* call is awaited through the contract of RemoteCall, which SendAndWait   *)
(* is shown to keep, on a chain that does not reorganise (Execute).        *)
(***************************************************************************)
EXTENDS EscrowPallet, Sequences

LOCAL INSTANCE FiniteSetsExt

CONSTANTS
    Tasks,      \* operations in progress, on any number of clients
    Instances,  \* names for the Job objects that clients make
    Requests,   \* what may be asked of the library
    Nothing     \* JavaScript's undefined

(* What each operation awaits, in order. *)
Plan ==
    [createFactory           |-> <<"createFactory">>,
     launch                  |-> <<"upload", "create", "escrow", "fund">>,
     createEscrow            |-> <<"create">>,
     fundEscrow              |-> <<"fund">>,
     addTrustedHandlers      |-> <<"addTrustedHandlers">>,
     bulkPayout              |-> <<"bulkPayout">>,
     storeFinalResults       |-> <<"upload", "storeFinalResults">>,
     abort                   |-> <<"abort">>,
     cancel                  |-> <<"cancel">>,
     noteIntermediateResults |-> <<"upload", "noteIntermediateResults">>,
     complete                |-> <<"complete">>,
     escrow                  |-> <<"escrow">>,
     isTrustedHandler        |-> <<"trusted">>,
     balance                 |-> <<"escrow", "account">>,
     manifest                |-> <<"download">>,
     intermediateResults     |-> <<"noted", "download">>,
     finalResults            |-> <<"final", "download">>,
     getAllJobs              |-> <<"jobs">>]

Ops == DOMAIN Plan

CallKinds ==
    {"createFactory", "create", "fund", "addTrustedHandlers", "bulkPayout",
     "storeFinalResults", "abort", "cancel", "noteIntermediateResults", "complete"}

(* Mutated: every call waits for an event. *)
FilteredKindsAll == CallKinds

(* Those sent with sendAndWaitFor; the others go through sendAndWait. *)
FilteredKinds ==
    {"createFactory", "create", "fund", "bulkPayout", "cancel", "noteIntermediateResults"}

(* A request: of which Job object, who asks, with which document, amount and other *)
(* account, and the id of the escrow; of the factory for launch, createEscrow and  *)
(* getAllJobs.  A Job may be given no sender (None), and then cannot sign, or no   *)
(* api.                                                                            *)
RequestType ==
    [op : Ops, job : Instances, who : Accounts \cup {None}, api : BOOLEAN, id : EscrowIds \cup FactoryIds,
     content : Contents, amount : Nat, other : Accounts]

ASSUME JobsAssumption ==
    /\ Requests \subseteq RequestType
    /\ None \notin RequestType
    /\ Nothing \notin EscrowIds \cup Contents

Calls == Tasks \X CallKinds

Payloads == EscrowIds \cup Contents

VARIABLES
    chain,     \* the state of the chain (EscrowPallet)
    store,     \* documents in S3, under their hash
    noted,     \* noted[j]: storedIntermediateResults of Job object j
    request,   \* request[t]: what task t was asked, None before it starts
    at,        \* at[t]: the await of its plan that t is at
    jobId,     \* jobId[t]: the escrowId of the Job the task works on
    value,     \* value[t]: what the last read returned
    status,    \* status[t]: idle, running, done, failed or crashed
    report,    \* report[t]: the error a failed task was rejected with
    executed, dead, promise   \* of RemoteCall

callVars == <<executed, dead, promise>>
taskVars == <<request, at, jobId, value, status, report>>
vars == <<chain, store, noted, taskVars, callVars>>

RC == INSTANCE RemoteCall WITH Filtered <- Tasks \X FilteredKinds, Ids <- Payloads

(* Each Job object has its own list of results, and keeps the sender, if it was given *)
(* one, and the escrow it was made with.                                              *)
Objects == Instances \X (Accounts \cup {None}) \X EscrowIds

NoReport == [kind |-> "none", cause |-> "none"]

Causes == {"untrusted", "module", "other", "noRecord", "send", "none", "rpc", "storage", "bounds",
           "noSender", "noApi", "amount"}

Reports == [kind : {"none", "plain", "notFunded", "notPosted"}, cause : Causes]

--------------------------------------------------------------------------------
Init ==
    /\ chain = Genesis
    /\ store = {}
    /\ noted = [j \in Objects |-> <<>>]
    /\ request = [t \in Tasks |-> None]
    /\ at = [t \in Tasks |-> 1]
    /\ jobId = [t \in Tasks |-> None]
    /\ value = [t \in Tasks |-> Nothing]
    /\ status = [t \in Tasks |-> "idle"]
    /\ report = [t \in Tasks |-> NoReport]
    /\ RC!Init

Running(t) == status[t] = "running"
Step(t) == Plan[request[t].op][at[t]]

(* Without an api only an upload can be made, and not by launch, which asks the api before. *)
At(t, step) ==
    /\ Running(t)
    /\ Step(t) = step
    /\ request[t].api \/ (step = "upload" /\ request[t].op # "launch")

(* Mutated: results are remembered per sender and escrow, whichever the object. *)
ObjectPerSender(t) == <<CHOOSE j \in Instances : TRUE, request[t].who, jobId[t]>>

Object(t) == <<request[t].job, request[t].who, jobId[t]>>

(* An await is over: on to the next, or the operation's promise resolves. *)
Advance(t) ==
    /\ IF at[t] < Len(Plan[request[t].op])
         THEN at' = [at EXCEPT ![t] = @ + 1] /\ UNCHANGED status
         ELSE status' = [status EXCEPT ![t] = "done"] /\ UNCHANGED at
    /\ UNCHANGED <<request, report>>

(* Mutated: the handler of launch spans all its awaits. *)
WrappingAll(t) ==
    CASE request[t].op = "launch" -> "notFunded"
      [] Step(t) \in {"storeFinalResults", "noteIntermediateResults"} -> "notPosted"
      [] OTHER -> "plain"

(* What the handlers of launch, storeFinalResults and noteIntermediateResults say of a failure. *)
Wrapping(t) ==
    CASE request[t].op = "launch" /\ Step(t) = "fund" -> "notFunded"
      [] Step(t) \in {"storeFinalResults", "noteIntermediateResults"} -> "notPosted"
      [] OTHER -> "plain"

(* The operation's promise is rejected. *)
Fail(t, cause) ==
    /\ status' = [status EXCEPT ![t] = "failed"]
    /\ report' = [report EXCEPT ![t] =
                    [kind |-> IF cause = "noApi" THEN "plain" ELSE Wrapping(t), cause |-> cause]]
    /\ UNCHANGED <<request, at, jobId, value>>

--------------------------------------------------------------------------------
(* A client calls an operation of the library. *)
Start(t, q) ==
    /\ status[t] = "idle"
    /\ status' = [status EXCEPT ![t] = "running"]
    /\ request' = [request EXCEPT ![t] = q]
    /\ jobId' = [jobId EXCEPT ![t] =
                   IF q.op \in {"launch", "createEscrow", "createFactory"} THEN None ELSE q.id]
    /\ UNCHANGED <<chain, store, noted, at, value, report, callVars>>

(* Mutated: the upload is not awaited; or its result is remembered at once. *)
UploadNotAwaited(t) ==
    /\ At(t, "upload")
    /\ store' \in {store, store \cup {request[t].content}}
    /\ Advance(t)
    /\ UNCHANGED <<chain, noted, jobId, value, callVars>>

UploadRemembers(t) ==
    /\ At(t, "upload")
    /\ store' = store \cup {request[t].content}
    /\ Advance(t)
    /\ noted' = IF request[t].op = "noteIntermediateResults"
                  THEN [noted EXCEPT ![Object(t)] = Append(@, request[t].content)] ELSE noted
    /\ UNCHANGED <<chain, jobId, value, callVars>>

(* upload of src/storage/storage.ts answers; a failed one may have stored the document. *)
Upload(t) ==
    /\ At(t, "upload")
    /\ \/ store' = store \cup {request[t].content} /\ Advance(t) /\ UNCHANGED <<jobId, value>>
       \/ store' \in {store, store \cup {request[t].content}} /\ Fail(t, "storage")
    /\ UNCHANGED <<chain, noted, callVars>>

(* launch computes its amounts first, and BN throws on those it cannot take. *)
BadAmount(t) ==
    /\ At(t, "upload")
    /\ request[t].op = "launch"
    /\ Fail(t, "amount")
    /\ UNCHANGED <<chain, store, noted, callVars>>

(* download: the document is read at the url, or the read fails. *)
Download(t) ==
    /\ At(t, "download")
    /\ LET wanted == IF request[t].op = "manifest" THEN request[t].content ELSE value[t]
       IN \/ wanted \in store /\ Advance(t) /\ value' = [value EXCEPT ![t] = wanted]
                              /\ UNCHANGED jobId
          \/ Fail(t, "storage")
    /\ UNCHANGED <<chain, store, noted, callVars>>

(* A query that answers an Option, which is unwrapped. *)
Unwrap(t, option) ==
    IF option = None THEN Fail(t, "none")
    ELSE Advance(t) /\ value' = [value EXCEPT ![t] = option] /\ UNCHANGED jobId

(* Mutated: final results are answered from a cache of all there ever were. *)
QueryCached(t) ==
    /\ At(t, "final")
    /\ \E u \in Tasks :
           /\ \E r \in executed[<<u, "storeFinalResults">>] : r.tag \notin RC!FailureTags
           /\ jobId[u] = jobId[t]
           /\ Unwrap(t, request[u].content)
    /\ UNCHANGED <<chain, store, noted, callVars>>

(* A query answers with the state of the moment, or fails. *)
Query(t) ==
    /\ \/ At(t, "escrow") /\ Unwrap(t, IF Exists(chain, jobId[t]) THEN jobId[t] ELSE None)
       \/ At(t, "final") /\ Unwrap(t, chain.final[jobId[t]])
       \/ At(t, "account") /\ Unwrap(t, chain.held[jobId[t]])
       \/ At(t, "trusted") /\ Unwrap(t, request[t].other \in chain.trusted[jobId[t]])
       \/ At(t, "jobs") /\ \E listed \in Listings(chain, request[t].id) : Unwrap(t, listed)
       \/ /\ \E step \in {"escrow", "final", "account", "trusted", "jobs"} : At(t, step)
          /\ Fail(t, "rpc")
    /\ UNCHANGED <<chain, store, noted, callVars>>

(* intermediateResults looks its index up in the Job object, not on the chain. *)
LookUpNoted(t) ==
    /\ At(t, "noted")
    /\ \/ \E i \in 1 .. Len(noted[Object(t)]) : Unwrap(t, noted[Object(t)][i])
       \/ Fail(t, "bounds")
    /\ UNCHANGED <<chain, store, noted, callVars>>

--------------------------------------------------------------------------------
(* The call of c has been signed and sent: its task has come to it. *)
Sent(c) ==
    /\ request[c[1]] # None
    /\ request[c[1]].api
    /\ request[c[1]].who # None
    /\ \E i \in 1 .. at[c[1]] : Plan[request[c[1]].op][i] = c[2]

(* The extrinsic: launch funds the account of the escrow it got. *)
Extrinsic(c) ==
    LET q == request[c[1]]
    IN [kind |-> c[2], who |-> q.who, id |-> jobId[c[1]], factory |-> q.id,
        content |-> q.content, amount |-> q.amount, other |-> q.other]

(* A block executes c.  Of the executions RemoteCall allows a call there is one:   *)
(* the chain is taken not to reorganise here, and the block that is awaited stays. *)
Execute(c) ==
    /\ Sent(c)
    /\ executed[c] = {}
    /\ \E o \in Dispatch(chain, Extrinsic(c)) :
           /\ RC!Execute(c, [tag |-> o.tag, id |-> IF o.tag = "found" THEN o.payload ELSE Nothing])
           /\ chain' = o.chain
    /\ UNCHANGED <<store, noted, taskVars>>

(* The node refuses c, or drops it. *)
GiveUp(c) ==
    /\ Sent(c)
    /\ executed[c] = {}
    /\ ~ dead[c]
    /\ RC!GiveUp(c)
    /\ UNCHANGED <<chain, store, noted, taskVars>>

(* Mutated: the id is read from a field the event lacks, or from the chain's counter. *)
UseRecordNoId(t, step, record) ==
    /\ jobId' = IF step = "create" THEN [jobId EXCEPT ![t] = Nothing] ELSE jobId
    /\ UNCHANGED <<noted, value>>

UseRecordCounter(t, step, record) ==
    /\ jobId' = IF step = "create" THEN [jobId EXCEPT ![t] = chain.counter] ELSE jobId
    /\ UNCHANGED <<noted, value>>

(* What the operation does with the record its call is resolved with. *)
UseRecord(t, step, record) ==
    /\ jobId' = IF step = "create" THEN [jobId EXCEPT ![t] = record] ELSE jobId
    /\ noted' = IF step = "noteIntermediateResults"
                  THEN [noted EXCEPT ![Object(t)] = Append(@, record)]
                  ELSE noted
    /\ value' = IF step = "createFactory" THEN [value EXCEPT ![t] = record] ELSE value

(* Mutated: a handler that does not throw again; or none for rejections. *)
ReplySwallowed(t) ==
    /\ \E kind \in CallKinds : At(t, kind)
    /\ LET c == <<t, Step(t)>>
       IN \E reply \in RC!Promises :
              /\ \/ RC!Answer(c, reply)
                 \/ RC!Refuse(c) /\ reply = RC!Rejected("send")
              /\ IF reply.state = "resolved" THEN UseRecord(t, Step(t), reply.value)
                                             ELSE UNCHANGED <<jobId, noted, value>>
              /\ Advance(t)
    /\ UNCHANGED <<chain, store>>

ReplyResolvedOnly(t) ==
    /\ \E kind \in CallKinds : At(t, kind)
    /\ \E reply \in {p \in RC!Promises : p.state = "resolved"} :
           /\ RC!Answer(<<t, Step(t)>>, reply)
           /\ UseRecord(t, Step(t), reply.value)
           /\ Advance(t)
    /\ UNCHANGED <<chain, store>>

(* The promise of the awaited call settles and the task goes on. *)
Reply(t) ==
    /\ \E kind \in CallKinds : At(t, kind)
    /\ LET c == <<t, Step(t)>>
       IN \E reply \in RC!Promises :
              /\ \/ RC!Answer(c, reply)
                 \/ RC!Refuse(c) /\ reply = RC!Rejected("send")
              /\ IF reply.state = "resolved"
                   THEN UseRecord(t, Step(t), reply.value) /\ Advance(t)
                   ELSE Fail(t, reply.error) /\ UNCHANGED noted
    /\ UNCHANGED <<chain, store>>

(* signAndSend throws inside the promise of the helper; nothing is sent. *)
SendUnsigned(t) ==
    /\ \E kind \in CallKinds : At(t, kind)
    /\ request[t].who = None
    /\ Fail(t, "noSender")
    /\ UNCHANGED <<chain, store, noted, callVars>>

(* The api is undefined: using it throws, in the operation or, unless the id is *)
(* a string, in the constructor before it.                                      *)
WithoutApi(t) ==
    /\ Running(t)
    /\ ~ request[t].api
    /\ Fail(t, "noApi")
    /\ UNCHANGED <<chain, store, noted, callVars>>

(* The client's process ends; calls it has sent stay in the pool. *)
Crash(t) ==
    /\ Running(t)
    /\ status' = [status EXCEPT ![t] = "crashed"]
    /\ UNCHANGED <<chain, store, noted, request, at, jobId, value, report, callVars>>

--------------------------------------------------------------------------------
(* What the operations in progress do, and what the chain does with their calls. *)
Work(t) ==
    \/ Upload(t) \/ BadAmount(t) \/ Download(t) \/ Query(t) \/ LookUpNoted(t)
    \/ Reply(t) \/ SendUnsigned(t) \/ WithoutApi(t)

Next ==
    \/ \E t \in Tasks :
           \/ \E q \in Requests : Start(t, q)
           \/ Work(t)
           \/ Crash(t)
    \/ \E c \in Calls : Execute(c) \/ GiveUp(c)

Spec == Init /\ [][Next]_vars

(***************************************************************************)
(* The clients' event loops run, S3 and the node answer, the chain         *)
(* executes or refuses what it is sent, and sendAndWait answers: that it   *)
(* does where the node evicts nothing is EveryCallSettles of SendAndWait.  *)
(***************************************************************************)
Fairness ==
    /\ \A t \in Tasks : WF_vars(Work(t))
    /\ \A c \in Calls : WF_vars(Execute(c) \/ GiveUp(c))

FairSpec == Spec /\ Fairness

--------------------------------------------------------------------------------
TypeOK ==
    /\ chain \in Chains
    /\ store \subseteq Contents
    /\ noted \in [Objects -> Seq(Contents)]
    /\ request \in [Tasks -> Requests \cup {None}]
    /\ at \in [Tasks -> 1 .. 4]
    /\ jobId \in [Tasks -> EscrowIds \cup {None}]
    /\ status \in [Tasks -> {"idle", "running", "done", "failed", "crashed"}]
    /\ report \in [Tasks -> Reports]
    /\ executed \in [Calls -> SUBSET RC!Results]
    /\ dead \in [Calls -> BOOLEAN]
    /\ promise \in [Calls -> RC!Promises]

(* The call took effect on the chain. *)
Effective(c) == \E r \in executed[c] : r.tag \notin RC!FailureTags

(* The call has had no effect and will have none. *)
Void(c) == dead[c] /\ executed[c] = {}

Asked(t, op) == request[t] # None /\ request[t].op = op

(* Task t put document x on the chain for escrow id. *)
Posted(t, kind, id, x) ==
    /\ request[t] # None
    /\ request[t].content = x
    /\ jobId[t] = id
    /\ Effective(<<t, kind>>)

(***************************************************************************)
(* A url is on the chain only after its document is in S3: the manifest of *)
(* launch, final results, and the results of an event.                     *)
(***************************************************************************)
PostedIsStored ==
    \A t \in Tasks :
        (\E c \in {t} \X {"create", "storeFinalResults", "noteIntermediateResults"} :
             Effective(c) /\ ~ Asked(t, "createEscrow"))
        => request[t].content \in store

(***************************************************************************)
(* The error of a failed operation says what became of it.  "Created but   *)
(* not funded" means that the escrow was created and no funds left;        *)
(* "stored but failed to post" that the document is in S3 and not on the   *)
(* chain; an operation that was not sent can be tried again, because its   *)
(* call will never be executed; and "Event record not found" comes only of *)
(* a transfer of nothing, or of a cancel that was carried out.             *)
(***************************************************************************)
ReportsAreTrue ==
    \A t \in Tasks :
        status[t] = "failed" =>
            /\ report[t].kind = "notFunded" => Effective(<<t, "create">>) /\ jobId[t] # None
            /\ report[t].kind = "notPosted" => request[t].content \in store
            /\ Step(t) \in CallKinds =>
                   \/ report[t].cause = "send" /\ Void(<<t, Step(t)>>)
                   \/ report[t].cause \in {"untrusted", "module", "other"}
                          /\ ~ Effective(<<t, Step(t)>>)
                   \/ report[t].cause \in {"noSender", "noApi"} /\ executed[<<t, Step(t)>>] = {}
                   \/ /\ report[t].cause = "noRecord"
                      /\ Effective(<<t, Step(t)>>)
                      /\ Step(t) = "cancel" \/ (Step(t) = "fund" /\ request[t].amount = 0)

(***************************************************************************)
(* launch pays the escrow it created and no other, however many escrows    *)
(* others create meanwhile, and returns the Job of that escrow.            *)
(***************************************************************************)
LaunchFundsItsEscrow ==
    \A t \in Tasks :
        Asked(t, "launch") =>
            \A r \in executed[<<t, "fund">>] :
                r.tag = "found" =>
                    \E s \in executed[<<t, "create">>] :
                        s.tag = "found" /\ s.id = r.id /\ jobId[t] = r.id

(***************************************************************************)
(* The intermediate results a Job object remembers are those its finished  *)
(* noteIntermediateResults put on the chain, each once: an interleaved or  *)
(* failed task adds nothing and loses nothing.                             *)
(***************************************************************************)
NotesAreOnChain ==
    \A j \in Objects, x \in Contents :
        Cardinality({i \in 1 .. Len(noted[j]) : noted[j][i] = x})
          = Cardinality({t \in Tasks : /\ Asked(t, "noteIntermediateResults")
                                      /\ status[t] = "done"
                                      /\ Object(t) = j
                                      /\ [tag |-> "found", id |-> x] \in executed[<<t, "noteIntermediateResults">>]})

(***************************************************************************)
(* finalResults returns only documents some task posted for that escrow,   *)
(* though the chain may change, and the escrow be aborted, between the     *)
(* query and the download; intermediateResults only those noted through    *)
(* the very Job object that is asked.                                      *)
(***************************************************************************)
ResultsReadWerePosted ==
    \A t \in Tasks :
        status[t] = "done" =>
            /\ Asked(t, "finalResults") =>
                   \E u \in Tasks : Posted(u, "storeFinalResults", jobId[t], value[t])
            /\ Asked(t, "intermediateResults") =>
                   \E u \in Tasks :
                       /\ Posted(u, "noteIntermediateResults", jobId[t], value[t])
                       /\ request[u].job = request[t].job
                       /\ request[u].who = request[t].who
                       /\ status[u] = "done"

AskedOps == [t \in Tasks |-> IF request[t] = None THEN None ELSE request[t].op]

(* The calls of each task that took effect. *)
Effects == [t \in Tasks |-> {k \in CallKinds : Effective(<<t, k>>)}]

JO == INSTANCE JobOperations WITH asked <- AskedOps, phase <- status, effects <- Effects

(***************************************************************************)
(* However the awaits of concurrent tasks interleave, crash or fail, each  *)
(* operation keeps the contract of JobOperations: its calls take effect at *)
(* most once and in order, all of them before it resolves and none after   *)
(* it was rejected.                                                        *)
(***************************************************************************)
ImplementsOperations == JO!Spec

(* The client of t takes its escrow to be closed: it was told so, or that only the event lacks. *)
ToldClosed(t) ==
    /\ \E op \in {"abort", "cancel", "complete"} : Asked(t, op)
    /\ status[t] = "done" \/ (status[t] = "failed" /\ report[t].cause = "noRecord")

(***************************************************************************)
(* Of the clients that race to abort, cancel and complete an escrow one at *)
(* most is told that it did, and the escrow stays as this one left it,     *)
(* whatever calls of others are still on their way.                        *)
(***************************************************************************)
ClosingIsFinal ==
    \A t \in Tasks :
        ToldClosed(t) =>
            /\ Closed(chain, jobId[t], request[t].op)
            /\ \A u \in Tasks \ {t} : ~ (ToldClosed(u) /\ jobId[u] = jobId[t])

(* The tasks that move funds of escrow id, launches of it included. *)
MovingFunds(id) ==
    {t \in Tasks : /\ jobId[t] = id
                   /\ \E op \in {"launch", "fundEscrow", "bulkPayout", "abort", "cancel"} : Asked(t, op)}

AmountOf(t) == request[t].amount

(* What the clients of the tasks in T were told they moved. *)
Told(T, ops) ==
    MapThenSumSet(AmountOf, {t \in T : status[t] = "done" /\ request[t].op \in ops})

(***************************************************************************)
(* What the clients are told of transfers to and from an escrow adds up:   *)
(* once all of them have an answer, and unless an abort or a cancel was    *)
(* carried out, the account of the escrow holds what it had and was told   *)
(* to get, less what was told to be paid out, to the unit.                 *)
(***************************************************************************)
RepliesAddUp ==
    \A id \in EscrowIds :
        LET T == MovingFunds(id)
        IN (\A t \in T : status[t] \in {"done", "failed"} /\ ~ (status[t] = "done" /\ request[t].op \in {"abort", "cancel"}))
           => chain.held[id] + Told(T, {"bulkPayout"})
                = (IF id <= Existing THEN Endowment ELSE 0) + Told(T, {"launch", "fundEscrow"})

(* abort and cancel refund: an escrow that is over holds nothing. *)
OverMeansRefunded ==
    \A id \in EscrowIds :
        (id <= chain.counter /\ (~ Exists(chain, id) \/ chain.escrow[id].status = "Cancelled"))
            => chain.held[id] = 0

(* Every operation that was started comes to an end. *)
EveryTaskEnds ==
    \A t \in Tasks : status[t] = "running" ~> status[t] \in {"done", "failed", "crashed"}
===============================================================================
