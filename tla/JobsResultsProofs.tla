---------------------------- MODULE JobsResultsProofs ----------------------------
(***************************************************************************)
(* Theorems about results in Jobs: what finalResults and                   *)
(* intermediateResults return, and what a Job object remembers, traced     *)
(* back to the tasks that posted it.                                       *)
(***************************************************************************)
EXTENDS JobsProofs, FiniteSetTheorems

(***************************************************************************)
(* What is stored for an escrow stays, is forgotten, or is replaced by the *)
(* content of a call of storeFinalResults.                                 *)
(***************************************************************************)
LEMMA StatusKeepsFinal ==
    ASSUME NEW ch \in Chains, NEW id, NEW next
    PROVE  WithStatus(ch, id, next).final = ch.final
BY DEF WithStatus, Chains

LEMMA DispatchFinal ==
    ASSUME NEW ch \in Chains, NEW call, GoodCall(call), call.kind \in CallKinds,
           NEW o \in Dispatch(ch, call), NEW id \in EscrowIds
    PROVE  \/ o.chain.final[id] = ch.final[id]
           \/ o.chain.final[id] = None
           \/ /\ call.kind = "storeFinalResults"
              /\ call.id = id
              /\ o.tag = "missing"
              /\ o.chain.final[id] = call.content
<1>1. ASSUME NEW allowed, NEW tag, NEW payload, NEW after,
             o \in Guarded(ch, call, allowed, {Outcome(tag, payload, after)})
      PROVE  o.chain = ch \/ o = Outcome(tag, payload, after)
  BY <1>1, GuardedCases DEF Outcome
<1>2. CASE call.kind = "createFactory"
  <2>1. o \in CreateFactory(ch, call)
    BY <1>2 DEF Dispatch
  <2> QED
    BY <2>1 DEF CreateFactory, Outcome, Chains
<1>3. CASE call.kind = "create"
  <2> DEFINE next == ch.counter + 1
             after == [ch EXCEPT !.counter = next,
                                 !.factory[next] = call.factory,
                                 !.escrow[next] = [status |-> "Pending", canceller |-> call.who],
                                 !.trusted[next] = {call.who} \cup Oracles]
  <2>1. o = Outcome("module", None, ch) \/ o = Outcome("found", next, after)
    BY <1>3 DEF Dispatch, Create
  <2>2. after.final = ch.final
    BY DEF Chains
  <2> HIDE DEF after
  <2> QED
    BY <2>1, <2>2 DEF Outcome
<1>4. CASE call.kind = "fund"
  <2> DEFINE after == [ch EXCEPT !.free[call.who] = @ - call.amount, !.held[call.id] = @ + call.amount]
  <2>1. o \in {Outcome("module", None, ch), Outcome("missing", None, ch), Outcome("found", call.id, after)}
    BY <1>4 DEF Dispatch, Transfer
  <2>2. after.final = ch.final
    BY DEF Chains
  <2> HIDE DEF after
  <2> QED
    BY <2>1, <2>2 DEF Outcome
<1>5. CASE call.kind = "addTrustedHandlers"
  <2> DEFINE after == [ch EXCEPT !.trusted[call.id] = @ \cup {call.other}]
             allowed == TRUE
  <2>1. o \in Guarded(ch, call, allowed, {Outcome("missing", None, after)})
    BY <1>5 DEF Dispatch, AddTrustedHandlers
  <2>2. after.final = ch.final
    BY DEF Chains
  <2> HIDE DEF after, allowed
  <2>3. o.chain = ch \/ o.chain = after
    BY <1>1, <2>1 DEF Outcome
  <2> QED
    BY <2>2, <2>3
<1>6. CASE call.kind = "bulkPayout"
  <2> DEFINE left == ch.held[call.id] - call.amount
             moved == WithStatus(ch, call.id, IF left = 0 THEN "Paid" ELSE "Partial")
             after == [moved EXCEPT !.held[call.id] = left, !.free[call.other] = @ + call.amount]
             allowed == Open(ch, call.id) /\ call.amount > 0 /\ call.amount <= ch.held[call.id]
  <2>1. o \in Guarded(ch, call, allowed, {Outcome("found", call.id, after)})
    BY <1>6 DEF Dispatch, BulkPayout
  <2>2. after.final = ch.final
    BY DEF Chains, WithStatus
  <2> HIDE DEF after, allowed
  <2>3. o.chain = ch \/ o.chain = after
    BY <1>1, <2>1 DEF Outcome
  <2> QED
    BY <2>2, <2>3
<1>7. CASE call.kind = "storeFinalResults"
  <2> DEFINE after == [ch EXCEPT !.final[call.id] = call.content]
             allowed == Editable(ch, call.id)
  <2>1. o \in Guarded(ch, call, allowed, {Outcome("missing", None, after)})
    BY <1>7 DEF Dispatch, StoreFinalResults
  <2>2. after.final = [ch.final EXCEPT ![call.id] = call.content] /\ ch.final \in [EscrowIds -> Contents \cup {None}]
    BY DEF Chains
  <2> HIDE DEF after, allowed
  <2>3. o.chain = ch \/ (o.chain = after /\ o.tag = "missing")
    <3>1. o.chain = ch \/ o = Outcome("missing", None, after)
      BY <1>1, <2>1
    <3> QED
      BY <3>1 DEF Outcome
  <2> QED
    BY <1>7, <2>2, <2>3
<1>8. CASE call.kind = "noteIntermediateResults"
  <2> DEFINE allowed == Editable(ch, call.id)
  <2>1. o \in Guarded(ch, call, allowed, {Outcome("found", call.content, ch)})
    BY <1>8 DEF Dispatch, NoteIntermediateResults
  <2> HIDE DEF allowed
  <2>2. o.chain = ch \/ o = Outcome("found", call.content, ch)
    BY <1>1, <2>1
  <2> QED
    BY <2>2 DEF Outcome
<1>9. CASE call.kind = "abort"
  <2> DEFINE back == Refunded(ch, call.id)
             after == [back EXCEPT !.escrow[call.id] = None, !.trusted[call.id] = {}, !.final[call.id] = None]
             allowed == Open(ch, call.id)
  <2>1. o \in Guarded(ch, call, allowed, {Outcome("missing", None, after)})
    BY <1>9 DEF Dispatch, Abort
  <2>2. after.final = [ch.final EXCEPT ![call.id] = None] /\ ch.final \in [EscrowIds -> Contents \cup {None}]
    BY DEF Chains, Refunded
  <2> HIDE DEF after, allowed
  <2>3. o.chain = ch \/ o.chain = after
    BY <1>1, <2>1 DEF Outcome
  <2> QED
    BY <2>2, <2>3
<1>10. CASE call.kind = "cancel"
  <2> DEFINE after == WithStatus(Refunded(ch, call.id), call.id, "Cancelled")
             tag == IF ch.held[call.id] > 0 THEN "found" ELSE "missing"
             payload == IF ch.held[call.id] > 0 THEN call.id ELSE None
             allowed == Open(ch, call.id)
  <2>1. o \in Guarded(ch, call, allowed, {Outcome(tag, payload, after)})
    BY <1>10 DEF Dispatch, Cancel
  <2>2. after.final = ch.final
    BY DEF Chains, Refunded, WithStatus
  <2> HIDE DEF after, tag, payload, allowed
  <2>3. o.chain = ch \/ o.chain = after
    BY <1>1, <2>1 DEF Outcome
  <2> QED
    BY <2>2, <2>3
<1>11. CASE call.kind = "complete"
  <2> DEFINE after == WithStatus(ch, call.id, "Complete")
             allowed == ch.escrow[call.id].status = "Paid"
  <2>1. o \in Guarded(ch, call, allowed, {Outcome("missing", None, after)})
    BY <1>11 DEF Dispatch, Complete
  <2>2. after.final = ch.final
    BY StatusKeepsFinal
  <2> HIDE DEF after, allowed
  <2>3. o.chain = ch \/ o.chain = after
    BY <1>1, <2>1 DEF Outcome
  <2> QED
    BY <2>2, <2>3
<1> QED
  BY <1>2, <1>3, <1>4, <1>5, <1>6, <1>7, <1>8, <1>9, <1>10, <1>11 DEF CallKinds

--------------------------------------------------------------------------------
(* Task u posted document x for the escrow of Job object j with a call of kind k: *)
(* noted results, through that object, and until it was done.                     *)
PostedBy(u, k, j, x) ==
    /\ Posted(u, k, j[3], x)
    /\ k = "noteIntermediateResults" =>
           request[u].job = j[1] /\ request[u].who = j[2] /\ status[u] = "done"

Readers == {"finalResults", "intermediateResults"}

PostKind(t) ==
    IF request[t].op = "finalResults" THEN "storeFinalResults" ELSE "noteIntermediateResults"

(* The results the chain has for an escrow were posted for it, *)
FinalPosted ==
    \A id \in EscrowIds :
        chain.final[id] # None => \E u \in Tasks : Posted(u, "storeFinalResults", id, chain.final[id])

(* and so were those a Job object remembers, *)
NotedPosted ==
    \A j \in Objects : \A i \in 1 .. Len(noted[j]) :
        \E u \in Tasks : PostedBy(u, "noteIntermediateResults", j, noted[j][i])

(* and those a task has read and is about to download, or has returned. *)
ReadPosted(t) ==
    (request[t] # None /\ request[t].op \in Readers /\ (at[t] > 1 \/ status[t] = "done")) =>
        \E u \in Tasks : PostedBy(u, PostKind(t), Object(t), value[t])

RInv ==
    /\ FinalPosted
    /\ NotedPosted
    /\ \A t \in Tasks : ReadPosted(t)
    /\ DOMAIN value = Tasks

LEMMA PostStays ==
    ASSUME IInv, [Next]_vars, NEW u \in Tasks, NEW k \in Posts, NEW id, NEW x, Posted(u, k, id, x)
    PROVE  Posted(u, k, id, x)' /\ request'[u] = request[u]
<1>1. k \in CallKinds \ {"create", "createFactory", "fund"}
  BY DEF Posts, CallKinds
<1>2. PICK r \in executed[<<u, k>>] : r.tag \notin RC!FailureTags
  BY DEF Posted, Effective
<1>3. request'[u] = request[u] /\ executed[<<u, k>>] \subseteq executed'[<<u, k>>]
  BY <1>1, NothingUndone DEF Posted
<1>4. IInv'
  BY NextKeeps
<1>5. jobId[u] = request[u].id /\ request[u].op = k
  BY <1>1, <1>2, CallAsked
<1>6. jobId'[u] = request'[u].id
  BY <1>3, <1>4, <1>5 DEF Posted, IInv, Sound, JobKnown, Posts
<1>7. Effective(<<u, k>>)'
  BY <1>2, <1>3 DEF Effective
<1> QED
  BY <1>3, <1>5, <1>6, <1>7 DEF Posted

LEMMA PosterStays ==
    ASSUME IInv, [Next]_vars, NEW u \in Tasks, NEW k \in Posts, NEW j, NEW x, PostedBy(u, k, j, x)
    PROVE  PostedBy(u, k, j, x)'
<1>1. PICK id : id = j[3]
  OBVIOUS
<1>2. Posted(u, k, id, x)' /\ request'[u] = request[u]
  BY <1>1, PostStays DEF PostedBy
<1>3. status[u] = "done" => status'[u] = "done"
  BY NothingUndone
<1> QED
  BY <1>1, <1>2, <1>3 DEF PostedBy

--------------------------------------------------------------------------------
(* Of the tasks, a step moves one. *)
Still(u) ==
    /\ request'[u] = request[u]
    /\ at'[u] = at[u]
    /\ jobId'[u] = jobId[u]
    /\ value'[u] = value[u]
    /\ status'[u] = status[u]

LEMMA StillPosted ==
    ASSUME IInv, [Next]_vars, NEW u \in Tasks, ReadPosted(u), Still(u)
    PROVE  ReadPosted(u)'
<1> SUFFICES ASSUME request'[u] # None, request'[u].op \in Readers, at'[u] > 1 \/ status'[u] = "done"
             PROVE  \E w \in Tasks : PostedBy(w, PostKind(u), Object(u), value[u])'
  BY DEF ReadPosted
<1>1. /\ PostKind(u)' = PostKind(u) /\ PostKind(u) \in Posts
      /\ Object(u)' = Object(u)
  BY DEF PostKind, Still, Posts, Object
<1>2. PICK w \in Tasks : PostedBy(w, PostKind(u), Object(u), value[u])
  BY DEF ReadPosted, Still
<1>3. PICK k, j, x : k = PostKind(u) /\ j = Object(u) /\ x = value[u]
  OBVIOUS
<1>4. PostedBy(w, k, j, x)'
  BY <1>1, <1>2, <1>3, PosterStays
<1> QED
  BY <1>1, <1>3, <1>4 DEF Still

LEMMA WorkOfOne ==
    ASSUME IInv, DOMAIN value = Tasks, NEW t \in Tasks, Work(t)
    PROVE  /\ \A u \in Tasks \ {t} : Still(u)
           /\ DOMAIN value' = Tasks
<1>1. CASE Upload(t)
  BY <1>1 DEF Upload, Advance, Fail, Still, IInv, TypeOK
<1>2. CASE BadAmount(t)
  BY <1>2 DEF BadAmount, Fail, Still, IInv, TypeOK
<1>3. CASE Download(t)
  BY <1>3 DEF Download, Advance, Fail, Still, IInv, TypeOK
<1>4. CASE Query(t)
  <2>1. (\E option : Unwrap(t, option)) \/ Fail(t, "rpc")
    BY <1>4 DEF Query
  <2> QED
    BY <2>1 DEF Unwrap, Advance, Fail, Still, IInv, TypeOK
<1>5. CASE LookUpNoted(t)
  <2>1. (\E option : Unwrap(t, option)) \/ Fail(t, "bounds")
    BY <1>5 DEF LookUpNoted
  <2> QED
    BY <2>1 DEF Unwrap, Advance, Fail, Still, IInv, TypeOK
<1>6. CASE Reply(t)
  <2>1. \/ \E step, record : UseRecord(t, step, record) /\ Advance(t)
        \/ \E cause : Fail(t, cause)
    BY <1>6 DEF Reply
  <2> QED
    BY <2>1 DEF UseRecord, Advance, Fail, Still, IInv, TypeOK
<1>7. CASE SendUnsigned(t)
  BY <1>7 DEF SendUnsigned, Fail, Still, IInv, TypeOK
<1>8. CASE WithoutApi(t)
  BY <1>8 DEF WithoutApi, Fail, Still, IInv, TypeOK
<1> QED
  BY <1>1, <1>2, <1>3, <1>4, <1>5, <1>6, <1>7, <1>8 DEF Work

(* The awaits of the operations that read results. *)
LEMMA ReaderPlace ==
    ASSUME IInv, NEW t \in Tasks, request[t] # None, request[t].op \in Readers
    PROVE  /\ at[t] \in 1 .. 2
           /\ Len(Plan[request[t].op]) = 2
           /\ Step(t) = IF at[t] = 2 THEN "download"
                        ELSE IF request[t].op = "finalResults" THEN "final" ELSE "noted"
           /\ Step(t) \notin CallKinds \cup {"upload", "escrow", "account", "trusted", "jobs"}
           /\ jobId[t] = request[t].id /\ jobId[t] \in EscrowIds
           /\ Object(t) \in Objects
<1>1. Len(Plan[request[t].op]) = 2 /\ at[t] \in 1 .. 2 /\ Step(t) = Plan[request[t].op][at[t]]
  BY Place, PlanTable DEF Readers, Pairs
<1>2. Step(t) = IF at[t] = 2 THEN "download"
                ELSE IF request[t].op = "finalResults" THEN "final" ELSE "noted"
  BY <1>1, PlanOnes DEF Readers
<1>3. jobId[t] = request[t].id /\ jobId[t] \in EscrowIds
  BY RequestTyped DEF IInv, Sound, JobKnown, Readers
<1>4. Object(t) \in Objects
  BY <1>3, RequestTyped DEF IInv, Object, Objects
<1> QED
  BY <1>1, <1>2, <1>3, <1>4 DEF CallKinds
(* A task that looks results up finds some that were posted, or fails. *)
LEMMA ReaderSteps ==
    ASSUME IInv, RInv, [Next]_vars, NEW t \in Tasks, Work(t)
    PROVE  ReadPosted(t)'
<1> SUFFICES ASSUME request'[t] # None, request'[t].op \in Readers, at'[t] > 1 \/ status'[t] = "done"
             PROVE  \E w \in Tasks : PostedBy(w, PostKind(t), Object(t), value[t])'
  BY DEF ReadPosted
<1>1. Running(t) /\ request[t] # None /\ request'[t] = request[t]
  <2>1. Running(t)
    BY WorkCases DEF Onward, Failing
  <2>2. request[t] # None
    BY <2>1 DEF Running, IInv, Sound, Placed
  <2> QED
    BY <2>1, <2>2, NothingUndone
<1>2. /\ at[t] \in 1 .. 2
      /\ Step(t) = IF at[t] = 2 THEN "download"
                   ELSE IF request[t].op = "finalResults" THEN "final" ELSE "noted"
      /\ Step(t) \notin CallKinds \cup {"upload", "escrow", "account", "trusted", "jobs"}
      /\ jobId[t] \in EscrowIds
      /\ Object(t) \in Objects
  BY <1>1, ReaderPlace
<1>3. jobId'[t] = jobId[t] /\ \E w \in Tasks : PostedBy(w, PostKind(t), Object(t), value'[t])
  <2>1. ASSUME NEW cause, Fail(t, cause)
        PROVE  jobId'[t] = jobId[t] /\ \E w \in Tasks : PostedBy(w, PostKind(t), Object(t), value'[t])
    <3>1. status'[t] = "failed" /\ UNCHANGED <<at, jobId, value>>
      BY <2>1 DEF Fail, IInv, TypeOK
    <3> QED
      BY <1>1, <3>1 DEF RInv, ReadPosted
  <2>2. CASE Download(t) /\ ~ Fail(t, "storage")
    <3>1. Step(t) = "download" /\ at[t] = 2
      BY <1>2, <2>2 DEF Download, At
    <3>2. jobId' = jobId /\ value' = [value EXCEPT ![t] = value[t]]
      BY <1>1, <2>2 DEF Download, Readers
    <3>3. value'[t] = value[t]
      BY <3>2 DEF RInv
    <3> QED
      BY <1>1, <3>1, <3>2, <3>3 DEF RInv, ReadPosted
  <2>3. CASE Query(t) /\ ~ Fail(t, "rpc")
    <3>1. Step(t) = "final" /\ Unwrap(t, chain.final[jobId[t]])
      BY <1>2, <2>3 DEF Query, At
    <3>2. request[t].op = "finalResults"
      BY <1>2, <3>1
    <3>3. CASE chain.final[jobId[t]] # None
      <4>1. jobId' = jobId /\ value'[t] = chain.final[jobId[t]]
        BY <3>1, <3>3 DEF Unwrap, RInv
      <4> QED
        BY <1>2, <3>2, <3>3, <4>1 DEF RInv, FinalPosted, PostKind, PostedBy, Object
    <3>4. CASE chain.final[jobId[t]] = None
      BY <2>1, <3>1, <3>4 DEF Unwrap
    <3> QED
      BY <3>3, <3>4
  <2>4. CASE LookUpNoted(t) /\ ~ Fail(t, "bounds")
    <3>1. Step(t) = "noted" /\ at[t] = 1
      BY <1>2, <2>4 DEF LookUpNoted, At
    <3>2. request[t].op = "intermediateResults"
      BY <1>1, <1>2, <3>1 DEF Readers
    <3>3. PICK i \in 1 .. Len(noted[Object(t)]) : Unwrap(t, noted[Object(t)][i])
      BY <2>4 DEF LookUpNoted
    <3>4. CASE noted[Object(t)][i] # None
      <4>1. jobId' = jobId /\ value'[t] = noted[Object(t)][i]
        BY <3>3, <3>4 DEF Unwrap, RInv
      <4> QED
        BY <1>2, <3>2, <4>1 DEF RInv, NotedPosted, PostKind
    <3>5. CASE noted[Object(t)][i] = None
      BY <2>1, <3>3, <3>5 DEF Unwrap
    <3> QED
      BY <3>4, <3>5
  <2>5. CASE Upload(t) \/ BadAmount(t) \/ Reply(t) \/ SendUnsigned(t)
    BY <1>2, <2>5 DEF Upload, BadAmount, Reply, SendUnsigned, At
  <2>6. CASE WithoutApi(t)
    BY <2>1, <2>6 DEF WithoutApi
  <2> QED
    BY <2>1, <2>2, <2>3, <2>4, <2>5, <2>6 DEF Work
<1>4. PICK w, k, j, x :
          /\ w \in Tasks
          /\ k \in Posts /\ k = PostKind(t)
          /\ j = Object(t)
          /\ x = value'[t]
          /\ PostedBy(w, k, j, x)
  BY <1>3 DEF PostKind, Posts
<1>5. PostedBy(w, k, j, x)'
  BY <1>4, PosterStays
<1>6. w \in Tasks /\ k = PostKind(t)' /\ j = Object(t)' /\ x = value'[t]
  BY <1>1, <1>3, <1>4 DEF PostKind, Object
<1> QED
  BY <1>5, <1>6

(* Results are stored on the chain by the tasks that have them to post. *)
LEMMA FinalKept ==
    ASSUME IInv, FinalPosted, [Next]_vars
    PROVE  FinalPosted'
<1>1. ASSUME NEW id \in EscrowIds, chain.final[id] # None, chain'.final[id] = chain.final[id]
      PROVE  \E u \in Tasks : Posted(u, "storeFinalResults", id, chain.final[id])'
  <2>1. PICK u, x : /\ u \in Tasks /\ x = chain.final[id]
                    /\ Posted(u, "storeFinalResults", id, x)
    BY <1>1 DEF FinalPosted
  <2>2. Posted(u, "storeFinalResults", id, x)'
    BY <2>1, PostStays DEF Posts
  <2> QED
    BY <1>1, <2>1, <2>2
<1>2. ASSUME NEW t \in Tasks, NEW k \in CallKinds, Execute(<<t, k>>),
             NEW id \in EscrowIds, chain'.final[id] # None
      PROVE  \E u \in Tasks : Posted(u, "storeFinalResults", id, chain.final[id])'
  <2> DEFINE c == <<t, k>>
             call == Extrinsic(c)
  <2>1. PICK o \in Dispatch(chain, call) :
            /\ RC!Execute(c, [tag |-> o.tag, id |-> IF o.tag = "found" THEN o.payload ELSE Nothing])
            /\ chain' = o.chain
    BY <1>2 DEF Execute
  <2>2. /\ Sent(c)
        /\ UNCHANGED <<request, jobId>>
    BY <1>2 DEF Execute, taskVars
  <2>3. GoodCall(call) /\ call.kind = k /\ call.id = jobId[t] /\ call.content = request[t].content
    BY <2>2, GoodExtrinsic DEF Extrinsic
  <2>4. chain \in Chains
    BY DEF IInv, TypeOK
  <2>5. \/ chain'.final[id] = chain.final[id]
        \/ /\ k = "storeFinalResults"
           /\ jobId[t] = id
           /\ o.tag = "missing"
           /\ chain'.final[id] = request[t].content
    <3> HIDE DEF call
    <3> QED
      BY <1>2, <2>1, <2>3, <2>4, DispatchFinal
  <2>6. CASE /\ k = "storeFinalResults"
             /\ jobId[t] = id
             /\ o.tag = "missing"
             /\ chain'.final[id] = request[t].content
    <3>1. Effective(c)'
      <4> DEFINE r == [tag |-> "missing", id |-> Nothing]
      <4>1. executed'[c] = executed[c] \cup {r}
        BY <2>1, <2>6 DEF RC!Execute, IInv, TypeOK, Calls
      <4>2. r.tag \notin RC!FailureTags
        BY DEF RC!FailureTags
      <4> QED
        BY <4>1, <4>2 DEF Effective
    <3>2. request'[t] # None /\ request'[t].content = chain'.final[id] /\ jobId'[t] = id
      BY <2>2, <2>6 DEF Sent
    <3> QED
      BY <2>6, <3>1, <3>2 DEF Posted
  <2> QED
    BY <1>1, <1>2, <2>5, <2>6
<1>3. CASE UNCHANGED chain
  BY <1>1, <1>3 DEF FinalPosted
<1>4. CASE \E t \in Tasks, k \in CallKinds : Execute(<<t, k>>)
  BY <1>2, <1>4 DEF FinalPosted
<1>5. UNCHANGED chain \/ \E t \in Tasks, k \in CallKinds : Execute(<<t, k>>)
  <2>1. CASE \E c \in Calls : Execute(c)
    BY <2>1 DEF Calls
  <2>2. CASE \E t \in Tasks : Work(t)
    BY <2>2, WorkCases DEF Onward, Failing
  <2>3. CASE \/ \E t \in Tasks : (\E q \in Requests : Start(t, q)) \/ Crash(t)
             \/ \E c \in Calls : GiveUp(c)
             \/ UNCHANGED vars
    BY <2>3 DEF Start, Crash, GiveUp, vars
  <2> QED
    BY <2>1, <2>2, <2>3 DEF Next
<1> QED
  BY <1>3, <1>4, <1>5
(***************************************************************************)
(* Only a reply to noteIntermediateResults makes a Job object remember     *)
(* more, and then that task is done.                                       *)
(***************************************************************************)
Remembered(t) ==
    /\ request[t] # None
    /\ request[t].op = "noteIntermediateResults"
    /\ Running(t)
    /\ Object(t) \in Objects
    /\ noted' = [noted EXCEPT ![Object(t)] = Append(@, request[t].content)]
    /\ [tag |-> "found", id |-> request[t].content] \in executed[<<t, "noteIntermediateResults">>]
    /\ status' = [status EXCEPT ![t] = "done"]
    /\ UNCHANGED <<request, jobId, executed>>

LEMMA ReplyRemembers ==
    ASSUME IInv, NEW t \in Tasks, Reply(t)
    PROVE  \/ noted' = noted /\ (Step(t) = "noteIntermediateResults" => status'[t] = "failed")
           \/ Remembered(t)
<1> DEFINE k == Step(t)
           c == <<t, k>>
<1>1. k \in CallKinds /\ Running(t) /\ request[t] # None
  BY DEF Reply, At, IInv, Sound, Placed, Running
<1>2. PICK reply \in RC!Promises :
          /\ \/ RC!Answer(c, reply)
             \/ RC!Refuse(c) /\ reply = RC!Rejected("send")
          /\ IF reply.state = "resolved"
               THEN UseRecord(t, k, reply.value) /\ Advance(t)
               ELSE Fail(t, reply.error) /\ UNCHANGED noted
  BY DEF Reply
<1>3. CASE reply.state # "resolved"
  BY <1>2, <1>3 DEF Fail, IInv, TypeOK
<1>4. CASE reply.state = "resolved" /\ k # "noteIntermediateResults"
  BY <1>2, <1>4 DEF UseRecord
<1>5. CASE reply.state = "resolved" /\ k = "noteIntermediateResults"
  <2>1. RC!Answer(c, reply)
    BY <1>2, <1>5 DEF RC!Rejected
  <2>2. PICK r \in executed[c] : RC!Entitles(c, r, reply)
    BY <2>1 DEF RC!Answer
  <2>3. c \in Tasks \X FilteredKinds
    BY <1>5 DEF FilteredKinds
  <2>4. r.tag = "found" /\ reply.value = r.id
    BY <1>5, <2>2, <2>3 DEF RC!Entitles
  <2>5. r.id = request[t].content
    BY <1>1, <1>5, <2>2, <2>4 DEF IInv, Sound, EventsFit
  <2>6. r \in RC!Results
    BY <1>1, <2>2 DEF IInv, TypeOK, Calls
  <2>7. r = [tag |-> "found", id |-> request[t].content]
    BY <2>4, <2>5, <2>6 DEF RC!Results, RC!FailureTags
  <2>8. request[t].op \in Ops /\ at[t] \in 1 .. Len(Plan[request[t].op]) /\ Plan[request[t].op][at[t]] = k
    BY <1>1, Place
  <2>9. request[t].op = "noteIntermediateResults" /\ at[t] = 2
    BY <1>5, <2>8, PostPlaces
  <2>10. Len(Plan[request[t].op]) = 2
    BY <2>9, PlanTable DEF Pairs
  <2>11. status' = [status EXCEPT ![t] = "done"] /\ UNCHANGED request
    BY <1>2, <1>5, <2>9, <2>10 DEF Advance
  <2>12. noted' = [noted EXCEPT ![Object(t)] = Append(@, request[t].content)] /\ UNCHANGED jobId
    BY <1>2, <1>5, <2>4, <2>5 DEF UseRecord
  <2>13. Object(t) \in Objects
    BY <1>1, <2>9, RequestTyped DEF IInv, Sound, JobKnown, Object, Objects
  <2>14. UNCHANGED executed
    BY <2>1 DEF RC!Answer
  <2> QED
    BY <1>1, <1>5, <2>2, <2>7, <2>9, <2>11, <2>12, <2>13, <2>14 DEF Remembered
<1> QED
  BY <1>3, <1>4, <1>5

LEMMA OnlyRepliesRemember ==
    ASSUME IInv, [Next]_vars, noted' # noted
    PROVE  \E t \in Tasks : Work(t) /\ Remembered(t)
<1>1. CASE \E t \in Tasks : Work(t)
  <2>1. PICK t \in Tasks : Work(t)
    BY <1>1
  <2>2. Reply(t)
    BY <2>1 DEF Work, Upload, BadAmount, Download, Query, LookUpNoted, SendUnsigned, WithoutApi
  <2> QED
    BY <2>1, <2>2, ReplyRemembers
<1>2. CASE \/ \E t \in Tasks : (\E q \in Requests : Start(t, q)) \/ Crash(t)
           \/ \E c \in Calls : Execute(c) \/ GiveUp(c)
           \/ UNCHANGED vars
  BY <1>2 DEF Start, Crash, Execute, GiveUp, vars
<1> QED
  BY <1>1, <1>2 DEF Next

LEMMA NotedKept ==
    ASSUME IInv, NotedPosted, [Next]_vars
    PROVE  NotedPosted'
<1>1. ASSUME NEW j \in Objects, NEW i \in 1 .. Len(noted[j]), noted'[j][i] = noted[j][i]
      PROVE  \E u \in Tasks : PostedBy(u, "noteIntermediateResults", j, noted[j][i])'
  <2>1. PICK u, x :
            /\ u \in Tasks /\ x = noted[j][i]
            /\ PostedBy(u, "noteIntermediateResults", j, x)
    BY DEF NotedPosted
  <2>2. PostedBy(u, "noteIntermediateResults", j, x)'
    BY <2>1, PosterStays DEF Posts
  <2> QED
    BY <1>1, <2>1, <2>2
<1>2. CASE noted' = noted
  BY <1>1, <1>2 DEF NotedPosted
<1>3. CASE noted' # noted
  <2>1. PICK t \in Tasks : Remembered(t)
    BY <1>3, OnlyRepliesRemember
  <2> SUFFICES ASSUME NEW j \in Objects, NEW i \in 1 .. Len(noted'[j])
               PROVE  \E u \in Tasks : PostedBy(u, "noteIntermediateResults", j, noted[j][i])'
    BY DEF NotedPosted
  <2>2. noted \in [Objects -> Seq(Contents)] /\ request[t].content \in Contents
    BY <2>1, RequestTyped DEF Remembered, IInv, TypeOK
  <2>3. CASE j = Object(t)
    <3>1. noted'[j] = Append(noted[j], request[t].content) /\ noted[j] \in Seq(Contents)
      BY <2>1, <2>2, <2>3 DEF Remembered
    <3>2. CASE i \in 1 .. Len(noted[j])
      <4>1. noted'[j][i] = noted[j][i]
        BY <3>1, <3>2
      <4> QED
        BY <1>1, <3>2, <4>1
    <3>3. CASE i = Len(noted[j]) + 1
      <4>1. noted'[j][i] = request[t].content
        BY <3>1, <3>3
      <4>2. j[1] = request[t].job /\ j[2] = request[t].who /\ j[3] = jobId[t]
        BY <2>3 DEF Object
      <4>3. Effective(<<t, "noteIntermediateResults">>)'
        BY <2>1 DEF Remembered, Effective, RC!FailureTags
      <4>4. UNCHANGED <<request, jobId>> /\ request[t] # None /\ status'[t] = "done"
        BY <2>1 DEF Remembered, IInv, TypeOK
      <4> QED
        BY <4>1, <4>2, <4>3, <4>4 DEF PostedBy, Posted
    <3> QED
      BY <3>1, <3>2, <3>3
  <2>4. CASE j # Object(t)
    <3>1. noted'[j] = noted[j]
      BY <2>1, <2>2, <2>4 DEF Remembered
    <3> QED
      BY <1>1, <3>1
  <2> QED
    BY <2>3, <2>4
<1> QED
  BY <1>2, <1>3

LEMMA ReadsKept ==
    ASSUME IInv, RInv, [Next]_vars
    PROVE  (\A t \in Tasks : ReadPosted(t)') /\ DOMAIN value' = Tasks
<1>1. ASSUME NEW t \in Tasks, NEW q \in Requests, Start(t, q)
      PROVE  (\A u \in Tasks : ReadPosted(u)') /\ DOMAIN value' = Tasks
  <2>1. ReadPosted(t)'
    <3>1. at'[t] = 1 /\ status'[t] = "running"
      BY <1>1 DEF Start, IInv, TypeOK, Sound, Placed
    <3> QED
      BY <3>1 DEF ReadPosted
  <2>2. \A u \in Tasks \ {t} : Still(u)
    BY <1>1 DEF Start, Still, IInv, TypeOK
  <2> QED
    BY <1>1, <2>1, <2>2, StillPosted DEF RInv, Start
<1>2. ASSUME NEW t \in Tasks, Crash(t)
      PROVE  (\A u \in Tasks : ReadPosted(u)') /\ DOMAIN value' = Tasks
  <2>1. ReadPosted(t)'
    <3>1. UNCHANGED <<request, at, jobId, value>> /\ status'[t] = "crashed" /\ status[t] = "running"
      BY <1>2 DEF Crash, Running, IInv, TypeOK
    <3> SUFFICES ASSUME request[t] # None, request[t].op \in Readers, at[t] > 1
                 PROVE  \E w \in Tasks : PostedBy(w, PostKind(t), Object(t), value[t])'
      BY <3>1 DEF ReadPosted
    <3>2. PICK w, k, j, x :
              /\ w \in Tasks /\ k \in Posts
              /\ k = PostKind(t) /\ j = Object(t) /\ x = value[t] /\ PostedBy(w, k, j, x)
      BY DEF RInv, ReadPosted, PostKind, Posts
    <3>3. PostedBy(w, k, j, x)'
      BY <3>2, PosterStays
    <3>4. k = PostKind(t)' /\ j = Object(t)' /\ x = value'[t]
      BY <3>1, <3>2 DEF PostKind, Object
    <3> QED
      BY <3>2, <3>3, <3>4
  <2>2. \A u \in Tasks \ {t} : Still(u)
    BY <1>2 DEF Crash, Still, IInv, TypeOK
  <2> QED
    BY <1>2, <2>1, <2>2, StillPosted DEF RInv, Crash
<1>3. ASSUME NEW t \in Tasks, Work(t)
      PROVE  (\A u \in Tasks : ReadPosted(u)') /\ DOMAIN value' = Tasks
  BY <1>3, WorkOfOne, ReaderSteps, StillPosted DEF RInv
<1>4. CASE (\E c \in Calls : Execute(c) \/ GiveUp(c)) \/ UNCHANGED vars
  <2>1. \A u \in Tasks : Still(u)
    BY <1>4 DEF Execute, GiveUp, vars, taskVars, Still
  <2>2. UNCHANGED value
    BY <1>4 DEF Execute, GiveUp, vars, taskVars
  <2> QED
    BY <2>1, <2>2, StillPosted DEF RInv
<1> QED
  BY <1>1, <1>2, <1>3, <1>4 DEF Next

(* finalResults and intermediateResults return what was posted for that escrow. *)
THEOREM ReadsArePosted == Spec => []ResultsReadWerePosted
<1>1. Init => RInv
  <2> SUFFICES ASSUME Init PROVE RInv
    OBVIOUS
  <2>1. FinalPosted
    BY DEF Init, Genesis, FinalPosted
  <2>2. NotedPosted
    BY DEF Init, NotedPosted
  <2>3. DOMAIN value = Tasks /\ \A t \in Tasks : ReadPosted(t)
    BY DEF Init, ReadPosted
  <2> QED
    BY <2>1, <2>2, <2>3 DEF RInv
<1>2. IInv /\ RInv /\ [Next]_vars => RInv'
  <2> SUFFICES ASSUME IInv, RInv, [Next]_vars PROVE RInv'
    OBVIOUS
  <2>1. FinalPosted' /\ NotedPosted'
    BY FinalKept, NotedKept DEF RInv
  <2> QED
    BY <2>1, ReadsKept DEF RInv
<1>3. IInv /\ RInv => ResultsReadWerePosted
  <2> SUFFICES ASSUME IInv, RInv, NEW t \in Tasks, status[t] = "done", request[t] # None,
                      request[t].op \in Readers
               PROVE  \E u \in Tasks : PostedBy(u, PostKind(t), Object(t), value[t])
    BY DEF ResultsReadWerePosted, PostedBy, PostKind, Readers, Object, Asked
  <2> QED
    BY DEF RInv, ReadPosted
<1> QED
  BY <1>1, <1>2, <1>3, Inductive, PTL DEF Spec
--------------------------------------------------------------------------------
(***************************************************************************)
(* NotesAreOnChain: a Job object remembers one entry for each task that is *)
(* done noting, so that the two sides of the count grow together.          *)
(***************************************************************************)
DoneNoting(t, j, x) ==
    /\ Asked(t, "noteIntermediateResults")
    /\ status[t] = "done"
    /\ Object(t) = j
    /\ [tag |-> "found", id |-> x] \in executed[<<t, "noteIntermediateResults">>]

Noters(j, x) == {t \in Tasks : DoneNoting(t, j, x)}

Entries(s, x) == {i \in 1 .. Len(s) : s[i] = x}

NotedEntries(j, x) == Entries(noted[j], x)

NInv ==
    \A j \in Objects, x \in Contents :
        IsFiniteSet(Noters(j, x)) /\ Cardinality(NotedEntries(j, x)) = Cardinality(Noters(j, x))

(* Where a task ended noting, it was remembered. *)
LEMMA DoneWhenRemembered ==
    ASSUME IInv, NEW t \in Tasks, Work(t), ~ Remembered(t),
           Asked(t, "noteIntermediateResults"), status'[t] = "done"
    PROVE  FALSE
<1>1. Running(t) /\ request[t] # None /\ request[t].op = "noteIntermediateResults"
  BY WorkCases DEF Onward, Failing, Asked
<1>2. status[t] = "running"
  BY <1>1 DEF Running
<1>3. CASE Failing(t)
  BY <1>3 DEF Failing, Fail, IInv, TypeOK
<1>4. CASE Onward(t)
  <2>1. at[t] = 2
    <3>1. ~ (at[t] < Len(Plan[request[t].op]))
      BY <1>2, <1>4 DEF Onward, Advance
    <3> QED
      BY <1>1, <3>1, Place, PlanTable DEF Pairs
  <2>2. Step(t) = "noteIntermediateResults"
    BY <1>1, <2>1, PlanTable DEF Step
  <2>3. CASE Reply(t)
    <3>1. status'[t] = "failed"
      BY <2>2, <2>3, ReplyRemembers
    <3> QED
      BY <3>1
  <2>4. CASE Upload(t) \/ BadAmount(t) \/ Download(t) \/ Query(t) \/ LookUpNoted(t)
    BY <2>2, <2>4 DEF Upload, BadAmount, Download, Query, LookUpNoted, At
  <2>5. CASE SendUnsigned(t) \/ WithoutApi(t)
    BY <2>5 DEF SendUnsigned, WithoutApi, Fail, IInv, TypeOK
  <2> QED
    BY <2>3, <2>4, <2>5 DEF Work
<1> QED
  BY <1>3, <1>4, WorkCases
(* Otherwise those that are done noting, and what was remembered, stay the same; *)
LEMMA NotersSame ==
    ASSUME IInv, [Next]_vars, \A t \in Tasks : ~ (Work(t) /\ Remembered(t)),
           NEW u \in Tasks, NEW j, NEW x
    PROVE  DoneNoting(u, j, x)' <=> DoneNoting(u, j, x)
<1> DEFINE n == "noteIntermediateResults"
<1>1. n \in CallKinds
  BY DEF CallKinds
<1>2. ASSUME request'[u] = request[u], jobId'[u] = jobId[u], status'[u] = status[u],
             executed'[<<u, n>>] = executed[<<u, n>>]
      PROVE  DoneNoting(u, j, x)' <=> DoneNoting(u, j, x)
  BY <1>2 DEF DoneNoting, Asked, Object
<1>3. ASSUME NEW t \in Tasks, NEW q \in Requests, Start(t, q)
      PROVE  DoneNoting(u, j, x)' <=> DoneNoting(u, j, x)
  <2>1. CASE u = t
    <3>1. status[u] = "idle" /\ status'[u] = "running"
      BY <1>3, <2>1 DEF Start, IInv, TypeOK
    <3> QED
      BY <3>1 DEF DoneNoting
  <2>2. CASE u # t
    BY <1>2, <1>3, <2>2 DEF Start, callVars, IInv, TypeOK
  <2> QED
    BY <2>1, <2>2
<1>4. ASSUME NEW t \in Tasks, Crash(t)
      PROVE  DoneNoting(u, j, x)' <=> DoneNoting(u, j, x)
  <2>1. CASE u = t
    <3>1. status[u] = "running" /\ status'[u] = "crashed"
      BY <1>4, <2>1 DEF Crash, Running, IInv, TypeOK
    <3> QED
      BY <3>1 DEF DoneNoting
  <2>2. CASE u # t
    BY <1>2, <1>4, <2>2 DEF Crash, callVars, IInv, TypeOK
  <2> QED
    BY <2>1, <2>2
<1>5. ASSUME NEW t \in Tasks, Work(t)
      PROVE  DoneNoting(u, j, x)' <=> DoneNoting(u, j, x)
  <2>1. /\ status[t] = "running"
        /\ UNCHANGED <<request, executed>>
        /\ \A w \in Tasks \ {t} : jobId'[w] = jobId[w] /\ status'[w] = status[w]
    <3>1. CASE Onward(t)
      BY <3>1 DEF Onward, Advance, Running, IInv, TypeOK
    <3>2. CASE Failing(t)
      BY <3>2 DEF Failing, Fail, Running, IInv, TypeOK
    <3> QED
      BY <1>5, <3>1, <3>2, WorkCases
  <2>2. CASE u = t
    BY <1>5, <2>1, <2>2, DoneWhenRemembered DEF DoneNoting, Asked
  <2>3. CASE u # t
    BY <1>2, <2>1, <2>3
  <2> QED
    BY <2>2, <2>3
<1>6. ASSUME NEW t \in Tasks, NEW k \in CallKinds, Execute(<<t, k>>)
      PROVE  DoneNoting(u, j, x)' <=> DoneNoting(u, j, x)
  <2>1. PICK r \in RC!Results : Ran(<<t, k>>, r)
    BY <1>6, ExecuteCases
  <2>2. UNCHANGED <<request, jobId, status>>
    BY <2>1 DEF Ran
  <2>3. CASE u = t
    <3>1. status[t] \in {"running", "crashed"}
      BY <1>6, NoLateCalls DEF Execute, RC!Execute
    <3> QED
      BY <2>2, <2>3, <3>1 DEF DoneNoting
  <2>4. CASE u # t
    <3>1. executed'[<<u, n>>] = executed[<<u, n>>]
      BY <1>1, <2>1, <2>4 DEF Ran, IInv, TypeOK, Calls
    <3> QED
      BY <1>2, <2>2, <3>1
  <2> QED
    BY <2>3, <2>4
<1>7. ASSUME NEW c, GiveUp(c)
      PROVE  DoneNoting(u, j, x)' <=> DoneNoting(u, j, x)
  BY <1>2, <1>7 DEF GiveUp, taskVars, RC!GiveUp
<1>8. CASE UNCHANGED vars
  BY <1>2, <1>8 DEF vars, taskVars, callVars
<1>9. CASE \E c \in Calls : Execute(c) \/ GiveUp(c)
  <2>1. PICK t \in Tasks, k \in CallKinds : Execute(<<t, k>>) \/ GiveUp(<<t, k>>)
    BY <1>9 DEF Calls
  <2> QED
    BY <1>6, <1>7, <2>1
<1> QED
  BY <1>3, <1>4, <1>5, <1>8, <1>9 DEF Next

(* and each counts one more with the other. *)
LEMMA NotersGrow ==
    ASSUME IInv, NEW t \in Tasks, Remembered(t), NEW j, NEW x
    PROVE  /\ t \notin Noters(j, x)
           /\ Noters(j, x)' = IF j = Object(t) /\ x = request[t].content
                                THEN Noters(j, x) \cup {t} ELSE Noters(j, x)
<1>1. ASSUME NEW u \in Tasks, u # t
      PROVE  DoneNoting(u, j, x)' <=> DoneNoting(u, j, x)
  BY <1>1 DEF Remembered, DoneNoting, Asked, Object, IInv, TypeOK
<1>2. ~ DoneNoting(t, j, x)
  BY DEF Remembered, Running, DoneNoting
<1>3. DoneNoting(t, j, x)' <=> j = Object(t) /\ x = request[t].content
  <2>1. Object(t)' = Object(t) /\ Asked(t, "noteIntermediateResults")' /\ status'[t] = "done"
    BY DEF Remembered, Object, Asked, IInv, TypeOK
  <2>2. "noteIntermediateResults" \in CallKinds
    BY DEF CallKinds
  <2>3. [tag |-> "found", id |-> x] \in executed'[<<t, "noteIntermediateResults">>]
            <=> x = request[t].content
    <3>1. ASSUME [tag |-> "found", id |-> x] \in executed[<<t, "noteIntermediateResults">>]
          PROVE  x = request[t].content
      <4>1. [tag |-> "found", id |-> x] = [tag |-> "found", id |-> request[t].content]
        BY <2>2, <3>1 DEF Remembered, IInv, Sound, RanAsSent
      <4> QED
        BY <4>1
    <3> QED
      BY <3>1 DEF Remembered
  <2> QED
    BY <2>1, <2>3 DEF DoneNoting
<1>4. Noters(j, x)' = {u \in Tasks : DoneNoting(u, j, x)'}
  BY DEF Noters
<1> QED
  BY <1>1, <1>2, <1>3, <1>4 DEF Noters

LEMMA EntriesGrow ==
    ASSUME NEW s \in Seq(Contents), NEW y \in Contents, NEW x
    PROVE  Cardinality(Entries(Append(s, y), x))
               = IF x = y THEN Cardinality(Entries(s, x)) + 1 ELSE Cardinality(Entries(s, x))
<1> DEFINE before == {i \in 1 .. Len(s) : s[i] = x}
           after  == {i \in 1 .. Len(Append(s, y)) : Append(s, y)[i] = x}
           n      == Len(s) + 1
<1>1. after = IF x = y THEN before \cup {n} ELSE before
  <2>1. \A i \in 1 .. Len(s) : Append(s, y)[i] = s[i]
    OBVIOUS
  <2>2. Append(s, y)[n] = y /\ Len(Append(s, y)) = n /\ Len(s) \in Nat
    OBVIOUS
  <2>3. 1 .. n = (1 .. Len(s)) \cup {n}
    BY <2>2
  <2> HIDE DEF n
  <2> QED
    BY <2>1, <2>2, <2>3
<1>2. IsFiniteSet(before)
  <2>1. Len(s) \in Int /\ before \in SUBSET (1 .. Len(s)) /\ 1 \in Int
    OBVIOUS
  <2>2. IsFiniteSet(1 .. Len(s))
    BY <2>1, FS_Interval
  <2> HIDE DEF before
  <2> QED
    BY <2>1, <2>2, FS_Subset
<1>3. n \notin before
  OBVIOUS
<1> HIDE DEF before, after, n
<1>4. Cardinality(before \cup {n}) = Cardinality(before) + 1
  BY <1>2, <1>3, FS_AddElement
<1> QED
  BY <1>1, <1>4 DEF before, after, Entries
LEMMA CountsKept ==
    ASSUME IInv, NInv, [Next]_vars
    PROVE  NInv'
<1> SUFFICES ASSUME NEW j \in Objects, NEW x \in Contents
             PROVE  /\ IsFiniteSet(Noters(j, x)')
                    /\ Cardinality(NotedEntries(j, x)') = Cardinality(Noters(j, x)')
  BY DEF NInv
<1>1. IsFiniteSet(Noters(j, x)) /\ Cardinality(NotedEntries(j, x)) = Cardinality(Noters(j, x))
  BY DEF NInv
<1>2. CASE \A t \in Tasks : ~ (Work(t) /\ Remembered(t))
  <2>1. Noters(j, x)' = Noters(j, x)
    <3>1. Noters(j, x)' = {u \in Tasks : DoneNoting(u, j, x)'}
      BY DEF Noters
    <3> QED
      BY <1>2, <3>1, NotersSame DEF Noters
  <2>2. NotedEntries(j, x)' = NotedEntries(j, x)
    BY <1>2, OnlyRepliesRemember DEF NotedEntries
  <2> QED
    BY <1>1, <2>1, <2>2
<1>3. ASSUME NEW t \in Tasks, Remembered(t)
      PROVE  /\ IsFiniteSet(Noters(j, x)')
             /\ Cardinality(NotedEntries(j, x)') = Cardinality(Noters(j, x)')
  <2> DEFINE y == request[t].content
             mine == j = Object(t) /\ x = y
  <2>1. t \notin Noters(j, x) /\ Noters(j, x)' = IF mine THEN Noters(j, x) \cup {t} ELSE Noters(j, x)
    BY <1>3, NotersGrow
  <2>2. /\ IsFiniteSet(Noters(j, x)')
        /\ Cardinality(Noters(j, x)') = IF mine THEN Cardinality(Noters(j, x)) + 1
                                                ELSE Cardinality(Noters(j, x))
    BY <1>1, <2>1, FS_AddElement
  <2>3. y \in Contents /\ noted \in [Objects -> Seq(Contents)]
    BY <1>3, RequestTyped DEF Remembered, IInv, TypeOK
  <2>4. noted'[j] = IF j = Object(t) THEN Append(noted[j], y) ELSE noted[j]
    BY <1>3, <2>3 DEF Remembered
  <2>5. NotedEntries(j, x)' = Entries(noted'[j], x)
    BY DEF NotedEntries
  <2>6. Cardinality(NotedEntries(j, x)') = IF mine THEN Cardinality(NotedEntries(j, x)) + 1
                                             ELSE Cardinality(NotedEntries(j, x))
    <3>1. CASE j = Object(t)
      <4>1. noted[j] \in Seq(Contents) /\ noted'[j] = Append(noted[j], y)
        BY <2>3, <2>4, <3>1
      <4>2. Cardinality(Entries(Append(noted[j], y), x))
                = IF x = y THEN Cardinality(NotedEntries(j, x)) + 1 ELSE Cardinality(NotedEntries(j, x))
        BY <2>3, <4>1, EntriesGrow DEF NotedEntries
      <4> QED
        BY <2>5, <3>1, <4>1, <4>2
    <3>2. CASE j # Object(t)
      BY <2>4, <2>5, <3>2 DEF NotedEntries
    <3> QED
      BY <3>1, <3>2
  <2> QED
    BY <1>1, <2>2, <2>6
<1> QED
  BY <1>2, <1>3

(* What a Job object remembers is what its finished tasks put on the chain, each once. *)
THEOREM NotesOnChain == Spec => []NotesAreOnChain
<1>1. Init => NInv
  <2> SUFFICES ASSUME Init, NEW j \in Objects, NEW x \in Contents
               PROVE  IsFiniteSet(Noters(j, x)) /\ Cardinality(NotedEntries(j, x)) = Cardinality(Noters(j, x))
    BY DEF NInv
  <2>1. Noters(j, x) = {}
    BY DEF Init, Noters, DoneNoting
  <2>2. NotedEntries(j, x) = {}
    BY DEF Init, NotedEntries, Entries
  <2> QED
    BY <2>1, <2>2, FS_EmptySet
<1>2. IInv /\ NInv /\ [Next]_vars => NInv'
  BY CountsKept
<1>3. NInv => NotesAreOnChain
  BY DEF NInv, NotesAreOnChain, NotedEntries, Entries, Noters, DoneNoting
<1> QED
  BY <1>1, <1>2, <1>3, Inductive, PTL DEF Spec
================================================================================
