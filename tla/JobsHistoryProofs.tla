---------------------------- MODULE JobsHistoryProofs ----------------------------
(***************************************************************************)
(* Theorems about JobsHistory: finalResults reads what the chain has, not  *)
(* what it had, for any tasks, requests and documents.                     *)
(***************************************************************************)
EXTENDS JobsHistory, JobsResultsProofs

(* The record of what is shown restricts no step of Jobs. *)
LEMMA HistoryStep == [HistoryNext]_historyVars => [Next]_vars
BY DEF HistoryNext, historyVars, vars, taskVars, callVars

LEMMA HistoryInductive == HistorySpec => []IInv
<1>1. HistoryInit => Init
  BY DEF HistoryInit
<1> QED
  BY <1>1, HistoryStep, InitHolds, NextKeeps, PTL DEF HistorySpec

(* While a task is in progress, its escrow's results are among those it was shown; *)
SeesTheChain(t) ==
    status[t] = "running" /\ jobId[t] # None => chain.final[jobId[t]] \in shown[t]

(* and those it has read, about to download them or done, always are. *)
ReadShown(t) ==
    Asked(t, "finalResults") /\ (at[t] > 1 \/ status[t] = "done") => value[t] \in shown[t]

HInv ==
    /\ DOMAIN value = Tasks
    /\ \A t \in Tasks : SeesTheChain(t) /\ ReadShown(t)

(* A read of final results takes what the chain has, and its download leaves it. *)
LEMMA FinalReader ==
    ASSUME IInv, DOMAIN value = Tasks, NEW t \in Tasks, Work(t), Asked(t, "finalResults")
    PROVE  \/ value'[t] = value[t] /\ at[t] > 1
           \/ value'[t] = value[t] /\ at'[t] = at[t] /\ status'[t] = "failed"
           \/ value'[t] = chain.final[jobId[t]] /\ status[t] = "running" /\ jobId[t] # None
<1>1. request[t] # None /\ request[t].op = "finalResults" /\ request[t].op \in Readers
  BY DEF Asked, Readers
<1>2. /\ at[t] \in 1 .. 2
      /\ Step(t) = IF at[t] = 2 THEN "download" ELSE "final"
      /\ Step(t) \notin CallKinds \cup {"upload", "escrow", "account", "trusted", "jobs"}
      /\ jobId[t] \in EscrowIds
  BY <1>1, ReaderPlace
<1>3. jobId[t] # None
  BY <1>2, PalletAssumption DEF PalletAssumption, EscrowIds
<1>4. ASSUME NEW cause, Fail(t, cause)
      PROVE  value'[t] = value[t] /\ at'[t] = at[t] /\ status'[t] = "failed"
  BY <1>4 DEF Fail, IInv, TypeOK
<1>5. CASE Download(t) /\ ~ Fail(t, "storage")
  <2>1. Step(t) = "download" /\ at[t] = 2
    BY <1>2, <1>5 DEF Download, At
  <2>2. value' = [value EXCEPT ![t] = value[t]]
    BY <1>1, <1>5 DEF Download
  <2> QED
    BY <2>1, <2>2
<1>6. CASE Query(t) /\ ~ Fail(t, "rpc")
  <2>1. status[t] = "running" /\ Unwrap(t, chain.final[jobId[t]])
    BY <1>2, <1>6 DEF Query, At, Running
  <2>2. CASE chain.final[jobId[t]] # None
    BY <1>3, <2>1, <2>2 DEF Unwrap
  <2>3. CASE chain.final[jobId[t]] = None
    BY <1>4, <2>1, <2>3 DEF Unwrap
  <2> QED
    BY <2>2, <2>3
<1>7. CASE Upload(t) \/ BadAmount(t) \/ Reply(t) \/ SendUnsigned(t) \/ LookUpNoted(t)
  BY <1>2, <1>7 DEF Upload, BadAmount, Reply, SendUnsigned, LookUpNoted, At
<1>8. CASE WithoutApi(t)
  BY <1>4, <1>8 DEF WithoutApi
<1> QED
  BY <1>4, <1>5, <1>6, <1>7, <1>8 DEF Work

(* What was shown to a task stays in its record. *)
LEMMA ShownGrows ==
    ASSUME [HistoryNext]_historyVars, NEW t \in Tasks
    PROVE  shown[t] \subseteq shown'[t]
BY DEF HistoryNext, historyVars, Observe

LEMMA ReadsStayShown ==
    ASSUME IInv, HInv, [HistoryNext]_historyVars, NEW u \in Tasks
    PROVE  ReadShown(u)'
<1> SUFFICES ASSUME Asked(u, "finalResults")', at'[u] > 1 \/ status'[u] = "done"
             PROVE  value'[u] \in shown'[u]
  BY DEF ReadShown
<1>1. shown[u] \subseteq shown'[u]
  BY ShownGrows
<1>2. ReadShown(u) /\ SeesTheChain(u) /\ [Next]_vars
  BY HistoryStep DEF HInv
<1>3. CASE Still(u)
  BY <1>1, <1>2, <1>3 DEF ReadShown, Still, Asked
<1>4. ASSUME NEW t \in Tasks, Work(t), u = t
      PROVE  value'[u] \in shown'[u]
  <2>1. request[u] # None
    BY <1>4, WorkCases DEF Onward, Failing, Running, IInv, Sound, Placed
  <2>2. Asked(u, "finalResults")
    BY <1>2, <2>1, NothingUndone DEF Asked
  <2>3. \/ value'[u] = value[u] /\ at[u] > 1
        \/ value'[u] = value[u] /\ at'[u] = at[u] /\ status'[u] = "failed"
        \/ value'[u] = chain.final[jobId[u]] /\ status[u] = "running" /\ jobId[u] # None
    BY <1>4, <2>2, FinalReader DEF HInv
  <2> QED
    BY <1>1, <1>2, <2>2, <2>3 DEF ReadShown, SeesTheChain
<1>5. ASSUME NEW t \in Tasks, NEW q \in Requests, Start(t, q), u = t
      PROVE  FALSE
  BY <1>5 DEF Start, IInv, TypeOK, Sound, Placed
<1>6. ASSUME NEW t \in Tasks, Crash(t), u = t
      PROVE  value'[u] \in shown'[u]
  <2>1. UNCHANGED <<request, at, value>> /\ status'[u] = "crashed"
    BY <1>6 DEF Crash, IInv, TypeOK
  <2> QED
    BY <1>1, <1>2, <2>1 DEF ReadShown, Asked
<1>7. ASSUME NEW t \in Tasks, u # t, Work(t) \/ Crash(t) \/ \E q \in Requests : Start(t, q)
      PROVE  Still(u)
  <2>1. CASE Work(t)
    BY <1>7, <2>1, WorkOfOne DEF HInv
  <2>2. CASE Crash(t)
    BY <1>7, <2>2 DEF Crash, Still, IInv, TypeOK
  <2>3. CASE \E q \in Requests : Start(t, q)
    BY <1>7, <2>3 DEF Start, Still, IInv, TypeOK
  <2> QED
    BY <1>7, <2>1, <2>2, <2>3
<1>8. CASE (\E c \in Calls : Execute(c) \/ GiveUp(c)) \/ UNCHANGED vars
  <2>1. Still(u)
    BY <1>8 DEF Execute, GiveUp, vars, taskVars, Still
  <2> QED
    BY <1>3, <2>1
<1> QED
  BY <1>2, <1>3, <1>4, <1>5, <1>6, <1>7, <1>8 DEF Next

LEMMA HistoryKeeps ==
    ASSUME IInv, HInv, [HistoryNext]_historyVars
    PROVE  HInv'
<1>1. DOMAIN value' = Tasks
  <2>1. CASE \E t \in Tasks : Work(t)
    BY <2>1, WorkOfOne DEF HInv
  <2>2. CASE \/ \E t \in Tasks : (\E q \in Requests : Start(t, q)) \/ Crash(t)
             \/ \E c \in Calls : Execute(c) \/ GiveUp(c)
             \/ UNCHANGED vars
    BY <2>2 DEF HInv, Start, Crash, Execute, GiveUp, vars, taskVars
  <2> QED
    BY <2>1, <2>2, HistoryStep DEF Next
<1>2. ASSUME NEW t \in Tasks
      PROVE  SeesTheChain(t)'
  <2>1. CASE HistoryNext
    BY <2>1 DEF HistoryNext, Observe, SeesTheChain
  <2>2. CASE UNCHANGED historyVars
    BY <2>2 DEF HInv, historyVars, vars, taskVars, SeesTheChain
  <2> QED
    BY <2>1, <2>2
<1>3. \A t \in Tasks : ReadShown(t)'
  BY ReadsStayShown
<1> QED
  BY <1>1, <1>2, <1>3 DEF HInv

(* finalResults returns results the chain had for the escrow while it was in progress. *)
THEOREM ReadsAreFresh == HistorySpec => []ResultsReadAreFresh
<1>1. HistoryInit => HInv
  BY DEF HistoryInit, Init, HInv, SeesTheChain, ReadShown, Asked
<1>2. IInv /\ HInv /\ [HistoryNext]_historyVars => HInv'
  BY HistoryKeeps
<1>3. HInv => ResultsReadAreFresh
  BY DEF HInv, ReadShown, ResultsReadAreFresh
<1> QED
  BY <1>1, <1>2, <1>3, HistoryInductive, PTL DEF HistorySpec
================================================================================
