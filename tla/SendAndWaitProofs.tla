--------------------------- MODULE SendAndWaitProofs ---------------------------
(***************************************************************************)
(* For any calls, accounts, faults and number of reorganisations: types,   *)
(* the truth of replies, and the contract of RemoteCall.  The invariant    *)
(* that carries the argument says of every update on its way to a callback *)
(* what RepliesAreTrue says of every promise.                              *)
(***************************************************************************)
EXTENDS SendAndWait, FiniteSetTheorems, TLAPS

(* An update says nothing of c that is not so. *)
Sound(c, u) ==
    /\ u.status \in {"inBlock", "finalized"} => u.result \in executed[c]
    /\ u.status \notin {"inBlock", "finalized"} => u.result = NoResult
    /\ u.status = "refused" => NeverRan(c)

QueuesSound == \A c \in Calls : \A i \in 1 .. Len(inbox[c]) : Sound(c, inbox[c][i])

StagesSound ==
    \A c \in Calls :
        /\ stage[c] \in {"idle", "signed"} => executed[c] = {}
        /\ stage[c] = "included" => result[c] \in executed[c]

IInv == TypeOK /\ QueuesSound /\ StagesSound /\ RepliesAreTrue

(* What every step leaves true of a call: history grows, "gone" is for ever, *)
Grows(c) ==
    /\ executed[c] \subseteq executed'[c]
    /\ stage[c] = "gone" => stage'[c] = "gone" /\ executed'[c] = executed[c]

(* and its queue stays, loses its head, or gets one more sound update. *)
QueueStep(c) ==
    \/ inbox'[c] = inbox[c]
    \/ inbox[c] # <<>> /\ inbox'[c] = Tail(inbox[c])
    \/ \E u \in Updates : inbox'[c] = Append(inbox[c], u) /\ Sound(c, u)'

--------------------------------------------------------------------------------
(* A block's update makes a pending promise a reply its result entitles to. *)
LEMMA CallbackEntitled ==
    ASSUME NEW c \in Calls, NEW u \in Updates,
           u.status \in {"inBlock", "finalized"}, u.result \in Results
    PROVE  /\ Entitles(c, u.result, Callback(c, u, Pending))
           /\ Callback(c, u, Pending) \in Promises \ {Pending}
<1>1. Callback(c, u, Pending) = Settle(ErrorReply(c, u), StatusReply(c, u))
  BY DEF Callback, Settle
<1>2. Rejected("noRecord") # Pending /\ \A e : Rejected(e) # Pending /\ Resolved(e) # Pending
  BY DEF Rejected, Resolved, Pending
<1>3. CASE u.result.tag \in FailureTags
  <2>1. Callback(c, u, Pending) = Rejected(ErrorName(c, u.result.tag))
    BY <1>1, <1>2, <1>3 DEF Settle, ErrorReply
  <2>2. Rejected(ErrorName(c, u.result.tag)) \in Promises
    BY <1>3 DEF Rejected, Promises, RejectReasons, ErrorName, FailureTags
  <2> QED
    BY <1>2, <1>3, <2>1, <2>2 DEF Entitles, Rejected
<1>4. CASE u.result.tag \notin FailureTags
  <2>1. Callback(c, u, Pending) = StatusReply(c, u)
    BY <1>1, <1>4 DEF Settle, ErrorReply
  <2>2. CASE c \notin Filtered
    <3>1. StatusReply(c, u) = Resolved(Nothing)
      BY <2>2 DEF StatusReply, RecordReply
    <3>2. Resolved(Nothing) \in Promises
      BY DEF Resolved, Promises
    <3> QED
      BY <1>2, <1>4, <2>1, <2>2, <3>1, <3>2 DEF Entitles, Results, Resolved
  <2>3. CASE c \in Filtered /\ u.result.tag = "found"
    <3>1. StatusReply(c, u) = Resolved(u.result.id)
      BY <2>3 DEF StatusReply, RecordReply
    <3>2. Resolved(u.result.id) \in Promises
      BY <2>3 DEF Resolved, Promises, Results, FailureTags
    <3> QED
      BY <1>2, <2>1, <2>3, <3>1, <3>2 DEF Entitles, Resolved
  <2>4. CASE c \in Filtered /\ u.result.tag # "found"
    <3>1. StatusReply(c, u) = Rejected("noRecord")
      BY <2>4 DEF StatusReply, RecordReply
    <3>2. Rejected("noRecord") \in Promises
      BY DEF Rejected, Promises, RejectReasons
    <3>3. u.result.tag = "missing"
      BY <1>4, <2>4 DEF Results
    <3> QED
      BY <1>2, <2>1, <2>4, <3>1, <3>2, <3>3 DEF Entitles, Rejected
  <2> QED
    BY <2>2, <2>3, <2>4
<1> QED
  BY <1>3, <1>4

(* Any other update leaves a promise alone, except for a refusal. *)
LEMMA CallbackOther ==
    ASSUME NEW c \in Calls, NEW u \in Updates,
           u.status \notin {"inBlock", "finalized"}, u.result = NoResult
    PROVE  Callback(c, u, Pending) =
               IF u.status = "refused" THEN Rejected("send") ELSE Pending
<1>1. StatusReply(c, u) = Pending
  BY DEF StatusReply, RecordReply
<1>2. ErrorReply(c, u) = Pending
  BY DEF ErrorReply, NoResult, FailureTags
<1> QED
  BY <1>1, <1>2 DEF Callback, Settle

(* A promise settles once. *)
LEMMA CallbackSettled ==
    ASSUME NEW c, NEW u, NEW p, p # Pending
    PROVE  Callback(c, u, p) = p
BY DEF Callback, Settle

(* Whatever it sees, a callback leaves a promise. *)
LEMMA CallbackInPromises ==
    ASSUME NEW c \in Calls, NEW u \in Updates, NEW p \in Promises
    PROVE  Callback(c, u, p) \in Promises
<1>1. Pending \in Promises /\ Resolved(Nothing) \in Promises
  BY DEF Promises, Resolved
<1>2. \A e \in RejectReasons : Rejected(e) \in Promises
  BY DEF Promises, Rejected
<1>3. ErrorReply(c, u) \in Promises
  BY <1>1, <1>2 DEF ErrorReply, RejectReasons, ErrorName, FailureTags
<1>4. u.result.tag = "found" => Resolved(u.result.id) \in Promises
  BY DEF Updates, Results, NoResult, Promises, Resolved, FailureTags
<1>5. StatusReply(c, u) \in Promises
  BY <1>1, <1>2, <1>4 DEF StatusReply, RecordReply, RejectReasons
<1> QED
  BY <1>1, <1>2, <1>3, <1>5 DEF Callback, Settle, RejectReasons

LEMMA MaxReorgsNat == MaxReorgs \in Nat
BY SendAssumption DEF SendAssumption

LEMMA InitIInv == Init => IInv
<1> SUFFICES ASSUME Init PROVE IInv
  OBVIOUS
<1> USE DEF Init
<1>1. TypeOK
  <2>1. 0 \in 0 .. MaxReorgs
    BY MaxReorgsNat
  <2>2. [c \in Calls |-> <<>>] \in [Calls -> Seq(Updates)]
    OBVIOUS
  <2>3. Pending \in Promises /\ "idle" \in Stages
    BY DEF Promises, Stages
  <2> QED
    BY <2>1, <2>2, <2>3 DEF TypeOK
<1>2. QueuesSound
  BY DEF QueuesSound
<1>3. StagesSound
  BY DEF StagesSound
<1>4. RepliesAreTrue
  BY DEF RepliesAreTrue
<1> QED
  BY <1>1, <1>2, <1>3, <1>4 DEF IInv

--------------------------------------------------------------------------------
(* Types: one step per action. *)
LEMMA TypeStep == TypeOK /\ StagesSound /\ [Next]_vars => TypeOK'
<1> SUFFICES ASSUME TypeOK, StagesSound, [Next]_vars PROVE TypeOK'
  OBVIOUS
<1> USE DEF TypeOK
<1>u. \A s \in Statuses, r \in Results \cup {NoResult} : Update(s, r) \in Updates
  BY DEF Update, Updates
<1>1. ASSUME NEW c \in Calls, Sign(c) PROVE TypeOK'
  <2>1. ChainNonce(SenderOf[c]) \in Nat
    <3>1. SenderOf[c] \in Senders
      BY SendAssumption DEF SendAssumption
    <3>2. IsFiniteSet(CallsOf(SenderOf[c]))
      BY <3>1, SendAssumption DEF SendAssumption, CallsOf
    <3> QED
      BY <3>2, FS_Subset, FS_CardinalityType DEF ChainNonce
  <2> QED
    BY <1>1, <2>1 DEF Sign, Stages
<1>2. ASSUME NEW c \in Calls, Submit(c) PROVE TypeOK'
  <2>1. CASE Accept(c)
    BY <2>1, <1>u DEF Accept, Stages, Statuses
  <2>2. ASSUME NEW d \in Calls, Usurp(c, d) PROVE TypeOK'
    <3>u. Update("ready", NoResult) \in Updates /\ Update("usurped", NoResult) \in Updates
      BY <1>u DEF Statuses
    <3>a. /\ Append(inbox[c], Update("ready", NoResult)) \in Seq(Updates)
          /\ Append(inbox[d], Update("usurped", NoResult)) \in Seq(Updates)
      BY <3>u
    <3>b. c # d
      BY <2>2 DEF Usurp, Rivals
    <3>1. inbox' \in [Calls -> Seq(Updates)]
      BY <2>2, <3>a, <3>b DEF Usurp
    <3> QED
      BY <2>2, <3>1 DEF Usurp, Stages
  <2>3. CASE Refuse(c)
    BY <2>3, <1>u DEF Refuse, Stages, Statuses
  <2> QED
    BY <1>2, <2>1, <2>2, <2>3 DEF Submit
<1>3. ASSUME NEW c \in Calls, NEW r \in Results, Include(c, r) PROVE TypeOK'
  BY <1>3, <1>u DEF Include, Report, Stages, Statuses
<1>4. ASSUME NEW c \in Calls, Retract(c) PROVE TypeOK'
  BY <1>4, <1>u, SendAssumption DEF SendAssumption, Retract, Report, Stages, Statuses
<1>5. ASSUME NEW c \in Calls, Finalize(c) PROVE TypeOK'
  BY <1>5, <1>u DEF Finalize, Report, Stages, Statuses
<1>6. ASSUME NEW c \in Calls, NEW s \in {"dropped", "invalid"}, Evict(c, s) PROVE TypeOK'
  BY <1>6, <1>u DEF Evict, Report, Stages, Statuses
<1>7. ASSUME NEW c \in Calls, Lose(c) PROVE TypeOK'
  BY <1>7 DEF Lose
<1>8. ASSUME NEW c \in Calls, Deliver(c) PROVE TypeOK'
  <2>1. PICK u \in Updates : u = Head(inbox[c])
    BY <1>8 DEF Deliver
  <2>2. Callback(c, u, promise[c]) \in Promises
    BY CallbackInPromises
  <2> QED
    BY <1>8, <2>1, <2>2 DEF Deliver
<1>9. ASSUME NEW c \in Calls, Supersede(c) PROVE TypeOK'
  <2>1. inbox[c] \in Seq(Updates) /\ inbox[c] # <<>>
    BY <1>9 DEF Supersede
  <2> QED
    BY <1>9, <2>1 DEF Supersede
<1>10. CASE UNCHANGED vars
  BY <1>10 DEF vars
<1> QED
  BY <1>1, <1>2, <1>3, <1>4, <1>5, <1>6, <1>7, <1>8, <1>9, <1>10 DEF Next

--------------------------------------------------------------------------------
(* History only grows and a call given up stays so: one step per action. *)
LEMMA GrowStep == TypeOK /\ [Next]_vars => \A c \in Calls : Grows(c)
<1> SUFFICES ASSUME TypeOK, [Next]_vars, NEW x \in Calls PROVE Grows(x)
  OBVIOUS
<1> USE DEF TypeOK, Grows
<1>1. ASSUME NEW c \in Calls, Sign(c) PROVE Grows(x)
  BY <1>1 DEF Sign
<1>2. ASSUME NEW c \in Calls, Submit(c) PROVE Grows(x)
  <2>1. CASE Accept(c)
    BY <2>1 DEF Accept
  <2>2. ASSUME NEW d \in Calls, Usurp(c, d) PROVE Grows(x)
    BY <2>2 DEF Usurp, Rivals
  <2>3. CASE Refuse(c)
    BY <2>3 DEF Refuse
  <2> QED
    BY <1>2, <2>1, <2>2, <2>3 DEF Submit
<1>3. ASSUME NEW c \in Calls, NEW r \in Results, Include(c, r) PROVE Grows(x)
  BY <1>3 DEF Include
<1>4. ASSUME NEW c \in Calls, Retract(c) PROVE Grows(x)
  BY <1>4 DEF Retract
<1>5. ASSUME NEW c \in Calls, Finalize(c) PROVE Grows(x)
  BY <1>5 DEF Finalize
<1>6. ASSUME NEW c \in Calls, NEW s \in {"dropped", "invalid"}, Evict(c, s) PROVE Grows(x)
  BY <1>6 DEF Evict
<1>7. ASSUME NEW c \in Calls, Lose(c) PROVE Grows(x)
  BY <1>7 DEF Lose
<1>8. ASSUME NEW c \in Calls, Deliver(c) PROVE Grows(x)
  BY <1>8 DEF Deliver
<1>9. ASSUME NEW c \in Calls, Supersede(c) PROVE Grows(x)
  BY <1>9 DEF Supersede
<1>10. CASE UNCHANGED vars
  BY <1>10 DEF vars
<1> QED
  BY <1>1, <1>2, <1>3, <1>4, <1>5, <1>6, <1>7, <1>8, <1>9, <1>10 DEF Next

(* What is queued is sound when it is queued: one step per action. *)
LEMMA QueueStepLemma == TypeOK /\ StagesSound /\ [Next]_vars => \A c \in Calls : QueueStep(c)
<1> SUFFICES ASSUME TypeOK, StagesSound, [Next]_vars, NEW x \in Calls PROVE QueueStep(x)
  OBVIOUS
<1> USE DEF TypeOK, QueueStep
<1>u. \A s \in Statuses, r \in Results \cup {NoResult} :
          /\ Update(s, r) \in Updates
          /\ Update(s, r).status = s /\ Update(s, r).result = r
  BY DEF Update, Updates
<1>v. ASSUME NEW s \in {"ready", "retracted", "usurped", "dropped", "invalid"}
      PROVE  Update(s, NoResult) \in Updates /\ Sound(x, Update(s, NoResult))'
  <2>1. s \in Statuses
    BY DEF Statuses
  <2> QED
    BY <1>u, <2>1 DEF Sound
<1>1. ASSUME NEW c \in Calls, Sign(c) PROVE QueueStep(x)
  BY <1>1 DEF Sign
<1>2. ASSUME NEW c \in Calls, Submit(c) PROVE QueueStep(x)
  <2>1. CASE Accept(c)
    BY <2>1, <1>u DEF Accept, Sound, Statuses
  <2>2. ASSUME NEW d \in Calls, Usurp(c, d) PROVE QueueStep(x)
    <3>1. c # d
      BY <2>2 DEF Usurp, Rivals
    <3>2. \/ inbox'[x] = inbox[x]
          \/ inbox'[x] = Append(inbox[x], Update("ready", NoResult))
          \/ inbox'[x] = Append(inbox[x], Update("usurped", NoResult))
      BY <2>2, <3>1 DEF Usurp
    <3> QED
      BY <3>2, <1>v
  <2>3. CASE Refuse(c)
    BY <2>3, <1>u DEF Refuse, Sound, NeverRan, StagesSound, Statuses
  <2> QED
    BY <1>2, <2>1, <2>2, <2>3 DEF Submit
<1>3. ASSUME NEW c \in Calls, NEW r \in Results, Include(c, r) PROVE QueueStep(x)
  BY <1>3, <1>u DEF Include, Report, Sound, Statuses
<1>4. ASSUME NEW c \in Calls, Retract(c) PROVE QueueStep(x)
  BY <1>4, <1>u DEF Retract, Report, Sound, Statuses
<1>5. ASSUME NEW c \in Calls, Finalize(c) PROVE QueueStep(x)
  BY <1>5, <1>u DEF Finalize, Report, Sound, StagesSound, Statuses
<1>6. ASSUME NEW c \in Calls, NEW s \in {"dropped", "invalid"}, Evict(c, s) PROVE QueueStep(x)
  <2>1. inbox'[x] = inbox[x] \/ inbox'[x] = Append(inbox[x], Update(s, NoResult))
    BY <1>6 DEF Evict, Report
  <2> QED
    BY <1>v, <2>1
<1>7. ASSUME NEW c \in Calls, Lose(c) PROVE QueueStep(x)
  BY <1>7 DEF Lose
<1>8. ASSUME NEW c \in Calls, Deliver(c) PROVE QueueStep(x)
  BY <1>8 DEF Deliver
<1>9. ASSUME NEW c \in Calls, Supersede(c) PROVE QueueStep(x)
  BY <1>9 DEF Supersede
<1>10. CASE UNCHANGED vars
  BY <1>10 DEF vars
<1> QED
  BY <1>1, <1>2, <1>3, <1>4, <1>5, <1>6, <1>7, <1>8, <1>9, <1>10 DEF Next

--------------------------------------------------------------------------------
(* Sound updates stay sound as history grows. *)
LEMMA SoundGrows ==
    ASSUME NEW c \in Calls, NEW u \in Updates, Grows(c), Sound(c, u)
    PROVE  Sound(c, u)'
BY DEF Grows, Sound, NeverRan

LEMMA QueuesStep == IInv /\ [Next]_vars => QueuesSound'
<1> SUFFICES ASSUME IInv, [Next]_vars, NEW c \in Calls, NEW i \in 1 .. Len(inbox'[c])
             PROVE  Sound(c, inbox[c][i])'
  BY DEF QueuesSound
<1>1. Grows(c) /\ QueueStep(c)
  BY GrowStep, QueueStepLemma DEF IInv
<1>2. inbox[c] \in Seq(Updates) /\ \A j \in 1 .. Len(inbox[c]) : Sound(c, inbox[c][j])
  BY DEF IInv, TypeOK, QueuesSound
<1>3. ASSUME NEW j \in 1 .. Len(inbox[c]), NEW v, v = inbox[c][j]
      PROVE  Sound(c, v)'
  <2>1. v \in Updates /\ Sound(c, v)
    BY <1>2, <1>3
  <2> QED
    BY <1>1, <2>1, SoundGrows
<1>4. CASE inbox'[c] = inbox[c]
  BY <1>3, <1>4
<1>5. CASE inbox[c] # <<>> /\ inbox'[c] = Tail(inbox[c])
  <2>1. i + 1 \in 1 .. Len(inbox[c]) /\ inbox'[c][i] = inbox[c][i + 1]
    BY <1>2, <1>5
  <2> QED
    BY <1>3, <2>1
<1>6. ASSUME NEW u \in Updates, inbox'[c] = Append(inbox[c], u), Sound(c, u)'
      PROVE  Sound(c, inbox[c][i])'
  <2>1. CASE i \in 1 .. Len(inbox[c])
    <3>1. inbox'[c][i] = inbox[c][i]
      BY <1>2, <1>6, <2>1
    <3> QED
      BY <1>3, <2>1, <3>1
  <2>2. CASE i \notin 1 .. Len(inbox[c])
    <3>1. inbox'[c][i] = u
      BY <1>2, <1>6, <2>2
    <3> QED
      BY <1>6, <3>1
  <2> QED
    BY <2>1, <2>2
<1> QED
  BY <1>1, <1>4, <1>5, <1>6 DEF QueueStep

(* Only calls the pool took have run, and what the chain shows of them did run. *)
LEMMA StagesStep == TypeOK /\ StagesSound /\ [Next]_vars => StagesSound'
<1> SUFFICES ASSUME TypeOK, StagesSound, [Next]_vars PROVE StagesSound'
  OBVIOUS
<1> USE DEF TypeOK, StagesSound
<1>1. ASSUME NEW c \in Calls, Sign(c) PROVE StagesSound'
  BY <1>1 DEF Sign
<1>2. ASSUME NEW c \in Calls, Submit(c) PROVE StagesSound'
  <2>1. CASE Accept(c)
    BY <2>1 DEF Accept
  <2>2. ASSUME NEW d \in Calls, Usurp(c, d) PROVE StagesSound'
    BY <2>2 DEF Usurp
  <2>3. CASE Refuse(c)
    BY <2>3 DEF Refuse
  <2> QED
    BY <1>2, <2>1, <2>2, <2>3 DEF Submit
<1>3. ASSUME NEW c \in Calls, NEW r \in Results, Include(c, r) PROVE StagesSound'
  BY <1>3 DEF Include
<1>4. ASSUME NEW c \in Calls, Retract(c) PROVE StagesSound'
  BY <1>4 DEF Retract
<1>5. ASSUME NEW c \in Calls, Finalize(c) PROVE StagesSound'
  BY <1>5 DEF Finalize
<1>6. ASSUME NEW c \in Calls, NEW s \in {"dropped", "invalid"}, Evict(c, s) PROVE StagesSound'
  BY <1>6 DEF Evict
<1>7. ASSUME NEW c \in Calls, Lose(c) \/ Deliver(c) \/ Supersede(c) PROVE StagesSound'
  BY <1>7 DEF Lose, Deliver, Supersede
<1>8. CASE UNCHANGED vars
  BY <1>8 DEF vars
<1> QED
  BY <1>1, <1>2, <1>3, <1>4, <1>5, <1>6, <1>7, <1>8 DEF Next

(* What Deliver makes of a pending promise is true of the call. *)
LEMMA DeliverTrue ==
    ASSUME IInv, NEW c \in Calls, Deliver(c), promise[c] = Pending, promise'[c] # Pending
    PROVE  \/ \E r \in executed[c] : Entitles(c, r, promise'[c])
           \/ promise'[c] = Rejected("send") /\ NeverRan(c)
<1> DEFINE u == Head(inbox[c])
<1>1. u \in Updates /\ Sound(c, u)
  <2>1. inbox[c] \in Seq(Updates) /\ inbox[c] # <<>>
    BY DEF IInv, TypeOK, Deliver
  <2>2. u = inbox[c][1] /\ 1 \in 1 .. Len(inbox[c])
    BY <2>1
  <2> QED
    BY <2>1, <2>2 DEF IInv, QueuesSound
<1>2. promise'[c] = Callback(c, u, Pending)
  BY DEF Deliver, IInv, TypeOK
<1> HIDE DEF u
<1>3. CASE u.status \in {"inBlock", "finalized"}
  <2>1. u.result \in executed[c] /\ u.result \in Results
    BY <1>1, <1>3 DEF Sound, IInv, TypeOK
  <2> QED
    BY <1>1, <1>2, <1>3, <2>1, CallbackEntitled
<1>4. CASE u.status \notin {"inBlock", "finalized"}
  <2>1. u.result = NoResult /\ (u.status = "refused" => NeverRan(c))
    BY <1>1, <1>4 DEF Sound
  <2>2. Callback(c, u, Pending) = IF u.status = "refused" THEN Rejected("send") ELSE Pending
    BY <1>1, <1>4, <2>1, CallbackOther
  <2> QED
    BY <1>2, <2>1, <2>2
<1> QED
  BY <1>3, <1>4

(* A promise changes only when a callback runs on a pending one. *)
LEMMA PromiseStep ==
    ASSUME TypeOK, [Next]_vars, NEW c \in Calls, promise'[c] # promise[c]
    PROVE  Deliver(c) /\ promise[c] = Pending
<1>1. PICK d \in Calls : Deliver(d)
  BY DEF Next, vars, Sign, Submit, Accept, Usurp, Refuse, Include, Retract, Finalize, Evict,
         Lose, Supersede
<1>2. d = c
  BY <1>1 DEF Deliver, TypeOK
<1>3. promise'[c] = Callback(c, Head(inbox[c]), promise[c])
  BY <1>1, <1>2 DEF Deliver, TypeOK
<1> QED
  BY <1>1, <1>2, <1>3, CallbackSettled

LEMMA RepliesStep == IInv /\ [Next]_vars => RepliesAreTrue'
<1> SUFFICES ASSUME IInv, [Next]_vars, NEW c \in Calls, promise'[c] # Pending
             PROVE  \/ \E r \in executed'[c] : Entitles(c, r, promise'[c])
                    \/ promise'[c] = Rejected("send") /\ NeverRan(c)'
  BY DEF RepliesAreTrue
<1>1. Grows(c)
  BY GrowStep DEF IInv
<1>2. \/ \E r \in executed[c] : Entitles(c, r, promise'[c])
      \/ promise'[c] = Rejected("send") /\ NeverRan(c)
  <2>1. CASE promise'[c] = promise[c]
    BY <2>1 DEF IInv, RepliesAreTrue
  <2>2. CASE promise'[c] # promise[c]
    BY <2>2, PromiseStep, DeliverTrue DEF IInv
  <2> QED
    BY <2>1, <2>2
<1> QED
  BY <1>1, <1>2 DEF Grows, NeverRan

LEMMA IInvStep == IInv /\ [Next]_vars => IInv'
BY TypeStep, QueuesStep, StagesStep, RepliesStep DEF IInv

LEMMA Inductive == Spec => []IInv
BY InitIInv, IInvStep, PTL DEF Spec

--------------------------------------------------------------------------------
(***************************************************************************)
(* Types are kept: every promise of sendAndWait and sendAndWaitFor is one  *)
(* of Promises and every queued update one the callback expects.           *)
(***************************************************************************)
THEOREM TypeCorrect == Spec => []TypeOK
<1>1. IInv => TypeOK
  BY DEF IInv
<1> QED
  BY <1>1, Inductive, PTL

(***************************************************************************)
(* A caller of sendAndWait or sendAndWaitFor is never told of a block that *)
(* did not execute its call, nor told by signAndSend's rejection that a    *)
(* call failed which ran or may run.                                       *)
(***************************************************************************)
THEOREM TruthfulReplies == Spec => []RepliesAreTrue
<1>1. IInv => RepliesAreTrue
  BY DEF IInv
<1> QED
  BY <1>1, Inductive, PTL

--------------------------------------------------------------------------------
(* Giving a call up is one change of the contract's dead, *)
LEMMA GoneStep ==
    ASSUME NEW c \in Calls, executed' = executed, promise' = promise,
           stage'[c] = "gone", \A d \in Calls \ {c} : stage'[d] = "gone" <=> stage[d] = "gone"
    PROVE  RC!GiveUp(c)
BY DEF RC!GiveUp

(* and steps that move no call to "gone" are stutters of it. *)
LEMMA SameDead ==
    ASSUME \A c \in Calls : stage'[c] = "gone" <=> stage[c] = "gone"
    PROVE  [c \in Calls |-> stage[c] = "gone"]' = [c \in Calls |-> stage[c] = "gone"]
OBVIOUS

(* The instance speaks of the same terms. *)
LEMMA SameTerms ==
    /\ RC!Pending = Pending
    /\ RC!Promises = Promises
    /\ RC!Results = Results
    /\ \A e : RC!Rejected(e) = Rejected(e)
    /\ \A c, r, reply : RC!Entitles(c, r, reply) <=> Entitles(c, r, reply)
<1>1. RC!Pending = Pending /\ RC!FailureTags = FailureTags /\ RC!RejectReasons = RejectReasons
  BY DEF RC!Pending, Pending, RC!FailureTags, FailureTags, RC!RejectReasons, RejectReasons
<1>2. /\ \A e : RC!Rejected(e) = Rejected(e)
      /\ \A e : RC!Resolved(e) = Resolved(e)
  BY DEF RC!Rejected, Rejected, RC!Resolved, Resolved
<1>3. RC!Promises = Promises /\ RC!Results = Results
  BY <1>1, <1>2 DEF RC!Promises, Promises, RC!Results, Results
<1>4. \A c, r, reply : RC!Entitles(c, r, reply) <=> Entitles(c, r, reply)
  BY <1>1, <1>2 DEF RC!Entitles, Entitles, RC!ErrorName, ErrorName
<1> QED
  BY <1>1, <1>2, <1>3, <1>4

LEMMA ContractStep == IInv /\ [Next]_vars => [RC!Next]_(RC!vars)
<1> SUFFICES ASSUME IInv, [Next]_vars PROVE [RC!Next]_(RC!vars)
  OBVIOUS
<1> USE DEF IInv, TypeOK
<1>g. ASSUME NEW c \in Calls, RC!GiveUp(c) PROVE RC!Next
  BY <1>g DEF RC!Next
<1>s. ASSUME \A c \in Calls : stage'[c] = "gone" <=> stage[c] = "gone",
             executed' = executed, promise' = promise
      PROVE  UNCHANGED RC!vars
  BY <1>s, SameDead DEF RC!vars
<1>1. ASSUME NEW c \in Calls, Sign(c) PROVE UNCHANGED RC!vars
  BY <1>1, <1>s DEF Sign
<1>2. ASSUME NEW c \in Calls, Submit(c) PROVE [RC!Next]_(RC!vars)
  <2>1. CASE Accept(c)
    BY <2>1, <1>s DEF Accept
  <2>2. ASSUME NEW d \in Calls, Usurp(c, d) PROVE RC!GiveUp(d)
    <3>1. c # d
      BY <2>2 DEF Usurp, Rivals
    <3> QED
      BY <2>2, <3>1, GoneStep DEF Usurp
  <2>3. CASE Refuse(c)
    <3>1. stage'[c] = "gone" /\ \A d \in Calls \ {c} : stage'[d] = stage[d]
      BY <2>3 DEF Refuse
    <3>2. executed' = executed /\ promise' = promise
      BY <2>3 DEF Refuse
    <3>3. RC!GiveUp(c)
      BY <3>1, <3>2, GoneStep
    <3> QED
      BY <3>3, <1>g
  <2> QED
    BY <1>2, <1>g, <2>1, <2>2, <2>3 DEF Submit
<1>3. ASSUME NEW c \in Calls, NEW r \in Results, Include(c, r) PROVE RC!Next
  <2>1. RC!Execute(c, r)
    <3>1. \A d \in Calls : stage'[d] = "gone" <=> stage[d] = "gone"
      BY <1>3 DEF Include
    <3> QED
      BY <1>3, <3>1, SameDead DEF Include, RC!Execute
  <2> QED
    BY <2>1, SameTerms DEF RC!Next
<1>4. ASSUME NEW c \in Calls, Retract(c) PROVE UNCHANGED RC!vars
  BY <1>4, <1>s DEF Retract
<1>5. ASSUME NEW c \in Calls, Finalize(c) PROVE UNCHANGED RC!vars
  BY <1>5, <1>s DEF Finalize
<1>6. ASSUME NEW c \in Calls, NEW s \in {"dropped", "invalid"}, Evict(c, s)
      PROVE  [RC!Next]_(RC!vars)
  <2>1. CASE stage' = [stage EXCEPT ![c] = "gone"]
    BY <1>6, <1>g, <2>1, GoneStep DEF Evict
  <2>2. CASE stage' = stage
    BY <1>6, <1>s, <2>2 DEF Evict
  <2> QED
    BY <1>6, <2>1, <2>2 DEF Evict
<1>7. ASSUME NEW c \in Calls, Lose(c) \/ Supersede(c) PROVE UNCHANGED RC!vars
  BY <1>7, <1>s DEF Lose, Supersede
<1>8. ASSUME NEW c \in Calls, Deliver(c) PROVE [RC!Next]_(RC!vars)
  <2>1. stage' = stage /\ executed' = executed
    BY <1>8 DEF Deliver
  <2>2. CASE promise' = promise
    BY <1>s, <2>1, <2>2
  <2>3. CASE promise' # promise
    <3>1. promise'[c] # promise[c] /\ promise' = [promise EXCEPT ![c] = promise'[c]]
      BY <1>8, <2>3 DEF Deliver
    <3>2. promise[c] = Pending /\ promise'[c] # Pending
      BY <3>1, PromiseStep
    <3>3. promise'[c] \in Promises
      BY TypeStep
    <3>4. CASE \E r \in executed[c] : Entitles(c, r, promise'[c])
      <4>1. RC!Answer(c, promise'[c])
        BY <2>1, <3>1, <3>2, <3>4, SameDead, SameTerms DEF RC!Answer
      <4> QED
        BY <3>3, <4>1, SameTerms DEF RC!Next
    <3>5. CASE promise'[c] = Rejected("send") /\ NeverRan(c)
      <4>1. RC!Refuse(c)
        BY <2>1, <3>1, <3>2, <3>5, SameDead, SameTerms DEF RC!Refuse, NeverRan
      <4> QED
        BY <4>1 DEF RC!Next
    <3> QED
      BY <1>8, <3>2, <3>4, <3>5, DeliverTrue
  <2> QED
    BY <2>2, <2>3
<1>9. CASE UNCHANGED vars
  BY <1>9, <1>s DEF vars
<1> QED
  BY <1>1, <1>2, <1>3, <1>4, <1>5, <1>6, <1>7, <1>8, <1>9 DEF Next

LEMMA ContractInit == Init => RC!Init
<1> SUFFICES ASSUME Init PROVE RC!Init
  OBVIOUS
<1>1. [c \in Calls |-> stage[c] = "gone"] = [c \in Calls |-> FALSE]
  BY DEF Init
<1> QED
  BY <1>1, SameTerms DEF Init, RC!Init

(***************************************************************************)
(* The helpers, with the node below them, implement the contract on which  *)
(* every operation of Job relies: one reply per call, about an execution   *)
(* of that call, or a refusal of a call that has no effect.                *)
(***************************************************************************)
THEOREM KeepsContract == Spec => ImplementsRemoteCall
<1>1. IInv /\ [Next]_vars => [RC!Next]_(RC!vars)
  BY ContractStep
<1> QED
  BY <1>1, ContractInit, Inductive, PTL DEF Spec, ImplementsRemoteCall, RC!Spec

--------------------------------------------------------------------------------
(* As long as nothing was retracted a call has run once, in the block that shows it, or never. *)
OneBlock ==
    reorgs = 0 =>
        \A c \in Calls : executed[c] = IF OnChain(c) THEN {result[c]} ELSE {}

LEMMA OneBlockStep == TypeOK /\ OneBlock /\ [Next]_vars => OneBlock'
<1> SUFFICES ASSUME TypeOK, OneBlock, [Next]_vars PROVE OneBlock'
  OBVIOUS
<1> USE DEF TypeOK, OneBlock, OnChain
<1>1. ASSUME NEW c \in Calls, Sign(c) PROVE OneBlock'
  BY <1>1 DEF Sign
<1>2. ASSUME NEW c \in Calls, Submit(c) PROVE OneBlock'
  <2>1. CASE Accept(c)
    BY <2>1 DEF Accept
  <2>2. ASSUME NEW d \in Calls, Usurp(c, d) PROVE OneBlock'
    BY <2>2 DEF Usurp, Rivals
  <2>3. CASE Refuse(c)
    BY <2>3 DEF Refuse
  <2> QED
    BY <1>2, <2>1, <2>2, <2>3 DEF Submit
<1>3. ASSUME NEW c \in Calls, NEW r \in Results, Include(c, r) PROVE OneBlock'
  BY <1>3 DEF Include
<1>4. ASSUME NEW c \in Calls, Retract(c) PROVE OneBlock'
  BY <1>4, MaxReorgsNat DEF Retract
<1>5. ASSUME NEW c \in Calls, Finalize(c) PROVE OneBlock'
  BY <1>5 DEF Finalize
<1>6. ASSUME NEW c \in Calls, NEW s \in {"dropped", "invalid"}, Evict(c, s) PROVE OneBlock'
  BY <1>6 DEF Evict
<1>7. ASSUME NEW c \in Calls, Lose(c) \/ Deliver(c) \/ Supersede(c) PROVE OneBlock'
  BY <1>7 DEF Lose, Deliver, Supersede
<1>8. CASE UNCHANGED vars
  BY <1>8 DEF vars
<1> QED
  BY <1>1, <1>2, <1>3, <1>4, <1>5, <1>6, <1>7, <1>8 DEF Next

LEMMA OneBlockInductive == Spec => [](IInv /\ OneBlock)
<1>1. Init => OneBlock
  BY DEF Init, OneBlock, OnChain
<1>2. IInv /\ OneBlock /\ [Next]_vars => OneBlock'
  BY OneBlockStep DEF IInv
<1> QED
  BY <1>1, <1>2, Inductive, PTL DEF Spec

(* Where nothing was retracted, the truth of a reply is the truth about the chain. *)
LEMMA TruthIsFinal == RepliesAreTrue /\ OneBlock => RepliesMatchFinalChain
<1> SUFFICES ASSUME RepliesAreTrue, OneBlock, NEW c \in Calls, reorgs = 0, promise[c] # Pending
             PROVE  IF OnChain(c) THEN Entitles(c, result[c], promise[c])
                    ELSE promise[c] = Rejected("send") /\ stage[c] = "gone"
  BY DEF RepliesMatchFinalChain
<1>1. CASE OnChain(c)
  BY <1>1 DEF RepliesAreTrue, OneBlock, NeverRan, OnChain
<1>2. CASE ~ OnChain(c)
  BY <1>2 DEF RepliesAreTrue, OneBlock, NeverRan
<1> QED
  BY <1>1, <1>2

(***************************************************************************)
(* Without retractions what sendAndWait and sendAndWaitFor answer from the *)
(* first block that has the call is what the chain keeps: the ids of       *)
(* createFactory and createEscrow are those of the escrows.                *)
(***************************************************************************)
THEOREM FinalReplies == Spec => []RepliesMatchFinalChain
<1>1. IInv /\ OneBlock => RepliesMatchFinalChain
  BY TruthIsFinal DEF IInv
<1> QED
  BY <1>1, OneBlockInductive, PTL

(***************************************************************************)
(* launch and any caller that awaits one call before the next sign no two  *)
(* pending calls with one nonce, though neither helper passes a nonce.     *)
(***************************************************************************)
THEOREM NoCollision == Spec => AwaitedCallsDoNotCollide
<1>1. ASSUME IInv, OneBlock, NEW c \in Calls, Sign(c), reorgs = 0,
             \A d \in CallsOf(SenderOf[c]) \ {c} : stage[d] = "idle" \/ Settled(promise[d]),
             NEW d \in Rivals(c)'
      PROVE  FALSE
  <2>1. d \in CallsOf(SenderOf[c]) /\ d \in Calls /\ stage'[d] = "pooled"
    BY <1>1 DEF Rivals, CallsOf
  <2>2. d # c /\ stage[d] = "pooled"
    BY <1>1, <2>1 DEF Sign, IInv, TypeOK
  <2>3. promise[d] # Pending
    BY <1>1, <2>1, <2>2 DEF Settled
  <2>4. OnChain(d) \/ stage[d] = "gone"
    BY <1>1, <2>1, <2>3, TruthIsFinal DEF IInv, RepliesMatchFinalChain
  <2> QED
    BY <2>2, <2>4 DEF OnChain
<1>2. IInv /\ OneBlock /\ [Next]_vars
          => [\A c \in Calls :
                 ( /\ Sign(c)
                   /\ reorgs = 0
                   /\ \A d \in CallsOf(SenderOf[c]) \ {c} :
                         stage[d] = "idle" \/ Settled(promise[d]) )
                     => Rivals(c)' = {}]_vars
  BY <1>1
<1> QED
  BY <1>2, OneBlockInductive, PTL DEF Spec, AwaitedCallsDoNotCollide

--------------------------------------------------------------------------------
(* The update that will settle the promise of c is on its way. *)
Coming(c) ==
    \E i \in 1 .. Len(inbox[c]) :
        inbox[c][i].status = "finalized" /\ inbox[c][i].result \in Results

(* A node without faults watches a call until it is final, and then says so. *)
Watched ==
    Faults = {} =>
        \A c \in Calls :
            /\ stage[c] \in {"pooled", "included"} => watching[c]
            /\ stage[c] = "final" /\ promise[c] = Pending => Coming(c)

(* What is queued last is coming, *)
LEMMA ComingLast ==
    ASSUME NEW c \in Calls, TypeOK, NEW u \in Updates, inbox'[c] = Append(inbox[c], u),
           u.status = "finalized", u.result \in Results
    PROVE  Coming(c)'
<1> DEFINE n == Len(inbox[c]) + 1
<1>1. inbox[c] \in Seq(Updates)
  BY DEF TypeOK
<1>2. n \in 1 .. Len(inbox'[c]) /\ inbox'[c][n] = u
  BY <1>1
<1>3. inbox'[c][n].status = "finalized" /\ inbox'[c][n].result \in Results
  BY <1>2
<1> QED
  BY <1>2, <1>3 DEF Coming

(* and what is coming stays so when something else is handled or dropped. *)
LEMMA ComingTail ==
    ASSUME NEW c \in Calls, TypeOK, Coming(c), inbox'[c] = Tail(inbox[c]),
           Head(inbox[c]).status # "finalized"
    PROVE  Coming(c)'
<1>1. PICK i \in 1 .. Len(inbox[c]) :
          inbox[c][i].status = "finalized" /\ inbox[c][i].result \in Results
  BY DEF Coming
<1>2. inbox[c] \in Seq(Updates) /\ inbox[c] # <<>>
  BY <1>1 DEF TypeOK
<1>3. i # 1
  BY <1>1, <1>2
<1>4. i - 1 \in 1 .. Len(inbox'[c]) /\ inbox'[c][i - 1] = inbox[c][i]
  BY <1>2, <1>3
<1> QED
  BY <1>1, <1>4 DEF Coming

LEMMA WatchedDeliver ==
    ASSUME IInv, Watched, Faults = {}, NEW c \in Calls, Deliver(c),
           stage[c] = "final", promise'[c] = Pending
    PROVE  Coming(c)'
<1>1. promise'[c] = Callback(c, Head(inbox[c]), promise[c]) /\ inbox'[c] = Tail(inbox[c])
  BY DEF Deliver, IInv, TypeOK
<1>2. promise[c] = Pending
  BY <1>1, CallbackSettled
<1>3. Coming(c)
  BY <1>2 DEF Watched
<1>4. Head(inbox[c]).status # "finalized"
  <2> SUFFICES ASSUME Head(inbox[c]).status = "finalized" PROVE FALSE
    OBVIOUS
  <2>1. inbox[c] \in Seq(Updates) /\ inbox[c] # <<>>
    BY DEF Deliver, IInv, TypeOK
  <2>2. Head(inbox[c]) = inbox[c][1] /\ 1 \in 1 .. Len(inbox[c]) /\ Head(inbox[c]) \in Updates
    BY <2>1
  <2>3. Head(inbox[c]).result \in Results
    BY <2>2 DEF IInv, QueuesSound, Sound, TypeOK
  <2> QED
    BY <1>1, <1>2, <2>2, <2>3, CallbackEntitled
<1> QED
  BY <1>1, <1>3, <1>4, ComingTail DEF IInv

LEMMA WatchedStep == IInv /\ Watched /\ [Next]_vars => Watched'
<1> SUFFICES ASSUME IInv, Watched, [Next]_vars, Faults = {}, NEW x \in Calls
             PROVE  /\ stage'[x] \in {"pooled", "included"} => watching'[x]
                    /\ stage'[x] = "final" /\ promise'[x] = Pending => Coming(x)'
  BY DEF Watched
<1> DEFINE Goal == /\ stage'[x] \in {"pooled", "included"} => watching'[x]
                   /\ stage'[x] = "final" /\ promise'[x] = Pending => Coming(x)'
<1>w. /\ stage[x] \in {"pooled", "included"} => watching[x]
      /\ stage[x] = "final" /\ promise[x] = Pending => Coming(x)
  BY DEF Watched
<1>k. inbox'[x] = inbox[x] => (Coming(x)' <=> Coming(x))
  BY DEF Coming
<1> USE DEF IInv, TypeOK
<1>1. ASSUME NEW c \in Calls, Sign(c) PROVE Goal
  BY <1>1, <1>k, <1>w DEF Sign
<1>2. ASSUME NEW c \in Calls, Submit(c) PROVE Goal
  <2>1. CASE Accept(c)
    BY <2>1, <1>k, <1>w DEF Accept
  <2>2. ASSUME NEW d \in Calls, Usurp(c, d) PROVE Goal
    BY <2>2 DEF Usurp
  <2>3. CASE Refuse(c)
    BY <2>3, <1>k, <1>w DEF Refuse
  <2> QED
    BY <1>2, <2>1, <2>2, <2>3 DEF Submit
<1>3. ASSUME NEW c \in Calls, NEW r \in Results, Include(c, r) PROVE Goal
  BY <1>3, <1>k, <1>w DEF Include, Report
<1>4. ASSUME NEW c \in Calls, Retract(c) PROVE Goal
  BY <1>4, <1>k, <1>w DEF Retract, Report
<1>5. ASSUME NEW c \in Calls, Finalize(c) PROVE Goal
  <2>1. CASE x # c
    BY <1>5, <2>1, <1>k, <1>w DEF Finalize, Report
  <2>2. CASE x = c
    <3>1. watching[c] /\ result[c] \in Results
      BY <1>5, <1>w, <2>2 DEF Finalize, StagesSound
    <3>2. inbox'[c] = Append(inbox[c], Update("finalized", result[c]))
      BY <1>5, <3>1 DEF Finalize, Report
    <3>3. inbox[c] \in Seq(Updates) /\ Update("finalized", result[c]) \in Updates
      BY <3>1 DEF Update, Updates, Statuses
    <3>4. /\ Update("finalized", result[c]).status = "finalized"
          /\ Update("finalized", result[c]).result \in Results
      BY <3>1 DEF Update
    <3>5. Coming(c)'
      BY <3>2, <3>3, <3>4, ComingLast
    <3> QED
      BY <1>5, <2>2, <3>5 DEF Finalize
  <2> QED
    BY <2>1, <2>2
<1>6. ASSUME NEW c \in Calls, NEW s \in {"dropped", "invalid"}, Evict(c, s) PROVE Goal
  BY <1>6 DEF Evict
<1>7. ASSUME NEW c \in Calls, Lose(c) PROVE Goal
  BY <1>7 DEF Lose
<1>8. ASSUME NEW c \in Calls, Deliver(c) PROVE Goal
  <2>1. CASE x # c
    BY <1>8, <2>1, <1>k, <1>w DEF Deliver
  <2>2. CASE x = c
    BY <1>8, <2>2, <1>w, WatchedDeliver DEF Deliver
  <2> QED
    BY <2>1, <2>2
<1>9. ASSUME NEW c \in Calls, Supersede(c) PROVE Goal
  <2>1. CASE x # c
    BY <1>9, <2>1, <1>k, <1>w DEF Supersede
  <2>2. CASE x = c
    <3>1. inbox'[c] = Tail(inbox[c]) /\ Head(inbox[c]).status # "finalized"
      BY <1>9 DEF Supersede
    <3> QED
      BY <1>9, <2>2, <3>1, <1>w, ComingTail DEF Supersede
  <2> QED
    BY <2>1, <2>2
<1>10. CASE UNCHANGED vars
  BY <1>10, <1>k, <1>w DEF vars
<1> QED
  BY <1>1, <1>2, <1>3, <1>4, <1>5, <1>6, <1>7, <1>8, <1>9, <1>10 DEF Next

(***************************************************************************)
(* With a node that neither evicts calls nor loses subscriptions, a caller *)
(* to whom nothing more will be said has its reply, although the callback  *)
(* acts on two of the updates only and the first may have been superseded. *)
(***************************************************************************)
THEOREM FinalCallsSettled == Spec => []FinalMeansSettled
<1>1. Init => Watched
  BY DEF Init, Watched
<1>2. IInv /\ Watched /\ [Next]_vars => Watched'
  BY WatchedStep
<1>3. Watched => FinalMeansSettled
  BY DEF Watched, FinalMeansSettled, Coming
<1> QED
  BY <1>1, <1>2, <1>3, Inductive, PTL DEF Spec
===============================================================================
