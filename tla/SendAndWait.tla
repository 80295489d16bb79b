------------------------------ MODULE SendAndWait ------------------------------
(***************************************************************************)
(* sendAndWaitFor and sendAndWait of src/utils/substrate.ts: a call is     *)
(* signed with the nonce the chain shows at that moment, submitted, and    *)
(* watched; the callback turns the updates of the subscription into one    *)
(* promise.  The node's pool, the blocks, their reorganisation and the     *)
(* subscription of polkadot-js are external, modelled from how the two     *)
(* helpers use them.                                                       *)
(***************************************************************************)
EXTENDS CallOutcomes, Naturals, Sequences, FiniteSets

CONSTANTS
    Senders,     \* accounts that sign
    SenderOf,    \* SenderOf[c]: the account that signs call c
    Faults,      \* troubles of the node this instance has
    MaxReorgs    \* bound on the retractions of a behaviour

ASSUME SendAssumption ==
    /\ SenderOf \in [Calls -> Senders]
    /\ Faults \subseteq {"usurped", "dropped", "invalid", "lost"}
    /\ MaxReorgs \in Nat
    /\ \A s \in Senders : IsFiniteSet({c \in Calls : SenderOf[c] = s})

VARIABLES
    stage,     \* stage[c]: how far c has come in the node
    nonce,     \* nonce[c]: the nonce c was signed with
    result,    \* result[c]: its result on the best chain, NoResult if not there
    executed,  \* executed[c]: its results on any fork so far
    watching,  \* watching[c]: the node still reports on c
    inbox,     \* inbox[c]: updates reported and not yet given to the callback
    promise,   \* promise[c]: the promise the helper returned
    reorgs     \* retractions so far

vars == <<stage, nonce, result, executed, watching, inbox, promise, reorgs>>

NoResult == [tag |-> "none", id |-> Nothing]

Stages == {"idle", "signed", "pooled", "included", "final", "gone"}

(* Statuses of a SubmittableResult; "refused" is the rejection of signAndSend. *)
Statuses ==
    {"ready", "inBlock", "finalized", "retracted", "usurped", "dropped", "invalid", "refused"}

Updates == [status : Statuses, result : Results \cup {NoResult}]

Update(status, r) == [status |-> status, result |-> r]

OnChain(c) == stage[c] \in {"included", "final"}

CallsOf(s) == {c \in Calls : SenderOf[c] = s}

(* The account nonce the node answers when asked. *)
ChainNonce(s) == Cardinality({c \in CallsOf(s) : OnChain(c)})

(* The node reports u to whoever watches c. *)
Report(c, u) ==
    inbox' = IF watching[c] THEN [inbox EXCEPT ![c] = Append(@, u)] ELSE inbox

--------------------------------------------------------------------------------
Init ==
    /\ stage = [c \in Calls |-> "idle"]
    /\ nonce = [c \in Calls |-> 0]
    /\ result = [c \in Calls |-> NoResult]
    /\ executed = [c \in Calls |-> {}]
    /\ watching = [c \in Calls |-> FALSE]
    /\ inbox = [c \in Calls |-> <<>>]
    /\ promise = [c \in Calls |-> Pending]
    /\ reorgs = 0

(* signAndSend, first half: no nonce is passed, so the account's is fetched. *)
Sign(c) ==
    /\ stage[c] = "idle"
    /\ stage' = [stage EXCEPT ![c] = "signed"]
    /\ nonce' = [nonce EXCEPT ![c] = ChainNonce(SenderOf[c])]
    /\ UNCHANGED <<result, executed, watching, inbox, promise, reorgs>>

(* The pooled calls that hold the nonce c was signed with. *)
Rivals(c) ==
    {d \in CallsOf(SenderOf[c]) : stage[d] = "pooled" /\ nonce[d] = nonce[c]}

(* signAndSend, second half: the node takes the call, *)
Accept(c) ==
    /\ stage[c] = "signed"
    /\ nonce[c] >= ChainNonce(SenderOf[c])
    /\ Rivals(c) = {}
    /\ stage' = [stage EXCEPT ![c] = "pooled"]
    /\ watching' = [watching EXCEPT ![c] = TRUE]
    /\ inbox' = [inbox EXCEPT ![c] = Append(@, Update("ready", NoResult))]
    /\ UNCHANGED <<nonce, result, executed, promise, reorgs>>

(* or takes it in place of a pooled one, *)
Usurp(c, d) ==
    /\ "usurped" \in Faults
    /\ stage[c] = "signed"
    /\ d \in Rivals(c)
    /\ nonce[c] >= ChainNonce(SenderOf[c])
    /\ stage' = [stage EXCEPT ![c] = "pooled", ![d] = "gone"]
    /\ watching' = [watching EXCEPT ![c] = TRUE, ![d] = FALSE]
    /\ inbox' = [inbox EXCEPT
                   ![c] = Append(@, Update("ready", NoResult)),
                   ![d] = IF watching[d] THEN Append(@, Update("usurped", NoResult)) ELSE @]
    /\ UNCHANGED <<nonce, result, executed, promise, reorgs>>

(* or will not have it: a stale or held nonce, no funds for the fee, ... *)
Refuse(c) ==
    /\ stage[c] = "signed"
    /\ stage' = [stage EXCEPT ![c] = "gone"]
    /\ inbox' = [inbox EXCEPT ![c] = Append(@, Update("refused", NoResult))]
    /\ UNCHANGED <<nonce, result, executed, watching, promise, reorgs>>

Submit(c) ==
    \/ Accept(c)
    \/ \E d \in Calls : Usurp(c, d)
    \/ Refuse(c)

(* A block of the best chain executes c, in the order of its sender's nonces. *)
Include(c, r) ==
    /\ stage[c] = "pooled"
    /\ nonce[c] = ChainNonce(SenderOf[c])
    /\ stage' = [stage EXCEPT ![c] = "included"]
    /\ result' = [result EXCEPT ![c] = r]
    /\ executed' = [executed EXCEPT ![c] = @ \cup {r}]
    /\ Report(c, Update("inBlock", r))
    /\ UNCHANGED <<nonce, watching, promise, reorgs>>

(* The best chain moves to a fork without the block of c. *)
Retract(c) ==
    /\ reorgs < MaxReorgs
    /\ stage[c] = "included"
    /\ \A d \in CallsOf(SenderOf[c]) : OnChain(d) => nonce[d] <= nonce[c]
    /\ stage' = [stage EXCEPT ![c] = "pooled"]
    /\ result' = [result EXCEPT ![c] = NoResult]
    /\ reorgs' = reorgs + 1
    /\ Report(c, Update("retracted", NoResult))
    /\ UNCHANGED <<nonce, executed, watching, promise>>

Finalize(c) ==
    /\ stage[c] = "included"
    /\ \A d \in CallsOf(SenderOf[c]) : stage[d] = "included" => nonce[c] <= nonce[d]
    /\ stage' = [stage EXCEPT ![c] = "final"]
    /\ watching' = [watching EXCEPT ![c] = FALSE]
    /\ Report(c, Update("finalized", result[c]))
    /\ UNCHANGED <<nonce, result, executed, promise, reorgs>>

(* This node forgets c; after "dropped" another may still hold and include it. *)
Evict(c, status) ==
    /\ status \in Faults \cap {"dropped", "invalid"}
    /\ stage[c] = "pooled"
    /\ watching[c]
    /\ \/ stage' = [stage EXCEPT ![c] = "gone"]
       \/ status = "dropped" /\ UNCHANGED stage
    /\ watching' = [watching EXCEPT ![c] = FALSE]
    /\ Report(c, Update(status, NoResult))
    /\ UNCHANGED <<nonce, result, executed, promise, reorgs>>

(* The connection that carries the subscription of c goes down. *)
Lose(c) ==
    /\ "lost" \in Faults
    /\ watching[c]
    /\ watching' = [watching EXCEPT ![c] = FALSE]
    /\ UNCHANGED <<stage, nonce, result, executed, inbox, promise, reorgs>>

--------------------------------------------------------------------------------
(* resolve and reject: only the first call of either counts. *)
Settle(p, reply) == IF p = Pending THEN reply ELSE p

(* What it makes of the record: sendAndWait asks for none, sendAndWaitFor needs one. *)
RecordReply(c, u) ==
    IF c \notin Filtered THEN Resolved(Nothing)
    ELSE IF u.result.tag = "found" THEN Resolved(u.result.id) ELSE Rejected("noRecord")

(* Mutated forms of the definitions below, each a bug that a property catches. *)
ErrorReplyEmpty(c, u) == IF u.result.tag \in FailureTags THEN Rejected(Nothing) ELSE Pending

ErrorReplyIgnored(c, u) == Pending

StatusReplyAtReady(c, u) ==
    IF u.status \in {"ready", "inBlock", "finalized"} THEN RecordReply(c, u) ELSE Pending

StatusReplyInBlockOnly(c, u) ==
    IF u.status = "inBlock" THEN RecordReply(c, u) ELSE Pending

(* What the callback does first: a dispatch error is passed to reject. *)
ErrorReply(c, u) ==
    IF u.result.tag \in FailureTags THEN Rejected(ErrorName(c, u.result.tag)) ELSE Pending

(* What it does next, whatever it did first. *)
StatusReply(c, u) ==
    IF u.status \in {"inBlock", "finalized"} THEN RecordReply(c, u) ELSE Pending

CallbackStatusFirst(c, u, p) ==
    IF u.status = "refused"
      THEN Settle(p, Rejected("send"))
      ELSE Settle(Settle(p, StatusReply(c, u)), ErrorReply(c, u))

CallbackNoCatch(c, u, p) == Settle(Settle(p, ErrorReply(c, u)), StatusReply(c, u))

(* The promise p after the callback, or the .catch of signAndSend, has seen u. *)
Callback(c, u, p) ==
    IF u.status = "refused"
      THEN Settle(p, Rejected("send"))
      ELSE Settle(Settle(p, ErrorReply(c, u)), StatusReply(c, u))

(* The next update is handled. *)
Deliver(c) ==
    /\ inbox[c] # <<>>
    /\ promise' = [promise EXCEPT ![c] = Callback(c, Head(inbox[c]), @)]
    /\ inbox' = [inbox EXCEPT ![c] = Tail(@)]
    /\ UNCHANGED <<stage, nonce, result, executed, watching, reorgs>>

(* polkadot-js drops an update whose events it is still fetching when a newer one comes. *)
Supersede(c) ==
    /\ Len(inbox[c]) > 1
    /\ Head(inbox[c]).status = "inBlock"
    /\ inbox' = [inbox EXCEPT ![c] = Tail(@)]
    /\ UNCHANGED <<stage, nonce, result, executed, watching, promise, reorgs>>

--------------------------------------------------------------------------------
Next ==
    \E c \in Calls :
        \/ Sign(c)
        \/ Submit(c)
        \/ \E r \in Results : Include(c, r)
        \/ Retract(c)
        \/ Finalize(c)
        \/ \E status \in {"dropped", "invalid"} : Evict(c, status)
        \/ Lose(c)
        \/ Deliver(c)
        \/ Supersede(c)

(* The node answers, blocks are authored and finalised, the event loop runs. *)
Fairness ==
    \A c \in Calls :
        /\ WF_vars(Submit(c))
        /\ WF_vars(\E r \in Results : Include(c, r))
        /\ WF_vars(Finalize(c))
        /\ WF_vars(Deliver(c))

Spec == Init /\ [][Next]_vars

FairSpec == Spec /\ Fairness

--------------------------------------------------------------------------------
TypeOK ==
    /\ stage \in [Calls -> Stages]
    /\ nonce \in [Calls -> Nat]
    /\ result \in [Calls -> Results \cup {NoResult}]
    /\ executed \in [Calls -> SUBSET Results]
    /\ watching \in [Calls -> BOOLEAN]
    /\ inbox \in [Calls -> Seq(Updates)]
    /\ promise \in [Calls -> Promises]
    /\ reorgs \in 0 .. MaxReorgs

(* c left no trace on the chain and never will. *)
NeverRan(c) == stage[c] = "gone" /\ executed[c] = {}

(***************************************************************************)
(* What the caller is told happened in some block: an error or an event    *)
(* record is that of an execution of this very call, and the rejection of  *)
(* signAndSend means that the call has had and will have no effect.        *)
(***************************************************************************)
RepliesAreTrue ==
    \A c \in Calls :
        promise[c] # Pending =>
            \/ \E r \in executed[c] : Entitles(c, r, promise[c])
            \/ promise[c] = Rejected("send") /\ NeverRan(c)

(***************************************************************************)
(* Unless blocks are retracted the reply is about the block that stays: a  *)
(* promise settled from a block agrees with the result on the chain, and   *)
(* one rejected by the submission is of a call that is nowhere on it.      *)
(* FactoryId and EscrowId of createFactory and createEscrow are such       *)
(* replies.                                                                *)
(***************************************************************************)
RepliesMatchFinalChain ==
    \A c \in Calls :
        (reorgs = 0 /\ promise[c] # Pending) =>
            IF OnChain(c) THEN Entitles(c, result[c], promise[c])
                          ELSE promise[c] = Rejected("send") /\ stage[c] = "gone"

(***************************************************************************)
(* Awaiting one helper before calling the next, as launch does with create *)
(* and fund, is enough to keep the calls of one account apart: the nonce   *)
(* read is not held by a call that is still waiting for a block, unless a  *)
(* block was retracted.                                                    *)
(***************************************************************************)
AwaitedCallsDoNotCollide ==
    [][\A c \in Calls :
         ( /\ Sign(c)
           /\ reorgs = 0
           /\ \A d \in CallsOf(SenderOf[c]) \ {c} : stage[d] = "idle" \/ Settled(promise[d]) )
             => Rivals(c)' = {}]_vars

(***************************************************************************)
(* A caller whose call is final, and to whom nothing more will be said,    *)
(* has its reply, whichever of the updates it was spared.                  *)
(***************************************************************************)
FinalMeansSettled ==
    \A c \in Calls :
        (stage[c] = "final" /\ inbox[c] = <<>> /\ Faults = {}) => promise[c] # Pending

(* What createFactory and createEscrow return is the id the chain gave. *)
ReturnedIdIsReal ==
    \A c \in Filtered :
        (stage[c] = "final" /\ promise[c].state = "resolved") => promise[c].value = result[c].id

RC == INSTANCE RemoteCall WITH dead <- [c \in Calls |-> stage[c] = "gone"]

(* The helpers keep the contract of RemoteCall, which the rest of the library relies on. *)
ImplementsRemoteCall == RC!Spec

(***************************************************************************)
(* A call that was signed is answered, as awaiting it requires.            *)
(***************************************************************************)
EveryCallSettles ==
    \A c \in Calls : stage[c] # "idle" ~> Settled(promise[c])

(***************************************************************************)
(* A call the chain has given up is answered with an error: errors are     *)
(* passed to the user as a rejected promise.                               *)
(***************************************************************************)
ErrorsReachTheCaller ==
    \A c \in Calls : stage[c] = "gone" ~> promise[c].state = "rejected"
===============================================================================
