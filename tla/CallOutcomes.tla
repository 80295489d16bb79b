----------------------------- MODULE CallOutcomes -----------------------------
(***************************************************************************)
(* What one submitted extrinsic can come to, shared by the abstract        *)
(* contract of a remote call (RemoteCall) and by the transaction helpers   *)
(* of src/utils/substrate.ts that implement it (SendAndWait).              *)
(***************************************************************************)

CONSTANTS
    Calls,     \* invocations of sendAndWait and sendAndWaitFor
    Filtered,  \* those made through sendAndWaitFor, which look for an event
    Ids,       \* payloads of the event looked for, such as a new escrow's id
    Nothing    \* JavaScript's undefined

ASSUME OutcomesAssumption ==
    /\ Filtered \subseteq Calls
    /\ Nothing \notin Ids

(***************************************************************************)
(* The result of executing a call in a block.  "found": it succeeded and   *)
(* emitted the event the filter names, carrying id.  "missing": it         *)
(* succeeded without that event.  The others: it failed, with the error    *)
(* NonTrustedAccount ("untrusted"), another error of a pallet ("module")   *)
(* or an error of no pallet.                                               *)
(***************************************************************************)
FailureTags == {"untrusted", "module", "other"}

Results ==
    [tag : {"found"}, id : Ids]
        \cup [tag : {"missing"} \cup FailureTags, id : {Nothing}]

(* The promise a helper returns. *)
Pending     == [state |-> "pending",  value |-> Nothing, error |-> Nothing]
Resolved(v) == [state |-> "resolved", value |-> v,       error |-> Nothing]
Rejected(e) == [state |-> "rejected", value |-> Nothing, error |-> e]

RejectReasons == FailureTags \cup {"noRecord", "send"}

Promises ==
    {Pending}
        \cup {Resolved(v) : v \in Ids \cup {Nothing}}
        \cup {Rejected(e) : e \in RejectReasons}

Settled(p) == p # Pending

(* Only sendAndWait names its errors, so that NonTrustedAccount can be told apart. *)
ErrorName(c, tag) == IF c \in Filtered /\ tag = "untrusted" THEN "module" ELSE tag

(***************************************************************************)
(* Replies an execution with result r entitles the caller of c to.         *)
(***************************************************************************)
Entitles(c, r, reply) ==
    \/ /\ reply.state = "resolved"
       /\ \/ r.tag = "found" /\ reply.value = IF c \in Filtered THEN r.id ELSE Nothing
          \/ r.tag = "missing" /\ c \notin Filtered /\ reply.value = Nothing
    \/ /\ reply.state = "rejected"
       /\ \/ r.tag = "missing" /\ c \in Filtered /\ reply.error = "noRecord"
          \/ r.tag \in FailureTags /\ reply.error = ErrorName(c, r.tag)
===============================================================================
