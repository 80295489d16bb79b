------------------------------ MODULE RemoteCall ------------------------------
(***************************************************************************)
(* The contract the rest of the library relies on when it awaits           *)
(* sendAndWait or sendAndWaitFor: a call is executed by the chain, its     *)
(* caller gets one reply, and the reply tells the truth about some         *)
(* execution of that very call.  Nothing is promised about when.           *)
(***************************************************************************)
EXTENDS CallOutcomes

VARIABLES
    executed,  \* executed[c]: the results c was executed with, on any fork
    dead,      \* dead[c]: no block will execute c any more
    promise    \* promise[c]: what the caller of c has been told

vars == <<executed, dead, promise>>

Init ==
    /\ executed = [c \in Calls |-> {}]
    /\ dead = [c \in Calls |-> FALSE]
    /\ promise = [c \in Calls |-> Pending]

(* A block executes c. *)
Execute(c, r) ==
    /\ ~ dead[c]
    /\ executed' = [executed EXCEPT ![c] = @ \cup {r}]
    /\ UNCHANGED <<dead, promise>>

(* The node gives c up: refused, replaced or evicted. *)
GiveUp(c) ==
    /\ dead' = [dead EXCEPT ![c] = TRUE]
    /\ UNCHANGED <<executed, promise>>

(* The caller learns the result of an execution of c. *)
Answer(c, reply) ==
    /\ promise[c] = Pending
    /\ \E r \in executed[c] : Entitles(c, r, reply)
    /\ promise' = [promise EXCEPT ![c] = reply]
    /\ UNCHANGED <<executed, dead>>

(* The caller learns that c was not accepted; c has had and will have no effect. *)
Refuse(c) ==
    /\ promise[c] = Pending
    /\ dead[c]
    /\ executed[c] = {}
    /\ promise' = [promise EXCEPT ![c] = Rejected("send")]
    /\ UNCHANGED <<executed, dead>>

Next ==
    \E c \in Calls :
        \/ \E r \in Results : Execute(c, r)
        \/ GiveUp(c)
        \/ \E reply \in Promises : Answer(c, reply)
        \/ Refuse(c)

Spec == Init /\ [][Next]_vars
===============================================================================
