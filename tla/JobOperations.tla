---------------------------- MODULE JobOperations ----------------------------
(***************************************************************************)
(* What a caller of Job and JobReads may rely on, whatever happens between *)
(* the awaits of an operation.  An operation takes effect on the chain by  *)
(* its calls, each at most once and in the order of its plan.  It resolves *)
(* after all of them took effect; once it was rejected none ever will, so  *)
(* that it can be tried again.  Only a client that crashed does not know.  *)
(***************************************************************************)
EXTENDS Naturals

CONSTANTS
    Tasks,      \* invocations of operations
    Plan,       \* Plan[op]: the awaits of operation op, in order
    CallKinds,  \* those of them that are calls of the chain
    None

VARIABLES
    asked,      \* asked[t]: the operation t was started with
    phase,      \* phase[t]: idle, running, done, failed or crashed
    effects     \* effects[t]: the calls of t that took effect

vars == <<asked, phase, effects>>

Init ==
    /\ asked = [t \in Tasks |-> None]
    /\ phase = [t \in Tasks |-> "idle"]
    /\ effects = [t \in Tasks |-> {}]

Begin(t, op) ==
    /\ phase[t] = "idle"
    /\ asked' = [asked EXCEPT ![t] = op]
    /\ phase' = [phase EXCEPT ![t] = "running"]
    /\ UNCHANGED effects

(* The calls that come before the i-th await of op. *)
Earlier(op, i) == {Plan[op][j] : j \in 1 .. i - 1} \cap CallKinds

(* The next call of t takes effect. *)
TakeEffect(t) ==
    /\ phase[t] \in {"running", "crashed"}
    /\ \E i \in DOMAIN Plan[asked[t]] :
           /\ Plan[asked[t]][i] \in CallKinds \ effects[t]
           /\ Earlier(asked[t], i) \subseteq effects[t]
           /\ effects' = [effects EXCEPT ![t] = @ \cup {Plan[asked[t]][i]}]
    /\ UNCHANGED <<asked, phase>>

Resolve(t) ==
    /\ phase[t] = "running"
    /\ {Plan[asked[t]][i] : i \in DOMAIN Plan[asked[t]]} \cap CallKinds \subseteq effects[t]
    /\ phase' = [phase EXCEPT ![t] = "done"]
    /\ UNCHANGED <<asked, effects>>

Reject(t) ==
    /\ phase[t] = "running"
    /\ phase' = [phase EXCEPT ![t] = "failed"]
    /\ UNCHANGED <<asked, effects>>

Crash(t) ==
    /\ phase[t] = "running"
    /\ phase' = [phase EXCEPT ![t] = "crashed"]
    /\ UNCHANGED <<asked, effects>>

Next ==
    \E t \in Tasks :
        \/ \E op \in DOMAIN Plan : Begin(t, op)
        \/ TakeEffect(t)
        \/ Resolve(t)
        \/ Reject(t)
        \/ Crash(t)

Spec == Init /\ [][Next]_vars
===============================================================================
