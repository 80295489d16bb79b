----------------------------- MODULE JobsHistory -----------------------------
(***************************************************************************)
(* Jobs with a record of the results an escrow shows while somebody reads  *)
(* them: a history variable, which no step of Jobs reads.                  *)
(***************************************************************************)
EXTENDS Jobs

VARIABLE shown   \* shown[t]: the final results the escrow of t had since t started

historyVars == <<vars, shown>>

HistoryInit == Init /\ shown = [t \in Tasks |-> {}]

(* A task in progress takes note of what the chain has for its escrow. *)
Observe ==
    shown' = [t \in Tasks |->
                IF status'[t] = "running" /\ jobId'[t] # None
                  THEN shown[t] \cup {chain'.final[jobId'[t]]} ELSE shown[t]]

HistoryNext == Next /\ Observe

HistorySpec == HistoryInit /\ [][HistoryNext]_historyVars

(***************************************************************************)
(* finalResults returns results that the chain had for the escrow at some  *)
(* moment of the operation: not those that were replaced, or aborted with  *)
(* the escrow, before it was called, though they may be so by the time it  *)
(* returns.                                                                *)
(***************************************************************************)
ResultsReadAreFresh ==
    \A t \in Tasks :
        status[t] = "done" /\ Asked(t, "finalResults") => value[t] \in shown[t]
===============================================================================
