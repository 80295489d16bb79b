-------------------------------- MODULE MCJobs --------------------------------
(* Small sets of requests for Jobs: what the tasks of an instance may be     *)
(* asked.  Alice owns the jobs, Oscar is the oracle of every manifest, Mal   *)
(* is trusted by nobody until he is added.                                   *)
EXTENDS Jobs, TLC

CONSTANTS alice, oscar, mal, doc, other, j1, j2

Ask(op, who, id, content, amount, whom) ==
    [op |-> op, job |-> j1, who |-> who, api |-> TRUE, id |-> id, content |-> content, amount |-> amount, other |-> whom]

(* Jobs launched while others are created, one funded, with nothing too, and paid *)
(* out, in part or in whole, and each cancelled, aborted or completed.            *)
FundRequests ==
    {Ask("fundEscrow", alice, 1, doc, n, alice) : n \in {0, 1}}
        \cup {Ask("bulkPayout", oscar, 1, doc, n, mal) : n \in {1, 2}}
        \cup {Ask("bulkPayout", mal, 1, doc, 1, mal),
              Ask("launch", alice, 1, doc, 1, alice),
              Ask("createEscrow", alice, 1, other, 0, alice),
              Ask("cancel", alice, 1, doc, 0, alice),
              Ask("cancel", alice, 2, doc, 0, alice),
              Ask("abort", oscar, 1, doc, 0, oscar),
              Ask("abort", oscar, 2, doc, 0, oscar),
              Ask("complete", oscar, 1, doc, 0, oscar)}

(* A launch while an oracle aborts. *)
AbortRequests ==
    {Ask("launch", alice, 1, doc, 1, alice), Ask("abort", oscar, 1, doc, 0, oscar)}

(* One of each shape of plan, on a job that exists. *)
LiveRequests ==
    {Ask("launch", alice, 1, doc, 1, alice),
     Ask("createFactory", mal, 1, doc, 0, mal),
     Ask("fundEscrow", alice, 1, doc, 0, alice),
     Ask("bulkPayout", oscar, 1, doc, 1, mal),
     Ask("addTrustedHandlers", alice, 1, doc, 0, mal),
     Ask("complete", None, 1, doc, 0, mal),
     Ask("escrow", mal, 1, doc, 0, mal),
     Ask("manifest", mal, 1, doc, 0, mal),
     Ask("isTrustedHandler", mal, 1, doc, 0, mal),
     Ask("balance", mal, 1, doc, 0, mal),
     Ask("getAllJobs", mal, 1, doc, 0, mal),
     [Ask("balance", mal, 1, doc, 0, mal) EXCEPT !.api = FALSE],
     [Ask("storeFinalResults", alice, 1, doc, 0, alice) EXCEPT !.api = FALSE],
     Ask("storeFinalResults", mal, 1, doc, 0, mal),
     Ask("noteIntermediateResults", alice, 1, doc, 0, alice),
     Ask("finalResults", mal, 1, doc, 0, mal),
     Ask("intermediateResults", alice, 1, doc, 0, alice),
     Ask("abort", oscar, 1, doc, 0, oscar)}

TaskSymmetry == Permutations(Tasks)
===============================================================================
