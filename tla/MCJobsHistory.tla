---------------------------- MODULE MCJobsHistory ----------------------------
(* Results noted, stored, replaced, aborted with their escrow, and read meanwhile. *)
EXTENDS MCJobs, JobsHistory

(* The same of another Job object. *)
Elsewhere(ask) == [ask EXCEPT !.job = j2]

(* Results noted, stored and read on two escrows of Alice's, one of them through two Jobs. *)
ResultRequests ==
    {Ask("noteIntermediateResults", alice, 1, d, 0, alice) : d \in {doc, other}}
        \cup {Ask("storeFinalResults", oscar, 1, d, 0, oscar) : d \in {doc, other}}
        \cup {Ask("noteIntermediateResults", mal, 1, doc, 0, mal),
              Ask("intermediateResults", alice, 1, doc, 0, alice),
              Elsewhere(Ask("intermediateResults", alice, 1, doc, 0, alice)),
              Ask("intermediateResults", alice, 2, doc, 0, alice),
              Ask("finalResults", mal, 1, doc, 0, mal),
              Ask("abort", oscar, 1, doc, 0, oscar)}
==============================================================================
