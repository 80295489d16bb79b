----------------------------- MODULE EscrowPallet -----------------------------
(***************************************************************************)
(* The escrow and balances pallets of the node, as src/job/job.ts calls    *)
(* them and src/job/jobReads.ts reads them.  Their code is not part of the *)
(* repository: the module keeps what the interfaces generated from the     *)
(* chain's metadata (augment-api-tx.ts, augment-api-query.ts) say of each  *)
(* call and storage item, and where these, docs/highLevel.md and the tests *)
(* leave an outcome open it offers every one.                              *)
(***************************************************************************)
EXTENDS Naturals, FiniteSets

CONSTANTS
    Accounts,     \* accounts that sign
    Oracles,      \* the reputation and recording oracles of every manifest
    MaxId,        \* bound on the ids of escrows and of factories
    Owner,        \* the account whose escrows exist at first
    Existing,     \* how many of them there are
    Endowment,    \* what every account, and each of these escrows, holds at first
    Contents,     \* documents, each standing for its url and its hash
    None          \* an empty Option

EscrowIds == 1 .. MaxId

FactoryIds == 1 .. MaxId

EscrowStatus == {"Pending", "Partial", "Paid", "Complete", "Cancelled"}

EscrowInfo == [status : EscrowStatus, canceller : Accounts]

ASSUME PalletAssumption ==
    /\ Oracles \subseteq Accounts
    /\ MaxId \in Nat
    /\ Owner \in Accounts
    /\ Existing \in 0 .. MaxId
    /\ Endowment \in Nat
    /\ None \notin Contents \cup Accounts \cup (1 .. MaxId) \cup EscrowInfo

(***************************************************************************)
(* Chain state.  An escrow's account is named by its id; it outlives the   *)
(* escrow, which abort removes from storage.                               *)
(***************************************************************************)
Chains ==
    [counter   : Nat,                                      \* escrows created so far
     factories : Nat,                                      \* factories created so far
     factory   : [EscrowIds -> FactoryIds \cup {None}],     \* the factory an escrow was created in
     escrow    : [EscrowIds -> EscrowInfo \cup {None}],
     trusted   : [EscrowIds -> SUBSET Accounts],
     final     : [EscrowIds -> Contents \cup {None}],
     free      : [Accounts -> Nat],                        \* balances of accounts
     held      : [EscrowIds -> Nat]]                       \* balances of escrow accounts

(* The chain the library meets: some escrows of Owner, open and funded, and no others. *)
Genesis ==
    [counter   |-> Existing,
     factories |-> 0,
     factory   |-> [id \in EscrowIds |-> IF id <= Existing THEN 1 ELSE None],
     escrow    |-> [id \in EscrowIds |->
                      IF id <= Existing THEN [status |-> "Pending", canceller |-> Owner] ELSE None],
     trusted   |-> [id \in EscrowIds |-> IF id <= Existing THEN {Owner} \cup Oracles ELSE {}],
     final     |-> [id \in EscrowIds |-> None],
     free      |-> [a \in Accounts |-> Endowment],
     held      |-> [id \in EscrowIds |-> IF id <= Existing THEN Endowment ELSE 0]]

--------------------------------------------------------------------------------
(* What a call may come to: its result tag, the payload of its event, and the chain after it. *)
Outcome(tag, payload, ch) == [tag |-> tag, payload |-> payload, chain |-> ch]

Exists(ch, id) == ch.escrow[id] # None

Open(ch, id) == Exists(ch, id) /\ ch.escrow[id].status \in {"Pending", "Partial"}

(* complete prohibits further editing, and nothing else is said to. *)
Editable(ch, id) == Exists(ch, id) /\ ch.escrow[id].status # "Complete"

(* How an escrow shows that it was closed. *)
Closed(ch, id, op) ==
    CASE op = "abort"    -> ~ Exists(ch, id)
      [] op = "cancel"   -> Exists(ch, id) /\ ch.escrow[id].status = "Cancelled"
      [] op = "complete" -> Exists(ch, id) /\ ch.escrow[id].status = "Complete"

WithStatus(ch, id, status) == [ch EXCEPT !.escrow[id].status = status]

(* Everything the account of id holds goes back to its canceller. *)
Refunded(ch, id) ==
    [ch EXCEPT !.held[id] = 0, !.free[ch.escrow[id].canceller] = @ + ch.held[id]]

(* What the list of active jobs of a factory may hold: all that are open, and perhaps others. *)
Listings(ch, f) ==
    LET created == {id \in EscrowIds : ch.factory[id] = f}
    IN {listed \in SUBSET created : \A id \in created : Open(ch, id) => id \in listed}

(* A call of the escrow pallet: for trusted handlers only, only if allowed, *)
(* and, escrows having an end_time, perhaps too late.                       *)
Guarded(ch, call, allowed, successes) ==
    IF ~ Exists(ch, call.id)
      THEN {Outcome(tag, None, ch) : tag \in {"untrusted", "module"}}
    ELSE IF call.who \notin ch.trusted[call.id]
      THEN {Outcome("untrusted", None, ch)}
    ELSE IF ~ allowed
      THEN {Outcome("module", None, ch)}
    ELSE successes \cup {Outcome("module", None, ch)}

CreateFactory(ch, call) ==
    LET id == ch.factories + 1
    IN {Outcome("other", None, ch)} \cup
       IF id \notin FactoryIds THEN {} ELSE
       {Outcome("found", id, [ch EXCEPT !.factories = id])}

(* Stakes out of bounds make create fail, and so may a factory that is not there; *)
(* ids are used once, in order.                                                   *)
Create(ch, call) ==
    LET id == ch.counter + 1
    IN {Outcome("module", None, ch)} \cup
       IF id \notin EscrowIds THEN {} ELSE
       {Outcome("found", id,
           [ch EXCEPT !.counter = id,
                      !.factory[id] = call.factory,
                      !.escrow[id] = [status |-> "Pending", canceller |-> call.who],
                      !.trusted[id] = {call.who} \cup Oracles])}

(* balances.transfer: no event for nothing, and a small sum cannot open an account. *)
Transfer(ch, call) ==
    IF call.amount = 0
      THEN {Outcome("missing", None, ch)}
    ELSE IF ch.free[call.who] < call.amount
      THEN {Outcome("module", None, ch)}
    ELSE {Outcome("found", call.id,
             [ch EXCEPT !.free[call.who] = @ - call.amount, !.held[call.id] = @ + call.amount])}
         \cup {Outcome("module", None, ch) : x \in IF ch.held[call.id] = 0 THEN {1} ELSE {}}

AddTrustedHandlers(ch, call) ==
    Guarded(ch, call, TRUE,
        {Outcome("missing", None, [ch EXCEPT !.trusted[call.id] = @ \cup {call.other}])})

(* All transfers or none; the escrow is Paid once nothing is left, be it at once. *)
BulkPayout(ch, call) ==
    LET left == ch.held[call.id] - call.amount
    IN Guarded(ch, call,
           Open(ch, call.id) /\ call.amount > 0 /\ call.amount <= ch.held[call.id],
           {Outcome("found", call.id,
               [WithStatus(ch, call.id, IF left = 0 THEN "Paid" ELSE "Partial")
                  EXCEPT !.held[call.id] = left, !.free[call.other] = @ + call.amount])})

StoreFinalResults(ch, call) ==
    Guarded(ch, call, Editable(ch, call.id),
        {Outcome("missing", None, [ch EXCEPT !.final[call.id] = call.content])})

NoteIntermediateResults(ch, call) ==
    Guarded(ch, call, Editable(ch, call.id), {Outcome("found", call.content, ch)})

(* Funds go back and the escrow is forgotten; its account is not. *)
Abort(ch, call) ==
    Guarded(ch, call, Open(ch, call.id),
        {Outcome("missing", None,
            [Refunded(ch, call.id) EXCEPT !.escrow[call.id] = None,
                                          !.trusted[call.id] = {},
                                          !.final[call.id] = None])})

(* With nothing to refund there is no transfer. *)
Cancel(ch, call) ==
    LET done == WithStatus(Refunded(ch, call.id), call.id, "Cancelled")
    IN Guarded(ch, call, Open(ch, call.id),
           {IF ch.held[call.id] > 0
              THEN Outcome("found", call.id, done) ELSE Outcome("missing", None, done)})

Complete(ch, call) ==
    Guarded(ch, call, ch.escrow[call.id].status = "Paid",
        {Outcome("missing", None, WithStatus(ch, call.id, "Complete"))})

Dispatch(ch, call) ==
    CASE call.kind = "createFactory"           -> CreateFactory(ch, call)
      [] call.kind = "create"                  -> Create(ch, call)
      [] call.kind = "fund"                    -> Transfer(ch, call)
      [] call.kind = "addTrustedHandlers"      -> AddTrustedHandlers(ch, call)
      [] call.kind = "bulkPayout"              -> BulkPayout(ch, call)
      [] call.kind = "storeFinalResults"       -> StoreFinalResults(ch, call)
      [] call.kind = "noteIntermediateResults" -> NoteIntermediateResults(ch, call)
      [] call.kind = "abort"                   -> Abort(ch, call)
      [] call.kind = "cancel"                  -> Cancel(ch, call)
      [] call.kind = "complete"                -> Complete(ch, call)
===============================================================================
