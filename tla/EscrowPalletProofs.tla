--------------------------- MODULE EscrowPalletProofs ---------------------------
(***************************************************************************)
(* What the outcomes of EscrowPallet have in common, for any chain and any *)
(* call: their types, their tags and payloads, and what they do to the     *)
(* life of an escrow.                                                      *)
(***************************************************************************)
EXTENDS EscrowPallet, TLAPS

(* Calls as the extrinsics of Jobs are: the id is known where the pallet looks at it. *)
GoodCall(call) ==
    /\ call.who \in Accounts
    /\ call.other \in Accounts
    /\ call.content \in Contents
    /\ call.amount \in Nat
    /\ call.kind = "create" => call.factory \in FactoryIds
    /\ call.kind \notin {"create", "createFactory"} => call.id \in EscrowIds

(* Types of an outcome, with the event its call may show. *)
GoodOutcome(call, o) ==
    /\ o.chain \in Chains
    /\ o.tag \in {"found", "missing", "untrusted", "module", "other"}
    /\ o.tag = "found" =>
           \/ call.kind \in {"create", "createFactory"} /\ o.payload \in EscrowIds
           \/ call.kind \in {"fund", "bulkPayout", "cancel"} /\ o.payload = call.id
           \/ call.kind = "noteIntermediateResults" /\ o.payload = call.content
    /\ o.tag = "missing" =>
           /\ call.kind \notin {"create", "createFactory", "bulkPayout", "noteIntermediateResults"}
           /\ call.kind = "fund" => call.amount = 0

LEMMA Fields ==
    ASSUME NEW ch \in Chains
    PROVE  /\ ch.counter \in Nat
           /\ ch.factories \in Nat
           /\ ch.factory \in [EscrowIds -> FactoryIds \cup {None}]
           /\ ch.escrow \in [EscrowIds -> EscrowInfo \cup {None}]
           /\ ch.trusted \in [EscrowIds -> SUBSET Accounts]
           /\ ch.final \in [EscrowIds -> Contents \cup {None}]
           /\ ch.free \in [Accounts -> Nat]
           /\ ch.held \in [EscrowIds -> Nat]
BY DEF Chains

LEMMA GuardedCases ==
    ASSUME NEW ch, NEW call, NEW allowed, NEW successes,
           NEW o \in Guarded(ch, call, allowed, successes)
    PROVE  \/ o = Outcome("untrusted", None, ch)
           \/ o = Outcome("module", None, ch)
           \/ o \in successes /\ allowed /\ Exists(ch, call.id)
BY DEF Guarded

(* An escrow's record is that of an EscrowInfo, whose status may be replaced. *)
LEMMA InfoTyped ==
    ASSUME NEW ch \in Chains, NEW id \in EscrowIds, Exists(ch, id)
    PROVE  /\ ch.escrow[id] \in EscrowInfo
           /\ ch.escrow[id].canceller \in Accounts
           /\ ch.escrow[id].status \in EscrowStatus
BY Fields DEF Exists, EscrowInfo

LEMMA StatusTyped ==
    ASSUME NEW ch \in Chains, NEW id \in EscrowIds, Exists(ch, id), NEW status \in EscrowStatus
    PROVE  LET info == [ch.escrow[id] EXCEPT !.status = status]
           IN /\ WithStatus(ch, id, status) = [ch EXCEPT !.escrow = [ch.escrow EXCEPT ![id] = info]]
              /\ info \in EscrowInfo
              /\ info.status = status
              /\ WithStatus(ch, id, status) \in Chains
<1> DEFINE info == [ch.escrow[id] EXCEPT !.status = status]
           escrows == [ch.escrow EXCEPT ![id] = info]
<1>1. WithStatus(ch, id, status) = [ch EXCEPT !.escrow = escrows]
  BY DEF WithStatus
<1>2. info \in EscrowInfo /\ info.status = status
  BY InfoTyped DEF EscrowInfo
<1>3. escrows \in [EscrowIds -> EscrowInfo \cup {None}]
  BY <1>2, Fields
<1>4. [ch EXCEPT !.escrow = escrows] \in Chains
  BY <1>3 DEF Chains
<1> QED
  BY <1>1, <1>2, <1>4

LEMMA StatusShows ==
    ASSUME NEW ch \in Chains, NEW id \in EscrowIds, Exists(ch, id), NEW status \in EscrowStatus
    PROVE  /\ Exists(WithStatus(ch, id, status), id)
           /\ WithStatus(ch, id, status).escrow[id].status = status
<1> DEFINE info == [ch.escrow[id] EXCEPT !.status = status]
           after == WithStatus(ch, id, status)
<1>1. /\ after = [ch EXCEPT !.escrow = [ch.escrow EXCEPT ![id] = info]]
      /\ info \in EscrowInfo
      /\ info.status = status
  BY StatusTyped
<1> HIDE DEF info, after
<1>2. after.escrow[id] = info
  BY <1>1, Fields DEF Chains
<1>3. info # None
  BY <1>1, PalletAssumption DEF PalletAssumption
<1> QED
  BY <1>1, <1>2, <1>3 DEF Exists, after

LEMMA RefundTyped ==
    ASSUME NEW ch \in Chains, NEW id \in EscrowIds, Exists(ch, id)
    PROVE  /\ Refunded(ch, id) \in Chains
           /\ Refunded(ch, id).escrow = ch.escrow
           /\ Refunded(ch, id).final = ch.final
           /\ Refunded(ch, id).counter = ch.counter
<1> DEFINE held == [ch.held EXCEPT ![id] = 0]
           free == [ch.free EXCEPT ![ch.escrow[id].canceller] = @ + ch.held[id]]
<1>1. Refunded(ch, id) = [ch EXCEPT !.held = held, !.free = free]
  BY DEF Refunded
<1>2. held \in [EscrowIds -> Nat] /\ free \in [Accounts -> Nat]
  BY Fields, InfoTyped
<1> QED
  BY <1>1, <1>2 DEF Chains

(***************************************************************************)
(* What a call may make of the escrows: the escrow it is about takes one   *)
(* step of its life, and no other changes.                                 *)
(***************************************************************************)
OpensNext(ch, after, id) ==
    /\ id = ch.counter + 1
    /\ after.counter = id
    /\ \E info \in EscrowInfo :
           info.status = "Pending" /\ after.escrow = [ch.escrow EXCEPT ![id] = info]
    /\ after.final = ch.final

MovesOn(ch, after, id, from, to) ==
    /\ Exists(ch, id)
    /\ ch.escrow[id].status \in from
    /\ after.counter = ch.counter
    /\ \E info \in EscrowInfo :
           info.status \in to /\ after.escrow = [ch.escrow EXCEPT ![id] = info]
    /\ after.final = ch.final

Removed(ch, after, id) ==
    /\ Open(ch, id)
    /\ after.counter = ch.counter
    /\ after.escrow = [ch.escrow EXCEPT ![id] = None]
    /\ after.final = [ch.final EXCEPT ![id] = None]

HasResults(ch, after, id) ==
    /\ Editable(ch, id)
    /\ after.counter = ch.counter
    /\ after.escrow = ch.escrow
    /\ \E x \in Contents : after.final = [ch.final EXCEPT ![id] = x]

SameLives(ch, after) ==
    after.counter = ch.counter /\ after.escrow = ch.escrow /\ after.final = ch.final

OneStepOfLife(ch, after) ==
    \/ SameLives(ch, after)
    \/ \E id \in EscrowIds :
           \/ OpensNext(ch, after, id)
           \/ MovesOn(ch, after, id, {"Pending", "Partial"}, {"Partial", "Paid", "Cancelled"})
           \/ MovesOn(ch, after, id, {"Paid"}, {"Complete"})
           \/ Removed(ch, after, id)
           \/ HasResults(ch, after, id)

(* A guarded call does nothing, or what its success does. *)
LEMMA GuardedGood ==
    ASSUME NEW ch \in Chains, NEW call, NEW allowed, NEW tag, NEW payload, NEW after,
           NEW o \in Guarded(ch, call, allowed, {Outcome(tag, payload, after)}),
           (allowed /\ Exists(ch, call.id)) =>
               GoodOutcome(call, Outcome(tag, payload, after)) /\ OneStepOfLife(ch, after)
    PROVE  GoodOutcome(call, o) /\ OneStepOfLife(ch, o.chain)
<1>1. CASE \E t \in {"untrusted", "module"} : o = Outcome(t, None, ch)
  BY <1>1 DEF GoodOutcome, Outcome, OneStepOfLife, SameLives
<1>2. CASE o = Outcome(tag, payload, after) /\ allowed /\ Exists(ch, call.id)
  BY <1>2 DEF Outcome
<1> QED
  BY <1>1, <1>2, GuardedCases

LEMMA CreateFactoryGood ==
    ASSUME NEW ch \in Chains, NEW call, GoodCall(call), call.kind = "createFactory",
           NEW o \in CreateFactory(ch, call)
    PROVE  GoodOutcome(call, o) /\ OneStepOfLife(ch, o.chain)
<1> DEFINE id == ch.factories + 1
<1>1. CASE o = Outcome("other", None, ch)
  BY <1>1 DEF GoodOutcome, Outcome, OneStepOfLife, SameLives
<1>2. CASE id \in FactoryIds /\ o = Outcome("found", id, [ch EXCEPT !.factories = id])
  <2>1. [ch EXCEPT !.factories = id] \in Chains
    BY DEF Chains
  <2>2. SameLives(ch, [ch EXCEPT !.factories = id])
    BY DEF SameLives, Chains
  <2> QED
    BY <1>2, <2>1, <2>2 DEF GoodOutcome, Outcome, OneStepOfLife, FactoryIds, EscrowIds
<1> QED
  BY <1>1, <1>2 DEF CreateFactory

LEMMA CreatedTyped ==
    ASSUME NEW ch \in Chains, NEW n \in Nat, NEW f \in [EscrowIds -> FactoryIds \cup {None}],
           NEW e \in [EscrowIds -> EscrowInfo \cup {None}], NEW t \in [EscrowIds -> SUBSET Accounts]
    PROVE  [ch EXCEPT !.counter = n, !.factory = f, !.escrow = e, !.trusted = t] \in Chains
BY DEF Chains

LEMMA CreateGood ==
    ASSUME NEW ch \in Chains, NEW call, GoodCall(call), call.kind = "create",
           NEW o \in Create(ch, call)
    PROVE  GoodOutcome(call, o) /\ OneStepOfLife(ch, o.chain)
<1> DEFINE id == ch.counter + 1
           info == [status |-> "Pending", canceller |-> call.who]
           factory == [ch.factory EXCEPT ![id] = call.factory]
           escrow == [ch.escrow EXCEPT ![id] = info]
           trusted == [ch.trusted EXCEPT ![id] = {call.who} \cup Oracles]
           after == [ch EXCEPT !.counter = id, !.factory = factory, !.escrow = escrow,
                               !.trusted = trusted]
<1>1. CASE o = Outcome("module", None, ch)
  BY <1>1 DEF GoodOutcome, Outcome, OneStepOfLife, SameLives
<1>2. CASE id \in EscrowIds /\ o = Outcome("found", id, after)
  <2>1. info \in EscrowInfo /\ info.status = "Pending"
    BY DEF GoodCall, EscrowInfo, EscrowStatus
  <2>2. /\ factory \in [EscrowIds -> FactoryIds \cup {None}]
        /\ escrow \in [EscrowIds -> EscrowInfo \cup {None}]
        /\ trusted \in [EscrowIds -> SUBSET Accounts]
    BY <1>2, <2>1, Fields, PalletAssumption DEF GoodCall, PalletAssumption
  <2>n. id \in Nat
    BY Fields
  <2>3. after \in Chains
    <3> HIDE DEF id, factory, escrow, trusted
    <3> QED
      BY <2>n, <2>2, CreatedTyped
  <2>4. /\ after.counter = id
        /\ after.escrow = escrow
        /\ after.final = ch.final
    BY DEF Chains
  <2>5. OpensNext(ch, after, id)
    BY <2>1, <2>4 DEF OpensNext
  <2> QED
    BY <1>2, <2>3, <2>5 DEF GoodOutcome, Outcome, OneStepOfLife
<1>3. Create(ch, call) = {Outcome("module", None, ch)} \cup
                         IF id \notin EscrowIds THEN {} ELSE {Outcome("found", id, after)}
  BY DEF Create
<1> QED
  BY <1>1, <1>2, <1>3

LEMMA TransferGood ==
    ASSUME NEW ch \in Chains, NEW call, GoodCall(call), call.kind = "fund",
           NEW o \in Transfer(ch, call)
    PROVE  GoodOutcome(call, o) /\ OneStepOfLife(ch, o.chain)
<1> DEFINE free == [ch.free EXCEPT ![call.who] = @ - call.amount]
           held == [ch.held EXCEPT ![call.id] = @ + call.amount]
           after == [ch EXCEPT !.free = free, !.held = held]
<1>1. CASE o = Outcome("module", None, ch) \/ (call.amount = 0 /\ o = Outcome("missing", None, ch))
  BY <1>1 DEF GoodOutcome, Outcome, OneStepOfLife, SameLives
<1>2. CASE ch.free[call.who] >= call.amount /\ o = Outcome("found", call.id, after)
  <2>1. free \in [Accounts -> Nat] /\ held \in [EscrowIds -> Nat]
    BY <1>2, Fields DEF GoodCall
  <2>2. after \in Chains /\ SameLives(ch, after)
    BY <2>1 DEF Chains, SameLives
  <2> QED
    BY <1>2, <2>2 DEF GoodOutcome, Outcome, OneStepOfLife
<1>3. ch.free[call.who] \in Nat /\ call.amount \in Nat
  BY Fields DEF GoodCall
<1> QED
  BY <1>1, <1>2, <1>3 DEF Transfer

LEMMA AddTrustedHandlersGood ==
    ASSUME NEW ch \in Chains, NEW call, GoodCall(call), call.kind = "addTrustedHandlers",
           NEW o \in AddTrustedHandlers(ch, call)
    PROVE  GoodOutcome(call, o) /\ OneStepOfLife(ch, o.chain)
<1> DEFINE trusted == [ch.trusted EXCEPT ![call.id] = @ \cup {call.other}]
           after == [ch EXCEPT !.trusted = trusted]
<1>1. trusted \in [EscrowIds -> SUBSET Accounts]
  BY Fields DEF GoodCall
<1>2. after \in Chains /\ SameLives(ch, after)
  BY <1>1 DEF Chains, SameLives
<1>3. o \in Guarded(ch, call, TRUE, {Outcome("missing", None, after)})
  BY DEF AddTrustedHandlers
<1> HIDE DEF after
<1>4. GoodOutcome(call, Outcome("missing", None, after)) /\ OneStepOfLife(ch, after)
  BY <1>2 DEF GoodOutcome, Outcome, OneStepOfLife
<1> QED
  BY <1>3, <1>4, GuardedGood

LEMMA BulkPayoutGood ==
    ASSUME NEW ch \in Chains, NEW call, GoodCall(call), call.kind = "bulkPayout",
           NEW o \in BulkPayout(ch, call)
    PROVE  GoodOutcome(call, o) /\ OneStepOfLife(ch, o.chain)
<1> DEFINE left == ch.held[call.id] - call.amount
           paid == IF left = 0 THEN "Paid" ELSE "Partial"
           moved == WithStatus(ch, call.id, paid)
           held == [moved.held EXCEPT ![call.id] = left]
           free == [moved.free EXCEPT ![call.other] = @ + call.amount]
           after == [moved EXCEPT !.held = held, !.free = free]
           allowed == Open(ch, call.id) /\ call.amount > 0 /\ call.amount <= ch.held[call.id]
<1>1. o \in Guarded(ch, call, allowed, {Outcome("found", call.id, after)})
  BY DEF BulkPayout
<1>2. ASSUME allowed, Exists(ch, call.id)
      PROVE  /\ GoodOutcome(call, Outcome("found", call.id, after))
             /\ OneStepOfLife(ch, after)
  <2> DEFINE info == [ch.escrow[call.id] EXCEPT !.status = paid]
  <2>1. /\ moved \in Chains
        /\ moved = [ch EXCEPT !.escrow = [ch.escrow EXCEPT ![call.id] = info]]
        /\ info \in EscrowInfo
        /\ info.status = paid
    <3>1. call.id \in EscrowIds /\ paid \in EscrowStatus
      BY DEF GoodCall, EscrowStatus
    <3> HIDE DEF paid
    <3> QED
      BY <1>2, <3>1, StatusTyped
  <2>2. left \in Nat
    BY <1>2, Fields DEF GoodCall
  <2> HIDE DEF moved, left
  <2>3. held \in [EscrowIds -> Nat] /\ free \in [Accounts -> Nat]
    BY <2>1, <2>2, Fields DEF GoodCall
  <2> HIDE DEF held, free, info
  <2>4. after \in Chains
    BY <2>1, <2>3 DEF Chains
  <2>5. /\ after.counter = ch.counter
        /\ after.escrow = [ch.escrow EXCEPT ![call.id] = info]
        /\ after.final = ch.final
    BY <2>1, <2>3 DEF Chains
  <2>6. MovesOn(ch, after, call.id, {"Pending", "Partial"}, {"Partial", "Paid", "Cancelled"})
    BY <1>2, <2>1, <2>5 DEF MovesOn, Open
  <2> QED
    BY <2>4, <2>6 DEF GoodOutcome, Outcome, OneStepOfLife, GoodCall
<1> HIDE DEF after, allowed
<1> QED
  BY <1>1, <1>2, GuardedGood

LEMMA StoreFinalResultsGood ==
    ASSUME NEW ch \in Chains, NEW call, GoodCall(call), call.kind = "storeFinalResults",
           NEW o \in StoreFinalResults(ch, call)
    PROVE  GoodOutcome(call, o) /\ OneStepOfLife(ch, o.chain)
<1> DEFINE final == [ch.final EXCEPT ![call.id] = call.content]
           after == [ch EXCEPT !.final = final]
<1>1. final \in [EscrowIds -> Contents \cup {None}]
  BY Fields DEF GoodCall
<1>2. /\ after \in Chains
      /\ after.counter = ch.counter
      /\ after.escrow = ch.escrow
      /\ after.final = final
  BY <1>1 DEF Chains
<1>3. o \in Guarded(ch, call, Editable(ch, call.id), {Outcome("missing", None, after)})
  BY DEF StoreFinalResults
<1> HIDE DEF after
<1>4. Editable(ch, call.id) => HasResults(ch, after, call.id)
  BY <1>2 DEF HasResults, GoodCall
<1>5. Editable(ch, call.id) =>
          GoodOutcome(call, Outcome("missing", None, after)) /\ OneStepOfLife(ch, after)
  BY <1>2, <1>4 DEF GoodOutcome, Outcome, OneStepOfLife, GoodCall
<1> QED
  BY <1>3, <1>5, GuardedGood

LEMMA NoteIntermediateResultsGood ==
    ASSUME NEW ch \in Chains, NEW call, GoodCall(call), call.kind = "noteIntermediateResults",
           NEW o \in NoteIntermediateResults(ch, call)
    PROVE  GoodOutcome(call, o) /\ OneStepOfLife(ch, o.chain)
<1>1. GoodOutcome(call, Outcome("found", call.content, ch)) /\ OneStepOfLife(ch, ch)
  BY DEF GoodOutcome, Outcome, OneStepOfLife, SameLives
<1> QED
  BY <1>1, GuardedGood DEF NoteIntermediateResults

LEMMA AbortGood ==
    ASSUME NEW ch \in Chains, NEW call, GoodCall(call), call.kind = "abort",
           NEW o \in Abort(ch, call)
    PROVE  GoodOutcome(call, o) /\ OneStepOfLife(ch, o.chain)
<1> DEFINE back == Refunded(ch, call.id)
           escrow == [back.escrow EXCEPT ![call.id] = None]
           trusted == [back.trusted EXCEPT ![call.id] = {}]
           final == [back.final EXCEPT ![call.id] = None]
           after == [back EXCEPT !.escrow = escrow, !.trusted = trusted, !.final = final]
<1>1. o \in Guarded(ch, call, Open(ch, call.id), {Outcome("missing", None, after)})
  BY DEF Abort
<1>2. ASSUME Open(ch, call.id)
      PROVE  GoodOutcome(call, Outcome("missing", None, after)) /\ OneStepOfLife(ch, after)
  <2>1. /\ back \in Chains
        /\ back.escrow = ch.escrow
        /\ back.final = ch.final
        /\ back.counter = ch.counter
    BY <1>2, RefundTyped DEF GoodCall, Open
  <2> HIDE DEF back
  <2>2. /\ escrow \in [EscrowIds -> EscrowInfo \cup {None}]
        /\ trusted \in [EscrowIds -> SUBSET Accounts]
        /\ final \in [EscrowIds -> Contents \cup {None}]
    BY <2>1, Fields DEF GoodCall
  <2>3. escrow = [ch.escrow EXCEPT ![call.id] = None] /\ final = [ch.final EXCEPT ![call.id] = None]
    BY <2>1
  <2> HIDE DEF escrow, trusted, final
  <2>4. /\ after \in Chains
        /\ after.counter = ch.counter
        /\ after.escrow = escrow
        /\ after.final = final
    BY <2>1, <2>2 DEF Chains
  <2>5. Removed(ch, after, call.id)
    BY <1>2, <2>3, <2>4 DEF Removed
  <2> HIDE DEF after
  <2> QED
    BY <2>4, <2>5 DEF GoodOutcome, Outcome, OneStepOfLife, GoodCall
<1> HIDE DEF after
<1> QED
  BY <1>1, <1>2, GuardedGood

LEMMA CancelGood ==
    ASSUME NEW ch \in Chains, NEW call, GoodCall(call), call.kind = "cancel",
           NEW o \in Cancel(ch, call)
    PROVE  GoodOutcome(call, o) /\ OneStepOfLife(ch, o.chain)
<1> DEFINE back == Refunded(ch, call.id)
           after == WithStatus(back, call.id, "Cancelled")
           tag == IF ch.held[call.id] > 0 THEN "found" ELSE "missing"
           payload == IF ch.held[call.id] > 0 THEN call.id ELSE None
<1>1. o \in Guarded(ch, call, Open(ch, call.id), {Outcome(tag, payload, after)})
  BY DEF Cancel
<1>2. ASSUME Open(ch, call.id)
      PROVE  GoodOutcome(call, Outcome(tag, payload, after)) /\ OneStepOfLife(ch, after)
  <2> DEFINE info == [back.escrow[call.id] EXCEPT !.status = "Cancelled"]
  <2>1. /\ back \in Chains
        /\ back.escrow = ch.escrow
        /\ back.final = ch.final
        /\ back.counter = ch.counter
    BY <1>2, RefundTyped DEF GoodCall, Open
  <2> HIDE DEF back
  <2>2. call.id \in EscrowIds /\ Exists(back, call.id) /\ "Cancelled" \in EscrowStatus
    BY <1>2, <2>1 DEF GoodCall, Open, Exists, EscrowStatus
  <2>3. /\ after \in Chains
        /\ after = [back EXCEPT !.escrow = [back.escrow EXCEPT ![call.id] = info]]
        /\ info \in EscrowInfo
        /\ info.status = "Cancelled"
    BY <2>1, <2>2, StatusTyped
  <2> HIDE DEF info, after
  <2>4. /\ after.counter = ch.counter
        /\ after.escrow = [ch.escrow EXCEPT ![call.id] = info]
        /\ after.final = ch.final
    BY <2>1, <2>3 DEF Chains
  <2>5. MovesOn(ch, after, call.id, {"Pending", "Partial"}, {"Partial", "Paid", "Cancelled"})
    BY <1>2, <2>3, <2>4 DEF MovesOn, Open
  <2>6. GoodOutcome(call, Outcome(tag, payload, after))
    BY <2>3 DEF GoodOutcome, Outcome
  <2> QED
    BY <2>2, <2>5, <2>6 DEF OneStepOfLife
<1> HIDE DEF after, tag, payload
<1> QED
  BY <1>1, <1>2, GuardedGood

LEMMA CompleteGood ==
    ASSUME NEW ch \in Chains, NEW call, GoodCall(call), call.kind = "complete",
           NEW o \in Complete(ch, call)
    PROVE  GoodOutcome(call, o) /\ OneStepOfLife(ch, o.chain)
<1> DEFINE after == WithStatus(ch, call.id, "Complete")
           allowed == ch.escrow[call.id].status = "Paid"
<1>1. o \in Guarded(ch, call, allowed, {Outcome("missing", None, after)})
  BY DEF Complete
<1>2. ASSUME allowed, Exists(ch, call.id)
      PROVE  GoodOutcome(call, Outcome("missing", None, after)) /\ OneStepOfLife(ch, after)
  <2> DEFINE info == [ch.escrow[call.id] EXCEPT !.status = "Complete"]
  <2>1. call.id \in EscrowIds /\ "Complete" \in EscrowStatus
    BY DEF GoodCall, EscrowStatus
  <2>2. /\ after \in Chains
        /\ after = [ch EXCEPT !.escrow = [ch.escrow EXCEPT ![call.id] = info]]
        /\ info \in EscrowInfo
        /\ info.status = "Complete"
    BY <1>2, <2>1, StatusTyped
  <2> HIDE DEF info, after
  <2>3. /\ after.counter = ch.counter
        /\ after.escrow = [ch.escrow EXCEPT ![call.id] = info]
        /\ after.final = ch.final
    BY <2>2 DEF Chains
  <2>4. MovesOn(ch, after, call.id, {"Paid"}, {"Complete"})
    BY <1>2, <2>2, <2>3 DEF MovesOn
  <2> QED
    BY <2>1, <2>2, <2>4 DEF GoodOutcome, Outcome, OneStepOfLife
<1> HIDE DEF after, allowed
<1> QED
  BY <1>1, <1>2, GuardedGood

(***************************************************************************)
(* Whatever a call comes to, the chain keeps its type, the event is one    *)
(* that call can show, and at most one escrow takes a step of its life.    *)
(***************************************************************************)
LEMMA DispatchGood ==
    ASSUME NEW ch \in Chains, NEW call, GoodCall(call),
           call.kind \in {"createFactory", "create", "fund", "addTrustedHandlers", "bulkPayout",
                          "storeFinalResults", "abort", "cancel", "noteIntermediateResults",
                          "complete"},
           NEW o \in Dispatch(ch, call)
    PROVE  GoodOutcome(call, o) /\ OneStepOfLife(ch, o.chain)
<1>1. CASE call.kind = "createFactory"
  BY <1>1, CreateFactoryGood DEF Dispatch
<1>2. CASE call.kind = "create"
  BY <1>2, CreateGood DEF Dispatch
<1>3. CASE call.kind = "fund"
  BY <1>3, TransferGood DEF Dispatch
<1>4. CASE call.kind = "addTrustedHandlers"
  BY <1>4, AddTrustedHandlersGood DEF Dispatch
<1>5. CASE call.kind = "bulkPayout"
  BY <1>5, BulkPayoutGood DEF Dispatch
<1>6. CASE call.kind = "storeFinalResults"
  BY <1>6, StoreFinalResultsGood DEF Dispatch
<1>7. CASE call.kind = "noteIntermediateResults"
  BY <1>7, NoteIntermediateResultsGood DEF Dispatch
<1>8. CASE call.kind = "abort"
  BY <1>8, AbortGood DEF Dispatch
<1>9. CASE call.kind = "cancel"
  BY <1>9, CancelGood DEF Dispatch
<1>10. CASE call.kind = "complete"
  BY <1>10, CompleteGood DEF Dispatch
<1> QED
  BY <1>1, <1>2, <1>3, <1>4, <1>5, <1>6, <1>7, <1>8, <1>9, <1>10

(* Calls that close an escrow. *)
Closers == {"abort", "cancel", "complete"}

(* A call closes an escrow that was not closed before, if it has an effect at all. *)
LEMMA DispatchCloses ==
    ASSUME NEW ch \in Chains, NEW call, GoodCall(call), call.kind \in Closers,
           NEW o \in Dispatch(ch, call), o.tag \notin {"untrusted", "module", "other"}
    PROVE  /\ Exists(ch, call.id)
           /\ ch.escrow[call.id].status \in {"Pending", "Partial", "Paid"}
           /\ Closed(o.chain, call.id, call.kind)
<1>1. call.id \in EscrowIds
  BY DEF GoodCall, Closers
<1>2. ASSUME NEW allowed, NEW tag, NEW payload, NEW after,
             o \in Guarded(ch, call, allowed, {Outcome(tag, payload, after)})
      PROVE  o.chain = after /\ allowed /\ Exists(ch, call.id)
  BY <1>2, GuardedCases DEF Outcome
<1>3. CASE call.kind = "abort"
  <2> DEFINE back == Refunded(ch, call.id)
             after == [back EXCEPT !.escrow[call.id] = None, !.trusted[call.id] = {}, !.final[call.id] = None]
             allowed == Open(ch, call.id)
  <2>1. o \in Guarded(ch, call, allowed, {Outcome("missing", None, after)})
    BY <1>3 DEF Dispatch, Abort
  <2>2. after.escrow[call.id] = None
    BY <1>1 DEF Refunded, Chains
  <2> HIDE DEF after
  <2>3. o.chain = after /\ allowed /\ Exists(ch, call.id)
    <3> HIDE DEF allowed
    <3> QED
      BY <1>2, <2>1
  <2> QED
    BY <1>3, <2>2, <2>3 DEF Closed, Exists, Open
<1>4. CASE call.kind = "cancel"
  <2> DEFINE back == Refunded(ch, call.id)
             after == WithStatus(back, call.id, "Cancelled")
             tag == IF ch.held[call.id] > 0 THEN "found" ELSE "missing"
             payload == IF ch.held[call.id] > 0 THEN call.id ELSE None
             allowed == Open(ch, call.id)
  <2>1. o \in Guarded(ch, call, allowed, {Outcome(tag, payload, after)})
    BY <1>4 DEF Dispatch, Cancel
  <2> HIDE DEF after, tag, payload
  <2>2. o.chain = after /\ allowed /\ Exists(ch, call.id)
    <3> HIDE DEF allowed
    <3> QED
      BY <1>2, <2>1
  <2>3. back \in Chains /\ Exists(back, call.id) /\ "Cancelled" \in EscrowStatus
    BY <1>1, <2>2, RefundTyped DEF Exists, EscrowStatus
  <2> HIDE DEF back
  <2>4. Exists(after, call.id) /\ after.escrow[call.id].status = "Cancelled"
    BY <1>1, <2>3, StatusShows DEF after
  <2> QED
    BY <1>4, <2>2, <2>4 DEF Closed, Open
<1>5. CASE call.kind = "complete"
  <2> DEFINE after == WithStatus(ch, call.id, "Complete")
             allowed == ch.escrow[call.id].status = "Paid"
  <2>1. o \in Guarded(ch, call, allowed, {Outcome("missing", None, after)})
    BY <1>5 DEF Dispatch, Complete
  <2> HIDE DEF after
  <2>2. o.chain = after /\ allowed /\ Exists(ch, call.id)
    <3> HIDE DEF allowed
    <3> QED
      BY <1>2, <2>1
  <2>3. Exists(after, call.id) /\ after.escrow[call.id].status = "Complete"
    BY <1>1, <2>2, StatusShows DEF after, EscrowStatus
  <2> QED
    BY <1>5, <2>2, <2>3 DEF Closed
<1> QED
  BY <1>3, <1>4, <1>5 DEF Closers

(* And an escrow that was closed stays as it is. *)
LEMMA LifeKeepsClosed ==
    ASSUME NEW ch \in Chains, NEW after \in Chains, OneStepOfLife(ch, after),
           NEW id \in EscrowIds, id <= ch.counter, NEW op \in Closers, Closed(ch, id, op)
    PROVE  id <= after.counter /\ Closed(after, id, op)
<1>1. /\ ch.counter \in Nat
      /\ ch.escrow \in [EscrowIds -> EscrowInfo \cup {None}]
      /\ EscrowIds \subseteq Nat
  BY Fields DEF EscrowIds
<1>2. ~ (Exists(ch, id) /\ ch.escrow[id].status \in {"Pending", "Partial", "Paid"})
  BY DEF Closed, Closers
<1>3. id <= after.counter /\ after.escrow[id] = ch.escrow[id]
  <2>1. CASE SameLives(ch, after)
    BY <2>1 DEF SameLives
  <2>2. ASSUME NEW n \in EscrowIds, OpensNext(ch, after, n)
        PROVE  id <= after.counter /\ after.escrow[id] = ch.escrow[id]
    <3>1. n = ch.counter + 1 /\ after.counter = n
      BY <2>2 DEF OpensNext
    <3>2. n # id /\ id <= n
      BY <1>1, <3>1
    <3> QED
      BY <1>1, <2>2, <3>1, <3>2 DEF OpensNext
  <2>3. ASSUME NEW n \in EscrowIds, NEW from \in SUBSET {"Pending", "Partial", "Paid"}, NEW to,
               MovesOn(ch, after, n, from, to)
        PROVE  id <= after.counter /\ after.escrow[id] = ch.escrow[id]
    BY <1>1, <1>2, <2>3 DEF MovesOn
  <2>4. ASSUME NEW n \in EscrowIds, Removed(ch, after, n)
        PROVE  id <= after.counter /\ after.escrow[id] = ch.escrow[id]
    BY <1>1, <1>2, <2>4 DEF Removed, Open
  <2>5. ASSUME NEW n \in EscrowIds, HasResults(ch, after, n)
        PROVE  id <= after.counter /\ after.escrow[id] = ch.escrow[id]
    BY <2>5 DEF HasResults
  <2> QED
    BY <2>1, <2>2, <2>3, <2>4, <2>5 DEF OneStepOfLife
<1> QED
  BY <1>3 DEF Closed, Exists, Closers

LEMMA LifeCounts ==
    ASSUME NEW ch \in Chains, NEW after, OneStepOfLife(ch, after)
    PROVE  ch.counter <= after.counter
<1>1. ch.counter \in Nat
  BY Fields
<1>2. after.counter = ch.counter \/ after.counter = ch.counter + 1
  BY DEF OneStepOfLife, SameLives, OpensNext, MovesOn, Removed, HasResults
<1> QED
  BY <1>1, <1>2

(* Only numbers that were given are numbers of escrows. *)
NumberedOn(ch) == \A id \in EscrowIds : Exists(ch, id) => id <= ch.counter

LEMMA LifeKeepsNumbers ==
    ASSUME NEW ch \in Chains, NEW after \in Chains, OneStepOfLife(ch, after), NumberedOn(ch)
    PROVE  NumberedOn(after)
<1> SUFFICES ASSUME NEW id \in EscrowIds, Exists(after, id)
             PROVE  id <= after.counter
  BY DEF NumberedOn
<1>1. /\ ch.counter \in Nat
      /\ ch.escrow \in [EscrowIds -> EscrowInfo \cup {None}]
      /\ EscrowIds \subseteq Nat
  BY Fields DEF EscrowIds
<1>2. CASE SameLives(ch, after) \/ \E n \in EscrowIds : HasResults(ch, after, n)
  BY <1>2 DEF SameLives, HasResults, NumberedOn, Exists
<1>3. ASSUME NEW n \in EscrowIds, OpensNext(ch, after, n)
      PROVE  id <= after.counter
  <2>1. n = ch.counter + 1 /\ after.counter = n
    BY <1>3 DEF OpensNext
  <2>2. CASE id = n
    BY <1>1, <2>1, <2>2
  <2>3. CASE id # n
    <3>1. Exists(ch, id)
      BY <1>1, <1>3, <2>3 DEF OpensNext, Exists
    <3> QED
      BY <1>1, <2>1, <3>1 DEF NumberedOn
  <2> QED
    BY <2>2, <2>3
<1>4. ASSUME NEW n \in EscrowIds, NEW from, NEW to, MovesOn(ch, after, n, from, to)
      PROVE  id <= after.counter
  BY <1>1, <1>4 DEF MovesOn, NumberedOn, Exists
<1>5. ASSUME NEW n \in EscrowIds, Removed(ch, after, n)
      PROVE  id <= after.counter
  BY <1>1, <1>5 DEF Removed, NumberedOn, Exists
<1> QED
  BY <1>2, <1>3, <1>4, <1>5 DEF OneStepOfLife

LEMMA GenesisTyped == Genesis \in Chains
<1>1. Owner \in Accounts /\ Existing \in Nat /\ Endowment \in Nat /\ Oracles \subseteq Accounts
  BY PalletAssumption DEF PalletAssumption
<1>2. \A id \in EscrowIds : id <= Existing => 1 \in FactoryIds
  BY PalletAssumption DEF PalletAssumption, EscrowIds, FactoryIds
<1> QED
  BY <1>1, <1>2 DEF Genesis, Chains, EscrowInfo, EscrowStatus
================================================================================
