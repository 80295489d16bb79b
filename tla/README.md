# A verification of the HUMAN protocol API for Substrate

TLA+ models, TLC runs and TLAPS proofs for the TypeScript client library of the
HUMAN protocol escrows (`src/`) and for the express server that wraps it
(`src/express/`).  Line numbers are of the files of this repository.

## 1. The system

| component | files | state | operations |
|---|---|---|---|
| transaction helpers | `src/utils/substrate.ts` | one promise per call | `sendAndWaitFor`, `sendAndWait` |
| job writes | `src/job/job.ts` | `escrowId`, `sender`, `storedIntermediateResults` | `createFactory`, `launch`, `createEscrow`, `fundEscrow`, `addTrustedHandlers`, `bulkPayout`, `storeFinalResults`, `abort`, `cancel`, `noteIntermediateResults`, `complete` |
| job reads | `src/job/jobReads.ts` | as above, read | `escrow`, `isTrustedHandler`, `balance`, `manifest`, `intermediateResults`, `finalResults`, `getAllJobs` |
| storage | `src/storage/storage.ts` | documents in S3, under their hash | `upload`, `download` |
| express wrapper | `src/express/` | the globals `substrate` and `keyring`, the response of each request | the endpoints of three routers, `keysMiddleware`, `handleError` |
| connection setup | `src/utils/setup.ts` | the api and a keyring | `setup` |
| amounts and hashing | `src/utils/substrate.ts`, `src/job/job.ts` | none | `formatDecimals`, `hash`, the stakes of `launch` |
| escrow runtime | not in the repository; its interface in `src/typegen` | escrows, balances | the pallet's calls |
| types and interfaces, packaging | `src/types`, `src/interfaces`, `package.json` | none | none |

How they interact.  A client, or the server on behalf of an HTTP request, calls
an operation of `Job` or `JobReads`.  The operation is an `async` function: a
sequence of awaits, each an S3 request, a query of the chain or an extrinsic
sent with one of the two helpers.  A helper turns a stream of status updates
into one promise.  Tasks share the chain, S3, and the array
`storedIntermediateResults` of a `Job`; between two awaits of one, any other
may run.

What is hard in this code:

* **The pool and the forks.**  A call is signed with the nonce the chain shows
  at that moment, may be refused, replaced or evicted, and is reported from a
  block that may be retracted.  Updates may be superseded and never arrive.
* **Callbacks.**  The callback runs for every update, may call `reject` and
  then `resolve` in the same run, and runs again after the promise settled.
* **Partial failure.**  `launch` has four awaits and no rollback, the two
  operations that post results have two; the errors of the later ones are
  wrapped to tell what already happened.
* **Stale reads.**  `launch` transfers to the account of an escrow it read
  before, `finalResults` downloads a url it read before.
* **Numbers and names.**  The amounts of `launch` go through binary floats and
  `BN`, which cuts off and throws; `download` cuts a key out of a url it has
  not made, and compares no hash.
* **Order of events in the server.**  It listens before `setup` has returned,
  and the middleware answers 400 and goes on with the request.

What makes each component correct: a helper says nothing but what happened to
its call, and does say it (helpers); an operation that resolves was carried out
and one that is rejected is rejected for what happened to it, documents are
stored before their urls are posted, funds go where
they belong, and an escrow that a client was told is closed stays so (job
writes, job reads); the chain is told what the manifest says, and a url gives
the document it was made for (amounts, storage); the status of
an answer tells what became of the request, and every request gets one (express
wrapper).

## 2. Modules

| module | what it is |
|---|---|
| `CallOutcomes` | what one call may come to, and what its caller may be told of it |
| `RemoteCall` | abstract specification: the contract of one awaited call |
| `SendAndWait` | the two helpers over a node with a pool, forks and faults; implements `RemoteCall` |
| `SendAndWaitProofs` | theorems about `SendAndWait` |
| `EscrowPallet` | the runtime as the library uses it: operators on a record of the chain's state |
| `JobOperations` | abstract specification: what the caller of an operation may rely on |
| `Jobs` | the operations of `Job` and `JobReads` as concurrent tasks; awaits its calls through `RemoteCall`; implements `JobOperations` |
| `JobsHistory` | `Jobs` with a history variable: the results an escrow had while they were read |
| `EscrowPalletProofs`, `JobsProofs` | lemmas about the pallet's operators, and theorems about `Jobs` |
| `JobsResultsProofs`, `JobsHistoryProofs` | theorems about the results that tasks note, post and read |
| `Amounts`, `Storage` | pure operators: the floats and `BN`s of `launch`; keys and urls of documents |
| `Preparation` | what `launch` does before its first call, and downloads meanwhile |
| `AmountsProofs` | lemmas about the floats: how far each operation of `Amounts` is from the number meant |
| `PreparationProofs` | theorems about `Preparation` |
| `Gateway` | the express wrapper, composed with `Jobs` |
| `GatewayProofs` | theorems about `Gateway` |
| `MCSendAndWait`, `MCJobs`, `MCJobsHistory`, `MCPreparation`, `MCGateway` | instances for TLC |

The composition is by contract: `SendAndWait` is shown to implement
`RemoteCall` (by TLC in `send_safe`, for all parameters by `KeepsContract`), and
`Jobs` uses `RemoteCall` in its place, so that it has none of the helpers'
detail.  It uses less than the contract allows, though: `Jobs!Execute` lets a
call be executed once, that is, it takes the chain not to reorganise, while
`RemoteCall` allows an execution in each of several forks.  What is shown of
`Jobs` and `Gateway` holds with this restriction, and some of it only with it:
`send_reorg` shows that the id of a new escrow may be another's after a
reorganisation, and `launch` would then read and fund that other escrow
(`LaunchFundsItsEscrow`), as a status 200 may be given for a call whose block is
gone (`StatusIsTrue`).  `Gateway` extends
`Jobs`: each of its steps is one of `Jobs` or leaves it alone (`DrivesTheLibrary`).
`Preparation` looks into the first step of `launch`, which `Jobs` has as
`BadAmount` and `Upload`.

### SendAndWait

| code | model |
|---|---|
| `signAndSend(sender, cb)` fetches the nonce (line 43, 87) | `Sign`, with `ChainNonce` |
| submission, or its rejection | `Submit`: `Accept`, `Usurp`, `Refuse` |
| the node's blocks and pool | `Include`, `Retract`, `Finalize`, `Evict`, `Lose` |
| the update stream | `inbox[c]`, a queue; `Supersede` drops a waiting `inBlock` |
| the callback, `.catch` (lines 43-70, 87-111) | `Deliver`, by `Callback` |
| `if (dispatchError)` | `ErrorReply`, with `ErrorName`: only `sendAndWait` sets the name |
| `if (isInBlock or isFinalized)` | `StatusReply`, `RecordReply` |
| only the first `resolve` or `reject` counts | `Settle` |

The nonce is the number of the account's calls on the best chain.  An account
whose nonce is taken in the pool is refused or takes its place.  A call the pool
has dropped may still be included by another node.  `Faults` names the troubles
an instance has: `usurped`, `dropped`, `invalid`, `lost`.

### EscrowPallet and Jobs

The chain's state is one record, with the storage items of
`augment-api-query.ts`; each call of the pallet is an operator that gives the set
of outcomes it may have: result, payload of the event, next state, as the
comments of `augment-api-tx.ts` describe the call.  Where the repository leaves an
outcome open the model offers the alternatives: results may be stored in any
escrow that is not complete, a cancelled one too, because only `complete` is said
to prohibit it (`augment-api-tx.ts:122`); a call on an escrow that is gone fails as
untrusted or otherwise, a call may come after the escrow's `end_time`, a small
transfer may not open an account, the list of active jobs of a factory may or
may not hold those that are over.  An escrow's account outlives the escrow, and
anyone may transfer to it.

The life of an escrow differs from the diagram of `docs/highLevel.md:35-41` in
one arrow.  The diagram goes from `Pending` to `Partial` to `Paid`, while
`fullJob.test.ts:205-234` pays a `Pending` escrow out at once and finds it `Paid`.
`BulkPayout` does both: `Paid` if nothing is left, else `Partial`.  No property is
about the diagram: which arrows there are is for the pallet alone, which is
modelled here by hand, and nothing the library does could change them.

A task runs `Plan[op]`, the awaits of its operation in their order, one step at
a time:

| code | model |
|---|---|
| `await upload(...)` | `Upload`; a failed one may have stored the document |
| `await download(...)` | `Download` |
| `await api.query...`, `unwrap()` | `Query`, `Unwrap` |
| the index check of `intermediateResults` | `LookUpNoted` |
| `await sendAndWait...(...)` | the chain's `Execute` or `GiveUp`, then `Reply` |
| what is done with the record | `UseRecord`: the new escrow's id; the noted result |
| `.catch` that wraps and throws again | `Wrapping`, `Fail` |
| amounts beyond 2^53, no sender, no api | `BadAmount`, `SendUnsigned`, `WithoutApi` |
| the process ends | `Crash` of a task; its calls stay in the pool |

`launch` has no handler around its read of the escrow (line 89): when that fails
the error is plain, though the escrow exists.  Without an api `launch` does not
even upload, since it asks the api for the decimals first, while the operations
that post results upload and then fail.

A document stands for its url and its hash.  A `Job` object is an instance of
the class with the sender and the escrow it was made with; each has a list of
intermediate results of its own (`jobReads.ts:29`).  Tasks that work on one object
share its list, two objects for one escrow do not, and the server makes a new
object for each request (`base.service.ts:187`).

`JobOperations` is what a caller may rely on: calls take effect at most once, in
the order of the plan, all before the operation resolves and none after it was
rejected; of an operation whose client crashed nothing is known.  `Jobs`
implements it with `asked`, `phase` and `effects` read off `request`, `status`
and `executed`.  `JobsHistory` adds the final results that the escrow of
a task had while the task was in progress, with which it can be said that a read
is not stale; no step of `Jobs` depends on it.

### Amounts, Storage and Preparation

| code | model |
|---|---|
| a JavaScript number | `<<n, d>>`, from `Float`: rounded to `Precision` bits, ties to even |
| the range of a double's exponents | `MaxExponent`, beyond which no amount here comes |
| `new BN(x)` | `BN`: the fraction is cut off; `Refused` from 2^`Precision` on |
| `formatDecimals` (lines 14-25) | `formatDecimals` |
| the stake and the amount of `launch` (lines 74-76) | `OracleStake`, `FormattedAmount` |
| ``const Key = `s3${computedHash}` `` | `Key` |
| `returnedInfo.Location` | `Location`, by where S3 locates objects: globally, by region, by path |
| `indexOf`, `slice` (lines 63-65) | `KeyOf` on sequences of tokens |
| `launch` up to line 77 | `Prepare`, then `Store`, `Uploaded`, `UploadFails` |
| `download` | `Download`, of any pair of url and hash an escrow may show |

The hash is taken to be injective.  `Offers` are the manifests a launch may be
given, `Elsewhere` the pairs of url and hash others have posted: of this bucket,
of another, with and without the text `download` looks for, with the hash of the
document or of another one.  `createEscrow` takes any url with any hash
(`job.ts:115-134`), and `download` compares none (`storage.ts:58-83`): the url of
one document posted with the hash of another gives the first.  So
`DownloadIsAuthentic` is said of the pairs that an `upload` returned, here or to
another bucket, and `UrlsNameDocuments` of every url.

### Gateway

| code | model |
|---|---|
| `app.listen(port, async () => ...)` | `SetUp`, at any time after `GwInit`, or never; it sets `globals` |
| `setup` of `src/utils/setup.ts` | `setup`: an api and a keyring; if `ApiPromise.create` rejects, neither is ever set |
| `keysMiddleware` and the router | `Arrive`, with `KeysThrow` and `Sender` |
| the yup schemas | `Valid` with `Places`: where the required fields are looked for |
| `base` and the services' calls of the library | `Function`, `Operation`, `Asking`, `Request` |
| a service | `Validate`, which starts a task of `Jobs` with the api and sender of that moment |
| the controllers' answers | `Respond`, `Send` |
| `handleError` | `StatusOf` |

`Function` and `Gets` are the endpoints and the operation each of them names.
It records what the code does, such as `GET /job/intermediateResults` asking for
the final results, and `launch` and `isTrustedHandler` having no endpoint.
`base` passes `{...req.body, ...req.query}` to the reads without parameters
(`base.service.ts:31,35,39`), which call the method that `functionName` names
(`readNoParams`, lines 192-205): a `functionName` in the query takes the place of
the controller's.  `Operation` is the method so chosen, `other` a name that cannot
be called without arguments or is no method, for which the service throws and 500
is answered.  Names that every object inherits are left out.
Without credentials the middleware answers 400 and calls `next`, so the
operation still runs, without a sender: its upload is made, its call is not, and
the controller's answer throws and is collected in `broken`.  Node is taken to
go on after an unhandled rejection, as the versions of the time do.

## 3. Runs

| run | instance | shows |
|---|---|---|
| `send_safe` | two calls of one account, one through each helper, all faults, one reorganisation | type; replies are true, and about the final block unless one was retracted; awaiting keeps nonces apart; refinement of `RemoteCall` |
| `send_live` | two calls, one reorganisation, no fault | every call is answered, and a final one by its last update |
| `send_evicted` | one account, replacement and invalidation | *violated*: an evicted call is never answered |
| `send_reorg` | one call, one reorganisation | *violated*: the id returned is not that of the final block |
| `jobs_funds` | three tasks, three ids, one of them a funded escrow; requests of `launch`, `createEscrow`, `fundEscrow`, `bulkPayout`, `cancel`, `abort`, `complete` | type; funds go to the right escrow; one closes it at most, and it stays closed; what clients are told of funds adds up; errors are true |
| `jobs_results` | `JobsHistory`: three tasks on two funded escrows, two documents, two `Job` objects | stored before posted; notes; what is read was posted, and was there during the read |
| `jobs_live` | two tasks, one request of each shape and of each read | every operation ends; refinement of `JobOperations` |
| `jobs_abort` | two tasks | *violated*: a launch pays an aborted escrow |
| `gateway` | two requests, every endpoint and every way out of the server | statuses are true, 401, one answer, nothing succeeds before setup, every request is answered |
| `prepare` | two launches, one offered a grid of manifests, one reader, thirteen foreign pairs, some with the hash of another document | stakes and amounts are close, whole prices exact, refused manifests are not stored; what was uploaded is authentic and found, a url does not come to show another document |
| `prepare_regional` | the same launches and reader, the bucket located by its region | *violated*: the url `upload` returned cannot be downloaded |
| `prepare_amounts` | one launch, the same grid | *violated*: the amount is not price times decimals |

**Bounds.**  `MaxReorgs` bounds retractions: one is enough for a reply about a
block that is gone.  `Ids` has two elements where two forks are to disagree.
`MaxId` bounds escrows and factories; at the bound `create` may only fail.
Three tasks let two interfere over an escrow that a third created or removed;
`jobs_live` has two, since liveness and a refinement are checked without
symmetry.  A task runs one operation; a sequence of operations is several tasks
in a row.  Accounts and escrows start with `Endowment` = 1, which makes both too
little and exactly enough happen.  In `gateway` two requests let one change the
chain while the other is between its middleware and its answer.  What these
bounds leave open the theorems of section 5 close for every safety property,
action property and refinement that the passing runs check, but for
`RepliesAddUp`.

`Precision` is 12 bits instead of 53, and the currency has 2 decimals instead of
12, because TLC computes with 32-bit integers.  The grid has every percentage as
a stake, and fractional and whole prices and task counts whose product stays
below, meets, and passes what `BN` takes.  At 12 bits, as at 53, some stakes come out one percent low
(with 53 bits 0.29, 0.57 and 0.58 become 28, 56 and 57), and none two.
`TermsStayClose` and `WholePricesExact` prove what the run shows of these amounts
for every precision from 8 bits and every scale that is a float, 53 bits and 12
decimals among them.

**Fairness.**  `SendAndWait!Fairness`: the node answers a submission, includes
what is pooled and next in order, finalises, and the event loop delivers
updates.  Nothing is assumed of faults, forks or signing.  `Jobs!Fairness`: the
event loop runs, S3 and the node answer, a sent call is executed or refused, and
the helper answers; the last is `EveryCallSettles`, shown where the node evicts
nothing, and `send_evicted` shows that it is needed.  `GwFairness` adds the
server's event loop, and nothing about `setup`.

Deadlock is not checked: every instance has a finite number of calls, tasks,
requests or launches and stops when they are over.

## 4. Findings

* `send_evicted`: `docs/integration.md:128` promises errors as rejected
  promises; usurped, dropped and invalid calls leave theirs pending.
* `send_reorg`: `createFactory` and `createEscrow` return the id of a block
  that may be retracted (`job.ts:40`).
* `jobs_abort`: `job.ts:219`, "Funds will be refunded", fails for a transfer of
  a `launch` or `fundEscrow` still on its way.
* `prepare_regional`: `upload` returns the url S3 gives ("url of storage
  location", `storage.ts:20`), and `download` takes a "url to retrieve data from s3"
  (`storage.ts:54`), which `storage.test.ts:26` tests of one another.  S3 locates a
  bucket of another region at `s3.<region>.amazonaws.com`; the text that
  `download` looks for is then missing, `indexOf` answers -1, and the key is a wrong
  tail of the url.  `UploadedIsFound` shows the same to work with the global
  endpoint.
* `prepare_amounts`: `substrate.ts:21` promises the amount multiplied by the
  decimals; the float product may fall just below the integer, and `BN` cuts the
  fraction off.  With the 12 decimals of the chain, 4.1 gives 4099999999999.
  `WholePricesExact` shows where this ends: a price that is a whole number of the
  currency loses nothing.

Also noted while modelling, not worth a run: `docs/express.md:23-30` shows a
POST with a seed and a manifest that returns an escrow id, while `createEscrow`
requires other fields and `launch`, which takes a manifest, has no route.
And with no document that says otherwise: `sendAndWaitFor` does not set
the name of its error (line 52, against line 98), so that an untrusted
`bulkPayout`, `cancel` or `noteIntermediateResults` is answered 500 where
`abort` is answered 401; and a `cancel` of an escrow without funds, or a transfer of
nothing, takes effect and is rejected with "Event record not found".  What the
pallet emits when there is nothing to refund is not in the repository: that it
emits no transfer is how a transfer event is read here.
`UntrustedIsUnauthorized` and `ReportsAreTrue` say exactly this.

## 5. Proofs

Eight modules hold theorems and lemmas, for any values of the constants that meet the named
assumptions.  These say little: undefined and the empty Option are no ids and no
documents, requests and messages are well formed, every call has a signer and an
account signs finitely many (so that the nonce is a number), the hash is
injective on the manifests of an instance; a float has at least 8 bits, which is
what it takes to tell percentages apart, `10^Decimals` and `PriceScale` are
floats, and so are the numbers of tasks and the prices of a manifest.

| module | theorem | statement |
|---|---|---|
| `SendAndWaitProofs` | `TypeCorrect` | `Spec => []TypeOK` |
| | `TruthfulReplies` | `Spec => []RepliesAreTrue` |
| | `KeepsContract` | `Spec => ImplementsRemoteCall` |
| | `FinalReplies` | `Spec => []RepliesMatchFinalChain` |
| | `NoCollision` | `Spec => AwaitedCallsDoNotCollide` |
| | `FinalCallsSettled` | `Spec => []FinalMeansSettled` |
| `JobsProofs` | `JobsTyped` | `Spec => []TypeOK` |
| | `ReportsTrue` | `Spec => []ReportsAreTrue` |
| | `PostedStored` | `Spec => []PostedIsStored` |
| | `LaunchPaysItsOwn` | `Spec => []LaunchFundsItsEscrow` |
| | `KeepsOperations` | `Spec => ImplementsOperations` |
| | `ClosedForGood` | `Spec => []ClosingIsFinal` |
| `JobsResultsProofs` | `ReadsArePosted` | `Spec => []ResultsReadWerePosted` |
| | `NotesOnChain` | `Spec => []NotesAreOnChain` |
| `JobsHistoryProofs` | `ReadsAreFresh` | `HistorySpec => []ResultsReadAreFresh` |
| `PreparationProofs` | `PreparationTyped` | `Spec => []PrepTypeOK` |
| | `TermsStayClose` | `Spec => []TermsAreClose` |
| | `WholePricesExact` | `Spec => []WholePricesAreExact` |
| | `RefusedStoresNothing` | `Spec => []RefusedLeavesNothing` |
| | `OnlyAuthentic` | `Spec => []DownloadIsAuthentic` |
| | `UrlsKeepTheirDocuments` | `Spec => []UrlsNameDocuments` |
| | `UploadsAreFound` | `Spec => []UploadedIsFound` |
| `GatewayProofs` | `DrivesTheLibrary` | `GwSpec => Spec` |
| | `PromisesBehindTheWrapper` | `GwSpec` keeps what is proved of `Jobs` |
| | `GatewayTyped` | `GwSpec => []GwTypeOK` |
| | `OnceAnswered` | `GwSpec => []AnsweredOnce` |
| | `NothingEarly` | `GwSpec => []NothingBeforeSetUp` |
| | `StatusTrue` | `GwSpec => []StatusIsTrue` |
| | `UntrustedGets401` | `GwSpec => []UntrustedIsUnauthorized` |

**SendAndWait.**  `RepliesAreTrue` is not inductive: it says nothing of updates
that are under way.  The inductive invariant adds that every update in an inbox
is *sound*: it carries either no result or one the call was executed with, and
says `refused` only of a call that never ran; that a result on the best chain is
among the executed ones; and that a call which has not reached the pool was never
executed.  Each action keeps it: those of the node append sound updates,
`Deliver` moves a sound update into a promise, and `Settle` keeps the first.
`KeepsContract` maps `dead` to the stage `gone`; every step of the helpers is
one of `RemoteCall` or a stutter, and the invariant shows that a reply is one
that an execution entitles to.  The later theorems add invariants of their own:
without a retraction an update that bears a result agrees with the chain
(`FinalReplies`), a pooled call has had no reply (`NoCollision`), and a final
call with no reply has its `finalized` update in its inbox (`FinalCallsSettled`).

**EscrowPallet and Jobs.**  `EscrowPalletProofs` has, for each call of the pallet,
what its outcomes may be and what they leave of the chain.  The inductive
invariant of `JobsProofs` ties the position of a task in its plan to what its
calls came to, in named parts: `Placed` (a task is at an await of its plan),
`RanAsSent` (a call runs once, after it was sent, and not after it was given
up), `EventsFit` (an event is about what the call was about), `JobKnown` (the id
a task works on is one the chain gave, or was asked for), `Behind` (what a task
has passed was done), `Stopped` (where a task ended), `TrueReport` (what its
error says).  `ReportsAreTrue`, `PostedIsStored` and `LaunchFundsItsEscrow` follow
from it.  For `ImplementsOperations` each step is matched with one of
`JobOperations`; the lemma `NoLateCalls` shows that a rejection is final: no call
of a failed task can be executed any more.

`ClosingIsFinal` is about what two clients were told at different times, and needs
more than `IInv`.  A client is told that its escrow is closed only after its
`abort`, `cancel` or `complete` took effect (`ToldClosers`), so the invariant `CInv`
speaks of the calls: an escrow shows how the call that took effect closed it, no
two such calls, of whatever tasks, are about one escrow, and only ids up to the
chain's counter are in use.  The pallet lets such a call take effect only on an
escrow that is not closed yet (`DispatchCloses`), and no call brings one back
(`LifeKeepsClosed`), a new escrow having a number of its own.

**Results.**  `ResultsReadWerePosted` speaks of a task that posted, perhaps long
ago, what is read now.  Its invariant follows a result on its ways: what the chain
shows as final of an escrow (`FinalPosted`), what is on the list of a `Job`
(`NotedPosted`) and what a task has read and not yet returned (`ReadPosted`) each
have the task whose call put it there.  `NotesAreOnChain` counts: the invariant
adds that the finished tasks that noted a result are finitely many, so that one
more task and one more entry keep the two counts equal; that only `Reply` pushes,
in the step that finishes its task, keeps every other step from either.
`ReadsAreFresh` needs that what a task in progress may read next is among what it
was shown, and that what it has read stays there while it downloads.

**Amounts.**  `AmountsProofs` is about what floats do with numbers, with no bound
on their precision.  The provers know no powers: `2^n` is counted as the number of
subsets of `1 .. n`, which gives its laws, and the least exponent that `Float`
chooses exists because initial segments of the numbers are well ordered.  Then
`Rounds(x, n, d)` says what a float of `n / d` is: off by one part in `Limit`, by a
half at most where floats still count integers.  Three roundings, of the price,
of the product and of the decimals, and the cut of `BN` leave four units below and
three above; two roundings and a cut leave a percentage itself or one less, which
`BN` never refuses.  A whole number is its own float or is beyond `Limit`, where
`BN` refuses it: hence `WholePricesExact`.

**Preparation.**  The invariant describes a launch by its phase and its
manifest, whose terms it has, an object by the launch it comes from, and a read
by the pair it was given and by the name of the object it found.  That a download
is authentic rests on `KeyOf`: of a url that an upload returned it gives `Key(h)`
behind the marker, perhaps after a bucket and a slash, and without a marker a
sequence that is no key.  That a url keeps its document rests on a name being that
of one document only, the hash being injective; nothing is assumed of the pairs
others post.

**Gateway.**  `DrivesTheLibrary` shows that the wrapper steps `Jobs` only as
`Jobs` allows, so that each theorem about `Jobs` holds behind it
(`PromisesBehindTheWrapper` lists them).  The
invariant says what a request in each phase has been answered, what the task
behind it was asked, and that before setup no call was sent.  `StatusIsTrue` then
follows from the reports of `Jobs`, and `UntrustedIsUnauthorized` from a second
invariant: a call that went through `sendAndWait` and was refused as untrusted
is what its task fails with.

Only model-checked: liveness (`EveryCallSettles`, `EveryTaskEnds`,
`EveryRequestAnswered`), which is out of the prover's reach; `RepliesAddUp`, a sum
over a set of tasks, which the library defines by recursion over the set; and the
five violations, which are counterexamples.

## 6. Not modelled

Reorganisations behind `Jobs` and `Gateway` (section 2), which `SendAndWait` has.
Encryption (a TODO in the code), reconnection of the api, JSON parsing and body
limits of express, the bodies of answers, ids that are not numbers, packaging.
The runtime is modelled from its use and its interface only.  `src/typegen` has
some 2900 lines; what they say of the escrow and balances pallets and of the
submission of extrinsics is modelled, and the rest (other pallets, and the 1900
lines of `augment-types.ts` that register type names) declares what nothing in
the library runs.

## 7. What could follow

1. Prices whose scale is a power of two, such as 0.5 or 0.25, which a float holds
   exactly: `WholePricesExact` could cover them.
2. A server that restarts, once the code keeps anything across a restart.
