# OmniStore backend: TLA+ models, model checking and proofs

This directory specifies the parts of the OmniStore / DigiTronics backend
(`backend/` of the repository) whose correctness depends on *when* things
happen: requests that overlap at an `await`, store writes that fail, processes
that die, providers that answer late. The backend is one Node.js process over
whole-document JSON stores, so nothing here is a transaction: every
multi-document operation is a hand-written sequence of read-modify-writes with a
hand-written compensation, and every "lock" is a queue of promises or a file.

The source is the reference. Each definition is translated from the lines that
`PROJECT.json` ("map") names. Where a comment or document of the repository says
something the code does not do, a run with `expect: violation` shows the
behaviour and `PROJECT.json` ("findings") quotes the line.

Contents: 1 inventory, 2 module map, 3 modelling decisions, 4 runs, 5 proofs,
6 findings and limits, 7 what could be added.

## 1. Inventory

### 1.1 Modelled

| Component (source) | State | Operations | Hard behaviour | What makes it correct |
|---|---|---|---|---|
| Stock lock (`utils/asyncLock.js`) | flag, queue of pending promises | acquire, release | hand-over to the head of the queue while others ask | one holder; nobody queued twice or left behind |
| Market checkout (`services/marketCheckout.service.js`, with `sales.service.js` create) | documents products, inventoryTransactions, sales, marketOrders; request-local copies and compensation context | processCheckout: four reads and writes under the lock, rollback in reverse | one of four writes fails; the process dies between two; cancellations interleave; an idempotency lookup before the lock | an order has its invoice and its ledger entries; invoice ids are unique; each checkout is all or nothing; every request is answered |
| Market cancellation (`services/marketOrderStateMachine.service.js`) | same documents | cancelOrder: restock, ledger, order; compensation when the order cannot be saved | runs *without* the lock, on a record loaded earlier | a cancelled order gives its stock back once; the order book promised to customers |
| File lock (`utils/fileLock.js`; client: `users.service.js` linkOAuthProvider) | lock file, quarantine names, heartbeat timers, processes | acquire with stale take-over, heartbeat, release, time-out | a process dies anywhere; heartbeats race releases; take-overs race everything | callbacks exclude each other; a live lock is never stolen; a dead one is recovered |
| Game hosting (`services/gameHostingOrder.service.js`, `gameHostingProvisioning.service.js`, adapters in `services/gameHosting/`) | order and server documents, provider instances, requests waiting for the provider | create, payment callback, refund, renew, expiry sweep, provision, suspend, resume, terminate, removal of a server record | the order changes during a provider call; callbacks repeat and reorder; retries overlap; restarts; lost writes | paid once, served only when an instance exists (and with a server record, unless a write was lost or a restart came first), one provisioning at a time, ended orders stay ended |
| Gist synchronisation (`services/gistSync.service.js`) | per-tenant binding (an object kept across awaits), the chain of promises that is the tenant lock, gists at the provider | configure, disconnect, pull, push (PATCH of the bound gist, POST of a new one), connectivity test | configure and disconnect run outside the lock; a call times out after it took effect; others edit the gist; the process dies between provider and state store | a push replaces the revision it was built on or nothing; only one gist is bootstrapped; the tracked revision really stood in the gist; every request leaves the lock |
| PlayStation sessions (`services/playstationSessions.service.js`, `playstationDevices.service.js`) | sessions and devices documents, each a file and a cached object that is changed in place; sales and treasury entries | create, start, stop, cancel, finalizePayment; status and removal of a device | two documents saved in turn; a payment holds a document across two awaited services; create takes no lock; the till repeats a payment | one active session per device; one invoice and one treasury entry per session; a payment answered as paid is in the file; keys and final states stay |
| Loyalty (`src/services/loyalty/*` in the till, `services/loyalty.service.js`, its repository and mutex in the backend) | the till's retry queue and dead letter in localStorage, runs of the queue; the ledger | sale, return, birthday bonus, configuration; a run sends, marks, lays aside, clears | two runs overlap; requests and answers get lost; reloads and restarts; a ledger write fails | a key is booked once; nothing is appended between a look at the ledger and the save it leads to; no operation is forgotten; the queue empties |
| Document store as the last two use it (`utils/fileStore.js`) | one file, one cached object | read, write | a write fails before or after the old file is unlinked; clients keep an object that is no longer the cached one | stated through its clients |

### 1.2 Not modelled

| Component (source) | Reason |
|---|---|
| Rest of the document store (`utils/fileStore.js` on a file that cannot be parsed or read) | `readRaw` answers an I/O error with an empty store (line 78); the next write makes that durable. Nothing that any client does could prevent it, so there is nothing to check |
| Repository base beyond whole documents (`repositories/BaseRepository.js`) | tenant filtering and stamping are functions of one record; the entity API only interleaves on an asynchronous engine, which the repository does not ship |
| Other writers of the shared documents (`inventory.service.js`, `inventoryTransactions.service.js`, `purchase.service.js`) | they rewrite products and ledger without the stock lock. With one such writer between a checkout's read and write the stock is wrong, plainly; the market properties are about checkouts and cancellations among themselves |
| Jobs, scheduler, events, webhooks (`job.service.js`, `scheduler.service.js`, `eventBus.js`, `webhook.service.js`) | no processor and no task is registered outside the tests at this commit, so nothing is ever queued in production; webhook retries are timers in memory, lost by a restart, and promise nothing |
| Users and tokens (`users.service.js`, `utils/jwt.js`) | the lock's one client is covered through the lock; the other writers of the document take no lock and hold nothing across an await |
| Other services, controllers, middleware | request-response CRUD over the same stores; no control of their own beyond what the modelled operations show |
| Frontends, `platform/`, `marketplace/`, `online-games/`, dictionaries, static pages | presentation, browser games and scaffolding. They are most of the 180 000 lines of the repository, share no state with the services but through the HTTP API, and have no protocol of their own but the loyalty queue, which is modelled |

### 1.3 How the components interact

The controllers call one service function per request. Services share documents
by name and nothing else: `marketCheckout`, `marketOrderStateMachine`,
inventory and purchases all rewrite `products` and `inventoryTransactions`
whole. `stockLock` is one object of the process; checkouts hold it across
awaits, game hosting holds it around single-document updates, cancellations and
inventory do not use it. `fileLock` is between processes and has one client.
Game hosting calls a provider adapter through a registry and keeps a mirror
record of the server in a second document. A finalised PlayStation session goes
through the sales and the treasury service, each a document of its own. The
loyalty queue of the till reaches the ledger over HTTP only; in the backend every
change of the ledger runs under one mutex. The gist lock is a map of promise
chains, one per tenant.

## 2. Modules

| Module | Models | State and actions against the code |
|---|---|---|
| `AsyncLock` | `utils/asyncLock.js` | `locked` is `_locked`, `queue` the pending `_queue`, `granted` the clients whose promise is resolved and whose release function is not called; `Acquire`, `Release`, `Restart` |
| `MarketStores` | documents and request state shared by the two operations | `db` (four stored documents), `view[r]` (the copy request r read), `ctx` (compensation context), `loaded` (cancelOrder's record), `pc`, `answer`; instantiates `AsyncLock` as `StockLock` |
| `MarketCheckout` | `processCheckout` | one action per awaited storage call with the synchronous code up to the next: `Submit`, `AcquireLock`, `ReadProducts`, `WriteProducts` (W1) ... `WriteOrder` (W4), the `Undo...` actions of `_compensate`, `ReleaseLock` (the `finally`) |
| `MarketCancel` | `cancelOrder` | `LoadOrder` (`_loadOrder` and the checks), `Restock...` (`_restoreInventory`), `SaveReadOrders`, `SaveOrder` (`_saveOrder`), `Retake...` (the compensation) |
| `MarketOrders` | both composed, with `Crash` | `Spec` (every await interleaves), `SerialSpec` (see 3.1), all properties |
| `OrderBook` | abstract: what a customer is promised | `Place` takes a cart out of stock at once, `Cancel` gives it back once |
| `FileLock` | `utils/fileLock.js` | `lockFile` the file at the lock path, `moved` the quarantine names, `written` files with metadata, `beat` the heartbeat; one action per file-system call |
| `Subscription` | abstract: what game hosting promises | stages none, unpaid, paid, served, ended; money none, taken, returned; `End` may end several orders (the sweep) |
| `HostingOrders` | `gameHostingOrder.service.js` | one action per exported operation; `Persist` is `_persist` with its ignored result |
| `HostingProvisioning` | `gameHostingProvisioning.service.js` and the provider | each operation is `Start...` (up to the provider call), `ProviderActs`, and the action that handles the answer: it writes the order (`Transition`), and `Record` writes the server record afterwards; `DeleteServer` removes a record |
| `Dataset` | abstract: what synchronisation promises | `Push` replaces the revision the push was built on; `Edit` is somebody else's |
| `GistSync` | `gistSync.service.js` | an action runs from one await to the next: `Ask`, `Enter` (`_withTenantLock`), `CheckBase`, `SendPatch`, `Lands` (the provider), `FinishPush`, `FinishPull`, `FinishTest`, `UpstreamFails`, `Configure`, `Disconnect`; `entry` holds the binding objects, `mine` the one a request holds |
| `FileStore` | `utils/fileStore.js` write | `WriteOutcomes`: what a write can leave and answer |
| `PlayStation` | sessions, devices, payment | `disk` and `view` are file and cached object, `held` the object of a payment that no longer is the cached one; `Start`, `Stop` and `Cancel` are one action each (no await inside the lock), `Finalize`, `MakeSale`, `MakeEntry` are the three stretches of `finalizePayment` |
| `PointsBook` | abstract: what the customer's points book promises | orders are booked once per key; an order is settled only when booked or laid aside |
| `LoyaltySync` | queue, runs, API, mutex, ledger | `Sale`, `Return`, `Start`, `Settle`, `GiveUp`, `Reload` in the till; `Look` and `Book` are the two halves of a handler under the mutex, `Award`, `UpdateConfig`, `Crash` |
| `MCMarket`, `MCFileLock` | | small instances for TLC; the other specifications are instantiated by their .cfg alone |
| `AsyncLock_proofs`, `MarketOrders_proofs`, `MarketSerial_proofs`, `FileLock_proofs`, `HostingProvisioning_proofs`, `GistSync_proofs`, `PlayStation_proofs`, `LoyaltySync_proofs` | | theorems, section 5 |

Operators whose comment begins with "Mutant:" are not part of any
specification. Each is a plausible wrong version of the definition after it
(a dropped guard, a missing compensation, a wrong comparison), used to confirm
that the named property notices it.

## 3. Modelling decisions

### 3.1 Market

*Interleaving.* Every `await` on a store is a point where other requests run.
That is the contract of the storage layer (`storageAdapter.js:20-27`: the async
methods are the interface of a real asynchronous engine). The JSON engine
behind it today is synchronous, so there a cancellation, whose awaits all
resolve without I/O, runs to its end in one go. `SerialSpec` states this as
`CancelsRunAlone`; the properties that need it are run under `SerialSpec`, the
others under `Spec`.

*Failures.* A write returns false and the document keeps its content
(`WriteFails`, at most `MaxFaults` times). `RollbackHolds`, part of
`SerialSpec`, says that the failure which starts a rollback is not followed by
another during it: the rollback is best effort in the code too
(`marketCheckout.service.js:119-128`). A crash loses every request in flight and
the lock, and keeps the documents.

*Abstractions.* A cart is a sequence of (product, quantity) lines. Prices,
coupons, shipping and payment-method checks are the one flag `payable`, because
all they decide is whether the checkout goes on after W2. Refusals that happen
before any store is read are left out. Tenants matter where the code looks at
them (replay lookup, ownership check). The tenant isolation of sales ids
(`ENABLE_TENANT_SALES_ISOLATION`, off by default, `config/index.js`) is taken
as off.

### 3.2 File lock

One host. A PID is not reused. A blank lock file (between `open('wx')` and the
metadata) is judged by age in the code; no call is taken to stall for that long
between two steps, so such a file is abandoned exactly when its creator is dead
and never wrote (`BlankIsAbandoned`). `TakeOverUndisturbed` says that between
the read of a stale lock and the rename that moves it aside the path does not
change hands. *Nothing in the code guarantees this*: `QuietSpec` keeps the
behaviours in which it holds, the theorems carry `[]TakeOverUndisturbed` as their
hypothesis, the run `filelock_takeover` shows what happens without it, and
`OnlyJudgedLockDeleted` is what holds regardless.

### 3.3 Game hosting

*Atomicity.* The order operations read and write one document; with the
synchronous engine each is one turn of the event loop, hence one action.
Everything around a provider call is split at the call, and what follows the
answer is split between its two documents: `transitionOrder` writes the order
(`Transition`), `_upsertProvisionedServer` and `_mirrorServerStatus` write the
server record after it (`Record`), and other requests or a restart may come in
between. A restart there leaves a served order without a record, which
`ActiveIsProvisioned` excepts. The lookup and the update of one record are one
step, as for an order. `createOrder`'s
idempotency lookup and `expireDueOrders` would need the lock under an
asynchronous engine; that is recorded as a hazard.

*Failures.* `_persist`'s result is ignored everywhere but in `createOrder`, so an
order operation "succeeds" with the store unchanged; the variable `faulty` remembers
that this happened, and the properties that a lost write spoils say so. A
restart forgets requests in flight; a call already sent may still have its
effect ("unheard"), and a record that was about to be written is not. The provider may act and answer error, or answer ok without
an externalId ("breach"); that an ok is true is the provider contract
(`providerContract.js:15-38`).

*Abstractions.* Amounts are the three outcomes paid, failed, mismatch. Time is
whether `periodEndsAt` is past. The ledger entry a refund adds is left out
(nothing reads it). A server record is absent, kept or deleted: its status and
contents are left out (two requests may write it in another order than that of
their transitions), and so are the edits made by hand, `createServer` and
`updateServer`. `cancelled` is in the transition table but no operation asks
for it. A createServer refused because its plan was deleted counts as a lost
write. `attempts` is bounded by `MaxAttempts` in the guard of `StartProvision`.

### 3.4 Gist synchronisation

*Objects.* `stateStore` hands out the stored object itself. What a request holds
across an await is the object it found, which may have been replaced by
`configure` or removed by `disconnect` meanwhile; both run outside the tenant
lock. Objects are named after the call that made them, so that a late upsert of
an old one is visible as such. That a disconnect during a request is undone by
the request's upsert is part of the model and excluded by no property.

*Faults.* Every provider call may fail, also after it took effect (the 15 s
time-out); people edit a gist; the process dies between any two awaits, as often
as `MaxCrashes`. `LateEffects` says whether a call the service gave up may *still*
take effect later. The run and the theorems about winners, the refinement of
`Dataset` included, assume that it is FALSE, which the code does not ensure. With
TRUE, TLC finds a push overwritten without a conflict, against the comment at
lines 22-30: the time-out hands the lock on while the PATCH is in flight.

*Abstractions.* The dataset is one value per push; the revision is the dataset.
`lastErrorCode`, timestamps, the credential vault, the legacy migration report, a
failing state store and refusals before the first await are left out.

### 3.5 PlayStation sessions

*Steps.* `start`, `stop` and `cancel` do not await inside `sessionLock`: each is
one action with its two writes. `finalizePayment` awaits the sales and the
treasury service. With the JSON engine these awaits are microtasks, so fewer
interleavings exist today than are checked.

*Store.* A write ends in one of three ways (`WriteOutcomes`): written; not
written; or the old file unlinked and the new one not renamed, which empties the
document. A failed write drops the cache, so a payment that kept its object
writes it back later over newer content.

*Abstractions.* Prices, durations, tenants, branches and the audit log are left
out; `payment_status` and `recovery_required` are derived from what was booked.
Creating and editing devices (their attributes) is left out, removing one is in.
Not excluded by any property, because the code does it: a device stays occupied
after a failed save; cancelling a pending session is neither saved nor answered;
a session created between another request's read and write can vanish;
`recovery_required` is never cleared.

### 3.6 Loyalty

*Till.* A run of `processSyncQueue` reads what is due and sends one operation
after the other; `GiveUp` is a request that fails without an answer, `Reload`
ends all runs. Requests nobody waits for any more stay in the backend
(`MaxAlone`). Which operations are due is free, because the back-off is.

*Backend.* `chain` is the mutex with the handlers behind it, in the order
they arrived. `Look` is the look-up by reference and the balance read, `Book`
the append and the answer; `seen` is only the position of that look. What the
code computes from it differs: earn and bonus use the whole ledger, redeem and
reverse the unexpired earn and bonus entries of its first page, so earlier
deductions are not in their balance (7, item 4). `NothingBetween` therefore says
that nothing is appended between look and save, and nothing about amounts. A reference names a key without its type
(`getTransactionByRef`), so the redeem and the earn of one sale are one key and
the second is answered as a duplicate, its points never booked:
`NothingForgotten` is stated for keys, and this is its limit. A ledger that
could not be written is answered 400, which lays the operation aside at once.

*Abstractions.* Points are whether a redeem is refused, freely chosen; expiry,
tiers, tenants and the page limit of 50 are left out; writing the configuration
is one action, because the JSON engine is synchronous: `saveConfig` reads and
writes the document outside the mutex, and on an asynchronous engine, such as
the market specification allows for, it could drop an entry appended meanwhile; localStorage does not fail; two equal entries of the dead letter
are one. The scripts are loaded by no page of this commit; they are modelled as
their tests drive them.

## 4. What TLC checks

| Run | Bounds | Shows |
|---|---|---|
| `market_overlap` | 2 checkouts, 1 cancellation, 1 customer, 2 units, 2 invoice ids, 1 failed write, 1 crash | under every interleaving: one checkout between its read and its writes (`OneCheckoutAtATime`), every order on file has its invoice (`OrderHasInvoice`), ids are unique (`InvoicesDistinct`), every request that arrives is answered (`EveryRequestAnswered`) |
| `market_serial` | 2 checkouts, 2 cancellations, carts of one and two products, one idempotency key, 1 failed write (88 680 states) | each checkout and cancellation takes effect at one instant or not at all (`ImplementsOrderBook`, where the stock kept by a checkout that ended on a duplicate invoice id counts as promised, see `market_refused`); every unit is on the shelf, in the hands of a request or in a received order (`StockAccounted`); ledger and orders agree (`LedgerBacksOrders`); an order answered as placed stays (`PlacedIsDurable`); a checkout sent again with its key after that answer places nothing, although the look-up is outside the lock and the order may be cancelled by then (`RetryPlacesNothing`) |
| `market_refused` (violation) | 2 checkouts, no faults | a checkout refused for a duplicate invoice id keeps its stock and ledger entries (`RefusedLeavesNoTrace`) |
| `market_terminal` (violation) | 2 checkouts, 1 cancellation, no faults | a checkout's stale copy of the orders document undoes a cancellation (`CancelledIsTerminal`), once storage is asynchronous |
| `filelock_quiet` | 3 attempts in 3 processes, 2 deaths | in behaviours with no disturbed take-over: exclusion, no stolen lock, no resurrected lock, dead locks recovered |
| `filelock_race` | 4 attempts in 2 processes, 1 death | in every interleaving a lock moved aside by mistake goes back unless the path is taken |
| `filelock_takeover` (violation) | 4 processes, 1 death | a take-over that judged an older lock removes a live one and two callbacks run at once |
| `hosting` | 1 order, 2 references, 2 concurrent requests, 2 attempts, lost writes, restarts (863 168 states) | see section 1.1; a served order has its server record unless a write was lost or the process restarted between the two writes; also refinement of `Subscription`, and that a provisioning ends |
| `hosting_result` (violation) | same, no faults | a provisioning that succeeds after its order was refunded leaves no trace of the instance (`ProviderResultKept`) |
| `gist` | 2 pushes, 1 pull, 1 test, 2 configures, 1 foreign edit, 1 restart (908 688 states) | of the pushes answered with success each replaced the revision it was built on (`ExactlyOneWinner`, `ImplementsDataset`), one gist is created for an unbound tenant (`BootstrapOnce`), `lastRevision` is a dataset that stood in the gist (`TrackedRevisionStood`), the lock is always left (`EveryRequestEnds`) |
| `playstation` | 3 sessions, 1 device, 2 payments, 2 keys, 2 failing writes, 1 restart (1 299 544 states) | one active session per device in every copy (`OneActivePerDevice`), one invoice and one treasury entry each (`BookedOnce`), paid answers are in the file (`PaidAnswerIsDurable`), a stamped key stays and a session moves along its transitions though stale documents are written back (`KeyIsForever`, `LegalTransitions`) |
| `loyalty` | 1 sale paid with points, 1 return, 1 bonus, 2 overlapping runs, 2 attempts, 1 request left alone (580 830 states) | `BookedOnce`, `NothingBetween`, `NothingForgotten`, refinement of `PointsBook`, and that the queue empties (`EveryOperationSettles`) |

**Why these bounds.** Two checkouts are the smallest number that can overlap, and
the lock makes a third wait behind the second; one cancellation suffices
to overlap both, two to cancel one order twice. Stock of two units against
carts of one makes both "enough" and "not enough" reachable after a sale and a
restock. One failed write reaches every failure branch, since each branch ends
the request. For the file lock, a race needs the dead owner, the judge, the new
owner and, for the violation, one more. In game hosting orders meet only in the
sweep, which treats each of them by itself; two requests give every pair of
overlapping operations on one order, two references a repeated and a fresh
callback, two attempts a retry after a failure. For gists two
pushes compete for one base, the second configure makes the object that a request
holds stale, and the edit makes each of them stale in turn. For PlayStation
two sessions compete for the device and the third is created under a running
payment; two keys make a repeated and a different payment; the second failing
write is the one inside the handling of the first. For loyalty two runs send the
same operation, and the request left alone is the one whose answer was lost
while it is repeated; restarts, reloads and failing writes are not bounded. With
two operations of the till at a time, a return is never queued together with a
sale that both redeems and earns; three give more than 17 million states and do
not end within the time of a run. The
proofs of section 5 remove the bounds for the safety properties.

**Fairness.** Market: weak fairness of each request's own steps (the event loop
runs what is ready and the JSON engine always returns); nothing is assumed of
clients, so `Submit` is not fair. File lock: weak fairness of the lock steps and
the heartbeat steps of each attempt (timers fire, file-system calls return);
acquiring, timing out and dying are not fair. Game hosting: weak fairness of
`ProviderActs` (a provider promise settles: the two adapters of the repository,
`mockProvider.js` and `unavailableProvider.js`, always do; the service sets no
time-out of its own, so an adapter that never settles would break this) and of
the continuation of an answered request. Operators, payment
gateways and customers owe nothing. Gist: weak fairness of the continuation of
requests (every upstream call has a time-out, so it settles). Loyalty: weak
fairness of the handler at the head of the mutex; strong fairness of a fetch
coming to its end, because not every call is cut off by a reload first; strong
fairness of a run starting with everything due, because the 60 s timer outlasts
every back-off (30 s at most). PlayStation states no liveness: a payment that
stops is repeated by a person or not at all.

Deadlock checking is off in all configurations because finite sets of requests
come to rest when all are done; that nothing rests earlier is what the
liveness properties say.

## 5. What is proved

All theorems hold for any values of the constants that satisfy the stated
assumptions (`MarketAssumption`, `CartAssumption`, `FileLockAssumption`,
`HostingAssumption`, `GistAssumption`, `PlayStationAssumption`,
`LoyaltyAssumption`; TLC evaluates them in the runs).

*Sums* (`MarketOrders_proofs`, first section). Units are counted with
`SumFunction` of the community modules, a fold over a finite set. `SumsExist`
and `SumIs` establish the recursion behind it (by well-founded induction,
`Induction`, and `SubsetInduction` for finite sets), `SumsAgree` that the result
does not depend on the order in which the fold takes the members, and from these
`SumTake`, `SumAdd`, `SumOfNaturals`, `SumOfOne`, `SumOfZeros` what the proofs
need: a sum when its set gains or loses a member. `DemandType` and `CartLines`
rest on them, so `CartAssumption` says of a cart only what the code validates
before it reads a store: a non-empty list of lines with positive quantities.

*Stock lock* (`AsyncLock_proofs`). `LockSafe`: at most one client holds the lock.
The invariant `LockInv` adds what `_release` relies on: the flag is set exactly
while somebody holds the lock, tasks queue only behind a holder, and nobody is
queued twice or queued while holding it. `AcquireAdmits` and `ReleaseDismisses`:
the two calls change who is holding or waiting by their caller and nobody else.

*Market* (`MarketOrders_proofs`). `MarketInvariant` establishes `IInv`, from which
`TypeCorrect`, `LockExcludesCheckouts`, `InvoicesStayDistinct` and
`OrdersAreInvoiced` follow. The interesting one is the last: "every order on file
has its invoice" is not inductive. The argument is (1) who stands between
acquire and release holds the lock, so there is one of them; (2) therefore the
lock holder's copy of the sales document is *current* when it writes W3 or undoes
it, so no invoice of another order is lost; (3) ids in the sales document are
distinct, so the undo, which filters by id, removes only its own; (4) until W4, a
checkout's order occurs in no orders document, neither the stored one nor any
request's copy nor any loaded record, so a cancellation that writes a stale copy
cannot bring back an order whose invoice was undone. Copies may be stale in every
other respect.

`NoLostWakeUp` is the safety half of `EveryRequestAnswered`: the holder and the
queue of `stockLock` are exactly the checkouts between acquire() and release()
(`InsideInv`), on every path, after every rollback and restart. So a checkout
that waits waits behind one on its way to release(), and the guards under which
`AcquireLock` and `ReleaseLock` are modelled never stop their caller.

*Market with cancellations that run alone* (`MarketSerial_proofs`).
`LedgerStandsBehindOrders`, `PlacedOrdersStay` and `RetriesPlaceNothing`, from
`SerialInvariant`: `IInv`, and (1) a copy about to be written back is the
document as it stands, because the other checkouts are outside the lock and no
cancellation is in flight; (2) a cancellation works on the order on file; (3) a
request that is about to write the order has its ledger entries there; (4) the
entries of a cancelled order are those of a cancellation that is *over*, so no
compensation can take them back. `RollbackHolds` is not used: a rollback that
fails leaves too much in the ledger, never too little. For the retries the pair
of the placed checkout and the retry is followed: while the retry runs, it is
after another order (`Settled`).

*Stock and the order book* (`MarketSerial_proofs`, second half).
`StockIsAccounted` and `MarketImplementsOrderBook`, from `StockInvariant`, for
any number of requests, products, carts and failing writes under three
assumptions, each of which the code needs: no restart (`MaxCrashes = 0`; what a
checkout took is only in its memory), no cart that names a product on two lines
(`OneLineEach`; with one, the per-line stock check oversells and the compensation
of a cancellation takes back one line only), and the two restrictions of
`SerialSpec`. The invariant `StockInv` is `SerialInv` and: (1) a products
document about to be written back is the document as it stands; (2) while a
checkout has its cart off the shelf, the document is the one it captured minus
that cart, so writing the captured absolute quantities back is the same as
adding the cart; (3) while a cancellation may still have to take its cart back,
the shelf holds it; (4) the order a cancellation works for is received, and a
checkout that ended on a duplicate invoice id does nothing more. `CheckoutMoves`
and `CancelMoves` classify the steps: a cart leaves the shelf, comes back,
becomes an order, stops being one, or nothing a customer could see happens;
`TookMoves`, `GaveMoves` and `OwnedMoves` follow the three sums of the account,
and `QuietStep`, `PlacingStep` and `CancellingStep` map each kind to a step of
`OrderBook` or to none. `PlacingStep` needs that the checkout's own cart is still
counted in the promised stock and that no cancellation is in flight. TLC checked
the parts of `StockInv` on the instance of `market_serial` before the proof.

*File lock* (`FileLock_proofs`). Of the behaviours in which no take-over is
disturbed, `Spec /\ []TakeOverUndisturbed`: `FileLockExcludes` and
`LiveLockNeverStolen`, from `LockInvariant` (an attempt between creation and
release has its own file at the lock path; what a take-over moved aside is
dead; a heartbeat belongs to a holder), with `FileLockTypes` and
`LiveLocksHaveOwners`. These are conditional promises: nothing in the code
guarantees the hypothesis, and without it `filelock_takeover` refutes exclusion.
`QuietIsUndisturbed` shows that the hypothesis describes exactly the behaviours
of `QuietSpec`, which the run checks. Under the unrestricted `Spec`:
`MovedLockGoesBack`.

*Game hosting* (`HostingProvisioning_proofs`). `HostingInvariant` establishes
`HostingInv`; `HostingTypes`, `ServedOrdersExist`, `OrdersArePaidOnce` and
`ProvisioningCallsAreUnique` follow, and `HostingImplementsSubscription` shows the
refinement of `Subscription`. `ServedOrdersExist` is unconditional about the
instance; about the server record it excepts a lost write, a restart, and the
request that is still between its two writes: `RecordComes` follows that request
to its second write, and `EndOrRecord` says how a provision call may leave. The
invariant needs four facts beside the
properties: a successful answer in flight stands for an instance
(`AnswersAreReal`); only an order that was served has a suspend or resume in
flight, so a late resume cannot turn a provisioning order active without an
instance (`ServedBeforeSuspend`); a provisioning call outlives the status
"provisioning" only when its order was terminated (`CallsOfTheirOrder`); and an
unpaid status goes with an unpaid order (`UnpaidUntilPaid`). The step proof
classifies what a step does to one order (`Move`), shows that every step moves
one order at most except the sweep, and then argues each invariant and the
refinement from the classification instead of from every action.

*Gist synchronisation* (`GistSync_proofs`). `GistTypes` for both values of
`LateEffects`; `OnePushWins`, `OneGistCreated`, `OnlyRealRevisionsTracked` and
`SyncImplementsDataset` under the assumption `LateEffects = FALSE`, which the
15 s time-out does not ensure (3.4). The invariant `SyncInv` says
which request is inside the section and that nobody else has a call under way,
that the object a request holds is bound, replaced or removed, what the provider
holds for a call that is under way, and that the base of a push that passed the
comparison is still the dataset in the gist unless somebody edited it. `LockAlwaysPassedOn`, for both values of `LateEffects`, is the safety
half of `EveryRequestEnds`: whoever waits for the tenant's lock has one place in the
chain of promises, and the first of the chain is about to enter or inside, where
its own next step (a call that ends, at the latest by its time-out) takes it out.
It rests on `Section` and on `Chain`, which says that the chain holds exactly the
requests that asked and are not over, each once.

*PlayStation* (`PlayStation_proofs`). `PlayStationTypes`, `DeviceServesOne`,
`BooksOnce`, `PaidIsDurable`, `KeysStay`, `TransitionsLegal`. The invariant
`TillInv` speaks of all copies of the sessions document at once (`Docs`: file,
cached object, objects held by payments): in each of them a session is at most as
far as it really is, what a payment booked is stamped in every copy that can be
written, and only one payment is between its key and its end. `FileMoves`
classifies what a step does to the file.

*Loyalty* (`LoyaltySync_proofs`). `LoyaltyTypes`, `BooksEachKeyOnce`,
`NothingAppendedBetween`, `NothingIsForgotten`, `SyncImplementsPointsBook`. The
invariant `LoyaltyInv`: only the head of the chain is inside the mutex, and what
it looked up still holds; a run that calls has one request, for the first
operation of its list, and a positive answer is true; every operation has a fate
(waiting, laid aside, or its key in the ledger unless the file was lost).
`TriesRemain` and `EachCallCounts` are the variant argument behind
`EveryOperationSettles`: an operation that waits has tries left, each call that ends
takes its operation out of the queue or uses up one try, also when two runs send the
same operation, and nothing gives a try back.

**Left to TLC.** Liveness (`EveryRequestAnswered`, `DeadLockRecovered`,
`ProvisioningEnds`, `EveryRequestEnds`, `EveryOperationSettles`), which needs
fairness and ENABLED. What they rest on besides is proved for four of them:
`NoLostWakeUp` (stock lock), `LockAlwaysPassedOn` (tenant lock), `EachCallCounts`
with `TriesRemain` (retry queue), and, for `ProvisioningEnds`, the second half of
`OneProvisioningCall` in `ProvisioningCallsAreUnique`: an order that says
"provisioning" has a call in flight.

## 6. Findings and limits

Four runs show code and text disagreeing; `PROJECT.json` quotes both sides.
They are: the duplicate-invoice refusal without compensation (`market_refused`);
the stale orders document against "cancelled is terminal" (`market_terminal`);
the unguarded window of the lock take-over (`filelock_takeover`); the dropped
provider result (`hosting_result`).

Without a run of their own, and said where they are modelled: the late effect of
a gist call that was given up (3.4); what the PlayStation and loyalty code leaves
behind (3.5, 3.6). `PROJECT.json` ("hazards") lists all of them with their lines.

Known limits. In the market and hosting modules a document is written or keeps
its content; the window between unlink and rename is modelled where the
loss of a whole document is survivable, in PlayStation and loyalty. Guest customers are
not told apart. The cross-host age rule of the file lock, PID reuse,
`isHeld`/`isLocked`, and the legacy server routes of the game hosting
controller are not modelled. Quantities are unbounded integers; the code's are
JavaScript numbers far below the point where that matters.

## 7. What could be added

1. Inventory edits and purchases as further requests of the market composition,
   once they take `stockLock`: today they break every property about stock.
2. Jobs and webhooks, once something registers a processor.
3. The tenant filter of `BaseRepository` over an asynchronous engine, once one is
   shipped.
4. Amounts of points: the balance that `redeem` checks does not count earlier
   redemptions (`loyalty.service.js:242`), so the interesting property does not
   hold and the others do not need amounts.
