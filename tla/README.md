# TLA+ verification of the order service

The order service is the part of a food delivery platform that owns orders,
payments, deliveries and restaurant balances of a region. It is a TypeScript
server (Express, Knex/PostgreSQL, Redis, RabbitMQ, Socket.IO) with one API
process type and one worker process type, any number of each, against one
PostgreSQL database per region. What makes it hard is not any one handler: it
is that handlers read a row, decide, wait (for HTTP, Redis or the pool), and
write later, while other handlers of other processes do the same.

All paths below are relative to the repository.

## 1. Inventory

| Component | State it keeps | Operations | Talks to | Modules |
|---|---|---|---|---|
| Order lifecycle (`src/app/order`) | `orders`, `order_items` | placeOrder, updateStatus (PATCH of customers, restaurants, admins, agents) | core service, Payments, outbox, caches, WS | `OrderStatus`, `OrderLifecycle`, `StatusMachine` |
| Placement (`src/app/order`, `src/lib/idempotency`, `src/lib/core-client`) | stock of the core service, stored responses in Redis | createOrder behind the idempotency middleware | core service, Payments | `Placement` |
| Payments (`src/app/payment`, `src/pkg/payments`) | `payment_sessions`, `transactions`, `payment_webhook_events` | initializePaymentSession, verifyAndProcessWebhook, refundPayment | Kashier gateway, orders, outbox | `Payments` |
| Assignment (`src/app/assignment`) | Redis: offer, claim and attempts keys with TTL | the job's tick (tryAssign), accept, reject, adminAssign | orders (claimReadyOrderForAgent), Presence | `Assignment` |
| Agent presence (`src/app/agent`) | Redis: geo set, presence hashes, busy set | goOnline, goOffline, markBusy, markFree, findCandidates | Assignment | `Presence` |
| Deliveries, settlement, finance (`src/app/agent`, `src/app/finance`) | `agent_earnings`, `restaurant_balances`, `transactions` | pickup, deliver, settleDeliveredOrder, recordPayout | core service (commission rate), outbox | `OrderLifecycle`, `Ledger` |
| Transactional outbox (`src/lib/events`) | `events_outbox` | insertOutboxEvent, drainOutboxForRegion (cron) | RabbitMQ | `Outbox`, `EventStream` |
| Core events consumer (`src/lib/core-events`, `core-data-cache.service.ts`) | Redis: dedupe keys, reject flag, cached products | handleMessage, the handlers, the dead-letter queue | RabbitMQ, Redis | `CoreEvents` |
| Response and permission caches (`src/lib/cache`, `src/lib/rbac`) | Redis: lists; per process: permissions | withCache, getPermissions, listRestaurantOrders | core service, Redis, PostgreSQL | `OrderList` |
| Connection pool (`src/lib/knex`) | the connections of a region in one process | every statement and transaction | PostgreSQL | `ConnectionPool` |
| Archival (`src/lib/jobs/archival.worker.ts`) | archive database, Redis lock | archiveRegion (cron) | both databases | `Archival` |
| Scheduler (`src/lib/jobs`) | set of running jobs | startAll | every cron job | the ticks of `Outbox`, `Assignment`, `Archival` |

What makes each correct, and what could break it:

- **Order lifecycle.** The status follows the matrix of
  `order-status.service.ts`; an order has one agent, for good; an online order
  is served only after its session was captured; events in the outbox are true.
  Threats: PATCH, webhook, claim, pickup and delivery all act on rows read
  earlier, and the UPDATE of a status is conditional on nothing.
- **Settlement and finance.** A delivery credits the restaurant once, the
  balance covers every payout, ledger and balance agree. Threats: two
  deliveries or payouts at a time, retries, a core service that is away.
- **Outbox.** Exactly what commits is announced, in the end. Threats: open
  transactions, several workers, a broker or a worker that fails at any point.
- **Payments.** A capture is neither lost nor booked twice, a refund never
  exceeds its charge. Threats: repeated, reordered and concurrent webhooks, a
  crash after the deduplication row, concurrent refunds, lost answers.
- **Assignment.** One winner per order, who was offered it. Threats: TTLs,
  crashes between Redis and PostgreSQL, lost updates of the candidate list.
- **Presence.** Candidates are there, and who is there is found. Threats: three
  keys read one after the other, entries that never leave.
- **Placement.** Stock is reserved once and given back once if the order is
  not there; a key makes one order until its answer expires. Threats: crashes
  and timeouts between two services, requests that overlap.
- **Consumer.** An event is applied once; what placements use is complete.
  Threats: redelivery, crashes between Redis calls, merging of fields.
- **Caches.** No answer and no permission is older than its TTL and a request.
  Threats: a value read before and stored after a change.
- **Connection pool.** Every request ends. Threat: a request that holds one
  connection while it waits for another.
- **Archival.** No row is lost, no child loses its parent. Threats: two
  databases, crashes, a lock that expires under its holder.

The list of hazards, each with its line, is in `PROJECT.json`.

## 2. Modules

| Module | What it is | Code |
|---|---|---|
| `OrderStatus` | transition matrix, reasons, stamps: constant operators | `order-status.service.ts` |
| `StatusMachine` | what clients of an order are promised (abstract) | |
| `OrderLifecycle` | the handlers that write an order row | `order.service.ts`, `webhook.service.ts`, `assignment.service.ts` (the UPDATE), `delivery-lifecycle.service.ts`, `order.repo.ts` |
| `EventStream` | what an outbox promises (abstract) | |
| `Outbox` | inserts, open transactions, workers, broker | `outbox.repo.ts`, `outbox-drain.ts`, `scheduler.ts` |
| `Ledger` | settlements and payouts on one balance | `settlement.service.ts`, `finance.service.ts`, `restaurant-balance.repo.ts`, `transaction.repo.ts`, `agent-earning.repo.ts` |
| `Payments` | sessions, webhooks, refunds | `payment.service.ts`, `webhook.service.ts`, `kashier.client.ts`, the three repositories |
| `Assignment` | offers, claims, rejects, expiring keys | `assignment.service.ts`, `jobs.ts` |
| `Placement` | stock, order, session, stored answer | `order.service.ts`, `idempotency.ts`, `branch.client.ts`, `retry.ts` |
| `CoreEvents` | queue, deduplication, handlers, product cache | `consumer.ts`, `core-events.handlers.ts`, `core-data-cache.service.ts` |
| `OrderList` | permission check, response cache, query | `order/routes.ts`, `withCache.ts`, `permission.cache.service.ts`, `order.repo.ts` |
| `ConnectionPool` | who holds and who waits for connections | `shards.ts`, `order.service.ts` (updateStatus) |
| `Archival` | the sweep over two databases | `archival.worker.ts` |
| `Presence` | agents online, near and free; the search | `presence.service.ts`, `assignment.service.ts` (findCandidates) |

`MC...` modules add what TLC needs (symmetry, constants that are functions, the
specification without races of `order_race_free`). `..._proofs` modules hold
the theorems: `Balances_proofs` those of `Ledger`, `Placement` and
`ConnectionPool`, `Caches_proofs` those of `CoreEvents`, `OrderList` and
`Presence`, the others those of the module they are named for. Modules that are
proved about together have names with a prefix (`ListSpec`, `PlacementInit`,
`PoolNext`, `PresenceTypeOK`). `FiniteSums` has the lemmas about sums that the
proofs share. A definition whose comment starts with "Mistaken variant" is no
part of a specification: it is the form a plausible bug would give to the
definition after it, and a property of the runs fails when it is put in its
place.

All modules are written alike. A *slot* (`req`, `hook`, `claim`, `slot`, ...)
is a request in progress: what it has read and the call it makes next. One
action is one committed statement or transaction, or one call of Redis or of
another service, so all interleavings of requests and processes are there. An
exception, a lost connection or a crash between two calls is an action of its
own; where an answer may be lost, the effect happens or not by choice. Values
that a property needs and the code forgets are kept in variables marked
"history". The environment (core service, gateway, broker, Redis) is marked
external. A bound on a counter is a constant called `Max...`.

### OrderLifecycle

PATCH is three steps (`PatchRead`, `PatchWrite`, `PatchEmit`), because
`updateStatus` runs its update and its event on the pool and not on the
transaction it opens: each commits by itself. The webhook and the delivery are
two: a read, then a transaction. A claim is one conditional UPDATE and needs
no slot. Some behaviours that look odd are the code's: `assertTransition`
guards the customer's cancel window on a move (cancelled to placed) that no
rule allows; any caller whose id is the order's agent may PATCH it; the
compensation of a failed session set-up runs on a finished transaction and
changes nothing; `goOffline` tests a list for truth and throws before it would
release orders. The webhook asks for the kind of its event and not for its
outcome, and so does this module: `captured` means that a `pay` event came, of
a payment that may have failed. Outcomes are in `Payments`.

### Outbox

A row is `open` until its transaction ends, then `pending` or `void`. A tick
claims the least ids that are committed, undispatched and not locked by
another tick (SKIP LOCKED), publishes them in order with confirms, and commits
the marks. A failed publish, which may have reached the broker, ends the batch
and commits the marks so far; a failed tick rolls them back. Its message may
still be under way then (`adrift`): the worker whose database session died
while it waited for the broker does not know, and what it sent arrives when
another worker has the row, or has dispatched it. `before` records the rows
committed when a row was inserted, to state `OvertakingIsBounded`.

### Ledger

A settlement is one action: its transaction holds the lock of the order row
from the first statement, and no other handler touches that order's rows. A
payout is three: look for the key, lock the balance and check it, debit and
insert. Amounts are numbers and shares are rounded down as in the code; the
commission rate is the branch's or, when the core service does not answer, 0.

### Payments

A webhook inserts its deduplication row (`Receive`, committed before anything
else), reads the order and the session, commits the whole of its effects and
stamps the row. The gateway's transactions (`gateway`) are external: captured
or failed, sent again and again. A refund reads the charge, calls the gateway
under `retry` and commits; `returned` is what the gateway has paid back, an
answer it lost included.

### Assignment

Offer, claim lock and attempts are Redis keys that expire at any time; the row
is written by one conditional UPDATE. An accept is lock, commit, busy mark and
clean-up, and may stop after each; a reject is a read and a write. The search
asks for one agent after the other (`Ask`), and each may get busy before the
offer is made. `invited` remembers who was ever named by an offer or by an
admin.

### Placement

A request looks for a stored answer, reserves (with `retry`, under the publicId
as key), commits the order, opens the session of an online order, and answers;
the answer is stored by a call of its own and is gone after a day
(`AnswerExpires`). A commit that fails is followed by an undo without a key.
`faults` remembers which kinds of trouble there were, so that a property can
say what holds in spite of which.

### CoreEvents

A message is queued, taken by a process, checked against and entered in the
dedupe keys, handled by a read and a write of Redis, and acknowledged; or it
is nacked into the dead-letter queue, from which an operator may replay it.
Crashes return it to the queue. A handler that merges a field into a product
may do so over an entry that is not there; `getBranchProducts` fetches a
product that is not whole.

### OrderList

One list (a branch, a status), its first page and its cursor. The permission
of a role is cached per process, the answer in Redis; both are stored by
whoever missed, after the read. Time is a counter, a request takes at most
`MaxRead`, and a TTL expires with the tick.

### ConnectionPool

Requests hold 0, 1 or 2 connections of one pool. A PATCH has one for its
transaction and asks for another for each of its two statements.

### Archival

Rows have a table and parents. A worker takes the lock, and table by table
selects a batch, copies it and deletes it; the lock may expire under it, and
any step may fail or be the last of its process.

### Presence

`goOnline` writes the hash and the geo set by two calls; the hash expires with
time, the geo set keeps everybody. The search takes the nearest
`Wanted * Overscan` and looks at hash and busy set one call after the other.

### How the modules fit together

The modules meet at rows and calls, and each says what it takes the other for.
`OrderLifecycle` has every write of `orders.status`, and with it the steps of
Placement, Payments, Assignment and deliveries that make one; these modules
have the rest of those steps. `Ledger` starts with a delivery of
`OrderLifecycle`. Each insert into the outbox of `OrderLifecycle` or `Payments`
is an `Insert` of `Outbox`. `Presence` takes the busy marks of `Assignment` as
given in any order, `Assignment` the candidates of `Presence` as any agents
that are free. The ticks of the jobs are those of `scheduler.ts`: one at a time
per process, the next whatever became of the last. So a property of one module
holds in the whole as far as its environment is at least as free there as the
others are, which is why environments are kept as free as they are.

## 3. Runs

Symmetry is over slots, agents, keys and workers of equal standing, and never
in a run that checks liveness. Deadlock checking is off wherever a bound
(events, rows, requests, time) ends the behaviours; in `connection_pool`, which
needs no bound, it is on.

| Run | Question | Instance | States |
|---|---|---|---|
| `order_concurrent` | What survives three concurrent handlers of one order? | 1 order, 2 agents, 3 slots, 7 events | 69,521 |
| `order_race_free` | Is the lifecycle right while the handlers of an order do not race? Refinement of `StatusMachine` | 2 orders, 2 agents, 2 slots, 6 events | 46,476 |
| `outbox` | Is the outbox a reliable stream, and what may overtake an event? Refinement of `EventStream` | 2 workers, 4 rows, batch 2, 1 fault | 1,165,086 |
| `ledger_concurrent` | Do balance, ledger and events agree? | 2 orders, 2 deliveries, 2 payouts, 2 keys, amounts 1 and 2 | 6,086 |
| `payments` | Is a transaction completed once and as a whole, and what of refunds? | 1 order, 2 attempts, 2 webhooks of 2 deliveries, 2 refunds, 2 tries | 1,123,007 |
| `assignment` | Has an order one winner, who was asked? | 1 order, 2 agents, 2 workers, 2 claims, 1 reject | 1,224,548 |
| `placement` | Where does the stock go? Whose is an order? | 2 slots, 4 requests, 1 key, 3 units, 2 tries, 1 expiry | 1,784,313 |
| `core_events` | Is an event applied once, and what do projections hold? | 2 processes, prefetch 1, 2 events | 69,050 |
| `archival` | Is every row moved and none lost? | 2 workers, 2 tables, 3 rows, batch 1 | 1,666 |
| `order_list` | How old may a list and a permission be? | 1 process, 2 requests, 2 orders, page 1, TTLs 1 | 1,355,605 |
| `connection_pool` | Who can stall a pool, and does it recover? | 4 requests, 2 connections | 29,547 |
| `presence` | Whom may, and whom must, a search find? | 3 agents, 2 distances, 1 wanted, 2 looked at | 1,179,946 |

Why the bounds are enough.

- Handlers of different orders share no row of `OrderLifecycle`, so one order
  carries the races; two slots make a race and the third a bystander that acts
  on the result of it. Without races two slots are two orders at work, or one
  order and the steps of a handler after its write. Seven events let an order
  be paid, placed, decided, cancelled over and delivered with three handlers
  alive (a handler starts only if all that are alive can still insert their
  events).
- Four rows and batches of two give full and partial batches, two workers with
  disjoint batches, and a row left behind by a break.
- Payouts of amounts 1 and 2 against credits of 2, 3 (the commission unknown)
  and 1 make every pair of payouts individually covered and together not; a
  subtotal of 1 at 50% rounds its commission to 0.
- Two webhook requests of two attempts of one order race on one session, and
  each attempt can be sent again after a failure. Two refunds make the race on
  `is_refunded`, two tries a refund that is paid twice. Charges are of amount 1,
  so no run has a refund of a part of one; the theorem on refunds is for any
  amount.
- Two claims, an expiring lock and two workers let a lock be deleted by a
  request that no longer has it, and an offer be rewritten by a reject that
  read an older one. The row of one order is all that claims share.
- Three units for four requests let stock run out, be given back and be sold
  again; two slots with one key overlap, and later requests of the key come
  after an answer that was stored, was not, or has expired since.
- Two events are an order and its reverse; with prefetch 1 in two processes
  they overlap, and a crash puts one back behind the other.
- Three rows in two tables with a batch of one make several batches of a table,
  and two children of one parent.
- TTLs of one tick and requests of at most one tick are the least with a
  request that lasts over the end of a TTL. One process is enough there: an
  event that another process takes is one that this one never gets
  (`Invalidate` need not happen); the theorem is about any number. Two orders
  and a page of one have a second page.
- Four requests on two connections fill the pool with PATCHes and leave two
  requests in the queue.
- Three agents, of whom two are looked at, leave one who is overlooked behind
  stale ones.

What holds, in short.

- Orders: whatever the interleaving, an order's agent is written once
  (`AgentIsWriteOnce`), nobody delivers or is paid for another's order
  (`DeliveryHasAgent`, `PaidAgentIsAssigned`), an online order is served only
  after a `pay` event has captured its session (`CapturedBeforeServed`) and the
  outbox has the order's events with their stamps and its placement first
  (`EventHasStamp`, `PlacedEventLeads`); the reason is that the lock-free claim
  is the only way into `assigned`, and that everything a handler may rely on
  after its read only ever grows. While no two handlers of an order are between
  their read and their write (`NoRaces`), the status follows the matrix
  (`KeepsPromise`) and a ready order can be claimed (`ReadyIsClaimable`),
  whatever claims and the handlers of other orders do beside them. With races
  a status may go back; but a final one is left only by a write that its
  handler had decided on before it was final, and stands once those handlers
  have ended (`FinalStands`). Nor is a captured order a paid one: see
  "Findings".
- Outbox: what commits, and nothing else, is published (`IsStream`,
  `DispatchedIsPublished`, `EveryEventDispatched`), and after its mark by no
  tick again, though a message that a failed tick had under way may still arrive
  (`DispatchedIsOver`); and an event is overtaken only by the batches of other
  workers (`OvertakingIsBounded`): in order with one worker.
- Ledger: the balance is never negative (`BalanceNonNegative`), is what events
  and payouts make it (`BalanceMatchesEvents`), and commissions on record are
  commissions deducted (`CommissionIsDeducted`).
- Payments: a transaction of the gateway is completed once (`CompletedOnce`;
  two attempts to pay one order are two transactions, and when both webhooks
  find the session active each completes), a capture is booked as a whole
  (`PaymentIsWhole`), and a row stamped as processed has its charge
  (`ProcessedIsCharged`). Refunds are bounded by the requests that overlap
  (`RefundsAddUp`), and by no less.
- Assignment: the WHERE clause decides alone (`OneWinner`); the winner was
  invited (`WinnerWasInvited`). The lock keeps nobody out for sure and need not.
- Placement: stock is not oversold unless an undo had to be repeated or a
  commit reported an error it did not have (`NeverOversold`), not lost unless a
  server died or the core service was away (`NothingLeaks`); a success is one
  (`OkIsComplete`); a key makes a second order only by overlap, by an answer
  that was not stored, or a day later, when its answer has expired
  (`OrdersPerKey`).
- Consumer: an event is applied at most once, and unless it was cut off exactly
  once (`AckedIsAppliedOnce`); every event is settled (`EventsSettle`); a
  product in use is whole (`UsedProductIsWhole`); the flag of a branch is the
  last event's if nothing was cut off or overtaken (`FlagIsLatest`).
- Caches: a list is not older than its TTL and one request (`ListIsRecent`), a
  permission likewise (`PermissionIsRecent`).
- Pool: only PATCHes that fill the pool can stall it (`StallIsByPatches`), and
  the acquire timeout ends every request (`RequestsEnd`).
- Archival: no row is lost (`RowNeverLost`) and no child left behind without
  its parent (`NoChildStranded`) although sweeps overlap; all is moved in the
  end (`OldRowsAreMoved`).
- Presence: candidates were heard of within the TTL and a search
  (`CandidatesAreRecent`); who is there throughout is found, unless there were
  enough or too many to look at (`WhoIsThereIsFound`).

Each property of a run has a mutant in `PROJECT.json`: a change of a modelled
definition, of the kind a bug would make, under which TLC finds it violated.
`PublishedIsCommitted`, `DeletedIsArchived`, `EventHasStamp` and the type
invariants, but for that of `Assignment`, are only proved.

### Findings

Where code and documents disagree; `PROJECT.json` quotes the lines. The models
follow the code.

Orders: a status may go back, since `updateStatus` writes what it checked on an
older row, and so does the webhook, which puts a cancelled order back to
`placed` (both orders.md:170; `FinalStands` bounds it); an agent may PATCH an
order to delivered, which settles nothing (orders.md:171); a captured order
that is cancelled gets no refund (orders.md:162), and no job cancels orders
that stay unpaid (orders.md:172); the compensation of a failed session set-up
has no effect; an Idempotency-Key replays errors with status 200 and does not
compare bodies, and keeps overlapping requests apart by nothing
(orders.md:101); the key that is deleted on a transition is not the key of the
cached list (orders.md:147); the next cursor is the string "undefined".

Money: a FAILED `pay` webhook is processed as a capture (payments.md:79); the
retry after an error is skipped as a duplicate (payments.md:89); two refunds
both pay back (payments.md:145); a second settlement of an order credits again
(restaurant-finance.md:92); the delivery fee is never booked, because it is
looked up by the type it shares with the service fee.

Agents: a cancellation does not free the agent (deliveries.md:122); `goOffline`
always throws, and nobody leaves the geo set (deliveries.md:159), so that stale
entries may hide a free agent; exhausted orders keep later ones out of the
batch.

Infrastructure: the dedupe key is set before the handler runs, so neither a
redelivery after a crash nor a replay is applied; rows of this year may lose
their parents to the archive; permissions are cached per process for an hour,
not in Redis for five minutes.

## 4. Fairness

Four runs check liveness.

- `outbox`: weak fairness of claiming, publishing and committing of each
  worker. `scheduler.ts` fires the job on every tick, drops a tick only while
  the previous one runs, and takes the job out of `running` in a `finally`; a
  tick waits for nothing but the broker's confirm and the database. Failures
  are finitely many (`MaxFaults`): the broker comes back. Inserts, and
  transactions that stay open, are not fair, and neither is the arrival of a
  message whose tick has ended. `EventStream` promises weak fairness of
  delivery as a whole, which delivers every event since none is delivered twice.
- `core_events`: strong fairness of taking a message and of its check, weak of
  the handler's steps and the ack. The broker redelivers what a dead process
  had, and processes are restarted; crashes may happen for ever, so that weak
  fairness of what they interrupt would promise nothing. Failures, fetches,
  expiry and replays are not fair.
- `archival`: strong fairness of the steps of a sweep, weak of release and
  expiry. The job starts every night, and the TTL of the lock is certain. What
  is assumed of failures is that no table fails every night.
- `connection_pool`: weak fairness of the pool, of timers and of statements.
  knex serves its queue and times out acquisitions, and PostgreSQL ends
  statements. Arrivals and failures are not fair.

## 5. Proofs

Checked by TLAPS for every value of the constants, under the assumption each
module names (`ConstantsAssumption`, `ListAssumption`, `PlacementAssumption`,
`PoolAssumption`, `PresenceAssumption`, in `Archival` also `ParentsAssumption`).
TLC evaluates the assumptions in the runs. Every invariant and every safety
action property that a passing run checks is stated by a theorem.

Each proof has the same plan: an inductive invariant, that `Init` implies it,
one lemma or step for each action, and the theorem from the two by PTL. The
main invariant of a module is `IInv`; a property that needs more gets an
invariant of its own on top (`FreshInv`, `OInv`, `RefundInv`, `TInv`,
`HeldInv`, `FlagInv`, `PagesInv`; `PlacementInv`, `PoolInv` and `PresenceInv`
in the modules with prefixes).

**FiniteSums.** Balance, stock and refunds are sums over sets that change. The
lemmas here say what a `SumFunctionOnSet` is: that the recursion behind it has
one value (`SumExists`, `SumIsUnique`), that any element can be taken out
(`SumTakesOut`), what one change does to it (`SumChanges`, `SumGrows`), its
bounds (`SumBounds`), and how many elements a function counts (`SumCounts`).
The induction theorems of the library take an operator as a parameter, which
the provers cannot instantiate, so induction is on a set of numbers, by its
least counterexample (`Induction`).

**OrderLifecycle_proofs.** The invariants the run checks are not inductive:
whether a stale write is harmless depends on what its handler read. `IInv`
adds that an order without a row has nothing else (`AbsentIsBlank`); that an
order beyond `pending_payment` was announced and, if online, captured
(`ServedIsReleased`); that the snapshot of a handler in progress still
guarantees what its write needs, for instance that a PATCH to `picked` is about
an order that has an agent (`SlotsAreSound`); and that one handler at most sets
up the session of an order (`OneInitEach`). The key lemma is that
`StepsOnlyAdd`: no action removes a row, a stamp, an agent, a capture or an
event, so what a slot knows survives the steps of all others. Theorems:
`TypeCorrect`, `AgentWriteOnce`, `DeliveryAlwaysHasAgent`,
`SettlementPaysAssigned`, `NothingServedUncaptured`, `PlacementLeads`,
`EventsTellTheTruth`, and `FinalStatusStands`, for which
`SlotsFollowMatrix` says that what a handler is about to write is a move of the
matrix from what it had read.

Without races more is true. `FreshInv` says that what a handler read of the
status still allows its write, since only a claim may have come between
(`SlotIsFresh`), and that an order with an agent is past its claim
(`RecordedIsUnderWay`). Theorems, both of `Spec /\ []NoRaces`:
`ReadyCanBeClaimed`, and `PromiseIsKept`, the refinement of `StatusMachine`.
`NoRaces` is no property of the code, which does not lock (see "Findings"): the
theorems say that races between handlers of one order are the only thing that
breaks the promise. Claims, failures, and handlers of other orders do not.

**Outbox_proofs.** `IInv`: claimed rows are pending and of one tick each,
marked rows are published, and what is adrift is committed, since its row was
claimed when it was sent (`AdriftIsCommitted`). Theorems: `TypeCorrect`,
`NoEventLost`, `NoEventInvented`, `NoRepeatAfterDispatch`, and
`ImplementsStream`: every behaviour, its table and broker seen as
`EventStream`'s sets, is one of `EventStream` (its safety part). For
`OvertakingBounded`, `OInv` adds that a tick claims the least ids, so that what
it leaves behind, and was committed before a row of its batch, is in the batch
of another worker (`BatchesLeaveFewBehind`): at most a batch of each. A message
adrift was the first of its tick that was not published, and what it would
overtake only becomes less while it is under way (`AdriftOvertakesFew`).

**Balances_proofs.** *Ledger.* `IInv`: a payout past its check holds the lock
and the balance covers it; a settlement never debits, since the commission is a
share of at most 100% (`ShareBounds`). Theorems: `TypeCorrect`,
`NeverOverdrawn`, `CommissionsAgree`, and `BalanceAgrees`: the balance is the
sum of what was earned less the sum of what was paid out. Assumed: the
commission rate of the core service is at most 10000 basis points, and a payout
amount is positive (`CreatePayoutRequestDTO`).

*Placement.* `StockIsAccounted` counts, for stock that was sold, the requests
that still have to do with it and each fault that may have moved stock behind
the service's back; `PlaceIsSound` says what a request at each of its steps has
done, `RequestsAreCounted` how many requests of a key are done, at work or
without a stored answer: at most as many as run at a time since its answer
expired last, and as many for every expiry before. Theorems:
`PlacementTypeCorrect`, `NothingOversold`, `NothingLost`,
`OkAnswersAreComplete`, `OrdersPerKeyAreBounded`. Assumed: a server runs
finitely many requests.

*ConnectionPool.* `PoolInv`: what a request holds follows from where it is,
the queue is of those who wait, each once, and the pool never hands out more
than it has. Theorems: `PoolTypeCorrect`, `OnlyPatchesStall`.

**Payments_proofs.** `CompletedOnce` needs to know why no two webhooks commit
the same transaction: one at work has the row of its attempt (`HookHasRow`), no
two are at work on one attempt (`HooksAreApart`), and before its commit there
is no charge. `PaymentIsWhole` needs that an order which was read as not
pending stays so (`StatusWasRead`), and compares the announcements of an order
with the number of its charged attempts (`AnnouncedPerCharge`). For
`RefundsAddUp`, `RefundInv` adds up what the requests at work on a charge are
about to pay (`Paying`) and what they paid and have not recorded (`Owed`):
nobody is let in after the first refund on record, so the sum of the requests
of that moment is the bound. Theorems: `TypeCorrect`,
`TransactionCompletesOnce`, `PaymentsAreWhole`, `ProcessedIsInLedger`,
`RefundsAreBounded`. Assumed: attempts and requests at work are finitely many.

**Assignment_proofs.** A request past the commit is the agent of the row, and
the row is written only while it has none. That the winner was invited needs
the same of everything an offer or a reject in progress holds
(`OfferIsOfInvited`, `RejectIsOfInvited`): a write-back of an old list brings
back only names that were there. Theorems: `ClaimedOnce`, `WinnersWereInvited`,
and `TypeCorrect`, whose bound on the attempts of an order is not obvious: each
worker may add one after the cap is reached, if it checked before
(`AttemptsAreCapped`). Assumed: the workers are finitely many and there is one,
without which no tick runs.

**Caches_proofs.** *CoreEvents.* An event that was begun has its key
(`BegunIsSeen`), its key and its place tell how often it was applied
(`CountIsKnown`), and one with a key was applied, is at it or was cut off
(`SeenIsAccounted`). A product that has a name is whole, also as a handler has
read it (`ReadIsWhole`). For the flag, `FlagInv` says that as long as no event
was overtaken, the handler at work is of the last event begun
(`HandlerIsLast`), and the flag of the last that was applied (`FlagIsOfLast`).
`HeldInv` says who holds which message, and that nobody holds more than the
prefetch. Theorems: `TypeCorrect`, `AppliedAtMostOnce`, `NoPartialProduct`,
`FlagFollowsLastEvent`.

*OrderList.* What a request that asked the core service holds is the truth
unless it changed since the request began (`SlotsAreSound`), and so an entry is
the truth unless it changed later than `MaxRead` before it was stored
(`EntriesAreSound`). The same of a page: an order that has been in or out of the
list since the request began is in it, or not, accordingly (`PageIsRight`,
`PagesInv`). Theorems: `ListTypeCorrect`, `PermissionsAreRecent`,
`ListsAreRecent`.

*Presence.* A hash was written less than a TTL ago (`HashesExpire`), so who
has one was heard of; an agent who is there throughout a search has his hash,
is among those who were looked at unless others were nearer, and is either
still to be looked at or found (`ThereIsThere`, `NobodyIsMissed`). Theorems:
`PresenceTypeCorrect`, `CandidatesWereHeardOf`, `SearchMissesNobody`. The TTLs
of Redis are assumed to be at least 1: to set one of 0 deletes the key.

**Archival_proofs.** A batch about to be deleted has its copies
(`DeletesCopies`) and is of the table its sweep is at (`BatchIsOfTable`); a
sweep leaves no row behind in the tables before (`EarlierTablesAreEmpty`), and
children are in earlier tables than parents: so a parent is deleted only when
its children are gone, also when two sweeps overlap. Theorems: `TypeCorrect`,
`NoRowIsLost`, `ChildrenKeepParents`, `DeletesFollowCopies`.

Only model-checked: `EveryEventDispatched`, `EventsSettle`, `OldRowsAreMoved`,
`RequestsEnd` and the fairness of `IsStream`. Liveness is out of the prover's
reach.

## 6. Not modelled, and why

- Authentication, the region of a request, validation: stateless checks. Who
  may count as which actor is `Callers`, the permission check is in `OrderList`.
- Websocket messages: fire and forget, no other state depends on them; with
  them `updateLocation`, which only forwards a position.
- Configuration, logging, dependency injection, response formats, the seed
  script: set-up and layout. Values of the configuration are constants.
- Lists and earnings, apart from one list: reads without a trace.
- The gateway's redirect URL and requests: pure formatting. Gateway, core
  service, broker, Redis and PostgreSQL themselves are environments.
- Within modelled parts: `attempts` and `last_error` of the outbox (written,
  never read); updates of rows while they are archived; the permission and
  restaurant events of the consumer, which delete a key (`OrderList` has the
  former); prices and quantities of a placement; the private accept and reject
  of `DeliveryLifecycleService`, which nobody calls.
- That an exhausted order does not starve the orders behind it, that a busy
  mark is taken back when its order ends otherwise than by the delivery route,
  and the other statements under "Findings", are false of the code, and are
  stated there instead of as properties.
