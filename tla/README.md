# A verification project for aforden

aforden is a multi-tenant field service platform: Next.js route handlers call
services in `lib/services`, `lib/publicApi` and `lib/integrations`, which keep
everything in one PostgreSQL database through Prisma. There is no shared memory
between requests that matters (one cache does, see `Integrations`) and no message
broker. Concurrency is between *database statements*: several requests, several
server processes, cron calls and retries interleave at every `await`, under
PostgreSQL's default isolation (READ COMMITTED). So the questions of this project are
of one kind: what a call read, in or before its transaction, that may have changed
when it writes; what row lock, conditional update, unique index or foreign key stands
in between; and what a crash leaves behind.

This directory holds TLA+ modules for the parts of the system in which those
questions are hardest, TLC runs over small instances of them, and proofs that
TLAPS checks for every instance.

## 1. Inventory

### 1.1 The parts and their state

| Part | State it keeps | Operations that change it | Modelled in |
|---|---|---|---|
| inventory movements `lib/services/inventory/movement`, `balance` | `InventoryBalance` per (part, location): on hand, reserved; append-only `StockMovement`; `WorkOrderPart` | receive, transfer, adjust, reserve, release, consume, return | `StockBook`, `Inventory` |
| parts and locations `inventory/part`, `inventoryLocation` | status | create, update, status transition | the transitions, in `Inventory` |
| notification outbox `notification/eventIngestionService`, `outboxProcessorService`, `reconciliationWorker` | `NotificationOutbox` rows keyed by dedupe key | emit in a caller's transaction, claim, fan out, fail, sweep | `Outbox` |
| notification delivery `deliveryDispatchService`, `retryDeliveryService`, `reconciliationWorker` | `NotificationDelivery` status and attempts, `Notification` status | dispatch, record, aggregate, retry, reschedule, sweep | `Delivery` |
| public API idempotency `lib/publicApi/idempotency` | `ApiIdempotencyRecord` per scoped key | acquire, execute, resolve, release, expire, purge | `Idempotency` |
| scheduling `lib/services/schedule` | `ScheduleAppointment`: status, interval, dispatch status, begun field work | create, reschedule, cancel, dispatch, undispatch, acknowledge | `Scheduling` |
| work orders `workOrder` | status machine, assigned technician, references to customer, location and asset, history | create, update, assign, transition, delete | `FieldWork` (status and technician), `Assets` (references) |
| technician operations `technicianOperations` | `TechnicianTimeEntry`, the order's status, the appointment's stamps | travel, start, hold, resume, complete, time entries | `FieldWork`; their effect on appointments also in `Scheduling` |
| invoices and payments `invoice` | invoice status and balances, `Payment` ledger, line items | issue, edit, record, void, overdue, delete | `InvoiceAccount`, `InvoicePayments`; prices in `Quotes` |
| quotes `quote` | header with discount and totals, line items, status | edit, send, approve, reject, revise, expire, convert, delete, invoice | `Pricing`, `Quotes` |
| automation `automation` | `AutomationRule`, `AutomationScheduleJob` with its breaker, `AutomationExecution` with steps | poll, claim, ingest, execute, retry, time out, switch, delete | `Automation` |
| subscription billing `billing` | `Subscription`, `BillingWebhookEvent` inbox | provider webhooks, dunning sweep, reconciliation, cancellation, pauses | `Subscription` |
| integrations `lib/integrations` | `IntegrationConnection`, credentials, the owner of an exclusive capability, execution ledger, event inbox, a cache in memory | connect, disconnect, execute with retries, receive | `Integrations` |
| assets and customers `asset`, `customer` | `Customer.status`, `ServiceLocation`, `Asset` with `AssetHistory` | create, move, sell, transition, retire, delete | `Assets` |
| public webhooks, rate limit, technician assignments, invitations, authentication | delivery rows, a log in memory, bookings, one-time tokens, sessions | attempt, count, book, accept, reset | no: section 8 |
| record keeping (catalogue, organisation, profiles), reporting, the rest of platform administration, authorization, adapters, email, encryption, configuration, routes, user interface | rows without concurrency beyond unique indexes, or none | single-row updates, pure functions, I/O | no: see `PROJECT.json` for the reason of each |

### 1.2 How they interact

* An operational service (scheduling, work orders, payments, inventory alerts)
  calls `emitNotificationEvent(tx, ...)` in its own transaction. Outbox workers
  turn the row into a `Notification` with its `NotificationDelivery` rows, and
  dispatchers hand those to e-mail, SMS or in-app providers.
* Scheduling reads the work order's status and assigned technician; technician
  operations read the appointment's dispatch status and stamp it; completing an
  order completes its appointments; assigning does not touch them.
* Consumption and return of stock tie inventory to work orders by `WorkOrderPart`;
  a quote becomes a work order or an invoice; an order, an asset and a location
  refer to a customer, and foreign keys refuse the deletion of what is referred to.
* Public API handlers run inside `withIdempotency`, whatever service they call.
* An inbound event of an integration is handed to the automation rules in the
  transaction that marks it; schedule jobs hand their ticks to the same ingestion.
  Executions call back into the services.
* Billing and integrations each keep an inbox of provider events, with the same
  pattern: record, process, mark.

### 1.3 What is hard, and what makes each part correct

`PROJECT.json` lists every hazard at its line. In short:

* *inventory*: two calls on one balance (row locks, in the order of location ids
  for transfers); status checked before the transaction; sums over movements that
  the lock does not cover. Correct when the movements explain every balance, no
  balance goes below zero, no call waits in a circle and every call is one step of
  a book of stock.
* *outbox*: an event must be recorded exactly when its operation commits; two
  workers must not process one row; a worker dies between claim and mark.
* *delivery*: no row is locked and every write is by id: two dispatchers, a retry
  loop and a sweep overwrite one another.
* *idempotency*: two requests with one key, a handler that outlives its record, a
  late resolve, release or delete that meets somebody else's row, a crash that
  leaves the key locked.
* *scheduling*: the calendar is checked before the transaction; only creation
  checks again under a lock; statuses are checked before the update that is
  unconditional.
* *field work*: an order's transition commits apart from the operation that asked
  for it, so a call that fails afterwards has half happened; the rule of one active
  time entry per technician is checked before the transaction and has no index
  behind it; orders are written by id, whatever their status has become.
* *payments*: balance and status are computed from a ledger read before the
  transaction, and kept while an attempt at a number is repeated.
* *quotes*: each edit prices all lines and writes them by id; shares of the header's
  discount are rounded and must still add up, edit after edit.
* *automation*: two workers hold copies of one due job; the breaker's count is
  written from the copy; a time-out gives up on an action that goes on.
* *subscriptions*: the provider's events come late, twice, out of order and beside
  sweeps that act on what they read; their effect and their mark are two
  transactions.
* *integrations*: a cache in memory takes an event that a rollback then takes back;
  deliveries overlap on several servers; a provider carries out a call the server
  has given up on; a connection is written by several calls without its status being
  looked at again.
* *assets*: a call writes columns it read before; customers and locations are
  deleted while something that will refer to them is on its way.

## 2. Plan

Built, in the order of importance: `StockBook` and `Inventory`; `Outbox` and
`Delivery`; `Idempotency`; `Scheduling`; `FieldWork`; `InvoiceAccount` and
`InvoicePayments`; `Pricing` and `Quotes`; `Automation`; `Subscription`;
`Integrations`; `Assets`; each with its run and its proofs. The proofs of two
components that share nothing stand in one module in four cases: `OutboxQuotesProofs`,
`IdempotencySubscriptionProofs`, `SchedulingAutomationProofs` and
`AssetsIntegrationsProofs`. The other four modules have the name of their component.

What would come next:

1. A module that composes `Scheduling` with `FieldWork` in place of the environment
   actions each has for the other, and one that composes `Integrations` with
   `Automation` (an inbound event up to its executions).
2. Public webhooks: enqueued in a transaction, attempted after it, recorded by id.
   Plan change, checkout and creation of subscriptions.
3. Proofs: every safety property that a run checks has one (section 6). What is left
   is what the composed modules would say, and abstract specifications, as `StockBook`
   and `InvoiceAccount` are, of the outbox (what is announced) and of the quote (a
   document that is always priced), with their refinements.

## 3. Modules

One step of a model is one statement of the code as the database sees it, or a
transaction's remaining statements and its commit when nothing in them can be
seen or changed by another transaction because the rows are locked, or because
only the commit makes them visible. Ids (cuid) are fresh values. Quantities,
times and payloads are members of small sets. Definitions that begin with the
comment *Slip* are not part of any specification: each is a plausible mistake in
the code, written next to the definition it would replace, and each property is
known to fail when its slip is put in (`mutants` in `PROJECT.json`).

### 3.1 `StockBook` and `Inventory`

`StockBook` is what the services promise: a book of balances and movement totals
in which each movement happens at one instant, guarded by the balance of that
instant. `ledger` is the sum of the `StockMovement` rows per row and type, the
only thing about them that the properties tell apart. Return is bounded per
*location*, because this is all the row lock can guarantee (section 7).

`Inventory` is the code. A call goes `idle -> checked` (part, location and work
order part read and checked before the transaction) `-> locked`
(`lockInventoryBalance`, one row or, for a transfer, two in the order of
`localeCompare`; `seen` is what it read) `-> guarded` (returns only: the sum of
prior returns is a query of its own) and commits what it computed from `seen`, not
from the current balance. `Rollback` is any error, the transaction's time-out or a
dead process. Parts and locations change status at any moment. `MCInventory` gives
the order of the two locations and the symmetry of callers.

### 3.2 `Outbox`

`Change`, `FindExisting`, `Create`, `CommitChange`, `RollBack` are an operation's
transaction around `emitNotificationEvent`: look up the dedupe key, insert, and
let the unique index wait for, or be refused by, another transaction with the same
key. `Claim` is the single `UPDATE ... WHERE id IN (SELECT ... FOR UPDATE SKIP
LOCKED)`. `FanOut` is the transaction that creates the notification with its
deliveries and marks the row; `FailFanOut` the mark after any error;
`LoseFailure` that mark failing too, which the code ignores. `FindStuck` and
`Recover` are the sweep's query and its updates, one per row, with what it read in
between (`swept`).

### 3.3 `Delivery`

The deliveries of one notification, and processes that each run a dispatch, the
retry loop or the sweep. A dispatch reads the delivery, marks it `PROCESSING` by
id, calls the provider, records the outcome with the count read *before* the call,
reads its siblings, and writes the aggregate to the parent. The retry loop takes
due deliveries one by one and dispatches each; a `FAILED` result is rescheduled or
exhausted. `overlapped` and `crossed` are ghosts: the deliveries that two processes
have had under way at once, and whether a dispatch wrote the parent between another's
look at the siblings and its write. `MCDelivery` explores no state beyond the first
(`Apart`), of which the properties say nothing. A provider may take a
message and still answer with an error.

### 3.4 `Idempotency`

One scoped key. A request looks the row up, deletes an expired one by id, inserts
its own, or on `P2002` reads the winner; it then executes the handler and resolves
or releases the row it holds, by id. `expired` is which ids are past their expiry,
so time can pass between any two statements, the handler's included. `effective`
and `torn` are ghosts: which executions had an effect, and which of these left no
answer behind (a handler that failed after its service had committed, a crash, or
a resolving update that failed).

### 3.5 `Scheduling`

An appointment stands in a sequence at its number. A call goes `idle -> read` when
it has passed the guards on the rows it read, `-> checked` when the calendar has
no conflict (only creation, rescheduling and dispatch look), and its transaction
writes by id. Creation goes on `-> locked` (the update of the technician's profile
takes the row lock) `-> clear` (the calendar checked again) `-> numbered` (the
latest number read) and books or collides on the unique number, which starts the
next attempt of at most five. `ChangeOrder`, `BeginFieldWork` and
`CompleteAppointment` are what other services do to the rows, with the reads and
guards on the *appointment* that these services have; their other preconditions
(the order's status, the technician's own identity) depend on rows that are free
to change in this model and are in `FieldWork`. `overlapped` is a ghost: it
becomes true when a call was not alone from its first read to its end.
`updateSchedule` changes notes only and is left out; so are working hours and
leave, which can only refuse. Numbers are those of one year.

### 3.6 `FieldWork`

A call goes `idle -> read` when it has passed the guards on the rows it read. A
transition, an assignment, travel, a break and an edit of an entry then write once,
by id. The calls of `technicianOperations` that move the order (start, hold, resume,
complete, and the office's completion) open a transaction and pass it to
`transitionWorkOrderStatus` as its fourth argument, which takes it for the actor's
place (`actorOrTx`): rows are read in it, but `txClient` is undefined and line 417
opens another. So `CommitMove` commits the order (`-> moved`), `Find` reads the
appointments and the entry to close (`-> found`), and `CommitStart`, `CommitHold`,
`CommitResume` or `CommitComplete` writes them. `Fail` at any point rolls back what the outer
transaction wrote, and nothing else; `torn` is a ghost for the orders it had moved
by then. `closer` stands for the history row that says what completed an order.

Successive reads of one call are one step, its start. The properties that hold while
calls overlap rest on one row's guard at a time, the serial ones on no other call being
there, so reading the rows together gives nothing away. Roles are merged: a transition
may use the whole matrix, as the office's may; dispatchers and technicians have a part
of it. `OTHER` is a break or an administrative entry, without the appointment it may
name. `acknowledged` is one bit of the dispatch status, enough for travel. Creating,
dispatching, recalling and cancelling appointments are `Scheduling`'s, here one atomic
step each with the guards on the order and the appointment.

### 3.7 `InvoiceAccount` and `InvoicePayments`

`InvoiceAccount` is what the invoice services promise to calls that come one after
another: an account that every call changes at one instant, guarded by what has been
paid at that instant. `InvoicePayments` is the code. A call goes `idle -> read` with
the balances it computed from the invoice and the payments it read; its transaction
then writes the row by id. `recordPayment` goes on `-> numbered` (the latest payment
number, read in the transaction); a taken number (`P2002`) takes it back, with the
same balances, for up to `MaxTries`. `booked` is the sum of the `RECORDED` payments,
carried along by each step that books or voids one. Once two calls have
overlapped, `account` is `Disturbed` and nothing is promised.

### 3.8 `Pricing` and `Quotes`

`Pricing` holds the two calculation engines, quote and invoice, which are the same
steps in two files: bases, the header's discount, its shares by largest base with the
remainder, taxes, totals; all rounded half up in whole cents. `Quotes` is one quote
and one invoice made of it. An edit reads the document, prices *all* lines and then
updates each by id, with its header. `UpdateQuote` writes a line's share of the
header's discount into the column that the next calculation reads as the line's own
discount (`updateQuote.ts:150`), as in the code (section 7). Each service is an action
of its own, and so is its commit. No call begins once two have overlapped, since all
properties of this run are about calls in series.

### 3.9 `Automation`

Workers that poll one schedule job. `Poll` reads the due jobs (this one's copy may be
old when its turn comes), `Claim` is the conditional update that moves the job to its
next time, `Ingest` finds the matching rules, `CreateExecution` creates one execution
per rule, and the worker runs them: conditions, `StartExecution`, then per action
`BeginStep` and its outcome, or a time-out that gives up on an action which goes on (`acting`
keeps it, `Land` ends it). `TickSucceeds` and `TickFails` write the breaker from the
copy. Members switch and delete job and rule and move the entity's date at any
moment. One job is enough because jobs share nothing; executions run at depth 0, as
nothing in the code starts one below another.

### 3.10 `Subscription`

One subscription, the provider that owns its truth, the inbox of webhook events,
sweep, reconciliation and the members' and operators' calls. Time is what the code sees
of it. An event at Stripe carries the second it happened in, so events of one second
share a time; events at Paddle and the stamps of sweeps are read off a clock of
milliseconds. `ReadClock` is a reading: the clock may or may not have moved on, and a new
second may have begun or not (`second` is the time of an event now). So two
events may have equal times, and an event may follow a stamp and have the earlier time.
The provider's and the server's clocks are taken to agree, and every event to carry a
time (the fallback of `extractEventTimestamp` to `new Date()` is left out). The true
order of things is in the ghosts alone: event *e* has the place `2e`, a sweep the odd
one in between. A delivery looks the event up (`Receive`), records it (`Record`), reads the
subscription and decides (`Handle`); `Begin` is the state machine's own read and
checks, `Apply` or `Stamp` its write, two steps because the transaction takes no
lock; and `FinishEvent` is the mark, a transaction of its own.
`SUBSCRIPTION_TRANSITIONS` is the table of the source.
Ghosts: `newest` is the time and the event of the last change of status that had a time;
`reached`, the place up to which the row agrees with what the provider did; `overtaken`,
that a row was written which had changed since it was read, or was set back by a
reconciliation; `skipped`, that a payment event came before the event that leads up to
it, or a reconciliation corrected the status under a date older than what it had fetched;
`blurred`, that the comparison of two times came out against the true order; `manual`,
that a person intervened. Subscription invoices are left out.

### 3.11 `Integrations`

Requests on a workspace's connections. Managing: `Connect` and its handshake, storing of
credential and capability, `Disconnect` (which locks the capability's row, then the
connection), operators. Outbound: the capability is resolved, an attempt is recorded in
the ledger, run, answered, and retried or blamed on a connection. Inbound: signature,
replay window, inbox row, and the transaction that hands the event to the rules and
marks it; `remembered` is the cache in each server's memory, which no rollback undoes.
The workspace's default provider (`capabilityResolver.ts:111`) is not modelled apart: it
selects a connection as a caller's `hint` does, which may be any. A fatal answer may
hide a success (an adapter that throws after the provider has acted); a rejected one
means that nothing was done. What is assumed: at least one rule matches an event; a
request lasts less than the five minutes of the window; an adapter's verdict on an event
(`nature`: wanted or not, with a time of the provider's own or with `new Date()`) is
fixed; two events have two deduplication keys (the key is a hash of workspace, type,
entity, id and time, and a collision of different events is not modelled); signatures
are the provider's; and all connections advertise one exclusive capability. Connecting
and disconnecting lock in opposite orders, but a connect that has reached the capability
has not had a credential and owns nothing a disconnect would hold, so they cannot wait
for each other.

### 3.12 `Assets`

Customers, locations, assets with their history, work orders that refer to them. A
call begins with what it read and computed (`call`), all in one step, and writes later,
by id: the columns it wants to change and no others. `crossed[a]` is a ghost: the
columns of the asset that changed between some call's read and its write. `told` is
what the history says when read in order. Foreign keys are guards of the commits
(`CustomerThere`, `LocationFree`, ...), as PostgreSQL refuses there whatever the call had
checked. `decommissionedAt`, `retiredAt`, primary flags, notes, categories and numbers
are left out.

## 4. Runs

### 4.1 What each run shows

| Run | Instance | What it shows |
|---|---|---|
| `inventory` | 1 part, 2 locations, 1 work order part, 2 concurrent calls, 5 movements, stock up to 2; the part and a location switched off and on | movements explain every balance; returns into one location stay within what was used; waits for row locks go upwards, so nobody waits in a circle; the services implement `StockBook` |
| `outbox` | 2 events, one without recipients, 2 operations, 2 workers, batch 2, one crash, one premature recovery | an event has a row exactly when an operation that emits it committed; a second notification is always the sweep's; every row settles |
| `delivery` | 2 deliveries, 2 processes, 2 attempts, 1 crash | as long as no delivery is under way twice: what a provider was given is counted, final statuses stay, and the notification ends as its deliveries do although they end together |
| `idempotency` | 2 requests, 2 payloads, 3 records, 1 fault | one execution while the record lives, replays to the right payload, and the key comes free |
| `scheduling` | 2 callers, 4 calls, 2 technicians, 1 order, 3 slots (two half hours and the hour), 2 appointments, 2 attempts | bookings exclude one another whatever races them; calls in series keep the calendar exact and terminal statuses final |
| `fieldwork` | 2 callers, 4 calls, 2 technicians, 1 order, 1 appointment, 3 entries | whatever interleaves or fails halfway, entries keep the stamps and starts behind them; calls in series complete an order with its appointments unless the second transaction is lost, leave terminal orders alone, and open a second entry by a resume only |
| `payments` | 2 callers, totals of 0 and 2 cents, 3 payments, 2 attempts at a number | calls in series keep the row equal to its ledger, and every one is a step of `InvoiceAccount` |
| `quotes` | 2 callers, 2 lines whose prices do not divide, 2 discounts, 3 edits | calls in series leave header and lines equal to the cent, keep what was sent as it was sent, and convert once |
| `automation` | 2 workers, 1 job, 1 rule of 2 actions, threshold 2, 2 ticks, 2 executions, 1 change by a member | no due time of an interval job is dispatched twice; the breaker agrees with the executions; an execution has one action under way |
| `subscription` | 2 processes, 2 events, 3 deliveries, 1 call of a person, 1 crash; a trial at Stripe, a paid subscription at Paddle | changes of status follow the provider's times, equal ones of events of one second included, and are made once; when all is quiet the status is the provider's, unless the times deceived |
| `integrations` | 3 requests, 2 connections, 1 event, 2 servers, 2 attempts, 1 operation | a connection shown as connected can be used; nothing known to have succeeded is tried again; an event reaches the rules once, and is not lost |
| `assets` | 2 customers, 2 locations, 1 asset, 1 work order, 2 callers, 3 of the statuses | assets stand with their owner, their history tells where they are, and no row refers to one that is gone |

The runs have between a hundred thousand (`payments`) and 2 million distinct states
(`automation`).

### 4.2 Where the code does not do what a property says

No run is expected to find a counterexample. Where the code does not keep a promise
without exception, the exception is a *ghost* in the model and an "unless" in the
property, so that the property says exactly how much is kept:
`overlapped` (two calls or processes at once), `crossed` (a column, or the parent, that
changed between a read and a write), `torn` (a second transaction lost), `overtaken`
and `skipped` (events out of order), `blurred` (times that contradict the true order),
`disturbed` (overlapping polls or a job switched
meanwhile), `rolledBack` (a dispatch that the cache took and the database did not),
`operated` and `manual` (an operator's intervention). Each of them is set by the step
that causes it, and section 7 says what happens then.

### 4.3 Bounds, and why they are enough

* Two callers nearly everywhere: each hazard is a race between two calls over one row
  (a key, a slot, a balance); a third adds a further reader of the same row, and the
  proofs (section 6) cover any number.
  `Integrations` has three requests, since two deliveries may meet a third call that
  breaks the connection or an event whose dispatch was rolled back.
* `MaxMovements = 5` is receive, reserve, consume and two returns, the longest chain
  that any property of `Inventory` needs. Two locations are what a transfer and an
  over-return need.
* `MaxRecords = 3`: the expired record, the one that takes its place, and the one a
  late step would let in.
* `MaxCalls = 4`, `MaxAppointments = 2` of `Scheduling`: two bookings and two further
  calls that race or follow them. Two attempts stand for five: collide and try again,
  collide and give up.
* `FieldWork`: four calls are travel, start, completion and one that races or follows
  them; three entries are one closed and two open at the same time. Its initial states
  are an order that is new and one that is assigned with an acknowledged appointment,
  which would cost three of the calls. Any number of calls may fail.
* `InvoicePayments`: a total of 0 settles nothing, a total of 2 is paid in two halves
  or at once; the third payment is the one made after another was voided.
* `Quotes`: `OddKinds` and `Discounts` are chosen so that shares and taxes round, in
  both directions, a line's own discount and the header's are both there, and one line
  is free of tax; a third edit finds what the second one left.
* `Automation`: two ticks of a threshold of two open the breaker; the second worker
  polls while the first dispatches; one change of each kind can come at any moment.
* `Subscription`: two events may come in either order, and the third delivery
  repeats one of them. `MaxTime = 2` is two readings of the clock: the two events share
  a second or do not, and a sweep reads the clock before them, between them, or later in
  the second of one of them. Three different times do not fit;
  the same properties hold with `MaxTime = 3`, in five million states, and the proofs
  are for any.
* `Delivery`, `Outbox`, `Subscription`: one crash; with unboundedly many nothing is
  live, and a second one meets the state that the first one leaves.
  `MaxRecoveries = 1` bounds only the recoveries of rows that a live worker still
  holds, which would otherwise add notifications without end.
* `Assets`: a customer who sells and one who buys, each with a location, and two calls
  on one asset; `IN_STORAGE`, `OPERATIONAL` and `RETIRED` are the statuses of which
  the guards make a difference that the properties see.

Four runs cut branches with a CONSTRAINT. `Undisturbed` (`Subscription`) and `Apart`
(`Delivery`) stop where the properties end, at a write that overtook another and at a
delivery under way twice; the first also follows, beside a person's call, one event and
two deliveries only, and after a crash neither a call nor two processes at work. `Focus`
of `Assets` stops at a sale or a change of status inside another call, at an asset or
order that is gone, and at a second customer out of business. `Focus` of `Integrations`
lets an outbound operation, which neither reads nor changes an event, run beside events
of one nature only. The proofs have no such limits.

Deadlock is not checked (`CHECK_DEADLOCK FALSE`): with its bounds spent, or with
nothing left to deliver, each of these systems may stop. Circular waiting for row
locks is an invariant of `Inventory` (`WaitsAbove`).

### 4.4 Fairness

Only two properties are about progress, and only their specifications state fairness.

* `Outbox`, `Settles`: the worker loops, the sweep and the passing of time are weakly
  fair; crashes, failures and emitting are not. The documents describe these workers as
  running continuously; in the repository one route calls the reconciliation, and
  `vercel.json` schedules only billing reconciliation and session clean-up. So
  `Settles` speaks of the workers *when they are run*, which this repository alone does
  not arrange.
* `Idempotency`, `KeyIsFreed`: a request that has started goes on, time passes, and
  some client tries the key again: an expired record is deleted only by the next
  look-up, since nothing in the repository calls the purge.

The other modules claim no progress. `Delivery` would need a retry loop that no code
calls, `Subscription` a dunning sweep that no route or schedule calls, `Automation`
pollers that nothing starts, `Integrations` a provider that delivers again; a call of
the remaining services ends when its statements do.

## 5. How properties relate to the code

* `TypeOK` of each module is its one type invariant, and proved of each. TLC checks it
  too for `Automation`, `Subscription`, `Integrations` and `Quotes`, where it has the
  module's name in front (`QuotesTypeOK`).
* *Concurrent* safety that rests on a row lock: `LedgerExplainsBalance`,
  `ReturnsPerLocationWithinUse`, `WaitsAbove`, `ImplementsBook`, `BookingsExclusive`;
  on a unique index: `AtMostOnce`, `ReplayIsFaithful`, `RowIffCommitted`; on a
  conditional claim: `OneNotificationPerClaim`, `OneTickPerDueTime`; on foreign keys:
  `ReferencesStand`, `OwnershipParity`; on the order of reads and writes alone:
  `EntriesAreBacked`, `SendsAreCounted`, `QuietParentAgrees`, `FinalIsImmutable`,
  `HistoryTells`, `OneActionAtATime`, `ConnectedHasCredential`, `RepeatsOnlyUnknown`,
  `OneDispatch`, `ProcessedWasDispatched`; on the provider's time:
  `ChangesInEventOrder`, `AgreesWhenQuiet`.
* *Serial* safety of code that has no lock, so that what races cost is plain:
  `SerialCalendarIsExact`, `SerialEndsAreFinal` (of both modules),
  `SingleEntryUnlessResumed`, `WholeUnlessTorn`, `SerialBalances`,
  `ImplementsAccount`, `SerialTotalsAgree`, `SentQuotesStand`, `BreakerIsExact`.
* *Progress*: `Settles`, `KeyIsFreed`.
* Proved and not run, being parts of the arguments of others: `NonNegative`,
  `LockedRowIsFresh`, `OnlyAdjustmentUncovers` (`Inventory`), `RunnerHoldsKey`
  (`Idempotency`), `LocksEndWithTransactions` (`Scheduling`), `RetiredForGood`
  (`Assets`), `DraftsAreUnpaid` (`InvoicePayments`); and of the engines
  `DiscountIsAllocated` and `CalculationAgrees` (`Pricing`).

## 6. Proofs

Every safety property that a run checks is proved of every instance, and some that are
parts of the arguments. No proof assumes more than the ASSUME of its module: types of the
constants, `None`, `Nothing` and `Disturbed` apart from the rest, for `Inventory` that
location ids are totally ordered, for `Automation` that the job's rule is one of the
rules. All counts (callers, parts, locations, requests, payloads, technicians, slots,
events, workers, rules, deliveries, lines, connections, servers, customers, assets,
orders) are arbitrary; the bounds of section 4.3 are arbitrary naturals, and the prices,
rates and discounts of `Quotes` any naturals.

Two kinds of argument recur. Where calls interleave, the inductive invariant says, of
each process at each of its stages, what it has read and what of that is *still true*,
and the proof is that no step of another takes it away. Where a property speaks of calls
in series, the invariant is `~overlapped => ...`: the one call there is reads, and
nothing has happened when it writes. Properties such as balances or final statuses are
never inductive alone, because a commit does not look at the row again.

*Inventory.* The inductive invariant `IInv` (in `Inventory`, so that TLC can
check it) says that a call past its checks has the arguments they let through, that
a call which computes holds all its rows, that what it read from a held row is what
the row contains, and that a guarded return still fits its location. The balances
alone are not inductive: `NonNegative` needs that the guard was taken on a fresh
row, which needs the locks, which needs the shapes. From it follow `TypeOK`,
`NonNegative`, `LockedRowIsFresh`, `ReturnsPerLocationWithinUse`; `WaitsAbove` by an
argument of its own on the rank of the rows; and, because fresh reads make each
commit a step of the book, `Implementation`: `Inventory` refines `StockBook`.
`LedgerExplainsBalance` and `OnlyAdjustmentUncovers` are then properties of the
book's steps.

*Idempotency.* `KeyKept` carries the argument: an execution to be remembered
keeps its row, since every statement that removes a row names the row's own id, and
removals are due only to expired rows or to executions without effect. It follows
that a repeated request is executed at most once, that the running request owns the
key, and that a response is replayed only to its own payload.

*Scheduling.* Two inductive invariants. Whatever the interleaving, `Cleared`:
from the check under the technician's lock to the commit no booking can get in the
way, because another booking of this technician needs the lock and no other call
turns an appointment into a fresh booking. In series, `SerialInv`: the one running
call's guards and calendar check still hold when it writes. From the first follow
`TypeOK`, `BookingsExclusive` and `LocksEndWithTransactions`; from the second
`SerialCalendarIsExact` and `SerialEndsAreFinal`.

*Field work.* `EntriesAreBacked` is not inductive alone: a call between its two
transactions is about to write an entry for an order that must be started by then,
with appointments that must exist. `CallsKnown` says so of every call under way, and
`Grows` (nothing started, created or stamped is undone, no entry is lost) is why other
callers' steps cannot take it away. From it follow `TypeOK` and `EntriesAreBacked`. In
series, `SerialInv` says that what the one running call was let through for still holds
when it writes; from it follows `SerialEndsAreFinal`. Two more invariants stand on it:
`EntriesInv` (what a call read of its technician's open entries, none, or the one it will
close, is so when it opens another) gives `SingleEntryUnlessResumed`, and `CloseInv` (an
order that a completion has moved has no active appointment of its technician, or that
completion is about to complete exactly those it found, or it was lost and the order is
`torn`) gives `WholeUnlessTorn`.

*Invoices and payments.* `SerialInv` is `Balanced`, the row agrees with its ledger, and
`Found` of the one running call: what it read still holds, and what it will write was
computed from it. Each step of the ledger moves `booked` by the amount it moves the row
by. From it follow `SerialBalances`, and that no draft, or invoice deleted as one, has a
payment. `Summed`, that `booked` is the sum of the recorded payments whatever overlaps,
is stated by a function from sets of payments to sums; it is needed because a voided
payment has to be a part of what was booked. With it each commit of a call that nothing
overlaps is one step of the account, and each step that begins an overlap makes the
account `Disturbed`: `InvoicePayments` refines `InvoiceAccount`.

*Quotes.* First, sums of functions over finite sets, and an induction over the *subsets
of a given set* in place of one over data: a set is a parameter that a prover can
instantiate, so what is additive is proved of every set of lines. Then `Pricing`:
`DiscountIsAllocated` (rounding down leaves a remainder that is not negative, and the
candidate line takes all of it, so the shares add up to the header's discount) and
`CalculationAgrees` (header and lines of what the engines return agree, for any prices,
rates and discounts of lines whose bases are not negative). Then `QuotesInv`: while
calls are in series, the one under way is about to write a document that agrees, priced
of the lines that are still there (`PricesAsRead`), and the status it checked is the
status there is (`StatusAsRead`). From it follow `SerialTotalsAgree` and
`SentQuotesStand`.

*Outbox.* `CallersKnow` gives `RowIffCommitted`: of two transactions that emit
one event, one owns the row not yet committed, and a row that was found is committed.
`OneNotificationPerClaim` is a matter of counting (`ClaimsAreBudgeted`): notifications
sent, workers that hold the event's claim and a row that waits add up to at most one
more than the sweep's returns, because a claim takes the waiting row away and a
fan-out uses the claim up. A premature return of a row is what adds one.

*Delivery.* Nothing is locked, so the argument is about hands: a process has in
hand the delivery it works on and those its query returned. While no two have had the
same one (`OneHand`), what a process read of the row is what the row is (`Knows`), so
the count it writes is one more than the row's, and the status it overwrites is not
final. From it follow `SendsAreCounted` and `FinalIsImmutable`. `QuietParentAgrees` needs
`Latest`: once all deliveries are settled and whoever settled one has looked at them
since, a lone aggregate still to be written is the final one, and with none to be written
the notification shows it.

*Automation.* Workers are kept apart by what they hold: each tick has one worker
(`TicksApart`), each execution stands in one queue (`QueuesApart`), and an action under
way is one that its worker waits for or has given up on (`ActionsKnown`); hence
`OneActionAtATime`. `OneTickPerDueTime` needs that due times are claimed in order: what
was claimed of an interval was due before the time the job waits for now (`DueInTurn`),
because the claim compares the job's next time with the copy's and moves it past the
time of the poll. `BreakerIsExact` needs
that a worker which nothing disturbs is alone and its tick the last (`TickAlone`): only
then is the count in its copy the job's, and the end of its tick one more in the
`Streak`, or the end of it.

*Subscription.* `NewestSaved`, with what each process carries (`Known`, `Changing`),
gives `ChangesInEventOrder`: an event is applied with its own time, not before the row's,
and not when the row has its status already, so not twice in a row. `AgreesWhenQuiet`
needs more than that, since some events leave the row's time alone when they find their
status there (`Silent`: a cancellation, a checkout), and since equal times say nothing
of the order. `ProviderHistory` says that a silent event leads where the provider had
never been, so that no row can have its status early (`Past`). Then `CalmAgrees`, by
places in the true order and not by times: the row has *reached* every event that is
`PROCESSED`, and a row that has reached the provider's last event has the provider's
status. It is kept as long as nothing was `blurred`: then an event that is ignored as
older really is one that the row had reached.

*Integrations.* `Known` is what a request has in hand. `Tried`: attempts are made in
turn, and each but the last was left open by the ledger, which gives
`RepeatsOnlyUnknown`. `Traced` ties the inbox, the memories of the servers and the
deliveries under way together: an event in a memory was dispatched or rolled back, and a
delivery that has looked at the inbox before another's commit is known to overlap it; a
dated event is then caught by its unique key. Hence `OneDispatch` and
`ProcessedWasDispatched`. `ConnectedHasCredential` holds because one
transaction alone writes `CONNECTED`, with its credential, and nobody but an operator
takes a credential away.

*Assets.* `Sound` says, for each kind of call, which part of what it read is
still true when it comes to write, unless a column it depends on is in `stale`: a
location never changes owner and ids do not return, so a place it chose belongs to that
customer or is gone, and if it is gone the foreign key refuses the write. With it
`OwnershipParity`, `HistoryTells` and `ReferencesStand` are inductive together;
`RetiredForGood` follows from the same invariant.

TLC has checked the inductive invariants on the instances of section 4 (but for `Summed`,
which speaks of functions that TLC cannot enumerate).

Only model-checked: the two liveness properties `Settles` and `KeyIsFreed`. Liveness
under fairness, and ENABLED, are out of this prover's reach.

## 7. Differences between code and documents

Met while modelling, and visible in the models: each is a behaviour that a step, a ghost
or an "unless" of section 4.2 stands for. Phases are the documents of `docs/`.

*Inventory*

* One work order part returned into two locations at once: the guard sums all returns
  but holds the lock of one location's row, and each misses the other's uncommitted
  movement (`returnStock.ts:142`). The comment at line 27 claims to prevent
  "concurrent double-return race conditions". `ReturnsPerLocationWithinUse` is what the
  lock can give.
* `adjustStock` may leave less on hand than is reserved (phase 1.10.1, 5.5); it
  is the only operation which does (`OnlyAdjustmentUncovers`).
* A location switched off after `receiveStock.ts:85` has read it still receives.

*Outbox and delivery*

* Events that legitimately recur (a second reschedule, pause, dispatch) are emitted with
  the default key and find the first row, long processed; nobody is notified again
  (`rescheduleSchedule.ts:158`; phase 1.13.1 line 136 asks for a key of their own).
* The sweep looks at `createdAt`, so a row claimed late is returned while its
  worker is at work, and notified twice (`OneNotificationPerClaim` counts it).
* Two transactions that emit one key at the same time: one operation fails
  (`eventIngestionService.ts:105`), where a duplicate is documented to be ignored.
* A fan-out that fails once is never tried again (`outboxProcessorService.ts:324`); a
  `FAILED` delivery is retried only if its dispatcher asks for it, and no code in the
  repository does. `attemptCount` grows only when an attempt ends
  (`reconciliationWorker.ts:62`), so a message that kills its process is never exhausted.
* Two dispatchers both read `PENDING`, both mark by id and both send
  (`deliveryDispatchService.ts:67`; phase 1.13.1 line 147). The later one overwrites a
  final status, and aggregates are written in another order than they were computed.
* A notification whose deliveries are all suppressed stays `PROCESSING`.

*Idempotency*

* A handler that fails after its service has committed releases the key, and the
  retry executes it again (`withIdempotency.ts:175`).

*Scheduling and field work*

* A reschedule checks the calendar before its transaction and without the technician
  lock (`rescheduleSchedule.ts:103`, `:119`); with a booking or another reschedule in
  between, one technician is in two places. Phase 1.8.1 line 365 says it is blocked.
* A reschedule that races a cancellation or a completion brings the appointment
  back, and resets the dispatch status even when field work has begun; undispatching
  reads the execution lock before its transaction (`undispatchAppointment.ts:77`).
* Dispatching an acknowledged appointment takes the acknowledgement back;
  acknowledging and undispatching look at no appointment status; booking is allowed
  for an order that is in progress or on hold, where phase 1.8.1 line 284 names open
  and assigned ones.
* A completion moves the order in one transaction and its appointments and entry in
  another (`transitionWorkOrderStatus.ts:417`); when the second is lost the order is
  completed, its appointment active, and completion refuses to run again.
  `completeTechnicianWorkOrder.ts:95`, `completeWorkOrderAdmin.ts:107` and phase 1.9.12
  line 107 call it one atomic transaction. It also takes a second connection while the
  outer one holds the first: with the production pool of five (`lib/prisma.ts:47`), five
  such calls at once wait for one another until a time-out.
* A resume opens an entry without looking for, or closing, another one (phase 1.9.1,
  7.3, at most one active entry per technician); it accepts an order that is merely
  assigned, and then leaves the appointment without the stamp that a start gives. Two
  calls that each find no active entry both open one.
* The plain status route, and automation, complete an order without its appointments
  and entries (phase 1.9.1, 6.1). A transition or an assignment that races another
  overwrites a terminal order.

*Invoices and quotes*

* Two payments that race are both computed from the ledger before either, and overpay
  the invoice (phase 1.12.1, "Overpayment Guard").
* Editing a quote's header stores each line's share of the header's discount as the
  line's own (`updateQuote.ts:150`); the next calculation, an edit's or the invoice's,
  takes it off again. Phase 1.11.1 line 250 calls the column the line-specific discount,
  and phase 1.12.1 line 442 calls the two models identical. A quote compounded in this
  way may in the end refuse every edit.
* Two conversions that race both make a work order: the quote's status is checked before
  the transaction, and `sourceQuoteId` is not unique (`convertQuoteToWorkOrder.ts:144`).
* The line that takes the rounding remainder may end below zero (phase 1.11.1 line 360
  has `max(0.00, ...)`).

*Automation*

* A job that counts from an entity's date computes, as its next time, the time it has
  just run (`scheduleJobService.ts:65`–`71`): it stays due, and two workers may claim one
  due time. The comment at line 158 says "exactly-once pipeline firing".
* A tick fires every rule with the same trigger event type, not the job's own rule
  (`scheduleJobService.ts:288`). A job switched off during a tick that fails is written
  back from the copy, and may be on again (`:318`, `:368`).
* A rule deleted between ingestion and pipeline leaves an execution `COMPLETED` without
  a step. A replay rewrites the error of a terminal execution (phase 1.16.1 line 285, "No
  Retroactive Rewriting"), and looks at neither its status nor an earlier replay.
  Executions ingested by a webhook stay `PENDING`: nothing runs them.

*Subscription billing*

* The operators' replay marks an event `PROCESSED` without dispatching it, and their
  synchronisation stamps the account as current without asking the provider
  (`platformBillingService.ts:790`–`911`).
* A deletion at Stripe of a subscription that is active or in trial is always refused
  by the state machine (phase 1.15.1, 7.2), as are the updates from trial to active
  and from past due to unpaid.
* Times at Stripe are whole seconds (`webhookService.ts:936`) and an event of the row's
  own time is applied (`subscriptionService.ts:176`): of two events of one second
  delivered in reverse, the older one has the last word, where phase 1.15.1, 6.1(4) has
  the guard "to prevent regression".
* A sweep stamps milliseconds (`reconciliationService.ts:198`): an event later in the
  second of a stamp compares as older and is dropped for good. The next
  reconciliation may repair the status.
* A payment event that comes before the event leading up to it leaves the status out of
  step, and a reconciliation cannot repair it from active to past due.
* Events out of order are marked `PROCESSED` where phase 1.15.1, 6.1(4) says `IGNORED`;
  their invoices are written without that guard.
* A reconciliation stamps a date older than the state it fetched. The daily stamp of a
  subscription in sync renews `updatedAt`, from which retention is counted. The grace
  period is not looked at again in the sweep's transaction (`dunningService.ts:118`).
* No route or schedule runs the dunning sweep; `vercel.json` runs reconciliation daily
  where the route's comment says hourly.
* A crash after a checkout has been applied, a cancellation by the user, and the
  redelivery together revive a cancelled subscription.

*Integrations*

* Credentials are always stored as version 1, unique per connection
  (`integrationManagementService.ts:293`): every connect after the first that
  succeeded fails, and leaves the connection `CONNECTING`.
* An exclusive capability is taken over without disconnecting its owner: two are
  `CONNECTED`, and the resolver throws "data invariant violation". Phase 1.17.1, 2.4
  prescribes a check and an error of its own for it. The capability row outlives `ERROR`
  and an operator's status (phase 1.17.1 line 552, "atomically removed").
* An event whose dispatch is rolled back stays in the cache of that server: a redelivery
  within five minutes is marked `PROCESSED` without dispatch
  (`webhookPipeline.ts:528`, `ingestionDeduplication.ts:75`). An adapter that stamps
  `new Date()` defeats the deduplication when deliveries overlap.
* A refused credential is blamed on the connection that a second resolution finds,
  which may be another one, or none (`retryOrchestrator.ts:176`), and `ERROR` may
  overwrite `DISCONNECTED`. Connecting and operators write statuses without the
  transition matrix. Disconnecting leaves the credential `ACTIVE`.
* The abort signal never reaches the adapter, so a timed-out call goes on, and only one
  adapter forwards the idempotency key. An execution stays `RUNNING` after a crash.

*Assets and customers*

* An asset sold between another call's read and its write may stand at a location of
  its former owner (phase 1.7.1 line 216, "Customer-Location Ownership Parity").
* `deleteCustomer` deletes by id a customer that has become active again since it was
  read (`deleteCustomer.ts:89`).
* `RETIRED`, "Irreversible terminal state" (`assetStatusTransitions.ts:185`), is
  overwritten by a call that had read the asset before.

## 8. Not modelled

`PROJECT.json` gives the reason for each part. In the parts that are modelled:
Decimal rounding beyond cents and column capacity beyond a small bound, authorization
and input validation (they refuse before any state is read), audit rows other than an
asset's history (written in the same transaction as what they record), rendering and
recipients, working hours and leave, and the checks of a technician's employment status.

Parts with state of their own that are left out: public webhooks (rows recorded by id,
the pattern of `Delivery`), the rate limit (a log in memory, without an `await` between
read and write), technician assignments (the pattern of a reschedule), plan change,
checkout and creation of subscriptions, test runs, replays and dead letters of
automation, connection tests and configuration of integrations, invitations and
sessions.

Most of the repository's lines are elsewhere: user interface, routes, schemas and
validation, adapters that translate to and from a provider's format, read-only queries
and reporting, and single-row record keeping. They keep no state whose steps interleave,
and a state machine of them would say nothing. So the modules stand for a small share
of the lines (about one line of code in eight) but for most of those that write
shared rows.

## 9. Running

    tlc -config Inventory.cfg MCInventory.tla
    tlc -config Outbox.cfg Outbox.tla
    tlc -config Delivery.cfg MCDelivery.tla
    tlc -config Idempotency.cfg Idempotency.tla
    tlc -config Scheduling.cfg MCScheduling.tla
    tlc -config FieldWork.cfg FieldWork.tla
    tlc -config InvoicePayments.cfg InvoicePayments.tla
    tlc -config Quotes.cfg MCQuotes.tla
    tlc -config Automation.cfg MCAutomation.tla
    tlc -config Subscription.cfg MCSubscription.tla
    tlc -config Integrations.cfg MCIntegrations.tla
    tlc -config Assets.cfg MCAssets.tla

    tlapm InventoryProofs.tla      # and the other seven *Proofs modules

With two workers every run ends within two minutes.
