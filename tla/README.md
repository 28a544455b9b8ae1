# ChainOrchestra: verification project

TLA+ models of the ChainOrchestra supply chain platform (`src/`), TLC
configurations that check them on small instances, and TLAPS proofs of what
matters most for every instance.  Every definition is translated from the Go
and Python code; the documents (`PRD.md`, `docs/`) are
quoted only where the code disagrees with them.

## 1. Inventory

The platform is a set of Go services behind an API gateway.  They share one
PostgreSQL server (a schema per service) and one NATS server.  Every request is
a goroutine of `net/http`; every event subscription is a callback goroutine of
the NATS client.  No service holds a lock across requests except where stated:
the database is the only arbiter.

| Component | State | Operations that change it | Talks to |
|---|---|---|---|
| order-service | `orders.orders` (status, cancel_reason), `order_items`, audit rows | create, update status, cancel, bulk status | HTTP to inventory (product check); publishes `order.created`, `order.status_changed`, `order.cancelled` |
| inventory-service: stock | `inventory.stock` (quantity, reserved, thresholds), `stock_movements`, audit rows | reserve, release, adjust, thresholds | publishes `stock_changed`, `low_stock`; consumes `order.cancelled` |
| inventory-service: catalogue | products, warehouses | create, update, delete | HTTP only |
| logistics-service: shipments | `logistics.shipments`, tracking events, attempts | create, status, bulk, attempt, deliver, hold, redirect, recipient/sender | consumes `order.status_changed`; publishes `shipment_*` |
| logistics-service: carriers | carriers | create, update, reassign the shipments of a city | HTTP only |
| analytics-service | `sales_daily`, `logistics_daily` | one upsert per event; anomalies, forecasts and advice are computed on request | consumes orders and shipments; publishes `aggregate_updated` |
| notification-service | notifications, WebSocket clients | create on event, mark read | consumes 12 subjects; pushes to WebSocket clients |
| user-service | users, roles, password reset tokens | register, login, refresh, profile and role updates, delete, password reset | issues the JWT the gateway checks |
| api-gateway | rate limiter windows, realtime hub clients | limit, authenticate, proxy, broadcast | in front of every service |
| simulator-service | actor runs, supervisor | start, stop, auto-stop | calls the public API |
| internal/pkg/nats | subscriptions | publish, subscribe | core NATS: at most once, handler errors are logged |
| internal/pkg/audit | `audit.action_log` | one asynchronous insert | |
| mcp-host (Python) | plans, session budgets, loop guard, tool cache | chat turns, tool calls with retry | LLM and the tool server |
| mcp-orchestrator (Python) | none | one HTTP call per tool | api-gateway |
| frontend (TypeScript) | browser state | pages | api-gateway |
| docker, scripts, docs | | deployment | |

What is hard, and what makes each part correct:

* **Orders.** Handlers read, check, and then write: several work on one row at
  a time.  The single-order handlers compare and set, the bulk handler does
  not.  Events are published after the commit, by a call whose failure is only
  logged, so the event stream may miss a committed change.  Correct: the column
  follows `validTransitions`; no stage is skipped; what is announced happened;
  a cancellation is announced once and with a reason.
* **Stock.** Transactions serialised by `SELECT ... FOR UPDATE`; events and the
  low-stock check after the commit, from the values the transaction returned;
  a released reservation depends on an event.  Correct:
  `0 <= reserved <= quantity`, the movements add up to the stock, a level
  below its threshold is announced.
* **Shipments.** Read, check, unconditional write; a consumer that checks for a
  shipment and then creates it; attempts counted outside the transaction.
  Correct: one shipment per order, one delivery per shipment.
* **Messaging.** Core NATS loses what is published while a consumer is away or
  fails; nothing is redelivered.
* **Reads of several statements.** Timelines, lists walked by offset and
  summaries are put together from SELECTs between which anything may be written.
  Correct: no attempt is told of and missing, nothing that was there is passed over,
  totals agree with their groups.
* **Gateway.** A table of streams under a mutex, copied by one goroutine while
  another closes the channels; windows of requests started by the first.  Correct:
  a stream misses an event only when its buffer was full; at most twice the
  limit in any window.
* **Notifications.** Preferences read before, sockets written after the row, by
  goroutines that do not know of each other.  Correct: what is open is told, what is
  off is not, one request marks a notification as read.
* **Analytics.** One row a day, added to by replicas that may fail.  Correct: the rows
  are what was upserted and never ahead of what happened; advice follows its own rules.
* **Users.** Rows read, merged and written back whole; a password reset of three
  statements.  Correct: the role is the one last given; one request per token is told
  that it set the password.
* **Simulator.** Actors that look at a switch between ticks.  Correct: a stop is
  a stop; what the actors ask for is on the services' tables.
* **mcp-host.** Retries of calls that were already done, a cache emptied
  while a read is on its way, budgets checked before a round and counted after.
  Correct: a stale answer has a reason; the overdraft is bounded.

## 2. The modules

| Module | Models | Built on |
|---|---|---|
| `OrderStatus` | the statuses and `validTransitions` of `order.go` | |
| `OrderLifecycle` | abstract: one order row moves along the table, one entry a step | `OrderStatus` |
| `OrderService` | order-service: create, status, cancel, bulk-status, events, audit | `OrderStatus`; refines `OrderLifecycle` |
| `OrderFulfilment` | `OrderService` composed with NATS and the consumers of logistics and inventory | `OrderService` |
| `StockRow` | one row of `inventory.stock`: checks, updates, CHECK constraints, column width | |
| `StockAccount` | abstract: every movement is one atomic, permitted, recorded step | `StockRow` |
| `InventoryStock` | inventory-service: reserve, release, adjust, min-threshold as transactions | `StockRow`; refines `StockAccount` |
| `ShipmentStatus` | the shipment statuses, `validTransitions`, final statuses, milestones | |
| `ShipmentRecord` | abstract: what is left of the table when writes are not guarded | `ShipmentStatus` |
| `ShipmentService` | logistics-service: status, bulk, redirect, hold, attempt, delivery, recipient, sender, reschedule, event | `ShipmentStatus`; refines `ShipmentRecord` |
| `ShipmentViews` | timeline, lists and the walks over their pages, summaries, reassignment of carriers | `ShipmentStatus` |
| `RateLimiter` | api-gateway: `ratelimit.go` | |
| `RealtimeHub` | api-gateway: the event streams of `realtime/hub.go` and their end | |
| `UserAccounts` | user-service: accounts, tokens, roles; the gateway's token check | |
| `PasswordResets` | user-service: reset tokens | |
| `NotificationDelivery` | notification-service: creation, preferences, sockets, read marks | |
| `AnalyticsRules` | analytics-service: sums, alarms, forecasts, advice, as operators | |
| `AnalyticsDaily` | analytics-service: the consumers and their rows | `AnalyticsRules` |
| `AnalyticsAdvice` | questions answered by `AnalyticsRules` over bounded inputs | `AnalyticsRules` |
| `Simulator` | simulator-service: switch, actors, supervisor | instances of `OrderStatus`, `ShipmentStatus` |
| `ToolCalls` | mcp-host: tool calls, retries, answer cache | |
| `ChatBudget` | mcp-host: rounds of a turn, token budget, loop guard | |
| `OrderServiceProofs`, `OrderFulfilmentProofs` | theorems about orders, and about orders with their consumers | `OrderService`, `OrderFulfilment`, `TLAPS` |
| `InventoryStockProofs` | theorems about stock | `InventoryStock`, `TLAPS` |
| `ShipmentServiceProofs` | theorems about the shipment handlers | `ShipmentService`, `TLAPS` |
| `EdgeProofs` | theorems about the limiter, the event streams, roles, password resets, the tool cache and the token budget, alone and side by side | `MCEdge`, `TLAPS` |
| `RowTheorems` | lemmas about sums over sets and lists of rows | the library's theorem modules, `TLAPS` |
| `AnalyticsProofs` | theorems about the daily rows, alarms and advice | `AnalyticsDaily`, `AnalyticsAdvice`, `RowTheorems` |
| `ObserverProofs` | theorems about the simulator, notifications and views, and about all observers side by side | `MCObservers`, `AnalyticsProofs` |
| `MCOrderService`, `MCOrderFulfilment`, `MCInventoryStock`, `MCShipmentService` | instances for TLC | |
| `MCEdge` | instance: gateway, users, mcp-host, one scene each | the six modules |
| `MCObservers`, `MCAnalytics` | instances: views, notifications, simulator, analytics, one scene each | the five modules |

Definitions whose name has an underscore (`LockRow_PlainSelect`) are mutated
forms of the definition below them: a slip that could be in the code and that a
property must catch.  No specification uses them.

### How state and actions correspond to the code

*All services.*  A member of `Request` is one HTTP request.  `pc[r]` is the next
statement of its handler (SQL statement, publication) or its answer, `job[r]`
and its companions are the handler's arguments and locals.  One statement is one
step, so everything other requests do between two statements is interleaved.  An
`Abort` stands for a failed statement, a cancelled context, and a crashed
process: what is committed stays, the rest is forgotten.  History variables
(`moves`, `version`, `stamp`, `lowFrom`, `seed`, `writes`, `failed`) exist for
properties only; no guard reads them.

*OrderService.*  `status` and `reason` are the columns `status` and
`cancel_reason`.  `ReadAndCheck` is `GetOrderByID` followed by `CanTransition`
in the service; `CompareAndSet` is `UPDATE ... WHERE id = $n AND status = $m`,
`ExplainMiss` the re-read that chooses between 409 and 500, `LoadItems` the
items read after the commit, `Publish` the event, `WriteAudit` the goroutine of
`audit.Log`.  The bulk handler is `BulkLoad` (one SELECT for all ids),
`BulkItem` (check against that snapshot, UPDATE by id alone), `BulkReread` and
`BulkPublish` (the service's loop over the successes).  `feed[o]` is the order
in which NATS takes the events about `o`, `trail[r]` the audit row.

*OrderFulfilment.*  `Route` runs in the same step as a publication: a queue
group hands the event to one replica's pending list or, where failures are
allowed, to nobody.  `TakeEvent`, `FindByOrderID`, `PickCarrier` and
`InsertShipment` are the statements of `handleOrderStatusChanged`; a subscription runs
one at a time.  `Restart` empties a replica.  `HandleOrderCancelled` is the
inventory consumer, which logs.  `auto` and `manual` tell shipments of the
consumer from those of `POST /shipments`.

*InventoryStock.*  PostgreSQL is what the code relies on: `SELECT ... FOR UPDATE` and
`UPDATE` wait for the row lock and keep it to the end of the transaction,
nothing is visible before `Commit`, a row that breaks a CHECK or the INT width
is refused.  `copy[r]` is the handler's `st`, from which `PublishStockChanged`
and `CheckLowStock` work after the commit.  `told[s]` has the low_stock events of a
row, those that NATS did not take among them (`TellLow`; the failure is logged and the
handler goes on).  `SetThreshold` is the single statement of `UpdateMinThreshold`.

*ShipmentService.*  `Path` gives for each endpoint the statements of its handler in
their order; an early return is a step to the next item of the request (`NextItem`),
which for all but the bulk endpoint is the end.  No write is guarded: the
status is checked on what `ReadShipment` returned and written by id alone.
`Verdict` is the decision at the end of `RecordAttempt`.  A contact (`recipient`,
`sender`) is a function from fields to who wrote them last, since that is all that the property
about patches tells apart; the date that `Reschedule` writes is left out, its
timeline row and its event are not.

*ShipmentViews.*  `reader` is one request and what its SELECTs have returned so
far; each SELECT is a step.  The writers of `ShipmentService` are here single
steps that may write any status, which is more than they can do.  `ApiGetAll` is the walk of the tool
server (`http_client.py`) over `ListShipments`, `InTransitTool` its walk over the
statuses, `InTransitSummary` the summary of the service.

*RateLimiter.*  `Request` is the middleware under its mutex, hence one step, from
`extractIP` to the answer; `cleanup` is the sweep for a tick.  The ticker fires once a
window, and its channel holds a tick until the goroutine takes it, so one sweep may be late
and the next on time.  `admitted[ip]` is a history: when the requests of an address were let through, in order.

*RealtimeHub.*  `onMessage` copies the table of streams under the lock, `Send` offers
the event to one of the copy (`Offered`: a full buffer drops it), `SendOnClosed` is the panic
that ends the process, `writeSSE` a write to a browser, `Leave` the end of a stream, `shutdown`,
`Stop` and `Exit` the end of the hub and of the process.

*UserAccounts.*  `ReadUser`, `Merged` and `WriteUser` are the statements of the two handlers that
update a row; a hash is the password, a token its claims.  `Headers` is what the gateway
passes on, `requireAdmin` what the service makes of it.

*PasswordResets.*  The three statements of `ConfirmPasswordReset`; `told` and
`untold` are histories of answers.

*NotificationDelivery.*  `work[g]` is what a goroutine, of a subscription or of a
request, has left to do: `GetPreferences`, `InsertNotification`, `CopyConns`, then
for each socket `BeginWrite` and `EndWrite`, between which another goroutine or the
pinger (`BeginPing`, `EndPing`) may begin.  `Clash` and `ClashPing` are what the library may
then do, by which of the two came second: panic, or write on and mix up the frames.
`deliverExternal` hands over to e-mail and SMS.

*AnalyticsDaily.*  `Take`, `Upsert` or `UpsertFails`, and `publishAggregate` are the
statements of a handler; `Missed` is an event nobody takes.  `ScanSales` and
`ScanLogistics` are the two reads of `DetectAnomalies`, whose rules are in
`AnalyticsRules`.

*AnalyticsRules, AnalyticsAdvice.*  The service's arithmetic on rows that are given.  Amounts
are in cents and rates in hundredths of a per cent.  A deviation is compared with
two or three sigmas by squaring both sides; where they are equal, floating point may say
either, and `Beyond` takes it as beyond.  `question` is one
question with its rows, and nothing else changes.

*Simulator.*  `actor[a]` is where `RunActor` is and the requests its tick has left.
The services it calls are their status tables, `OthersMove` everybody else who moves
the same rows.  `quiet` is the history of the actors not in a tick when the stop came.

*ToolCalls.*  Every `await` of `call_tool` is a step, and so is the work of the tool server
(`Performed`), which the answer follows in time (`Answered`), late or never.  `version` counts the changes
made to the data; a cached answer carries the version it shows and the one at
which it was stored.  A call that fails did nothing, made a change, or will make it later
(`FinishAdrift`); one that timed out is made again up to `Attempts`.

*ChatBudget.*  `turn[c]` is the round a chat is in and what it does next.  The chats are
those of one user, who is also the session, so they share counters and window.  The two
counters are read one after the other (`CheckBudget`) and added to one after the other
(`Generate`, `CountHour`), with everything other chats do in between.
`used` is in Redis, `spare` in the process where Redis fails.  A round calls one
tool, whose call is in `ToolCalls`.

## 3. The runs

| Run | Module, cfg | Checks | Shows |
|---|---|---|---|
| `order_single` | `MCOrderService`, `OrderSingle` | `TableRespected`, `CancelledOnce`, `EventsAreMoves`, `CancelledForAReason`, `ImplementsLifecycle` | without bulk calls the compare and set is enough, with any failure |
| `order_bulk_table` | `MCOrderService`, `OrderBulkTable` | `TableRespected` (violated) | a stale bulk write takes a cancelled order to confirmed |
| `fulfil_once` | `MCOrderFulfilment`, `FulfilOnce` | `AutoShipmentOnce`, `EveryMoveAccountedFor`, `ConfirmedEventuallyShipped` | without failures and bulk calls: each move is announced and audited, a confirmed order gets exactly one automatic shipment |
| `fulfil_bulk` | `MCOrderFulfilment`, `FulfilBulk` | `TypeOK`, `NoSkippedStage`, `ConflictIsReal`, `ShipmentNeedsConfirmation` | what survives the bulk endpoint, lost events, failing statements, restarts and two replicas |
| `fulfil_cancel` | `MCOrderFulfilment`, `FulfilCancel` | `CancelReleasesStock` (violated) | the inventory consumer releases nothing |
| `stock_race` | `MCInventoryStock`, `StockRace` | `TypeOK`, `ChecksNeverFire`, `LedgerBalances`, `LowPeriodAnnounced`, `ImplementsAccount`, `EveryRequestAnswered` | the row lock serialises; no oversell, no lost movement, no row left locked |
| `shipment_race` | `MCShipmentService`, `ShipmentRace` | `TypeOK`, `PickedUpFirst`, `TimelineComplete`, `DeliveriesAnnounced`, `AttemptsShow`, `ImplementsRecord` | what holds although no write is guarded |
| `shipment_final` | `MCShipmentService`, `ShipmentFinal` | `FinalLeftAlone` (violated) | a redirect, or the end of an attempt, is written over a delivery |
| `shipment_patch` | `MCShipmentService`, `ShipmentPatch` | `OnlyProvidedFieldsChange` (violated) | a patch puts back a field it did not provide |
| `edge` | `MCEdge`, `Edge` | `EdgeTypesOK`, `AdmitsAtMostTwice`, `GapsOnlyWhenFull`, `RoleAsGiven`, `ResetIsTold`, `BudgetBound`, `StaleForAReason` | what the gateway, the user service and the assistant's host keep, through shutdowns, restarts, racing requests and a failing Redis |
| `observers` | `MCObservers`, `Observers` | `ReadTypesOK`, `TimelineConsistent`, `ListsMissNothing`, `SummaryAddsUp`, `NotifiedAsAsked`, `SimulatorInStep`, `DailyRowsAddUp`, `AlarmsNeedDays`, `AdviceHolds` | what readers, notifications, the simulator and analytics keep while others write, fail and restart |
| `analytics_quiet` | `MCAnalytics`, `AnalyticsQuiet` | `QuietDaysReported` (violated) | a day without orders has no row and no alarm |

Deadlock is not checked: requests are finite, so every run ends with all of
them answered.  That a request is not stuck is `EveryRequestAnswered`.

### Bounds, and why they are enough

* One order, row or shipment.  No action reads two rows, except for a bulk
  request, whose items are processed one after the other; the proofs are for
  any number.
* Orders: four requests without bulk calls (create, and three that race), all
  eight statuses.  `fulfil_once` needs four because an order is confirmed a
  second time only by the fourth successful one (create, confirmed, processing, confirmed); it
  asks for `confirmed` and `processing` only, and cancels.  `fulfil_bulk` has
  three requests with `cancelled` among the targets: one to create and two to
  race, which is what a stale snapshot takes.  `order_bulk_table` also has
  a list with the same id twice.
* `ManualLimit` caps `POST /shipments` at one per order, 0 in `fulfil_once`:
  another shipment can only keep the consumer from creating.  `Stocked` names the
  orders for which a client reserves stock; none where no property looks at it.
* Stock: three requests, quantities of 2, thresholds 0 and 2, columns up to 5, rows that start
  with 3 (1 reserved) or 5 (2 reserved): any two requests and a third that undoes
  one of them, on both sides of every limit.
* Shipments: two requests on one shipment (every race here is between two) that
  is new, on its last mile after one attempt, or has two attempts with the
  same number: the seeds stand for what requests before did.  Of the statuses to ask
  for there is one on each side of every rule; the two bulk lists go up the path from its
  start, three items long, and over the last mile.  The two violations need two requests.
* `edge` and `observers` put parts side by side that share no state: a behaviour
  plays one scene, the other parts keep their initial states, and the state
  spaces add up.  What a scene leaves still is said in the MC module.
* `edge`: two addresses and a limit of 2 over a window of 2 in 5 units of time: two windows touch any stretch,
  and the sweep falls everywhere.  Two streams of different roles with a buffer of
  1 and two events per subject: full, empty, and passed over.  Two users with two racing
  requests; two reset tokens and two confirmations, of one token or of both.  Two chats
  of one turn and two rounds with caps of 2 and rounds of up to 2 tokens, so that either
  cap is passed by a round under way, with one failure of Redis.  Two chats with two calls each of two
  attempts, two changes of the data, two cached reads, one failure of Redis:
  every order of a read, a change and the emptying of the cache.
* `observers`: four shipments, three of which are stored at first, two moved and one tried, pages of one row;
  three carriers and summaries of at most two groups (`MaxGroups` stands for the 20 of the code's
  LIMIT), so that groups are cut off; two
  notifications, two goroutines and two sockets of one user; one order or one shipment for the simulator,
  which is judged from one action on and counts to two; two replicas, two days and one event of
  each kind per day, with the width of `on_time_rate` scaled down so that it is met
  (`RateCap`: 200 % for the column's 1000 %); all windows of up to seven days of three revenues
  and of up to eleven days of two, which is past both thresholds of days (5 and 10); forecasts
  from 7 to 10 days for up to 14 ahead (`MaxHistory` and `MaxHorizon` stand for the handler's 365 and 90).
* `SYMMETRY` on requests (and on users in `edge`) is used in the runs without a liveness
  property.  `fulfil_cancel`, `fulfil_once`, `stock_race`, `observers` and
  `analytics_quiet` do without.

### Fairness

`FairSpec` of `InventoryStock` and `FairFulfilmentSpec`: weak fairness of the
steps of each handler that has begun, and of each replica's subscription.  The
code justifies it: handlers run as goroutines of `net/http` and callbacks of the NATS client, which the
scheduler keeps running; PostgreSQL queues waiters for a row lock.  Weak fairness
is enough for a waiter because requests are finitely many, so the lock is in the
end free for as long as it waits.  Clients, failures and restarts are never
fair.  `ConfirmedEventuallyShipped` is checked where nothing fails and nothing is confirmed
in bulk: otherwise it does not hold (section 5).

## 4. What is proved

By TLAPS, for every value of the constants: any sets of orders, shipments, users,
requests, replicas, streams, any limits, amounts and bounds.  `[]` is left out where the
column names an invariant.

| Theorem | Module | Says |
|---|---|---|
| `TypeCorrect`, `StagesNeverSkipped`, `ConflictsAreReal` | `OrderServiceProofs` | `TypeOK`, `NoSkippedStage`, `ConflictIsReal`, bulk endpoint included |
| `TableIsRespected`, `CancellationIsSaidOnce`, `EventsReportMoves`, `CancellationsHaveReasons` | `OrderServiceProofs` | `SingleSpec` keeps `TableRespected`, `CancelledOnce`, `EventsAreMoves`, `CancelledForAReason` |
| `LifecycleImplemented` | `OrderServiceProofs` | `SingleSpec => ImplementsLifecycle` |
| `MovesAreAccountedFor` | `OrderServiceProofs` | where nothing fails, `SingleSpec` keeps `EveryMoveAccountedFor` |
| `OrdersAsAlone` | `OrderFulfilmentProofs` | `FulfilmentSpec => Spec`: the consumers disturb no order |
| `MovesAccountedForInFulfilment` | `OrderFulfilmentProofs` | so the results on orders hold with the consumers attached |
| `ShipmentsNeedConfirmation`, `ConsumersTypeCorrect` | `OrderFulfilmentProofs` | `ShipmentNeedsConfirmation` and the consumers' types, bulk endpoint and every failure included |
| `AutoShipmentsAreSingle` | `OrderFulfilmentProofs` | `AutoShipmentOnce`, for one replica whose statements do not fail |
| `TypeCorrect`, `ChecksSuffice`, `LedgerAlwaysBalances`, `LowPeriodsAnnounced` | `InventoryStockProofs` | `TypeOK`, `ChecksNeverFire`, `LedgerBalances`, `LowPeriodAnnounced` |
| `AccountImplemented` | `InventoryStockProofs` | `Spec => ImplementsAccount` |
| `TypesAreKept`, `PickUpComesFirst`, `AttemptsAreShown`, `TimelineIsComplete`, `DeliveriesAreAnnounced` | `ShipmentServiceProofs` | `TypeOK`, `PickedUpFirst`, `AttemptsShow`, `TimelineComplete`, `DeliveriesAnnounced` |
| `RecordImplemented` | `ShipmentServiceProofs` | `Spec => ImplementsRecord` |
| `LimiterTypeCorrect`, `NeverAThirdWindow` | `EdgeProofs` | the limiter's types, `AdmitsAtMostTwice` |
| `HubTypeCorrect`, `GapsAreFullBuffers` | `EdgeProofs` | the hub's types, `GapsOnlyWhenFull` |
| `AccountsTypeCorrect`, `RolesAreAsGiven` | `EdgeProofs` | the accounts' types, `RoleAsGiven` |
| `ResetsAreTold` | `EdgeProofs` | `ResetIsTold` |
| `ToolsTypeCorrect`, `StaleAnswersHaveReasons` | `EdgeProofs` | the cache's types, `StaleForAReason` |
| `BudgetTypeCorrect`, `BudgetIsBounded` | `EdgeProofs` | the budget's types, `BudgetBound` |
| `SimulatorTypeCorrect`, `SimulatorKeepsStep` | `ObserverProofs` | the simulator's types, `SimulatorInStep` |
| `NotificationTypeCorrect`, `NotificationsAreAsAsked` | `ObserverProofs` | the notifications' types, `NotifiedAsAsked` |
| `ViewsTypeCorrect`, `TimelinesAreConsistent`, `WalksMissNothing` | `ObserverProofs` | the views' types, `TimelineConsistent`, `ListsMissNothing` |
| `SummariesAddUp` | `ObserverProofs` | `SummaryAddsUp` |
| `DailyFiguresMatch`, `DailyRowsHold` | `AnalyticsProofs` | the daily rows' types, `DailyRowsAddUp` with all its parts |
| `AlarmsNeedDaysHolds` | `AnalyticsProofs` | `AlarmsNeedDays`, for windows of any length |
| `AdviceIsSound`, `AdviceHoldsAlways` | `AnalyticsProofs` | the questions' types, `AdviceHolds` with all its parts |
| `EdgeImplementsParts`, `EdgeTypesCorrect` | `EdgeProofs` | `EdgeSpec` implies the specification of each of its six parts, hence `EdgeTypesOK` |
| `ObserversImplementParts`, `ReadTypesCorrect` | `ObserverProofs` | `ObserversSpec` implies the specification of each of its five parts, hence `ReadTypesOK` |

### Assumptions

Two theorems have a hypothesis of their own, since what they say is false without it: `~MayFail`
(a failed publication leaves a move unreported) and, for `AutoShipmentsAreSingle`, one
replica with `~ConsumerFails` (two replicas, or a lookup that fails and is passed over, create
twice).  Otherwise only the assumptions the modules state of their constants are used:
there is an order and a row; targets are statuses; bulk lists name somebody;
quantities are positive; seeds are rows the program could have written; markers such
as `Free`, `Sender` or `"none"` are not requests, addresses or sockets; the limiter's limit and
window, the stream buffer and a chat's rounds are at least 1; chats and replicas are
finite sets; a page is not larger than the maximum; stored shipments are distinct;
the subjects the notification service listens to have a type; quantities are integers,
amounts and the revenues of days naturals; a demand that is forecast is positive.

### The arguments

*Orders.*  `NoSkippedStage` is not inductive: a bulk write is justified by a
snapshot that may be old.  The strengthening says that whatever a handler
remembers (`seen`, `snap`) is a status the order has had, and that the set of
statuses an order has had only grows; then a stale write still comes after all
that must precede it (`UpstreamStep`: the table never leads to a status whose
`Upstream` exceeds that of where it comes from).  Without the bulk endpoint, an invariant relates a handler
past its UPDATE to the move it made; since `cancelled` has no way out, only
one handler can have made that move, so only one announces it.  `ReasonInv` adds that a handler
past a cancelling UPDATE, and an `order.cancelled` published, have the reason on record.
`AccountInv` names for each move a handler that made it, is past its write, and, once it has
answered, has an event on the feed that reports it.

*Fulfilment.*  A consumer's step leaves the orders' variables alone
(`OthersLeaveOrders`), hence `OrdersAsAlone`.  `ConfirmedInv` follows the claim that an
order was once confirmed from the handler that will publish it to the message in an
inbox and to the task of a replica; statuses an order has had are never forgotten, so the
message may be as old as it likes.  `LookupHolds` says that between its lookup and its
INSERT the only replica there is still has found nothing.

*Stock.*  `Exclusive` says that a transaction between its lock and its commit alone holds its
row, `Progress` what it knows at each statement: at `update` its copy is the
row, afterwards the row still permits the movement and the copy is the row
after it.  So a CHECK cannot fire, and each commit is one step of
`StockAccount` while every other step is a stutter.  `LowInv` adds for each low
period that it was announced, that some handler will still do so, or that one was cut off;
a release is harmless because it can only raise what is available (`ReleaseRaises`).

*Shipments.*  `ShipInv` is what is left when no write is guarded: what a request has read is
among the statuses its shipment has had (`ReadIsHistory`), so what it writes follows by the table
from one of them, which is a step of `ShipmentRecord`; the numbers
of the attempts leave no gap, and one about to be given is 1 or follows one that was (`NumbersFollow`); and for a request past a statement of its path (`OnPath`),
that statement's row is there (`AttemptsRecorded`, `StatusesTold`, `ContactsTold`,
`DeliveriesTold`).

*Limiter.*  `AdmitsAtMostTwice` speaks of any two times in the log, the code only of the window
that runs.  `LogHolds` says how far back the log's entries lie, by their distance from its
end: all but those of the running window before its start, all but `Limit429` more a
window earlier.  Whether the sweep or the next request ends a window makes no difference.

*Streams.*  `Behind`: what a stream was given has been handled, and is older than the event on
its way to it; so appending keeps the order (`InOrder`) and accounts for
the event (`NoGap`).  `TableHolds` keeps closed streams out of the table.

*Accounts and resets.*  `RolesToWrite` says of each update under way that the role it will write
is the one named, the one last given, or that it was overtaken.  `ToldOnce` ties
a confirmation to the token's mark; `WrittenHolds` says of a request between its two writes
that its password is in force or that somebody else wrote meanwhile.

*Tool cache.*  `ScanIsLater`: an entry that a scan did not find was stored after the change that
caused it, so when the keys found are deleted the change is seen or `stored` excuses it.

*Budget.*  Counting ahead, for each counter by itself: the tokens used, plus a round for each
chat in its debt (`Covered`), stay below the cap plus a round per chat and failure.  A chat takes the debt
when it has read the counter (`DebtTaken`), keeps it while the other counter is read or added to, and
pays it when its tokens are counted (`DebtPaid`).

*Simulator.*  A request is `Sound`, on the tables of the services, from the tick that makes
it until it is answered; it can be refused only for a row that has moved since.

*Notifications.*  `WorkHolds` says of each goroutine which channels it respects and that a socket
that was open at the INSERT is still in its list, was written, or is closed (`Settled`).
`NoteHolds` ties answers to the status of the row.

*Views.*  The walk by pages rests on `CreatedApart` (no two times of creation are equal)
and on `Rank`, a shipment's place in the list: inserting raises the ranks of what comes after and
nothing ever lowers one, so what `WalkHolds` says of the shipments not yet collected, that
they lie behind the offset, survives every insertion.  `TripHolds` is the same for the statuses in the
order the tool asks for them.  `TimelineHolds` says that what was read first is exceeded by what the
tables show later, because tables only grow.

While a summary is put together and no status changes, `GroupsHold` keeps for each SELECT what
the next one must agree with: the shipments by status, and those by carrier, are the active
ones split up (`SumOfParts`), which a reassignment moves from one group to another without a change of
the sum; the groups a LIMIT leaves are some of them (`SumAtMost`).

*Sums.*  What a fold computes takes induction, and the library's induction theorems take an operator,
which the provers cannot instantiate.  `RowTheorems` states induction over numbers and over finite sets
with a set in place of the predicate (`NumberInduction`, `SubsetInduction`, from the library's
well-founded minimum), which is first-order.  `SumOver` is the sum that takes out one chosen
element after another; any element may be taken out first (`SumTakeOut`), the folds of the models are
instances of it, and the rest follows: sums of parts, of what changes in one place, along a list,
of 1, 2, ... and of their squares, and Cauchy's inequality (`SumOfSquares`).

*Daily rows.*  `aggregates` plus the handlers about to publish are at most what was counted;
each upsert recomputes average and rate from the sums it writes.  `TotalsInv` says of the sums over all rows
that they are what was counted, and of each day that the orders in the rows up to it, with those that handlers
are about to add (`ToAdd`), are at most those created by then.  Midnight moves an order that
is under way to a later row than the one of its creation and never to an earlier one.

*Alarms.*  With d the deviation of one of n values, the inequality on the n - 1 others gives
d^2 <= (n - 1) * `Spread` (`FarFromMean`), so that k sigmas take k^2 + 1 days: 5 and 10.

*Advice.*  No behaviour, but arithmetic over all integers: `ReorderIsEnough` and `TransfersStayApart`
(a donor keeps more than its share, an acceptor gets no more than it lacks).  For
forecasts, `SumOfSteps` and `SumOfStepSquares` give the least squares of a steady series with its empty last day
in closed form (`SteadyLine`), for any number of days.

*Side by side.*  A scene's step is a step of one part and stutters for the others, so the
behaviours of `MCEdge` and `MCObservers` are behaviours of every part, and what is proved of a part holds there.

### Only model-checked

* Liveness, which the prover does not do: `ConfirmedEventuallyShipped`, `EveryRequestAnswered`.
* Lists in the views are taken from the sets of their rows (`Listed`) rather than sorted with
  `SortSeq`, which the prover does not know.

## 5. Where code and documents disagree

With a run that shows it:

* `POST /orders/bulk-status` writes on a stale snapshot and leaves the
  transition table (`order_bulk_table`; PRD.md:99).
* `order.cancelled` releases no stock: the consumer logs and returns
  (`fulfil_cancel`; PRD.md:706).
* A redirect, and what an attempt decides at its end, are written over a delivery that came in
  between (`shipment_final`; docs/mcp-tools.md:411, shipment/storage.go:400).  `ShipmentRecord`
  lets `redirected` follow anything.
* The recipient is written back whole (`shipment_patch`; docs/mcp-tools.md:382).
* A day without orders has no row in `sales_daily`, so no alarm is ever raised for it
  (`analytics_quiet`; docs/mcp-tools.md:603).

Seen while modelling, visible in the definitions named, without a run of their own:

* `PUT /orders/{id}/status` accepts `cancelled`, and then sets no reason and
  publishes no `order.cancelled` (`EventOf`, `CompareAndSet`; PRD.md:706).
* A handler whose publication fails answers 200, and no event tells of the change
  (`Publish`; PRD.md:96, PRD.md:99).
* A bulk confirmation is announced with the status read after it: if another request has moved
  the order on by then, logistics never hears of the confirmation, though nothing failed (`BulkReread`; PRD.md:705).
* Attempt numbers are `MAX + 1` outside the transaction: two attempts that race share the number 1,
  the third has 2, and the shipment is not returned (`NumberAttempt`; docs/mcp-tools.md:429).
* Hold, redirect, attempt and delivery publish no `shipment_status_changed`
  (`Path`; PRD.md:183).
* The recipient of a delivered shipment can be changed (`LoadContact`; docs/mcp-tools.md:382).
* A consumer that fails drops the event (`InsertShipment`), and one whose lookup fails
  creates a second shipment (`FindByOrderID`; PRD.md:808).
* `on_time_rate` is a NUMERIC(5,2): on a day with ten times more deliveries than new
  shipments every further upsert fails and its event is lost (`UpsertFails`; PRD.md:808).
* The list of what is in transit misses a shipment that is out for delivery again, after a failed attempt, while the
  statuses are asked for (`TransitList`; mcp-orchestrator/tools/logistics_tools.py:232).
* A tool call that timed out is made again, and may then have been done twice
  (`TimedOut`, `FinishAdrift`; PRD.md:494).
* A broadcast that meets a shutdown sends on a closed channel (`SendOnClosed`), and two writers on
  one WebSocket make the library panic (`Clash`, `ClashPing`): either ends the process.
* Nothing calls `UpsertInventorySnapshot`, so the low-stock anomaly never fires; the
  parameter `category` of the anomalies is ignored (docs/api-reference.md:207).
* A forecast is made from a series whose last day is today, which counts as zero
  (`fillMissingDays`, `ForecastLags`); the first upsert of a day leaves its average at 0.
* Rebalancing looks at quantities, reservations included, and several acceptors may be
  sent to one donor (`GetRebalancingRecommendations`).
* The supervisor does not judge 15 seconds with fewer than 5 actions, so an outage in which
  everything fails never stops the simulator (`TooManyErrors`).
* A reset token that is confirmed twice at once sets both passwords, the later one for
  a request that may be answered 400 (`ConfirmPasswordReset`).
* Tools that change data without a hint in their name (`shipments_redirect`,
  `shipments_hold_for_pickup`, `shipments_add_event`, `shipments_record_attempt`,
  `shipments_record_delivery`, `shipments_reschedule`, `simulator_*`) do not empty the answer cache (`Quiet`).
* The summary after the last round is neither checked against the budget nor counted;
  each failure of Redis lets a round more through (`NextRound`, `CheckBudget`).

## 6. What is not modelled

The components with status `not_modelled` in `PROJECT.json` name the reason:
either they keep no state (proxy, validation, pages), or each operation is one
statement on one row (catalogue).  Of those that are `partly` modelled:

* shipments: `UpdateCurrentLocation`, which no handler calls; the date and place
  columns, which no property is about; the audit rows of inventory and logistics;
* carriers and routes: editing a carrier, and routes, which are computed and not stored;
* analytics: the `ets-simple` forecast, the back test and the confidence intervals, which are
  arithmetic on real numbers; the customer profile, the carriers' performance, metric
  comparisons, quick cancellations and the audit query, each of them one SELECT or several
  whose results are put side by side;
* mcp-host: histories and plans.  Each is written whole by the turn that saves last, and
  nothing promises more: a `/clear` in one tab is undone by the save of another.  Prompts and the
  fallback between models keep no state that lasts;
* the orchestrator's other tools, one HTTP call each.

Inside what is modelled, some detail is left out or taken together:

* `RealtimeHub`: the 401 for a request without a user.  A subject whose Subscribe fails is one of
  which no event comes.
* `ShipmentViews`: rows that `/events` is given by hand, though they may be of type
  `delivery_attempted`; in a summary, the groups by hub and today's estimate.
* `AnalyticsDaily`: an event is published and taken in one step, so that one waiting in a
  replica's client buffer counts as published when it is taken.  `DetectAnomalies` also reads
  the inventory snapshots, a table without a writer.
* `AnalyticsRules`: a deviation is exact (`Spread`), where the code takes the square root of a
  difference of `float64` and large values nearly equal cancel.
* `AnalyticsAdvice`: fewer than 3 days of history are refused; the series asked about are longer.
* `Simulator`: an actor is in its tick from its look at the switch on; the first
  request is a step of its own.

Reads that are a single SELECT (lists, searches, reports) are left out everywhere.
`GetOrCreateStock` is called by tests only.  Contents of names, addresses and messages
are abstracted away, and amounts of money wherever no rule looks at them.

## 7. Plan

Done: 1. `OrderStatus` ... `OrderServiceProofs`; 2. `StockRow` ...
`InventoryStockProofs`; 3. the shipment modules; 4. `OrderFulfilment`; 5. `RateLimiter`,
`RealtimeHub`; 6. `NotificationDelivery`; 7. the analytics modules; 8. `ToolCalls`,
`ChatBudget`; 9. `UserAccounts`, `PasswordResets`, `Simulator`; 10. `ShipmentViews`.

Of the properties the passing runs check, the two of liveness are left to TLC; every other one is
stated by a theorem of section 4.  To come, should the code ever promise that no turn is lost:
the conversations of mcp-host (`context_store.py`).
