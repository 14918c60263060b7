# Formal model of the food-ordering system

TLA+ modules, TLC runs and TLAPS proofs for this repository: the order saga that five services
choreograph over RabbitMQ, the cancellation that is to undo it, the helpers of `@food/resilience`,
the gateway's rate limiter and webhooks, and the tokens of the auth service.

File references are to this repository (`services/...`, `packages/...`). `PROJECT.json` maps each
definition to the lines it models and lists the hazards, the runs, the mutants and the theorems.

## 1. Inventory

### Components, state, operations

| Component | State | Operations | Modelled in |
|---|---|---|---|
| event-bus (`packages/event-bus`, each `lib/rabbitmq.ts`) | queues, unacked messages, one connection and channel per process | `consumeEvent`: parse, validate, handle, ack or nack; `publishEvent` | `EventBus` |
| kitchen (`services/kitchen/src/app.ts`) | `KitchenOrder`, `ProcessedEvent` (unique ids) | consume `order.created`, decide, publish `kitchen.accepted` / `kitchen.rejected` | `KitchenService` |
| kitchen's `order.cancelled` consumer | MongoDB collections | cancel the order, publish `kitchen.order.cancelled` under a key no queue is bound to; never started by `app.ts` | `KitchenCancellation` |
| payment (`services/payment/src/app.ts`) | `Payment`, `ProcessedEvent` (unique ids) | consume `kitchen.accepted`: charge; consume `order.cancelled`: refund | `PaymentService` |
| order (`services/order/src`) | `Order`, `ProcessedEvent` | consume `order.created`, `delivery.assigned`; `POST /orders/:id/cancel`; `POST /start-subscriber` (development) | `OrderService` |
| idempotency store (`packages/idempotency`) | map with 24 h expiry, per process | `get`, `set`, expiry | `OrderService` |
| delivery (`services/delivery/src`) | MongoDB collections without unique indexes | consume `payment.succeeded`: assign; two cancellation handlers that `app.ts` never starts | `DeliveryService`, with the kitchen's in `Compensation` |
| notification (`services/notification/src`) | MongoDB `notifications`, `processedEvents` | nine consumers of one shape, six registered | `NotificationService` |
| the wiring of the five | queues, bindings, keys, start-up order | start, subscribe, crash, publish, handle | `Saga` |
| circuit breaker (`packages/resilience/src/index.ts`) | state, counters, time of the last failure | `execute`, `getState`, `reset` | `CircuitBreaker` |
| `retryWithBackoff`, `withTimeout` | loop variable, running operations | attempts, back-off, give up | `ResilientCall` |
| gateway: plan-based rate limiter (not installed by its `app.ts`) | a bucket per user: tokens, three windows, a concurrent counter | two middlewares, `finish` and `close` listeners, reset, sweep | `RateLimiter` |
| gateway: webhooks (not mounted by its `app.ts`) | two maps in memory | register, remove, switch, test, dispatch with retries | `Webhooks` |
| auth (`services/auth/src`) | `User`, `RefreshToken` | register, login, refresh | `AuthService` |
| gateway: response cache, proxying, versioning, roles; restaurant; dead-letter helpers; observability; test-utils; k8s; scripts | see below | | not modelled |

### How they interact

Every service asserts the durable queues it owns and binds them to a topic exchange, then attaches
its consumers one after another in `createServer`. A handler reads its processed-event marker,
writes its row, writes the marker, publishes the next event and is acked, each with an `await`
of its own: between any two of them other callbacks of the same process run (no prefetch is set),
other replicas run (k8s starts several), and the process may die. Clients reach the saga at one
place only, the cancel controller of the order service. `order.created` is published by nobody in
this repository; the model takes it from outside. The gateway and auth share nothing with the saga
but the requests they let through; each is a module of its own.

### What is hard

* **Interleaving**: check-then-act on the marker, by several callbacks and replicas, with copies of
  an event; a refund between the create and the publish of its charge; refreshes of one token.
* **Atomicity and crashes**: row, marker, event and ack are four steps; a crash may fall between
  any two, and the redelivery then meets what the first attempt left.
* **Delivery**: at-least-once, copies, no order between queues; a cancellation may come before what
  it cancels.
* **Failure paths**: a failed call nacks without requeue. Most queues name no dead-letter exchange,
  so the message is gone; `order_service.order_created` names one, and its messages end in
  `order_service.order_created.dlq`, which nothing consumes. JSON that does not parse kills the
  process; a connection that closes leaves a process that consumes nothing, while the handlers in
  flight go on with a dead channel.
* **Timeouts and retries**: an operation `withTimeout` gave up goes on; a retry of a webhook holds
  the hook it read at the start; an idempotency key may expire between two retries.
* **Counters and clocks**: `finish` and `close` both decrement; the sweep drops buckets; two tokens
  of one user signed in one second are one string.
* **Wiring**: keys, queues and schemas of different services have to agree.

### What makes each component correct

event-bus: no valid event disappears without being handled or failing. kitchen, payment: one outcome per
order, announced at most once and only after it is on record. payment: a refund is final, follows a
charge, and is not repeated once tracked. order: never back to `CREATED`; every cancellation that is
acknowledged is published. delivery, notification: what is announced is on record, what is recorded is
not repeated. Compensation: delivery's own copy of the cancellation releases the driver of an order it
finds assigned, whatever became of the kitchen's event. breaker: opens at its threshold, stays open for
its timeout, closes again; a caller is told what took effect. limiter: a window lets in no more than the
plan, and no count is left behind that no response takes back. webhooks: the maps agree, a hook that was
read is notified or failed every attempt, if there is an HTTP client. auth: an exchanged token is spent,
a client's session survives. The saga: an order ends with a driver; customers are told the truth.

## 2. Modules

`EventBus` is extended by the service modules, so each is one service with its own queues, its
replicas (`Processes`), and the callbacks that can be in flight in them (`Workers`, `ProcessOf`).
`pc[w]` is the `await` a callback is at; one action is the code from one `await` to the next.

* **`EventBus`**: `Deliver` (parse, validate, start the handler), `Goto` (the next await), `Ack`,
  `Nack`, `Settle` (both throw on a closed channel; the unhandled rejection kills the process),
  `Restart` (the orchestrator starts it again, the broker requeues what was unsettled), and the
  faults `Crash`, `CloseConnection`, `DatabaseFails`. A message has a form: valid, invalid (the
  schema rejects it) or garbled (not JSON). `DroppedByAFault` is the one excuse the loss properties
  allow: a message nacked after some fault.
* **`SagaStep`**: the abstract specification of a choreography step: one outcome per order, for good,
  announced at most once and never another. `KitchenService` and `PaymentService` implement it by
  `INSTANCE SagaStep WITH outcome <- ...`; for payment a refunded row maps to `SUCCEEDED`, so a
  refund is a stutter.
* **`KitchenService`**, **`PaymentService`**, **`OrderService`**, **`DeliveryService`**,
  **`NotificationService`**: the tables as functions from orders, the markers as a set of keys, the
  published events as counters. Unique keys make the second create throw (Prisma, `@id`); MongoDB
  collections have none, so a delivery is a sequence of documents. Contents that no property tells
  apart (reasons, dates, drivers, amounts beyond their sign) are left out.
* **`OrderService`** adds the controller (`Arrive` or `ArriveUnparsed`, `FindOrder`, `UpdateOrder`,
  `PublishCancelled`), the idempotency store of each replica with the expiry of its keys
  (`ExpireKey`), and the subscriber `POST /start-subscriber` adds (`StartSubscriber`,
  `LogOrderCreated`), which acks orders without a row. `createServer` installs no JSON body parser, so
  reading the reason throws outside the `try` and kills the replica; the controller's own tests pass a
  parsed body. `Parsing` is the set of replicas that have a parser: the run has one of each.
* **`KitchenCancellation`** and **`Compensation`**: the kitchen's `order.cancelled` handler, and its
  composition with `DeliveryService`. The two share the broker and nothing else: the kitchen publishes
  `kitchen_service.kitchen_order_cancelled`, to which no queue is bound, so the event reaches nobody
  (`passedOn` is history), and each message of the composition comes from outside. Both handlers of
  delivery are there: what `kitchen.order.cancelled` would do, should its queue hold one, and the
  fallback on `order.cancelled`.
* **`Saga`**: all five services with one step per handler; `QUEUES` and `Consumers` are the tables in
  the `lib/rabbitmq.ts` and `app.ts` files. Queues appear when their service starts, a subscription
  to a queue nobody declared kills the process, a publish reaches the queues bound to its key and no
  other. A consumer's schema decides too: both payment's and notification's handlers of
  `kitchen.accepted` drop the event without a total, and the kitchen publishes no other.
  `CancelOrder` is the controller of a process that does parse bodies.
* **`CircuitBreaker`**: `Admit` is `execute` up to its await, `SucceedHalfOpen`, `SucceedClosed` and
  `Fail` what follows, by the state read before it. Time is the age of the last failure up to one
  tick past the timeout, and the failure count saturates at the threshold: the code compares neither
  with anything larger. `outage` is the protected service.
* **`ResilientCall`** extends it with callers that do
  `retryWithBackoff(() => breaker.execute(() => withTimeout(fn(), ms)))`. `TimeOut` settles the
  attempt as a failure and leaves its operation in `running`; `FinishLate` ends it, with its effect or
  without. `took` and `timedOut` are history.
* **`RateLimiter`**: `PassPlan` and `PassEndpoint` are the two middlewares (`Admit` or `Refuse`);
  `Charged` is `isRequestAllowed`, which counts in each window in turn and stops at the first that is
  full; `Finish` and `Close` are the two listeners each gate hangs on the response. `status` follows
  the response, since `close` also comes without `finish`. `ResetLimits` and `Cleanup` drop buckets.
* **`Webhooks`**: `webhooks` and `subscribers` are the two maps, changed in one step by a handler.
  `DispatchEvent` reads them once; each send is then on its own: a POST that is answered or fails, a
  `Retry`, never another look. `axiosLoaded` is whether the guarded `require` at the top found axios;
  without it `SkipPost` ends the send with nothing delivered, failed or retried.
* **`AuthService`**: one action per await of `register`, `login` and `refresh`. A token is its user and
  the second it was signed in, which is all the JWT holds. An exception in `login` or `refresh` is an
  unhandled rejection (`Die`).

`MC*.tla` give the constants values; each run has a `.cfg`. Operators whose comment describes a slip
(`UpsertKitchenOrder`, `RestartWithoutRequeue`, `FailLate`, ...) are the mutants: a variant of
the operator after them with a plausible bug. No specification uses them; each property is
violated when its mutant takes the operator's place.

## 3. Runs

`CHECK_DEADLOCK FALSE` in every configuration: a service whose queues are empty waits.

| Run | Instance | What it shows |
|---|---|---|
| `Kitchen` | 2 orders, 2 replicas, 3 callbacks, two copies of an order with different items, an invalid and a garbled event, 2 faults of any kind | `IInv` (with at most one decision announced), `NoOrderIsLost`, `ImplementsSagaStep`, `EveryOrderIsDecided` |
| `Payment` | 1 order, 2 copies of its acceptance, 1 cancellation, an invalid and a garbled event, 2 callbacks, 2 faults | `IInv`, `TrackedRefundsAreFinal`, `ImplementsSagaStep`, `EveryAcceptedOrderIsCharged`, `ChargedOrdersAreRefunded` |
| `Order` | 1 order, its creation and assignment, 3 cancel requests (two with one key, which may expire), 2 replicas, a development subscriber, 1 fault | `IInv`, `NoOrderIsLost`, `CancelsArePublished`, `OrderNeverGoesBack`, `EveryOrderIsPersisted` |
| `Delivery` (`Compensation`) | 1 order, its payment, a garbled one, a cancellation for each of the three handlers, 2 delivery callbacks and 1 of the kitchen in 3 replicas, 1 fault | `IInv`, `AnnouncementsAreRecorded`, `TrackedAssignmentsAreFinal`, `EveryPaidOrderIsAssigned`, `FallbackReleasesTheDriver` |
| `Notification` | 1 order, 2 copies of one event, another event, a garbled one, 3 callbacks, 1 fault | `IInv`, `NoNotificationIsLost`, `RecordedEventsAreFinal`, `EveryEventIsNotified` |
| `Breaker` (`ResilientCall`) | 2 callers, one retry each, thresholds 2 and 2, timeout 2 | `IInv`, `EffectsAreAccountedFor`, `OnlyLateTrialsCutTheTimeout`, `RecoversAfterOutage`, `EveryCallIsAnswered` |
| `Saga` | 1 order, one event from outside (`order.created` or `payment.succeeded`), 1 cancellation, 1 crash | `SagaIInv` (customers are told nothing that is not on record), `RoutedEventsAreHandled` |
| `RateLimit` | 1 user, 3 requests in flight, limits 2, 3 and 4 in windows of 2, 4 and 8 ticks, 2 at once, weights 1 and 2, 9 ticks | `LimiterIInv` (`CountIsOwed`), `WindowsHold`, `ConcurrencyHoldsAtFirst` |
| `Webhooks` | 2 hooks, 2 events, 1 dispatch of either event or of a test, 3 attempts, with axios and without, 1 crash | `WebhookIInv` (the maps agree), `RemovedHooksFallSilent`, `EveryReadHookIsNotified` |
| `Auth` | 1 user, 2 requests in flight, tokens of 2 seconds in 4, 1 fault | `IInv`, `SessionsSurvive`, `RevokedTokensAreSpent` |

Two runs are expected to fail: each takes a claim of the documentation and shows what the code does.

| Run | Claim | Counterexample |
|---|---|---|
| `Payment_race` | README.md:826 and 841, cancellations refund | the cancellation is handled before the charge: marked as processed with nothing refunded, then the charge is made |
| `Saga_end_to_end` | README.md:695, "Verified end-to-end SAGA flow" | `kitchen.accepted` lacks the total its schema demands; payment's keys are bound to no queue; payment consumes a queue nobody declares and dies at every start |

### Bounds, and why they are enough

* **Callbacks and replicas**: each race in these handlers is between two callbacks that share a row,
  in one process or in two; three callbacks in two replicas (kitchen, notification) cover one of each
  at once. The other services use one callback in each of two replicas.
* **Messages**: two copies of an event are enough for a check-then-act race; a redelivery after a
  fault is a further copy, so no copy need be added for it. Orders do not interact: every row, marker
  and counter is per order, so the second order is there only in `Kitchen`.
* **Delivery**: one valid payment, whose second copy is its redelivery after a fault; the garbled one
  only kills its consumer. `EveryPaidOrderIsAssigned`, which excepts faults, therefore meets one callback
  of the payment at a time, among cancellations that race with it.
* **Order**: one replica parses bodies and the other does not, so the requests that share a key meet in
  one replica; replicas that know nothing of each other's keys are in the proof, for any number.
* **Faults** (`MaxFaults`): one fault leaves something half done; with two (kitchen, payment) the
  recovery is struck too. The deaths that garbled messages cause count against the same bound,
  otherwise such a message kills its consumers for ever, as it does in production.
* **Saga**: `MaxCrashes` 1, one outside event: a second event would only repeat a handler whose own
  module already runs with copies. Both ends of the broken chain are entered, at `order.created` and,
  because payment's events reach nobody, at `payment.succeeded`.
* **Breaker**: two callers are enough for a trial that settles after another has opened the breaker
  again; one retry gives an attempt that is given up while the next one runs. Larger thresholds only
  lengthen the path to the same states.
* **RateLimit**: with three requests and two allowed at once, a late `close` makes room for one too
  many; both the minute and the hour roll over, the day once, and a sweep can find a bucket that is
  a day old. Counts saturate one above their limit: past it only "too many" matters.
* **Auth**: all state is per user. Two requests collide, race on one token and overlap with its
  expiry; 4 seconds let a token expire and its successor live. The requests are symmetric, and so
  are those of `RateLimit`: both runs check safety only, for which symmetry is sound.

### Fairness

`FairSpec` of the services has weak fairness of `Receive` (the broker pushes while a consumer is
attached) and of each callback's `Handle` (Node runs a continuation whose promise has settled).
Publishing, cancel requests and faults are not fair. A crashed process is restarted at once by
`Restart`; a process whose connection has closed is not, since the code never reconnects, so liveness
is stated as "..., or a fault strikes". `FairCompensationSpec` has the same for both services. In `Saga`
starting, subscribing and handling are fair, crashes are not. `FairRetrySpec` assumes that time
passes, that callers keep calling, that timers fire and that an awaited attempt ends in an answer, an
error or a timeout; nothing is assumed of an operation that was given up. `Webhooks` assumes that a
POST settles (axios has a timeout), that a send without axios returns, and that a back-off's timer
fires. `RateLimit` and `Auth` check
safety only.

## 4. Proofs

TLAPS proves the following for any number of orders, events, replicas, callbacks, requests and faults,
from the assumptions named in the modules (`BusAssumption`, `KitchenAssumption`, ...), which type the
constants; the limiter's also says that no window is longer than a day. Two theorems assume more, one
of the clients and one of the publishers outside, and say so. Every safety invariant and every action
property that a passing run checks is a theorem.

* **`EventBus_proofs`**: the bus's type invariant under each of its steps, what the steps that only end
  callbacks look like to a service, and that a message is always in custody, handled or dropped.
* **`KitchenService_proofs`**: `KitchenInvariant` (`IInv`), `KitchenDecidesOnce` (`DecidedOnce`),
  `KitchenImplementsSagaStep`, `KitchenLosesNoOrder` (`NoOrderIsLost`).
  `DecidedOnce` is not inductive: a publish could come from any callback. `IInv` adds that the
  callback that created an order's row is its only writer (`WriterOwnsTheOrder`: at most one callback
  is at `mark` or `publish` for an order, the row says what it decided, nothing is announced yet) and
  that announcements have rows (`RowsComeFirst`). The unique key is what makes it inductive: the
  create that succeeds finds no row, so no other writer exists.
* **`PaymentService_proofs`**: `PaymentInvariant`, `PaymentChargesOnce`, `RefundsNeedCharges`,
  `RefundsAreFinal`, `PaymentImplementsSagaStep`, `LateCopiesRefundNothing`
  (`TrackedRefundsAreFinal`). The same argument, with the refund that may
  overtake the charge: the writer's row is `SUCCEEDED` or already `REFUNDED`, and
  `HandlersKnowTheirEvent` ties each await to the kind of event it handles, so that the total is
  known to be positive. The last theorem sorts the steps by what they do to a refund (`HandleMoves`): only a
  callback past the marker's check publishes one, and none passes it once the marker is there.
* **`OrderService_proofs`**: `OrderInvariant`, `OrdersGoForward` (`OrderNeverGoesBack`),
  `OrderLosesNoOrder` (`NoOrderIsLost`) and `CancellationsArePublished` (`CancelsArePublished`). For
  `NoOrderIsLost`, `Custody` is inductive: each message that was sent is still queued or held, was
  dropped after a fault, was logged by a development subscriber, or its order has a row; a callback
  past the create and a marker each stand for a row. The last theorem is about keys too: the store answers
  200 for any key it holds, whatever the order. The theorem therefore assumes `KeysNameOrders`,
  that clients do not use one key for two orders; the run's clients satisfy it. The strengthening
  says that, while no fault has struck, an order that is `CANCELLED` or a key that is stored has its
  event out or a request on its way to publish it.
* **`SagaAndNotification_proofs`**: of the notification service `NotificationInvariant` (a record never
  runs ahead of its notification, an ack only follows one), `NotificationLosesNoEvent`, and
  `LateCopiesNotifyNobody` (`RecordedEventsAreFinal`). Of the wiring `SagaInvariant` (`SagaIInv`). What a
  customer is told is recorded; that it stays recorded needs `DecisionsAreFinal`: a second
  `order.created` makes the kitchen decide again, and as the model's decision depends on the order
  alone, it decides the same. `TheChainIsBroken`: where only `order.created` comes from outside, all
  that is ever queued are new orders and the kitchen's events without totals
  (`OnlyTheKitchenSpeaks`), so no order is charged or gets a driver, and no customer is told that the
  kitchen accepted. The failing run
  `Saga_end_to_end` shows it for one order; here it is any number, with cancellations and crashes.
* **`Compensation_proofs`**, for the two services together: `CompensationInvariant`,
  `DeliveryAnnouncesWhatItRecorded` (`AnnouncementsAreRecorded`) and `TrackedAssignmentsStayFinal`
  (`TrackedAssignmentsAreFinal`), which speaks of all documents of an order: none is added and none
  that was released is assigned again. Copies may each
  insert a document, so "announced at most as often as recorded" is inductive only with the callbacks
  in between counted: `AssignmentsAreCounted` bounds the announcements and the callbacks at `mark` or
  `publish` together (`Assigning`, a finite set) by the documents. For the kitchen,
  `KitchenCallbacks` says that what is about to be marked was published or is not known.
* **`CircuitBreaker_proofs`**: `BreakerInvariant`, `BreakerStaysOpen`, and, for a caller that makes one
  call at a time, `SerialStaysOpen` (open for the whole timeout) and `SerialReopens` (a failed trial
  opens it again). With overlapping calls the first of these is false: a trial admitted before the
  breaker opened again still closes it when it settles late. `RetryImplementsBreaker`: `RetrySpec`
  implements `Spec`, so what is proved of the breaker holds among retrying callers
  (`RetryKeepsBreaker`). `CallersAreToldTheTruth` (`EffectsAreAccountedFor`): every attempt but the
  last that took effect had been given up.
* **`Edge_proofs`**, for what faces the clients. Auth: `AuthInvariant`, `RevokedTokensStaySpent`
  (`RevokedTokensAreSpent`), `SessionsOnlyDieWithTheProcess` (`SessionsSurvive`). `StepsOfTheService`
  sorts the steps into deaths, waits and the five ways one request goes on; `TokensAreSignedInOrder`,
  that no token is exchanged for one signed earlier, needs the clock: a successor is signed now, what it
  replaces was signed before. `AnswersAreFresh` is the strengthening the last theorem needs: a token on
  its way to a client is live, or somebody has it already.
  The rate limiter: `LimiterInvariant` (`LimiterIInv`), `WindowsNeverOverflow` (`WindowsHold`) and
  `ConcurrencyIsKept` (`ConcurrencyHoldsAtFirst`). The counter is compared with the finite set
  `Running(u)`: an admission adds one pair to it, an answer takes as many as its request holds
  (`AdmissionsRun`, `AnswersStopRunning`). `CountIsExact` says that the two are equal until a late `close`
  or a reset forgets a request, and idle requests hold nothing (`IdleHoldsNothing`). For the windows,
  `AdmittedIsCounted`: what the current window let in is in the bucket's count, under the current
  key, and the bucket was last used in that window; a bucket the sweep drops was not, since more than
  a day lies between (`WindowsAreShort`).
  The webhooks: `WebhookInvariant` (`WebhookIInv`), which is inductive as it stands.

Out of the prover's reach, and only model-checked: liveness (all `Every...`, `ChargedOrdersAreRefunded`,
`FallbackReleasesTheDriver`, `RecoversAfterOutage`, `RoutedEventsAreHandled`,
`RemovedHooksFallSilent`), which needs fairness and `ENABLED`. Induction over data and `RECURSIVE`
operators cannot be proved about either; no module needs them. The strengthenings the proof modules
define were checked by TLC on the instances of the runs before they were proved.

## 5. What the code does against what is written

Besides the two runs that fail, the following was met while modelling. The models have the code's
behaviour, and the properties are stated so that they hold of it.

* A crash of the kitchen after the row or the marker and before the publish: the redelivered event is
  skipped, and the decision is never announced (README.md:661 speaks of "Enforced idempotent event
  consumption and restart safety"). `EveryOrderIsDecided` excepts faults.
* Two copies of `order.cancelled` that overlap both publish a refund, under the comment "Prevent
  duplicate refunds" (`payment/src/app.ts:129`). `TrackedRefundsAreFinal` is what remains.
* Notification's consumer of `kitchen.accepted` demands the same total
  (`kitchenAccepted.consumer.ts:14`): the event is nacked and the customer is never told that the
  kitchen accepted. `TheChainIsBroken` proves it where only `order.created` comes from outside.
* The kitchen publishes its cancellation as `kitchen_service.kitchen_order_cancelled`
  (`subscribeOrderCancellation.ts:79`), which no queue is bound to, and delivery's two cancellation queues
  are declared by nobody; README.md:820-833 has the kitchen's event release the driver.
* A copy of `payment.succeeded` that overlaps the first, or is redelivered before its marker is
  written, inserts another document with another driver, even after the order was released.
  `TrackedAssignmentsAreFinal` says from when on none does.
* axios is in no `package.json` and not in the lock file (`gaxios` is another package). The `require` is
  guarded (`webhooks.ts:4-12`), and without axios a send logs and returns (183-186): installed from this
  commit, the gateway notifies no hook, counts none as failed and retries none. The model has both
  kinds of process; `EveryReadHookIsNotified` says of the one without axios that the send is over.
* A cancel whose channel is closed writes the row and answers 500; the retry finds the order cancelled,
  answers 200, and no event is ever published (README.md:818-819). `CancelsArePublished` excepts faults.
* The cancel controller checks its store "to prevent duplicates" before its first await and fills it
  after its last: overlapping requests with one key both publish, and so does a retry at another replica.
* `HALF_OPEN` is documented as "allow one request" (`resilience/src/index.ts:10`); every call that
  comes while it lasts goes through.
* The limiter checks `concurrentRequests` and decrements on `finish` and on `close`, so an answered
  request is taken off twice. A new bucket starts with the FREE plan's tokens whatever the plan, and
  `maxBurstSize` is read by nothing.
* `testWebhook` sends to every hook of `ORDER_CREATED`, not to the one it was asked for, and reports
  success whatever the endpoints answered.
* `refresh` signs an access token without the role, which the gateway's role check then refuses;
  auth signs the user as `sub`, the gateway reads `userId`. Two logins, or a login and a refresh, of
  one user in one second collide on the unique token and end the process.

## 6. Assumptions and limits

* amqplib and RabbitMQ are modelled from how the code uses them: `ack`, `nack` and `publish` on a
  closed channel throw; an unhandled rejection ends the process (Node 15 and later). A graceful close
  by the broker emits `close` only; a close with an error emits `error`, which without a listener is a
  crash.
* A database call takes effect and returns, or fails without effect; one that takes effect and then
  reports failure is the effect followed by a failure of the next call.
* payment's `order_cancelled` queue is declared by nobody. `PaymentService` models the handlers as if
  an operator had created it; `Saga` shows what happens otherwise. `DeliveryService` and
  `KitchenCancellation` likewise model cancellation handlers that `app.ts` does not start, as if delivery's
  two queues, which nobody declares, had been created and bound. A reader who
  wants the services as started takes the instance without such messages. Nothing in the repository
  writes the collection the kitchen's handler reads, so its documents are there from the start or not.
* The handlers of notification differ in their keys and texts only: one handler stands for all, and an
  idempotency key is an order with an event's type (`paymentRefund.consumer.ts:35` takes the id of the
  order's payment instead).
* At-least-once effects the code accepts are not stated as properties: a crash between a MongoDB
  insert and its marker repeats the assignment or the notification; `delivery.assigned` may overwrite
  `CANCELLED`, and is dropped when it comes before the order's row.
* The gateway's `app.ts` installs another limiter, `apiRateLimit`, and neither the plan-based one nor the
  webhook handlers: `RateLimiter` and `Webhooks` are the code as it would run once installed.
* `CancelsArePublished` and the liveness properties except faults, as the code gives up after one: the
  crash between a charge's marker and its publish, or the cancel whose publish fails, is what section 5
  describes and no property bounds.
* Hashing and signing are library calls, modelled by what they return; passwords are right or wrong.

Not modelled, and why:

* **Response cache** (`api-gateway/src/lib/cache.ts` and its middlewares): the gateway's app installs
  neither middleware.
* **Proxying, versioning, roles, restaurant**: one call per request, no state between requests.
* **Dead-letter helpers** (`resilience/src/dlq.ts`): broker calls without state; no service uses them.
* **A start-up whose connection fails half-way**: `initRabbitMQ` throws and the process is started again
  from nothing, which is `CrashService` in `Saga`.
* **Observability, test utilities, scripts, k8s**: no effect on what is modelled.

## 7. Plan

The order the modules were written in: `EventBus`, `KitchenService` with `SagaStep`, `PaymentService`,
`OrderService`, `DeliveryService`, `NotificationService`, `CircuitBreaker`, `Saga`; then
`KitchenCancellation` and `Compensation`, `ResilientCall`, `RateLimiter`, `Webhooks`, `AuthService`, and
the development subscriber and key expiry in `OrderService`.

What would come next: an abstract saga (an order goes forward through its stages, a cancellation
undoes them) that `Saga` implements once the keys are bound; the response cache once it is installed.
What is left to prove are the safety halves of liveness properties: that a callback can always go on,
that a removed hook's sends can only run out, that the retries of one are bounded.
