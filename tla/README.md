# Formal model of the ecommerce microservices

TLA+ modules that model the order flow of this repository, TLC configurations
that model-check them on small instances, and theorems about them proved with
TLAPS. Paths are relative to the repository, which is called `src/` here.

## 1. The system

| Component | State it keeps | Operations | Talks to |
|---|---|---|---|
| Order service, `order-service/src` | orders in MongoDB: status, paymentInitiated, Idempotency-Key (unique sparse index) | `POST /orders` (createOrder), `GET /orders/:id`, `PATCH /orders/:id/payment-status` (internal) | customer, product and payment service over HTTP; publishes to `payment.retry` |
| Product service, `product-service/src` | products in MongoDB with their stock | get, list, create, reserve (conditional decrement), release (increment) | nobody |
| Customer service, `customer-service/src` | customers | get, create | nobody |
| Payment service, `payment-service/src` | nothing of its own | `POST /payments`: accept and publish `transaction.created` | RabbitMQ |
| Payment retry worker, `payment-retry-worker/src` | the event in hand | consume `payment-retry-queue`: pay, confirm, or reschedule, or give up | payment and order service over HTTP, RabbitMQ |
| Transaction worker, `transaction-worker/src` | transaction history in MongoDB | consume `transaction-history-queue`: upsert | RabbitMQ |
| Shared library, `shared/src` | breaker and connection state per process | HttpClient (retries, circuit breaker), Publisher (confirms), Consumer (prefetch 1, ack/nack), RabbitMQConnection (reconnect), topology, graceful shutdown, HTTP plumbing | |

There is no transaction across services: a step that fails is compensated
(stock), retried (HTTP calls), handed to a queue (payments) or logged.

**What is hard.** Requests interleave at every `await`. Every HTTP call is
retried after a timeout although the first attempt may have been executed, or
may be executed later, and reserving, releasing and paying are not idempotent.
Processes die, or are cut off by the forced exit of their shutdown, between two
steps. A database error may hide a write that was applied. RabbitMQ redelivers
after a crash. Two processes write an order's status with an unconditional
update. `PROJECT.json` lists these hazards line by line.

**What makes each component correct.**

- Order placement: one order per Idempotency-Key and the same answer to all who
  use it; no payment without an order and no confirmation without a payment; an
  order holds a unit of stock that is not given away again; products are not
  oversold; a rejected request leaves nothing behind; a request charges no more
  often than it tries; an unpaid order can still be resolved; every request is
  answered.
- Retry worker: confirms paid orders only; forgets no order; charges and retries
  a bounded number of times; resolves an order once; its queues drain.
- Both together: never at work on the same order; orders settle; the status a
  client polls goes through the documented life cycle.
- Transaction history: nothing is accepted before its transaction is in safe
  custody; custody ends in the history or with an operator; a transaction has
  one record; the queue drains.
- HTTP client: a call makes at most maxRetries + 1 attempts and ends with an
  answer or an error; a half-open breaker is never stuck; the breaker closes
  again when the service is back; it opens for outages only (it does not).
- RabbitMQ connection: one connect() at a time, and none next to a connection;
  isConnected() is true only with a connection; a loss nobody intended is
  answered by a reconnect, until the attempts are used up.
- Process: a worker that can consume is ready (a ready one need not be able to
  consume); a worker told to stop ends.

## 2. Modules

| Module | Role | Models |
|---|---|---|
| `Checkout` | detailed | `createOrder` by any number of concurrent requests, with stock, orders, payments and the retry queue |
| `Placement` | abstract | what `POST /orders` promises a client |
| `CheckoutInv` | invariant | the inductive invariant of Checkout, in named parts |
| `CheckoutProofs` | proofs | the invariance proof and the safety theorems of Checkout, and that it implements Placement |
| `PaymentRetry` | detailed | the retry worker, its queues and the status update it calls; its inductive invariants are at the end |
| `Counting` | lemmas | how the number of events of an order, and of the attempts they allow, changes when one is put into a queue or taken out |
| `PaymentRetryProofs` | proofs | the theorems of PaymentRetry, over those of Counting |
| `OrderFlow` | composition | Checkout (extended) and PaymentRetry (by INSTANCE) over one order collection, payment service and retry queue |
| `OrderFlowProofs` | proofs | the theorems of OrderFlow, over those of CheckoutProofs (extended) and PaymentRetryProofs (by INSTANCE) |
| `OrderLifecycle` | abstract | the status a client sees when it polls its order |
| `HttpClient` | detailed | the retry loop and the circuit breaker around it, shared by concurrent calls |
| `HttpCall` | abstract | what a caller of `HttpClient` relies on |
| `HttpClientProofs` | proofs | the theorems of HttpClient |
| `Transactions` | detailed | payment service, broker and transaction worker, from a payment to its record |
| `TransactionHistory` | abstract | what those promise together |
| `TransactionsProofs` | proofs | the inductive invariant and the theorems of Transactions |
| `RabbitMQConnection` | detailed | one connection object: connect, reconnect, close, closePartialConnection |
| `RabbitMQConnectionProofs` | proofs | its inductive invariant and theorems |
| `TransactionFlow` | composition | Transactions and RabbitMQConnection in the process of the transaction worker: bootstrap, monitoring, graceful shutdown |
| `TransactionFlowProofs` | proofs | the process implements both its parts |
| `MCCheckout`, `MCPaymentRetry`, `MCOrderFlow`, `MCHttpClient`, `MCTransactions` | TLC | values of the constants |

### Checkout

One action is one `await` of `createOrder` (`OrderService.ts:33-129`). `pc[r]`
names the call request `r` waits for, `reply[r]` is what it was answered: an
order, `conflict` (409), `upstream` (502), `internal` (500) or `dropped` (the
process died). An order is named by the request that inserts it, which stands
for the fresh uuid. The order collection is `orderStatus` and
`paymentInitiated`; `stock` is the product's; `charged[o]` counts accepted
payments; `ready[o][n]` counts the events about `o` with `attempts = n` in
`payment-retry-queue`.

| `createOrder` | Actions |
|---|---|
| lookup by key, 38-47 | `Lookup` |
| getCustomer, getProduct, 49-58 | `Validate` (reads only; failures are a 502) |
| reserveStock, 60 | `ReserveServed`, `ReserveConflict`, `ReserveFails`, `RetryCall("reserve")` |
| insert, 62-83 | `Create`: inserted, applied but reported as failed, refused by the index, failed |
| compensateStockRelease, 84 and 191-200 | `ReleaseServed`, `ReleaseFails`, `RetryCall("release")` |
| lookup after the lost race, 86-97 | `Relookup` |
| payment_pending, 100-106 | `MarkPending` |
| tryInitiatePayment, 132-189 | `PaymentAccepted`, `PaymentFails`, `PublishRetry`, `RetryCall("pay")` |
| confirmed, 118-126 | `Confirm` |

A call goes through `HttpClient`: an attempt that finds no answer is repeated
up to `MaxRetries` times (`RetryCall`), a 4xx or an open breaker ends the call at
once (`CallFails`). An attempt without an answer may have been executed: then it
goes into `late`, from where it is executed at any later time or never
(`LateReserve`, `LateRelease`, `LatePayment`). "Executed but the answer was lost"
is a late execution that happens at once. `Faults` says for which calls that is
possible; a clean failure of an HTTP call or of the insert always is, one of a
status update or a publish only with `database` or `broker`. `Crash` ends all
requests in progress.

The circuit breaker is the possibility to fail without sending anything; its
state is in `HttpClient`, so a property that holds here holds for every breaker. ORDER_QUANTITY is 1, and so is a unit here.

### PaymentRetry

`step` is what the worker does next with the event `<<working, attempt>>` it has
not acknowledged; prefetch 1 makes it one event. `PaymentRetryProcessor.handle`
is `PaymentAccepted`, `PaymentFails`, `ConfirmServed`, `ConfirmFails` (the one
catch block around both, 34-57: `AfterFailure`), `Reschedule`,
`MarkFailedServed`, `MarkFailedFails`; `Consumer.handleMessage` is `Receive`,
`Ack`, `Nack`. Queues are bags, since delays and redelivery reorder events.
`Expire` is the TTL of the delay queue. What `Nack` does with the event is up to
the queue's dead-letter exchange, which `assertPaymentRetryTopology` does not
configure (`DeadLettersRejected`), so the broker drops it into the ghost variable
`discarded`. A PATCH nobody waits for any more is in `late` and is executed by
`Late`.

`channel` is the channel Publisher and Consumer got in `bootstrap`
(`payment-retry-worker/src/worker.ts:21-47`), as in Transactions: a lost
connection is replaced (`RabbitMQConnection.ts:64`), its channel is not.
`LosesConnection` and `Crash`, together `Interrupted`, both make the broker
requeue the unacknowledged event (`Requeued`). After a crash the process is down;
after a lost connection it goes on with the event, cannot publish (`Reschedule`
throws and is nacked) and dies of its own `ack` or `nack` (`AnswerThrows`), unless
it was idle: then it stays up, ready and deaf, until somebody restarts it.

### OrderFlow

The module extends Checkout, and `R == INSTANCE PaymentRetry` shares its
`orderStatus`, `paymentInitiated`, `charged` and `ready`; a step of either part
leaves the private variables of the other alone. `FlowInit` is Checkout's `Init`
with an idle worker, so the events the worker sees are those `PublishRetry`
really puts there.

### HttpClient

`phase`, `tries` and `outcome` are the state of each call, `breaker` and
`pendingClose` that of opossum, `fires` and `failures` its rolling window.
`fireBreaker` is `Admit` or `Refuse`; an attempt in `executeWithRetry` ends in
`Answered`, `Rejected` (4xx, 162-169), `NoAnswer` (backoff, 176-181) or `GiveUp`
(last attempt, 171-190); `Resend` begins the next one without asking the breaker
again. `Succeeded` and `Failed` are what the library does when the wrapped
function settles, `HalfOpen` its reset timeout, `Forget` its window. The library
is not part of the repository: these definitions are its documented behaviour
under the options `HttpClient` gives it (no volume threshold, no timeout). Its
window of ten buckets is one bucket here, which is forgotten as a whole, so
failures may be counted in a window that has forgotten their fires: this gives
the breaker more occasions to open.

`HttpCall` is what Checkout and PaymentRetry take for granted of a call: refused,
or a bounded number of attempts one after the other, then an end. Their
`RetryCall`, `CallReturns` and `CallFails` are its actions.

### Transactions

`reply[p]` is the answer to a payment, `event[p]` the place of its
`transaction.created` event, `records[p]` counts its documents. A payment is
named by its transaction id, which `processPayment` draws anew for each call, so
it is published at most once and its event is in one place.

| Code | Actions |
|---|---|
| `PaymentService.processPayment`, `Publisher.publish` | `Pay`, `Accepted`, `NotConfirmed` |
| RabbitMQ | `Store`, `Lose`; `Requeued` when a channel closes |
| `Consumer.consume`, `handleMessage` | `Receive`, `Ack`, `Nack`, `AnswerThrows` |
| `saveIfNotExists` (an upsert is a find and an insert, under a unique index) | `Find`, `Insert`, `DatabaseFails` |
| an upsert whose worker died or gave up | `StrayFind`, `StrayInsert` |
| `RabbitMQConnection` losing its connection | `ServiceLosesConnection`, `WorkerLosesConnection` |

`channel` is the channel Publisher and Consumer were built with. It turns
`stale` when the connection is lost and stays so, since the channel of the
reconnected `RabbitMQConnection` is never handed to them. A worker that loses it
in the middle of an event dies at `ack` (`AnswerThrows`) and is started again; an
idle one never hears of another event. `WorkerClosesChannel` and `WorkerExits`
are what its shutdown does; they have the effect of a lost connection and of a
crash without being faults.

### RabbitMQConnection

`stage` is what `connect()` waits for (`open`: amqp.connect, `channel`:
createConfirmChannel, `cleanup`: closePartialConnection, `delay`: the backoff),
`closer` what `close()` waits for. `reconnects` counts the timers the "close"
handler has set. The two flags are `isClosingIntentionally` and the local
variable that keeps its value during a clean-up, so a `close()` that falls into a
clean-up loses its flag as it does in the code.

| Code | Actions |
|---|---|
| `connect`, 28-49 | `FirstConnect`, `AttemptFails`, `DelayOver` |
| `connectOnce`, 51-71 | `Opens`, `ChannelCreated`; `Handlers` are the two it attaches |
| the reconnect timer, 64 | `TimerFires` |
| `close`, 84-88 | `Close`, `ChannelClosed`, `ConnectionClosed` |
| `closePartialConnection`, 90-98 | begins in `AttemptFails`, ends in `CleanedUp` |
| amqplib and the broker | `Lost`, `Ends`; a second `close()` of the same object throws (`CloseConnection`) |

The handlers are attached once the channel exists (`Watched`). A connection lost
before is an error event without a listener: `AttemptFails` is the case in which
the pending createConfirmChannel rejects, `UnheardError` in TransactionFlow the
one in which the process ends.

### TransactionFlow

EXTENDS the two modules and adds `phase`, what `bootstrap` (`transaction-worker/
src/worker.ts:19-57`) or the shutdown (`gracefulShutdown.ts:15-47`) waits for:

    down -> database -> connecting -> consuming -> running
                                        -> draining -> closing -> disconnecting -> down

`Established` hands the first channel to bootstrap and all later ones to nobody;
`LosesConnection` makes the worker's channel stale only if it still was the one
in use. `ServerClosed` runs `close()` and with it ends the consumer's channel in
the middle of whatever it does; a step of the worker after that ends the process
(`Throws`). `Exits` is process.exit at the end of the shutdown or of its catch
block, `ForcedExit` its timer. What Transactions assumes of the worker's channel,
which may open, go stale and go down at any time, is here what the process makes
of it; every step is a step of Transactions and of RabbitMQConnection.

## 3. Faults, fairness and bounds

| Fault | Stands for |
|---|---|
| `reserve`, `release`, `pay`; `confirm`, `fail` for the worker | a timeout, a lost answer or a 5xx after which the attempt may still have been, or be about to be, executed |
| `insert`, `database` | a write of the order that is reported as failed though it may have been applied |
| `broker` | a publish that is not confirmed; of the order service also one on a channel that died in a reconnect |
| `MaxCrashes`, `MaxWorkerCrashes` | SIGKILL, out of memory, the forced exit of the graceful shutdown; of the retry worker its lost connections as well |
| `MaxLosses` | of the transaction worker: a lost connection to the broker, of the one in use; others are lost and replaced without bound |
| `AttemptFails`, `BootstrapFails` | a broker that refuses, a database that is down, a topology that cannot be asserted |
| `Conditions` | the service called answers, rejects with a 4xx, or does neither |

Every run names the faults under which its properties hold, and the violation
runs show the smallest set of faults that breaks them. The theorems carry the
same condition as a hypothesis.

**Fairness.** A request the service has begun to handle goes on: HTTP calls end
by the timeout of 5 s, database and broker calls by their drivers
(`WF(pc[r] # "arrive" /\ Handler(r))`). Nothing obliges a client to send its
request, a fault or a crash to happen or a late attempt to be executed. The
worker goes on likewise (`WF(Worker)`), the broker expires delayed events
(`WF(Expire)`), and a dead worker is started again (`WF(channel = "down" /\
Restart)`): the compose file has no restart policy, so this last one is the
operator's. The liveness properties (`EveryRequestAnswered`, `QueuesDrain`,
`OrdersSettle`) do not hold without these. Nobody is obliged to notice that a
worker is deaf, because its health check says it is ready: `QueuesDrain` and
`OrdersSettle` are about behaviours in which the worker's channel is open from
some time on. `retry_recovery` has both those and the deaf worker; in
`flow_orderly`, where the worker keeps its connection, the condition always holds. In HttpClient attempts and backoffs end (`WF(Progress(c))`), the reset
timeout and the window pass (`WF(HalfOpen)`, `WF(Forget)`). `WF(Fire(c))`, calls
keep coming, is no duty of the client but the condition under which `Recovers`
can be asked at all: a breaker nobody calls stays half-open. In
TransactionFlow the worker goes on with its event (`WF(Handles \/ Throws)`),
`connect()` ends its attempts, clean-ups and backoffs and its timer fires
(`WF(Established \/ Reconnecting)`), and so does the timer of the shutdown
(`WF(ForcedExit)`). Nothing obliges clients to close their sockets, the broker to
answer a `close()`, or an operator to start a worker that ended. `EventsDrain` has
the same condition on the worker's channel. `ReadyWorkerConsumes` asks for no
more than what an observer of the process sees: it is ready from some time on.

**Bounds.** Two requests under one key have every race on it
(`checkout_faults`); four requests for one unit, two under a key and two under an
empty one, have those on stock (`checkout_stock`). One product is enough, since
products share no state. `MaxRetries = 1` gives an attempt that is repeated and a
last one; 0 only where a second attempt adds nothing but states. One crash of the order service is put at every step of the runs that have one, and
so is one crash or lost connection of the retry worker in `retry_recovery` and
`flow_faults`; two in a row add nothing to a process without state but another
event, which the theorems count.
`MaxAttempts` is the code's 3 except in `flow_faults` and `flow_orderly`, where 2
has a rescheduled and a last attempt; `flow_faults` repeats calls instead, so that
request and worker leave payments behind that come late. Two calls on one HttpClient are a trial and an old call that
ends in its way; a window of 4 calls has failure rates below, at and above the
threshold of 50 %. `transactions` has one payment (two
make more than 3.7 million states): payments share nothing but the worker's hand,
which one of them fills, and the theorems hold for any number. Two connect
attempts are one that is repeated and a last one; with two losses the connection
that replaced a lost one is lost as well, and with a crash the process meets every
stage of the connection, a shutdown included, from a fresh start.
There is no counter without a bound but `charged`, `failures` and the bags, which
retries, calls and crashes bound.

## 4. Runs

| Run | Setting | Checks |
|---|---|---|
| `checkout_faults` | 2 requests, one key, all faults, a crash, fair | `TypeOK`, `SameKeySameOrder`, `PaidHasOrder`, `AttemptsBoundCharges`, `IInv`, `EveryRequestAnswered` |
| `checkout_stock` | 4 requests for one unit, no doubt about reservations, releases and inserts, a crash | `OrderBacked`, `NoOversell`, `RejectedHoldsNothing`, `PlacesOrders` (refinement) |
| `retry_recovery` | 1 order, all calls may be left in doubt, a crash or a lost connection, fair | `TypeOK`, `ConfirmedIsPaid`, `NoOrderForgotten`, `EventsBounded`, `ChargesBounded`, `QueuesDrain` |
| `flow_faults` | 1 order, all faults, a crash of each process or a lost connection of the worker | `FlowTypeOK`, `OneWriterAtATime`, `ConfirmedIsPaid`, `WorkHasOrder`, `FlowChargesBounded` |
| `flow_orderly` | 2 orders, faults and a crash of the order service, payments and failures of the worker come late, broker works, fair | `OrdersStayRecoverable`, `OrdersSettle`, `FollowsLifecycle` (refinement) |
| `http_calls` | 2 calls at a time, the service in any condition, fair | `TypeOK`, `TrialUnderWay`, `CallsEnd`, `Recovers`, `MakesCalls` (refinement) |
| `transactions` | 1 payment, the process of its worker, a crash, 2 lost connections, 2 connect attempts, fair | `TypeOK`, `AcceptedIsKept`, `EventsDrain`, `KeepsHistory` (refinement); `ConnectionTypeOK`, `OneConnect`, `ConnectedIsLive`, `NeverAbandoned`; `ConsumingIsReady`, `Reconnects`, `ShutdownEnds` |

Five runs are expected to end in a counterexample: what the documentation says
and the code does not do.

| Run | Counterexample |
|---|---|
| `checkout_oversell` | A request whose insert failed releases its unit; the answer is lost, the retry releases again; the spare unit is sold once more. "Avoid overselling product stock" (`README.md:23`). |
| `checkout_leak` | The answer of a reservation is lost: 502, no order, no compensation, the unit is gone (`README.md:111`). |
| `retry_deadletter` | The last attempt fails; the event is rejected and dropped, the dead-letter queue stays empty (`README.md:141`). |
| `transactions_deaf` | The worker's connection is lost while it is idle and replaced; the worker is ready, its consumer is subscribed on the old channel, and an accepted payment's event stays in the queue for ever (`README.md:117`). |
| `http_rejected` | One 409 in a fresh window is a failure rate of 100 %: the breaker opens although the service answers everything (`shared/src/http/HttpClient.ts:37-38`). |

Each property of a passing run has a mutant in `PROJECT.json`: a definition with
a plausible bug (the operators marked `Bug:`), under which TLC
finds the property violated.

## 5. What is proved

TLAPS proves these for every value of the constants: any set of requests,
products, keys, orders, callers and payments, every stock, every `MaxRetries`,
`MaxAttempts`, `ErrorThreshold`, `ConnectMaxAttempts`, number of crashes and lost connections, and every
set of faults the hypothesis allows. The assumptions on the constants are the
`...Assumption`s of the modules: the bounds are numbers, the requests of Checkout
are finitely many, and no request, order or payment is called like a failure or
like nobody.

| Theorem | Under | Says |
|---|---|---|
| `CheckoutProofs!TypeCorrect` | nothing | `[]TypeOK`, so stock never becomes negative |
| `CheckoutProofs!Invariance` | nothing | `[]IInv` |
| `CheckoutProofs!OneOrderPerKey` | nothing | `[]SameKeySameOrder` |
| `CheckoutProofs!NoPaymentWithoutOrder` | nothing | `[]PaidHasOrder` |
| `CheckoutProofs!NoConfirmationWithoutPayment` | nothing | `[]ConfirmedIsPaid` |
| `CheckoutProofs!OrdersHoldTheirUnits` | no `insert` fault | `[]OrderBacked` |
| `CheckoutProofs!NeverOversold` | no `insert`, no `release` fault | `[]NoOversell` |
| `CheckoutProofs!RejectionsHoldNothing` | no `reserve` fault | `[]RejectedHoldsNothing` |
| `CheckoutProofs!ChargesAreBounded` | nothing | `[]AttemptsBoundCharges` |
| `CheckoutProofs!RequestsGoOn` | nothing | `Spec => GoesOn` |
| `CheckoutProofs!ImplementsPlacement` | no `insert`, no `release` fault | `Spec => PlacesOrders` |
| `PaymentRetryProofs!TypeCorrect` | nothing | `[]TypeOK` |
| `PaymentRetryProofs!ConfirmedOrdersArePaid` | nothing | `[]ConfirmedIsPaid` |
| `PaymentRetryProofs!NoOrderIsForgotten` | no `broker` fault | `[]NoOrderForgotten` |
| `PaymentRetryProofs!EventsAreBounded` | nothing | `[]EventsBounded`, across any number of crashes and lost connections |
| `PaymentRetryProofs!RetriesAreBounded` | nothing | `[]ChargesBounded`, likewise |
| `PaymentRetryProofs!RetriesRunOut` | nothing | `Spec => RunsOut`, likewise |
| `PaymentRetryProofs!ResolutionsStay` | no `confirm` fault, no crash, no lost connection | `ResolvedOnce` |
| `OrderFlowProofs!FlowTypeCorrect` | nothing | `FlowSpec => []FlowTypeOK` |
| `OrderFlowProofs!WritersTakeTurns` | nothing | `FlowSpec => []OneWriterAtATime` |
| `OrderFlowProofs!FlowConfirmsPaidOrders` | nothing | `FlowSpec => []ConfirmedIsPaid` |
| `OrderFlowProofs!NoWorkWithoutOrder` | nothing | `FlowSpec => []WorkHasOrder` |
| `OrderFlowProofs!NoOrderIsLost` | no `broker` fault on either side | `FlowSpec => []OrdersStayRecoverable` |
| `OrderFlowProofs!OrdersFollowLifecycle` | no `confirm` fault, no crash and no lost connection of the worker | `FlowSpec => FollowsLifecycle` |
| `OrderFlowProofs!FlowKeepsCheckout` | nothing | `FlowSpec => []IInv` |
| `OrderFlowProofs!FlowOneOrderPerKey` | nothing | `FlowSpec => []SameKeySameOrder` |
| `OrderFlowProofs!FlowChargesPlacedOrders` | nothing | `FlowSpec => []PaidHasOrder` |
| `OrderFlowProofs!FlowOrdersHoldTheirUnits` | no `insert` fault | `FlowSpec => []OrderBacked` |
| `OrderFlowProofs!FlowNeverOversold` | no `insert`, no `release` fault | `FlowSpec => []NoOversell` |
| `OrderFlowProofs!FlowRejectionsHoldNothing` | no `reserve` fault | `FlowSpec => []RejectedHoldsNothing` |
| `OrderFlowProofs!FlowImplementsPlacement` | no `insert`, no `release` fault | `FlowSpec => PlacesOrders` |
| `OrderFlowProofs!FlowEventsAreBounded` | nothing | `FlowSpec => []R!EventsBounded` |
| `OrderFlowProofs!FlowChargesAreBounded` | nothing | `FlowSpec => []FlowChargesBounded` |
| `OrderFlowProofs!OrdersRunOut` | nothing | `FlowSpec => FlowRunsOut` |
| `HttpClientProofs!TypeCorrect` | nothing | `[]TypeOK`, so no call makes more than `MaxRetries + 1` attempts |
| `HttpClientProofs!TrialIsUnderWay` | nothing | `[]TrialUnderWay` |
| `HttpClientProofs!ImplementsHttpCall` | nothing | `Spec => MakesCalls` |
| `TransactionsProofs!TypeCorrect` | nothing | `[]TypeOK`, so a transaction has one record at most |
| `TransactionsProofs!AcceptedStaysKept` | nothing | `[]AcceptedIsKept` |
| `TransactionsProofs!ImplementsHistory` | nothing | `Spec => KeepsHistory` |
| `RabbitMQConnectionProofs!ConnectionTypeCorrect` | nothing | `[]ConnectionTypeOK`, so `connect()` makes `ConnectMaxAttempts` attempts at most |
| `RabbitMQConnectionProofs!OneConnectAtATime` | nothing | `[]OneConnect` |
| `RabbitMQConnectionProofs!ReportedConnectionIsLive` | nothing | `[]ConnectedIsLive` |
| `RabbitMQConnectionProofs!LossIsNotIgnored` | nothing | `[]NeverAbandoned` |
| `TransactionFlowProofs!WorkerKeepsHistory` | nothing | `FlowSpec => KeepsHistory` |
| `TransactionFlowProofs!WorkerKeepsAccepted` | nothing | `FlowSpec => []AcceptedIsKept` |
| `TransactionFlowProofs!WorkerUsesConnection` | nothing | `FlowSpec => ConnectionSpec` |
| `TransactionFlowProofs!ConsumingWorkerIsReady` | nothing | `FlowSpec => []ConsumingIsReady` |

**The argument for Checkout.** None of the properties is inductive. `IInv`
(module `CheckoutInv`) adds what the code relies on without saying so:

- `OrderInv` ties an order's status to how far its request has come, so that
  only the request that charged an order gets to confirm it.
- `IndexInv` and `ReplyInv`: the unique index admits one order per key, and an
  answer is always an order under the key of the request; the two give
  `SameKeySameOrder`.
- `AttemptInv`: the n-th attempt of a call is not executed before it was sent
  nor twice, which makes the sets of executed attempts countable.
- `StockInv`: units in stock and units taken add up to the initial stock and the
  units given back. It holds under all faults. Overselling is therefore never a
  matter of the stock counter but of a release that should not have happened.
- `HeldInv`, `BackedInv`, `ReleaseInv`: a request past its reservation holds a
  unit; a request that compensates has no order (this is where an insert that
  was applied breaks the code); a request gives back once (this is where a
  repeated release does).

- `RejectInv`: a request that is still reserving, or was told 409 or 502, has taken
  nothing and has no reservation under way (this is where a reservation without an
  answer breaks the code).

`AttemptsBoundCharges` is inductive by itself, next to `OrderInv`: an attempt
without an answer adds one to what may still be charged and one to `tries`, an
attempt executed late moves from the one count to the other, and nothing is
charged or under way when the order is inserted.

`NoOversell` then counts: the orders for a product each hold an attempt that took
a unit, no attempt of theirs was given back, and each given-back attempt of the
others is matched by one they had taken; with `StockInv` and `stock >= 0` the
orders are at most the initial units.

The refinement maps `sold` to the requests that have an order and `answer` to
`reply`. Only the insert sells, and at that moment the same counting, with the
request's own unit, shows a unit was left; every other step answers one request,
answers the requests a crash cuts off, or stutters.

**The argument for PaymentRetry.** `PaidInv`: a PATCH "confirmed" under way, in
time or late, belongs to a paid order. `KeptInv`: on an open channel an event is
rejected only at the last attempt and acknowledged only when the order is resolved
or a follow-up is queued; on a stale one it may be rejected at any, but is in the
queue again already. `EventInv` counts. `Copies` are the events of an order in a queue, and
`Chances` the attempts at its payment those still allow, their own and those of
the events that follow: both are finite sets, so that putting an event `<<o, n>>`
into a queue adds one to the one and `MaxAttempts - n + 1` to the other (module
`Counting`). Each chance is a call of `MaxRetries + 1` attempts, so an event is
worth `MaxCharges(MaxAttempts - n + 1)` payments; in hand it is worth what
`MayStillCost` says, which falls by one with each attempt that finds no answer
while what may be charged late rises by one. Publishing the successor hands the
rest of an event's worth on. A crash gives the unacknowledged event back with all
its worth, besides its successor and the attempts already made: that is one event
and one `MaxCharges(MaxAttempts)` more, and all a crash can cost. A lost
connection costs the same: the worker may go on paying for the event it has in
hand, but can neither pass it on nor acknowledge it. `ResolvedInv`: unless the
worker dies, loses its connection or a confirmation is executed late, a resolved order has
no event left that could resolve it again. It leans on `EventInv`, by which the
event in hand is then the only one. A failure executed late does not break it:
after it was given up the event is rejected, and nobody confirms that order.

**The argument for OrderFlow.** `WorkInv`: whatever the worker has of an order, an
event in a queue, in hand or given up, or a call nobody waits for, the request of
that order is done and the order was inserted. The event is the last thing a
request writes and the worker only passes on what it has (`WorkerEffect`), so
neither side disturbs the other's invariants: `OrderInv` of Checkout and
`WorkerPaidInv`, the worker's half of "confirmed means paid", hold of the
composition. `RecoverInv` adds what `KeptInv` says of rejected and acknowledged
events, for the orders of the composition (`WorkerKeeps`), and
that a request which answers with its own order has confirmed it or published its
event; a request that lost the race on its key never has an order of its own
(`DuplicateInv`), so its second lookup cannot bring that about.

What is proved of either part alone is carried over, so that no argument is made
twice. `IInv` of Checkout survives every step of the worker, which changes the
status of orders whose requests are done and never the stock, the attempts of a
request or an answer (`WorkerPlacesNothing`, `IInvByWorker`); with it all safety
theorems of Checkout that do not count charges, and the refinement of Placement,
hold of the composition. In the other direction `P == INSTANCE PaymentRetryProofs`
gives the step lemmas of the worker: a step of the worker here is one of
PaymentRetry's `Next` (`WorkerAlone`), its types are the same (`SameState`), and a
request leaves the events of its order alone but for one, the first event, which
it publishes with nothing of the order in the worker's hands (`EventsOfRequest`).
PaymentRetry starts with that event in the queue; here it comes later, so it is
the step lemmas that are cited and not the theorems.

`FlowCostInv` bounds an order's cost end to end: until its request is done the
bound is the one of `AttemptsBoundCharges`, and the worker owes and spends
nothing; from then on the cost of the worker's part, with the attempts of the
request that nobody waits for (`Open`), stays within the sum of both budgets. The
publish, the only step that touches both, adds one event worth
`MaxCharges(MaxAttempts)` to an order that has cost `MaxRetries + 1` at most.
The refinement of OrderLifecycle needs two more: `AwaitedInv`, an order is
charged, or known to the worker, only once its status says that its payment is
awaited; and `SettledInv`, the `ResolvedInv` of PaymentRetry per order: unless the
worker dies, loses its connection or confirms late, a resolved order has no event
left. Without the latter the worker could write over a final status, and after a
redelivery or with a late confirmation it does: the event of a failed order that is handled again confirms
it, and a late confirmation can overwrite "failed".

**The argument for termination.** The liveness properties are beyond the prover,
but not the measures that make them true. A request has `StepsLeft` to go, a
number its step determines; `GoesOn` says that whatever it does lowers that
number or uses up an attempt (`tries`) of the call it is in, and that nobody
else's step, a late execution included, changes either (`NobodyGoesBack`). The
events of an order are measured by a pair. First `AttemptsLeft`, the `Chances` of
`EventInv` with those of the event in hand: publishing a successor hands them on
less one. Where no attempt is used up, `MovesLeft`: an event in the delay queue
counts three, one in the ready queue two, the one in hand according to `step`
(`HandMoves`), so that an expiry, a delivery and each branch of `handle` lower it.
`RunsOut` says that every step of the worker and every expiry lowers the pair for
some order, or uses up an attempt of the call, and that no step but a crash or
a lost connection raises it for any. Those raise it by the redelivery, and there
are at most `MaxCrashes` of them;
`AttemptsLeft` is what a forgotten `attempts + 1` would leave unchanged. In OrderFlow
an order is measured by its request first and by its events after that, because
the publish, which creates the first event, takes the request a step further. The
first two need `TypeOK` only, with its finite sets of events; the third needs
`FlowInv`, by which the worker has nothing of an order whose request is under way.

What fairness adds is that these steps are taken while they can be; that an
enabled step exists is what TLC's deadlock check and the liveness properties show.

**The argument for HttpClient.** `TrialUnderWay` is inductive with `TypeOK`: a
call that ends leaves no breaker half-open (lemma `EndedCall`), and a call that
goes on stays under way. The refinement maps the two phases "sent" and "backoff"
to one; a resend is a stutter.

**The argument for Transactions.** `ReplyInv`: an accepted payment's event has
arrived at the broker, and what has arrived stays arrived (`ArrivedStays`).
`UpsertInv`: an acknowledged event is recorded, and nothing is written for an
event that has not arrived. `HandInv`: with an open channel the worker has in
hand exactly the event it works on; with a stale one it works on an event the
broker has taken back, and cannot acknowledge it.

**The argument for RabbitMQConnection.** `OneConnect` and `NeverAbandoned` need
`FlagInv`: outside a clean-up the closing flag is set only by `close()`, and the
value a clean-up will restore is too. So a loss that finds the flag set outside a
clean-up is one that `close()` wanted, and a loss inside one is no reconnect's
business, because a connection that is being cleaned up has no handlers
(`OneConnect`'s last part). `LinkInv`: a connection is reported, and its channel
open, only while no `connect()` is under way. `AttemptInv`: the backoff is not
entered after the last attempt.

**The argument for TransactionFlow.** Each step maps to a step of either part or
to a stutter, so the theorems of the parts hold of the process. `PhaseInv` ties
the parts together: the worker's channel exists from the end of bootstrap to the
end of the process, and is open only before `close()` and only if it is the
channel of the connection that is reported.

**Only model-checked**: the liveness properties, since fairness and `ENABLED` are
beyond the prover (of those of Checkout, PaymentRetry and OrderFlow, the measures
are proved: see the argument for termination). What the five runs that expect a
violation look for is false, so it is no theorem either.

**Proved and part of no run**: `ResolvedOnce`, `GoesOn`, `RunsOut` and
`FlowRunsOut`. The runs check the properties they stand behind
(`FollowsLifecycle`, `EveryRequestAnswered`, `QueuesDrain`, `OrdersSettle`).

## 6. Not modelled, and the plan

Not modelled for good: health, metrics, logging, seeds, configuration, wiring;
customer service (reads and single inserts); stateless request filters; the rate
limiter's window (third-party; a 429 is a clean failure); prices and payloads (no
property depends on them: createOrder takes the price the product service
returns). Of the consumers: the broker's cancellation of a consumer
(`Consumer.ts:16`), which leaves it as deaf as a lost connection does, and
messages that do not parse, since only `Publisher` writes to the queues. Of
`PaymentRetryProcessor`: the rethrow of an error that is no
`UpstreamServiceError` (35-40), because `HttpClient` throws no other.

Not modelled although state changes: creation of products (no route leads to it)
and stock of any quantity but one (`ORDER_QUANTITY`); the shutdown of the other
processes (it closes the same connection class, or less; to the modules of the
order flow it is a crash).

What could come next: a window of the rate limiter that internal calls share with
each other, so that how often a release is refused could be asked; and the
services' own connections composed with Checkout as the worker's is with
Transactions, in place of the fault `broker`.
