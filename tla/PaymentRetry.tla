---------------------------- MODULE PaymentRetry ----------------------------
(***************************************************************************)
(* The payment retry worker: it takes the events createOrder publishes     *)
(* when a payment fails, tries the payment again and resolves the order    *)
(* through PATCH /orders/:orderId/payment-status.                          *)
(*                                                                         *)
(* One worker consumes with prefetch 1, so it handles one message at a     *)
(* time; step names the call or channel operation it is about to do.  Its  *)
(* HTTP calls are retried like those of Checkout.  An event is <<o, n>>:   *)
(* order o, field "attempts" n.  Queues are bags: a redelivered or delayed *)
(* event may overtake others.                                              *)
(*                                                                         *)
(* Faults: "pay", "confirm", "fail": an attempt of that call without an    *)
(* answer may still have been, or be about to be, executed; "broker": the  *)
(* broker does not confirm an event sent to the delay queue.  Clean        *)
(* failures of a call are always possible; the HTTP clients report every   *)
(* failure as an UpstreamServiceError, so handle never rethrows another.   *)
(*                                                                         *)
(* As in Transactions, Publisher and Consumer keep the channel the process *)
(* opened when it started, also when the connection is lost and replaced.  *)
(* Every event parses, and the broker does not cancel the consumer.        *)
(***************************************************************************)
EXTENDS Integers, FiniteSets

CONSTANTS
    Orders,         \* the orders the worker gets events about
    Nobody,         \* not an order
    MaxRetries,     \* HttpClientOptions.maxRetries
    MaxAttempts,    \* TOPOLOGY.paymentRetry.maxAttempts
    Faults,         \* the faults that may happen, see above
    MaxCrashes      \* bound: how often the worker may crash or lose its connection

Calls == {"pay", "confirm", "fail"}

ASSUME PaymentRetryAssumption ==
    /\ Nobody \notin Orders
    /\ MaxRetries \in Nat
    /\ MaxAttempts \in Nat \ {0}
    /\ MaxCrashes \in Nat
    /\ Faults \subseteq Calls \cup {"broker"}

VARIABLES
    orderStatus,        \* order service: Order.orderStatus
    paymentInitiated,   \* order service: Order.paymentInitiated
    charged,            \* payments the payment service accepted, per order
    ready,              \* payment-retry-queue: ready[o][n] events <<o, n>>
    delayed,            \* payment-retry-delay-queue, likewise
    deadLetters,        \* payment-retry-dlq, likewise
    discarded,          \* ghost: the events the broker threw away
    working,            \* the order of the unacknowledged event, or Nobody
    attempt,            \* ... and its field "attempts"
    step,               \* what the worker does next
    tries,              \* failed attempts of the call under way so far
    late,               \* late[op][o] attempts nobody waits for any more
    channel,            \* "open", "stale", or "down" with the worker process
    crashes             \* crashes and lost connections of the worker so far

orderVars  == <<orderStatus, paymentInitiated>>
queueVars  == <<ready, delayed, deadLetters, discarded>>
workVars   == <<working, attempt>>
callVars   == <<tries, late>>
workerVars == <<delayed, deadLetters, discarded, workVars, step, callVars, channel, crashes>>
vars == <<orderVars, charged, ready, workerVars>>

AttemptNumbers == 1 .. MaxAttempts
Bag == [Orders -> [AttemptNumbers -> Nat]]
Statuses == {"absent", "stock_reserved", "payment_pending", "confirmed", "failed"}
Steps == {"idle", "ack", "nack", "reschedule"} \cup Calls

Empty == [o \in Orders |-> [n \in AttemptNumbers |-> 0]]
Put(bag, o, n)  == [bag EXCEPT ![o][n] = @ + 1]
Drop(bag, o, n) == [bag EXCEPT ![o][n] = @ - 1]

\* assertPaymentRetryTopology declares payment-retry-queue without a
\* deadLetterExchange, although it declares payment-retry-dlq.
DeadLettersRejected == FALSE

-----------------------------------------------------------------------------
\* The worker's own state at the start.
WorkerInit ==
    /\ delayed = Empty /\ deadLetters = Empty /\ discarded = Empty
    /\ working = Nobody /\ attempt = 1
    /\ step = "idle" /\ tries = 0
    /\ late = [op \in Calls |-> [o \in Orders |-> 0]]
    /\ channel = "open" /\ crashes = 0

\* What createOrder leaves behind when the payment of an order failed.
Init == /\ orderStatus = [o \in Orders |-> "payment_pending"]
        /\ paymentInitiated = [o \in Orders |-> FALSE]
        /\ charged = [o \in Orders |-> 0]
        /\ ready = [o \in Orders |-> [n \in AttemptNumbers |-> IF n = 1 THEN 1 ELSE 0]]
        /\ WorkerInit

\* updatePaymentStatus: an unconditional $set on the order.
SetPayment(o, initiated, status) ==
    /\ paymentInitiated' = [paymentInitiated EXCEPT ![o] = initiated]
    /\ orderStatus' = [orderStatus EXCEPT ![o] = status]

MoreLate(op, o) == [late EXCEPT ![op][o] = @ + 1]
LessLate(op, o) == [late EXCEPT ![op][o] = @ - 1]

Abandon(op) == late' = IF op \in Faults THEN MoreLate(op, working) ELSE late

CallReturns(op, then) == /\ step = op /\ step' = then
                         /\ tries' = 0 /\ UNCHANGED late

\* No answer to the last attempt, or an attempt refused or not even sent.
CallFails(op, then) == /\ step = op /\ step' = then
                       /\ tries' = 0
                       /\ \/ tries = MaxRetries /\ Abandon(op)
                          \/ UNCHANGED late

\* Bug: off by one, an attempt less.
AfterFailureBug == IF attempt + 1 < MaxAttempts THEN "reschedule" ELSE "fail"

\* The catch block around payment and confirmation.
AfterFailure == IF attempt < MaxAttempts THEN "reschedule" ELSE "fail"

Receive(o, n) ==
    /\ channel = "open" /\ step = "idle" /\ ready[o][n] > 0
    /\ ready' = Drop(ready, o, n)
    /\ working' = o /\ attempt' = n
    /\ step' = "pay"
    /\ UNCHANGED <<orderVars, charged, delayed, deadLetters, discarded,
                   callVars, channel, crashes>>

RetryCall(op) ==
    /\ step = op /\ tries < MaxRetries
    /\ Abandon(op)
    /\ tries' = tries + 1
    /\ UNCHANGED <<orderVars, charged, queueVars, workVars, step, channel, crashes>>

PaymentAccepted ==
    /\ CallReturns("pay", "confirm")
    /\ charged' = [charged EXCEPT ![working] = @ + 1]
    /\ UNCHANGED <<orderVars, queueVars, workVars, channel, crashes>>

\* Bug: the failure of the payment is caught too early.
PaymentFailsBug ==
    /\ CallFails("pay", "confirm")
    /\ UNCHANGED <<orderVars, charged, queueVars, workVars, channel, crashes>>

PaymentFails ==
    /\ CallFails("pay", AfterFailure)
    /\ UNCHANGED <<orderVars, charged, queueVars, workVars, channel, crashes>>

ConfirmServed ==
    /\ CallReturns("confirm", "ack")
    /\ SetPayment(working, TRUE, "confirmed")
    /\ UNCHANGED <<charged, queueVars, workVars, channel, crashes>>

\* The same catch block: the next attempt pays again.
ConfirmFails ==
    /\ CallFails("confirm", AfterFailure)
    /\ UNCHANGED <<orderVars, charged, queueVars, workVars, channel, crashes>>

\* Bug: the field "attempts" of the next event is not incremented.
RescheduleBug ==
    /\ step = "reschedule"
    /\ \/ channel = "open" /\ step' = "ack" /\ delayed' = Put(delayed, working, attempt)
       \/ channel = "stale" /\ step' = "nack" /\ UNCHANGED delayed
    /\ UNCHANGED <<orderVars, charged, ready, deadLetters, discarded, workVars,
                   callVars, channel, crashes>>

\* sendToQueue is confirmed, or rejects, or throws on a stale channel; then the
\* error escapes handle.
Reschedule ==
    /\ step = "reschedule"
    /\ \/ /\ channel = "open" /\ step' = "ack"
          /\ delayed' = Put(delayed, working, attempt + 1)
       \/ /\ channel = "open" /\ "broker" \in Faults /\ step' = "nack"
          /\ delayed' = Put(delayed, working, attempt + 1) \/ UNCHANGED delayed
       \/ channel = "stale" /\ step' = "nack" /\ UNCHANGED delayed
    /\ UNCHANGED <<orderVars, charged, ready, deadLetters, discarded, workVars,
                   callVars, channel, crashes>>

MarkFailedServed ==
    /\ CallReturns("fail", "nack")
    /\ SetPayment(working, FALSE, "failed")
    /\ UNCHANGED <<charged, queueVars, workVars, channel, crashes>>

\* The failure is logged and swallowed.
MarkFailedFails ==
    /\ CallFails("fail", "nack")
    /\ UNCHANGED <<orderVars, charged, queueVars, workVars, channel, crashes>>

\* Bug: the worker is not ready for another message.
FinishBug == /\ working' = Nobody /\ UNCHANGED step
             /\ UNCHANGED <<orderVars, charged, ready, delayed, attempt, callVars, channel, crashes>>

Finish == /\ working' = Nobody /\ step' = "idle"
          /\ UNCHANGED <<orderVars, charged, ready, delayed, attempt, callVars, channel, crashes>>

\* Bug: a handled message is not acknowledged, so it is delivered again.
AckBug == /\ step = "ack" /\ channel = "open"
          /\ working' = Nobody /\ step' = "idle" /\ ready' = Put(ready, working, attempt)
          /\ UNCHANGED <<orderVars, charged, delayed, deadLetters, discarded, attempt,
                         callVars, channel, crashes>>

Ack == /\ step = "ack" /\ channel = "open"
       /\ Finish
       /\ UNCHANGED <<deadLetters, discarded>>

\* Bug: nack(msg, false, true), the rejected message is requeued.
NackBug == /\ step = "nack" /\ channel = "open"
           /\ working' = Nobody /\ step' = "idle" /\ ready' = Put(ready, working, attempt)
           /\ UNCHANGED <<orderVars, charged, delayed, deadLetters, discarded, attempt,
                          callVars, channel, crashes>>

\* nack(msg, false, false): the queue's dead-letter exchange, or nothing.
Nack == /\ step = "nack" /\ channel = "open"
        /\ Finish
        /\ deadLetters' = IF DeadLettersRejected THEN Put(deadLetters, working, attempt)
                                                 ELSE deadLetters
        /\ discarded' = IF DeadLettersRejected THEN discarded
                                               ELSE Put(discarded, working, attempt)

\* ack and nack throw on a stale channel: an unhandled rejection, which ends the
\* process.  The broker has the event already.
AnswerThrows ==
    /\ step \in {"ack", "nack"} /\ channel = "stale"
    /\ channel' = "down" /\ working' = Nobody /\ step' = "idle"
    /\ UNCHANGED <<orderVars, charged, queueVars, attempt, callVars, crashes>>

Worker == \/ \E o \in Orders, n \in AttemptNumbers : Receive(o, n)
          \/ \E op \in Calls : RetryCall(op)
          \/ PaymentAccepted \/ PaymentFails \/ ConfirmServed \/ ConfirmFails
          \/ Reschedule \/ MarkFailedServed \/ MarkFailedFails \/ Ack \/ Nack \/ AnswerThrows

-----------------------------------------------------------------------------
\* The delay queue's TTL returns an event to the retry queue.
Expire(o, n) ==
    /\ delayed[o][n] > 0
    /\ delayed' = Drop(delayed, o, n)
    /\ ready' = Put(ready, o, n)
    /\ UNCHANGED <<orderVars, charged, deadLetters, discarded, workVars, step,
                   callVars, channel, crashes>>

\* An attempt nobody waits for any more is executed after all.
Late(op, o) ==
    /\ late[op][o] > 0
    /\ late' = LessLate(op, o)
    /\ \/ /\ op = "pay"
          /\ charged' = [charged EXCEPT ![o] = @ + 1] /\ UNCHANGED orderVars
       \/ op = "confirm" /\ SetPayment(o, TRUE, "confirmed") /\ UNCHANGED charged
       \/ op = "fail" /\ SetPayment(o, FALSE, "failed") /\ UNCHANGED charged
    /\ UNCHANGED <<queueVars, workVars, step, tries, channel, crashes>>

\* The broker has an unacknowledged event again, when the channel closes.
Requeued == IF step = "idle" \/ channel # "open" THEN ready ELSE Put(ready, working, attempt)

\* The process dies in the middle of an event, and a call already sent may still
\* be executed.
Crash ==
    /\ step # "idle" /\ crashes < MaxCrashes
    /\ crashes' = crashes + 1 /\ channel' = "down"
    /\ ready' = Requeued
    /\ late' = IF step \in Calls THEN MoreLate(step, working) ELSE late
    /\ working' = Nobody /\ step' = "idle" /\ tries' = 0
    /\ UNCHANGED <<orderVars, charged, delayed, deadLetters, discarded, attempt>>

\* The connection is lost and will be replaced, the channel is not.  The worker
\* goes on with an event that is in the queue again; idle, it never hears of
\* another one.
LosesConnection ==
    /\ channel = "open" /\ crashes < MaxCrashes
    /\ crashes' = crashes + 1 /\ channel' = "stale"
    /\ ready' = Requeued
    /\ UNCHANGED <<orderVars, charged, delayed, deadLetters, discarded, workVars,
                   step, callVars>>

Interrupted == Crash \/ LosesConnection

\* Nothing restarts the container by itself: this is its operator, who may also
\* replace a process that is up but deaf.
Restart == /\ channel # "open" /\ step = "idle" /\ channel' = "open"
           /\ UNCHANGED <<orderVars, charged, queueVars, workVars, step, callVars, crashes>>

Drained == channel = "open" /\ step = "idle" /\ ready = Empty /\ delayed = Empty

Finished == Drained /\ UNCHANGED vars

Next == \/ Worker \/ Interrupted \/ Restart \/ Finished
        \/ \E o \in Orders, n \in AttemptNumbers : Expire(o, n)
        \/ \E op \in Calls, o \in Orders : Late(op, o)

Spec == Init /\ [][Next]_vars

\* The worker's calls end by their timeouts, the broker delivers what is
\* queued to an open channel and expires what is delayed, and a dead worker is
\* started again.  Nobody needs to notice a deaf one.
Fairness == /\ WF_vars(Worker) /\ WF_vars(channel = "down" /\ Restart)
            /\ \A o \in Orders, n \in AttemptNumbers : WF_vars(Expire(o, n))

FairSpec == Spec /\ Fairness

-----------------------------------------------------------------------------
(* Properties. *)

TypeOK ==
    /\ orderStatus \in [Orders -> Statuses]
    /\ paymentInitiated \in [Orders -> BOOLEAN]
    /\ charged \in [Orders -> Nat]
    /\ ready \in Bag /\ delayed \in Bag
    /\ deadLetters \in Bag /\ discarded \in Bag
    /\ working \in Orders \cup {Nobody}
    /\ attempt \in AttemptNumbers
    /\ step \in Steps
    /\ step = "idle" <=> working = Nobody
    /\ step = "reschedule" => attempt < MaxAttempts
    /\ tries \in 0 .. MaxRetries
    /\ late \in [Calls -> [Orders -> Nat]]
    /\ channel \in {"open", "stale", "down"}
    /\ channel = "down" => step = "idle"
    /\ crashes \in 0 .. MaxCrashes

\* Where an event about order o can be.
Queued(bag, o)   == \E n \in AttemptNumbers : bag[o][n] > 0
InTheSystem(o) == Queued(ready, o) \/ Queued(delayed, o) \/ working = o

\* An order is shown as confirmed only if it was paid for, however late the
\* PATCH that says so arrives and however often the worker dies.
ConfirmedIsPaid ==
    \A o \in Orders : orderStatus[o] = "confirmed" => charged[o] > 0

\* As long as the broker confirms what it is sent, no order is forgotten: an
\* unresolved one still has an event to resolve it, or its last attempt was
\* used up and the order could not be marked failed.
NoOrderForgotten ==
    \A o \in Orders : orderStatus[o] = "payment_pending" =>
        InTheSystem(o) \/ discarded[o][MaxAttempts] + deadLetters[o][MaxAttempts] > 0

\* The events of an order in a queue, and the attempts at its payment that each
\* of them still allows: its own and those of the events that follow it.
Copies(bag, o)  == UNION {{n} \X (1 .. bag[o][n]) : n \in AttemptNumbers}
Chances(bag, o) == UNION {({n} \X (1 .. bag[o][n])) \X (n .. MaxAttempts) : n \in AttemptNumbers}

CopiesLeft(o)  == Cardinality(Copies(ready, o)) + Cardinality(Copies(delayed, o))
ChancesLeft(o) == Cardinality(Chances(ready, o)) + Cardinality(Chances(delayed, o))

\* The worker has an event of the order in hand, and neither published its
\* successor nor given it up.
Handling(o) == working = o /\ step \notin {"ack", "nack"}

\* An order has one event that is still to be handled, and at most one more for
\* every time the worker died or lost its connection: no retry of its payment is
\* ever on its way beside another otherwise.  The delay queue, its TTL, prefetch
\* 1 and the order of publish and ack see to it.
EventsBounded ==
    \A o \in Orders :
        CopiesLeft(o) + (IF Handling(o) THEN 1 ELSE 0) <= 1 + crashes

\* Payments that were or may still be accepted, and how many n events may cost.
Spent(o) == charged[o] + late["pay"][o]
MaxCharges(n) == (MaxRetries + 1) * n

\* What the events of an order may cost it, each crash and lost connection counted as
\* an event that starts anew.
Allowance == MaxCharges(MaxAttempts) * (1 + crashes)

\* "Retries are bounded": what an order was charged, and may be charged by calls
\* nobody waits for and by the events it still has, is at most maxAttempts times
\* the attempts of an HTTP call, and as much again for every crash
\* or lost connection.
ChargesBounded ==
    \A o \in Orders : Spent(o) + MaxCharges(ChancesLeft(o)) <= Allowance

\* The attempts at the payment of an order that its events still allow, that of
\* the event in hand included.
HandAttempts(o) ==
    IF ~Handling(o) THEN 0 ELSE MaxAttempts - attempt + (IF step = "pay" THEN 1 ELSE 0)

AttemptsLeft(o) == ChancesLeft(o) + HandAttempts(o)

\* How far its events are from their next attempt, or from their end.
HandMoves(o) ==
    IF working # o THEN 0
    ELSE CASE step = "confirm" -> 6 [] step = "reschedule" -> 5 [] step = "fail" -> 2 [] OTHER -> 1

MovesLeft(o) ==
    3 * Cardinality(Copies(delayed, o)) + 2 * Cardinality(Copies(ready, o)) + HandMoves(o)

Nearer(o) == \/ AttemptsLeft(o)' < AttemptsLeft(o)
             \/ AttemptsLeft(o)' = AttemptsLeft(o) /\ MovesLeft(o)' < MovesLeft(o)

Unmoved(o) == AttemptsLeft(o)' = AttemptsLeft(o) /\ MovesLeft(o)' = MovesLeft(o)

\* Retries run out: what the worker and the delay queue do brings the events of
\* an order nearer to their end or uses up an attempt of the call under way, and
\* nothing but a crash or a lost connection ever takes an order's events back.
UsesUp ==
    /\ Worker \/ (\E o \in Orders, n \in AttemptNumbers : Expire(o, n)) =>
           (\E o \in Orders : Nearer(o)) \/ tries' > tries
    /\ ~Interrupted => \A o \in Orders : Nearer(o) \/ Unmoved(o)

RunsOut == [][UsesUp]_vars

\* Once an order is resolved, for good or bad, its status does not change.
ResolvedOnce ==
    [][\A o \in Orders : orderStatus[o] \in {"confirmed", "failed"} =>
           orderStatus'[o] = orderStatus[o]]_vars

\* "Failed messages are moved to a dead-letter queue for inspection": when the
\* worker is done with an order it marked failed, the event is there.
FailedIsDeadLettered ==
    \A o \in Orders : orderStatus[o] = "failed" /\ ~InTheSystem(o) =>
        Queued(deadLetters, o)

\* Retries end: unless the worker is left deaf, every event leaves the queues for
\* good, however often it is delivered again.
QueuesDrain ==
    <>[](channel = "open") => <>[](ready = Empty /\ delayed = Empty /\ working = Nobody)

-----------------------------------------------------------------------------
(* The inductive invariants behind the safety properties. *)

\* Whoever says or will say that an order is confirmed has seen it paid.
PaidInv ==
    /\ ConfirmedIsPaid
    /\ \A o \in Orders :
           (step = "confirm" /\ working = o) \/ late["confirm"][o] > 0 => charged[o] > 0

\* An event is given up at the last attempt only, and acknowledged when its
\* order is resolved or has another event; what a deaf worker still has in hand
\* is in the queue as well.
KeptInv ==
    /\ NoOrderForgotten
    /\ step \in {"fail", "nack"} /\ channel = "open" => attempt = MaxAttempts
    /\ \A o \in Orders : channel = "stale" /\ working = o => Queued(ready, o)
    /\ \A o \in Orders : step = "ack" /\ working = o =>
           orderStatus[o] # "payment_pending" \/ Queued(ready, o) \/ Queued(delayed, o)

\* What the event in hand may still cost its order.
MayStillCost(o) ==
    IF ~Handling(o) THEN 0
    ELSE IF step = "pay" THEN MaxCharges(MaxAttempts - attempt + 1) - tries
    ELSE MaxCharges(MaxAttempts - attempt)

\* The events of an order, the one in hand included, and what they may cost.
EventInv ==
    /\ EventsBounded
    /\ \A o \in Orders : Spent(o) + MaxCharges(ChancesLeft(o)) + MayStillCost(o) <= Allowance

\* No order is confirmed late, and the worker stays up and connected.
Orderly == "confirm" \notin Faults /\ MaxCrashes = 0

\* A resolved order has no event left that could resolve it again, and what is
\* marked failed late is not resolved otherwise.
ResolvedInv ==
    \A o \in Orders :
        /\ late["confirm"][o] = 0
        /\ late["fail"][o] > 0 =>
               /\ orderStatus[o] # "confirmed"
               /\ ~Queued(ready, o) /\ ~Queued(delayed, o)
               /\ working = o => step \in {"fail", "nack"}
        /\ orderStatus[o] \in {"confirmed", "failed"} =>
               /\ ~Queued(ready, o) /\ ~Queued(delayed, o)
               /\ working = o => step \in {"fail", "ack", "nack"}
        /\ orderStatus[o] = "confirmed" /\ working = o => step = "ack"

RetryInv ==
    /\ TypeOK /\ PaidInv /\ EventInv
    /\ "broker" \notin Faults => KeptInv
    /\ Orderly => ResolvedInv

=============================================================================
