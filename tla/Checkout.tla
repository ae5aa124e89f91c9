------------------------------ MODULE Checkout ------------------------------
(***************************************************************************)
(* POST /orders: OrderService.createOrder, executed by any number of       *)
(* concurrent requests against the product stock, the order collection,    *)
(* the payment service and the payment retry queue.                        *)
(*                                                                         *)
(* A request advances by one awaited call at a time, so one action is one  *)
(* await: pc[r] names the call request r waits for.  A stock or payment    *)
(* call goes through HttpClient.executeWithRetry, which sends it up to     *)
(* MaxRetries + 1 times; <<op, r, n>> is the n-th attempt of one call.     *)
(* An order is named by the request that inserts it (the code draws a      *)
(* fresh uuid per request).                                                *)
(*                                                                         *)
(* Faults names the calls that may be left in doubt:                       *)
(*   "reserve", "release", "pay"  an attempt that got no answer may still  *)
(*                have been, or be about to be, executed                   *)
(*   "insert"     the insert of an order is applied but reported as failed *)
(*   "database"   a status update is reported as failed (applied or not)   *)
(*   "broker"     the broker does not take the published retry event       *)
(* The other calls may always fail cleanly (5xx, 4xx, connection refused,  *)
(* open breaker, an error of the database); a status update and the        *)
(* publishing do so with their fault only.                                 *)
(***************************************************************************)
EXTENDS Integers, FiniteSets

CONSTANTS
    Requests,       \* the POST /orders requests that ever arrive
    Products,       \* product ids
    ProductOf,      \* the productId of each request
    KeyOf,          \* the Idempotency-Key header of each request ...
    NoKey,          \* ... when the header is absent
    EmptyKey,       \* ... when it is the empty string
    Initial,        \* units of each product in stock at the start
    MaxRetries,     \* HttpClientOptions.maxRetries
    MaxAttempts,    \* TOPOLOGY.paymentRetry.maxAttempts
    Faults,         \* the faults that may happen, see above
    MaxCrashes      \* bound: how often the order service may crash

Calls == {"reserve", "release", "pay"}
AllFaults == Calls \cup {"insert", "database", "broker"}
Failures == {"conflict", "upstream", "internal", "dropped"}

ASSUME CheckoutAssumption ==
    /\ IsFiniteSet(Requests)
    /\ ProductOf \in [Requests -> Products]
    /\ Initial \in [Products -> Nat]
    /\ MaxRetries \in Nat
    /\ MaxAttempts \in Nat \ {0}
    /\ MaxCrashes \in Nat
    /\ Faults \subseteq AllFaults
    /\ Requests \cap (Failures \cup {"none"}) = {}

VARIABLES
    stock,              \* product service: Product.stock
    taken,              \* ghost: the reserve attempts that took a unit
    returned,           \* ghost: the release attempts that gave one back
    orderStatus,        \* order service: Order.orderStatus, or "absent"
    paymentInitiated,   \* order service: Order.paymentInitiated
    charged,            \* payments the payment service accepted, per order
    ready,              \* payment-retry-queue: ready[o][n] events about order
                        \* o whose field "attempts" is n
    late,               \* attempts nobody waits for that may still run
    pc,                 \* the call each request waits for
    tries,              \* failed attempts of that call so far
    duplicate,          \* createOrder's isDuplicateIdempotencyKey
    reply,              \* what the request was answered: an order, a failure
    crashes             \* crashes of the order service so far

stockVars   == <<stock, taken, returned>>
orderVars   == <<orderStatus, paymentInitiated>>
paymentVars == <<charged, ready>>
callVars    == <<tries, late>>
controlVars == <<pc, reply, duplicate>>
vars == <<stockVars, orderVars, paymentVars, callVars, controlVars, crashes>>

Attempts == 0 .. MaxRetries
Statuses == {"absent", "stock_reserved", "payment_pending", "confirmed", "failed"}
Steps    == {"arrive", "validate", "reserve", "create", "release", "relookup",
             "mark", "pay", "publish", "confirm", "done"}

-----------------------------------------------------------------------------
(* What the handler reads. *)

Ordered(o) == orderStatus[o] # "absent"

\* Bug: only an absent header is no key.
HasKeyBug(r) == KeyOf[r] # NoKey

\* `if (idempotencyKey)`: neither an absent nor an empty header counts.
HasKey(r) == KeyOf[r] \notin {NoKey, EmptyKey}

OrdersUnderKey(r) == {o \in Requests : Ordered(o) /\ KeyOf[o] = KeyOf[r]}

\* Bug: the collection lacks the unique index.
IndexRejectsBug(r) == FALSE

\* The unique sparse index skips documents without the field only, so the
\* empty string is indexed like any other key.
IndexRejects(r) == KeyOf[r] # NoKey /\ OrdersUnderKey(r) # {}

InProgress == {r \in Requests : pc[r] \notin {"arrive", "done"}}

-----------------------------------------------------------------------------
(* What the handler does next. *)

Goto(r, step) == /\ pc' = [pc EXCEPT ![r] = step]
                 /\ UNCHANGED reply

Answer(r, a) == /\ pc' = [pc EXCEPT ![r] = "done"]
                /\ reply' = [reply EXCEPT ![r] = a]

\* The attempt under way ends without an answer.
Abandon(op, r) ==
    late' = IF op \in Faults THEN late \cup {<<op, r, tries[r]>>} ELSE late

\* The answer of the attempt under way: the call is over.
CallReturns(op, r) == /\ pc[r] = op
                      /\ tries' = [tries EXCEPT ![r] = 0]
                      /\ UNCHANGED late

\* The call throws: the last attempt found no answer, or an attempt was
\* refused (4xx, never retried) or not even sent (breaker open).
CallFails(op, r) == /\ pc[r] = op
                    /\ tries' = [tries EXCEPT ![r] = 0]
                    /\ \/ tries[r] = MaxRetries /\ Abandon(op, r)
                       \/ UNCHANGED late

\* Bug: the decrement of the stock does not test it in the same operation.
TakeUnitBug(r, n) == /\ stock' = [stock EXCEPT ![ProductOf[r]] = @ - 1]
                     /\ taken' = taken \cup {<<r, n>>}
                     /\ UNCHANGED returned

TakeUnit(r, n) == /\ stock[ProductOf[r]] >= 1
                  /\ stock' = [stock EXCEPT ![ProductOf[r]] = @ - 1]
                  /\ taken' = taken \cup {<<r, n>>}
                  /\ UNCHANGED returned

GiveBackUnit(r, n) == /\ stock' = [stock EXCEPT ![ProductOf[r]] = @ + 1]
                      /\ returned' = returned \cup {<<r, n>>}
                      /\ UNCHANGED taken

SetPayment(r, initiated, status) ==
    /\ paymentInitiated' = [paymentInitiated EXCEPT ![r] = initiated]
    /\ orderStatus' = [orderStatus EXCEPT ![r] = status]

-----------------------------------------------------------------------------
Init == /\ stock = Initial
        /\ taken = {} /\ returned = {}
        /\ orderStatus = [o \in Requests |-> "absent"]
        /\ paymentInitiated = [o \in Requests |-> FALSE]
        /\ charged = [o \in Requests |-> 0]
        /\ ready = [o \in Requests |-> [n \in 1 .. MaxAttempts |-> 0]]
        /\ late = {}
        /\ pc = [r \in Requests |-> "arrive"]
        /\ tries = [r \in Requests |-> 0]
        /\ duplicate = [r \in Requests |-> FALSE]
        /\ reply = [r \in Requests |-> "none"]
        /\ crashes = 0

\* findByIdempotencyKey before anything else; the database may fail.
Lookup(r) ==
    /\ pc[r] = "arrive"
    /\ \/ HasKey(r) /\ \E o \in OrdersUnderKey(r) : Answer(r, o)
       \/ ~(HasKey(r) /\ OrdersUnderKey(r) # {}) /\ Goto(r, "validate")
       \/ HasKey(r) /\ Answer(r, "internal")
    /\ UNCHANGED <<stockVars, orderVars, paymentVars, callVars, duplicate, crashes>>

\* getCustomer and getProduct change nothing; every failure is a 502.
Validate(r) ==
    /\ pc[r] = "validate"
    /\ Goto(r, "reserve") \/ Answer(r, "upstream")
    /\ UNCHANGED <<stockVars, orderVars, paymentVars, callVars, duplicate, crashes>>

\* Bug: the retries of a call are not counted.
RetryCallBug(op, r) ==
    /\ pc[r] = op
    /\ Abandon(op, r)
    /\ UNCHANGED <<stockVars, orderVars, paymentVars, tries, controlVars, crashes>>

\* An attempt of a call found no answer and is not the last one.
RetryCall(op, r) ==
    /\ pc[r] = op
    /\ tries[r] < MaxRetries
    /\ Abandon(op, r)
    /\ tries' = [tries EXCEPT ![r] = @ + 1]
    /\ UNCHANGED <<stockVars, orderVars, paymentVars, controlVars, crashes>>

\* Bug: payment is attempted before the order is persisted.
ReserveServedBug(r) ==
    /\ CallReturns("reserve", r)
    /\ TakeUnit(r, tries[r])
    /\ Goto(r, "pay")
    /\ UNCHANGED <<orderVars, paymentVars, duplicate, crashes>>

ReserveServed(r) ==
    /\ CallReturns("reserve", r)
    /\ TakeUnit(r, tries[r])
    /\ Goto(r, "create")
    /\ UNCHANGED <<orderVars, paymentVars, duplicate, crashes>>

ReserveConflict(r) ==
    /\ CallReturns("reserve", r)
    /\ stock[ProductOf[r]] = 0
    /\ Answer(r, "conflict")
    /\ UNCHANGED <<stockVars, orderVars, paymentVars, duplicate, crashes>>

ReserveFails(r) ==
    /\ CallFails("reserve", r)
    /\ Answer(r, "upstream")
    /\ UNCHANGED <<stockVars, orderVars, paymentVars, duplicate, crashes>>

InsertOrder(r) == /\ ~IndexRejects(r)
                  /\ SetPayment(r, FALSE, "stock_reserved")

Create(r) ==
    /\ pc[r] = "create"
    /\ \/ InsertOrder(r) /\ Goto(r, "mark") /\ UNCHANGED duplicate
       \/ /\ "insert" \in Faults
          /\ InsertOrder(r) /\ Goto(r, "release") /\ UNCHANGED duplicate
       \/ /\ IndexRejects(r)
          /\ duplicate' = [duplicate EXCEPT ![r] = HasKey(r)]
          /\ Goto(r, "release") /\ UNCHANGED orderVars
       \/ Goto(r, "release") /\ UNCHANGED <<orderVars, duplicate>>
    /\ UNCHANGED <<stockVars, paymentVars, callVars, crashes>>

\* compensateStockRelease swallows the failure of the release.
AfterRelease(r) == IF duplicate[r] THEN Goto(r, "relookup")
                                   ELSE Answer(r, "internal")

ReleaseServed(r) ==
    /\ CallReturns("release", r)
    /\ GiveBackUnit(r, tries[r])
    /\ AfterRelease(r)
    /\ UNCHANGED <<orderVars, paymentVars, duplicate, crashes>>

\* Bug: the failure of the compensation is not caught.
ReleaseFailsBug(r) ==
    /\ CallFails("release", r)
    /\ Answer(r, "upstream")
    /\ UNCHANGED <<stockVars, orderVars, paymentVars, duplicate, crashes>>

ReleaseFails(r) ==
    /\ CallFails("release", r)
    /\ AfterRelease(r)
    /\ UNCHANGED <<stockVars, orderVars, paymentVars, duplicate, crashes>>

\* The order that won the race on the key; the database may fail.
Relookup(r) ==
    /\ pc[r] = "relookup"
    /\ \/ \E o \in OrdersUnderKey(r) : Answer(r, o)
       \/ Answer(r, "internal")
    /\ UNCHANGED <<stockVars, orderVars, paymentVars, callVars, duplicate, crashes>>

\* Bug: the try block around the insert covers the first status update too.
MarkPendingBug(r) ==
    /\ pc[r] = "mark"
    /\ \/ SetPayment(r, FALSE, "payment_pending") /\ Goto(r, "pay")
       \/ /\ "database" \in Faults
          /\ UNCHANGED orderVars
          /\ Goto(r, "release")
    /\ UNCHANGED <<stockVars, paymentVars, callVars, duplicate, crashes>>

MarkPending(r) ==
    /\ pc[r] = "mark"
    /\ \/ SetPayment(r, FALSE, "payment_pending") /\ Goto(r, "pay")
       \/ /\ "database" \in Faults
          /\ SetPayment(r, FALSE, "payment_pending") \/ UNCHANGED orderVars
          /\ Answer(r, "internal")
    /\ UNCHANGED <<stockVars, paymentVars, callVars, duplicate, crashes>>

PaymentAccepted(r) ==
    /\ CallReturns("pay", r)
    /\ charged' = [charged EXCEPT ![r] = @ + 1]
    /\ Goto(r, "confirm")
    /\ UNCHANGED <<stockVars, orderVars, ready, duplicate, crashes>>

\* Bug: tryInitiatePayment returns true after a failure.
PaymentFailsBug(r) ==
    /\ CallFails("pay", r)
    /\ Goto(r, "confirm")
    /\ UNCHANGED <<stockVars, orderVars, paymentVars, duplicate, crashes>>

\* Bug: a failed payment is only logged.
PaymentFailsQuietly(r) ==
    /\ CallFails("pay", r)
    /\ Answer(r, r)
    /\ UNCHANGED <<stockVars, orderVars, paymentVars, duplicate, crashes>>

PaymentFails(r) ==
    /\ CallFails("pay", r)
    /\ Goto(r, "publish")
    /\ UNCHANGED <<stockVars, orderVars, paymentVars, duplicate, crashes>>

\* Bug: the outcome of the publish is taken for that of the payment.
PublishRetryBug(r) ==
    /\ pc[r] = "publish"
    /\ \/ ready' = [ready EXCEPT ![r][1] = @ + 1]
       \/ "broker" \in Faults /\ UNCHANGED ready
    /\ Goto(r, "confirm")
    /\ UNCHANGED <<stockVars, orderVars, charged, callVars, duplicate, crashes>>

\* The failure of a publish is logged and swallowed.
PublishRetry(r) ==
    /\ pc[r] = "publish"
    /\ \/ ready' = [ready EXCEPT ![r][1] = @ + 1]
       \/ "broker" \in Faults /\ UNCHANGED ready
    /\ Answer(r, r)
    /\ UNCHANGED <<stockVars, orderVars, charged, callVars, duplicate, crashes>>

\* Bug: a failed confirmation is handled by paying again.
ConfirmBug(r) ==
    /\ pc[r] = "confirm"
    /\ \/ SetPayment(r, TRUE, "confirmed") /\ Answer(r, r)
       \/ "database" \in Faults /\ Goto(r, "pay") /\ UNCHANGED orderVars
    /\ UNCHANGED <<stockVars, paymentVars, callVars, duplicate, crashes>>

Confirm(r) ==
    /\ pc[r] = "confirm"
    /\ \/ SetPayment(r, TRUE, "confirmed") /\ Answer(r, r)
       \/ /\ "database" \in Faults
          /\ SetPayment(r, TRUE, "confirmed") \/ UNCHANGED orderVars
          /\ Answer(r, "internal")
    /\ UNCHANGED <<stockVars, paymentVars, callVars, duplicate, crashes>>

Handler(r) ==
    \/ Lookup(r) \/ Validate(r)
    \/ \E op \in Calls : RetryCall(op, r)
    \/ ReserveServed(r) \/ ReserveConflict(r) \/ ReserveFails(r)
    \/ Create(r) \/ ReleaseServed(r) \/ ReleaseFails(r) \/ Relookup(r)
    \/ MarkPending(r) \/ PaymentAccepted(r) \/ PaymentFails(r)
    \/ PublishRetry(r) \/ Confirm(r)

-----------------------------------------------------------------------------
(* An attempt nobody waits for any more is executed after all. *)

Unlate(op, r, n) == /\ <<op, r, n>> \in late
                    /\ late' = late \ {<<op, r, n>>}

LateReserve(r, n) ==
    /\ Unlate("reserve", r, n)
    /\ TakeUnit(r, n)
    /\ UNCHANGED <<orderVars, paymentVars, controlVars, tries, crashes>>

LateRelease(r, n) ==
    /\ Unlate("release", r, n)
    /\ GiveBackUnit(r, n)
    /\ UNCHANGED <<orderVars, paymentVars, controlVars, tries, crashes>>

LatePayment(r, n) ==
    /\ Unlate("pay", r, n)
    /\ charged' = [charged EXCEPT ![r] = @ + 1]
    /\ UNCHANGED <<stockVars, orderVars, ready, controlVars, tries, crashes>>

Late(r) == \E n \in Attempts :
               LateReserve(r, n) \/ LateRelease(r, n) \/ LatePayment(r, n)

\* The process dies (or gracefulShutdown's force exit cuts it off) with every
\* request in progress; the calls already sent may still be executed.
Crash ==
    /\ crashes < MaxCrashes /\ InProgress # {}
    /\ crashes' = crashes + 1
    /\ pc' = [r \in Requests |-> IF r \in InProgress THEN "done" ELSE pc[r]]
    /\ reply' = [r \in Requests |-> IF r \in InProgress THEN "dropped" ELSE reply[r]]
    /\ late' = late \cup {<<pc[r], r, tries[r]>> : r \in {q \in InProgress : pc[q] \in Calls}}
    /\ UNCHANGED <<stockVars, orderVars, paymentVars, tries, duplicate>>

Finished == /\ \A r \in Requests : pc[r] = "done"
            /\ UNCHANGED vars

Next == \/ \E r \in Requests : Handler(r) \/ Late(r)
        \/ Crash
        \/ Finished

Spec == Init /\ [][Next]_vars

\* Every await of a request the service has begun to handle ends: HTTP calls
\* by their timeout, database and broker calls by their drivers.  Clients,
\* faults, late attempts and crashes are never obliged to happen.
Fairness == \A r \in Requests : WF_vars(pc[r] # "arrive" /\ Handler(r))

FairSpec == Spec /\ Fairness

-----------------------------------------------------------------------------
(* Properties. *)

TypeOK ==
    /\ stock \in [Products -> Nat]
    /\ taken \subseteq Requests \X Attempts
    /\ returned \subseteq Requests \X Attempts
    /\ orderStatus \in [Requests -> Statuses]
    /\ paymentInitiated \in [Requests -> BOOLEAN]
    /\ charged \in [Requests -> Nat]
    /\ ready \in [Requests -> [1 .. MaxAttempts -> Nat]]
    /\ late \subseteq Calls \X Requests \X Attempts
    /\ pc \in [Requests -> Steps]
    /\ tries \in [Requests -> Attempts]
    /\ duplicate \in [Requests -> BOOLEAN]
    /\ reply \in [Requests -> Requests \cup Failures \cup {"none"}]
    /\ crashes \in 0 .. MaxCrashes

\* No two orders carry the same Idempotency-Key, and two requests with the
\* same key that are both answered with an order are answered with the same
\* one, whichever way createOrder found it: its own insert, the lookup at the
\* start, or the lookup after a lost race on the unique index.
SameKeySameOrder ==
    \A r, s \in Requests :
        HasKey(r) /\ KeyOf[r] = KeyOf[s] =>
            /\ Ordered(r) /\ Ordered(s) => r = s
            /\ reply[r] \in Requests /\ reply[s] \in Requests => reply[r] = reply[s]

\* "The order is persisted before payment is attempted": nothing is ever
\* charged for an order that does not exist, not even by a payment attempt
\* that is executed after its caller gave up or died.
PaidHasOrder ==
    \A o \in Requests :
        charged[o] > 0 \/ (\E n \in Attempts : <<"pay", o, n>> \in late) => Ordered(o)

\* createOrder confirms an order only once a payment for it was accepted, and
\* the two fields of the order that say so never disagree.
ConfirmedIsPaid ==
    \A o \in Requests :
        /\ orderStatus[o] = "confirmed" => charged[o] > 0
        /\ orderStatus[o] = "confirmed" <=> paymentInitiated[o]

\* Every order in the collection holds a unit of its product that was
\* reserved for it and has not been given back by a compensation.
OrderBacked ==
    \A o \in Requests : Ordered(o) =>
        /\ \E n \in Attempts : <<o, n>> \in taken
        /\ \A n \in Attempts : <<o, n>> \notin returned

\* "Avoid overselling product stock": there are never more orders for a
\* product than there were units of it.
NoOversell ==
    \A p \in Products :
        Cardinality({o \in Requests : Ordered(o) /\ ProductOf[o] = p}) <= Initial[p]

\* A request answered with 409 or 502 left nothing behind: no order and no
\* unit of stock that nobody will give back.
RejectedHoldsNothing ==
    \A r \in Requests : reply[r] \in {"conflict", "upstream"} =>
        /\ ~Ordered(r)
        /\ \A n \in Attempts : <<r, n>> \notin taken

\* One request charges the customer at most once per attempt of its one
\* payment call, what may still be charged included; while the call is under
\* way only the attempts that found no answer count.
AttemptsBoundCharges ==
    \A o \in Requests :
        charged[o] + Cardinality({n \in Attempts : <<"pay", o, n>> \in late})
            <= CASE pc[o] = "mark" -> 0
                 [] pc[o] = "pay"  -> tries[o]
                 [] OTHER          -> MaxRetries + 1

\* How many steps a request that is answered late has before it.
StepsLeft(step) ==
    CASE step = "arrive"   -> 7
      [] step = "validate" -> 6
      [] step = "reserve"  -> 5
      [] step = "create"   -> 4
      [] step \in {"mark", "release"} -> 3
      [] step \in {"pay", "relookup"} -> 2
      [] step \in {"publish", "confirm"} -> 1
      [] OTHER -> 0

Advances(r) == \/ StepsLeft(pc'[r]) < StepsLeft(pc[r])
               \/ pc'[r] = pc[r] /\ tries'[r] > tries[r]

Rests(r) == pc'[r] = pc[r] /\ tries'[r] = tries[r]

\* createOrder never goes back: what a request does brings it nearer to its
\* answer or uses up an attempt of the call under way, and nothing anybody else
\* does takes it away from its answer.
Onward ==
    \A r \in Requests :
        /\ Handler(r) => Advances(r)
        /\ Advances(r) \/ Rests(r)

GoesOn == [][Onward]_vars

\* Every request the service has begun to handle is answered (or cut off by a
\* crash), however often its calls have to be retried.
EveryRequestAnswered ==
    \A r \in Requests : pc[r] # "arrive" ~> reply[r] # "none"

\* What createOrder promises its clients, see module Placement.
Promise == INSTANCE Placement WITH
    sold   <- {o \in Requests : Ordered(o)},
    answer <- reply,
    Identifies <- {k \in {KeyOf[r] : r \in Requests} : k \notin {NoKey, EmptyKey}}

\* Checkout implements Placement.
PlacesOrders == Promise!Spec

=============================================================================
