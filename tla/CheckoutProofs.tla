--------------------------- MODULE CheckoutProofs ---------------------------
(* Theorems of Checkout: see CheckoutInv for the inductive invariant. *)
EXTENDS CheckoutInv, FiniteSetTheorems, TLAPS

LEMMA Bounds == MaxRetries \in Nat /\ MaxCrashes \in Nat /\ MaxAttempts \in Nat \ {0}
  BY CheckoutAssumption

LEMMA Catalogue == Initial \in [Products -> Nat] /\ ProductOf \in [Requests -> Products]
  BY CheckoutAssumption

(***************************************************************************)
(* Types.                                                                  *)
(***************************************************************************)

\* What the enumerated sets contain, so that proofs need not expand them.
LEMMA Names ==
    /\ {"arrive", "validate", "reserve", "create", "release", "relookup"} \subseteq Steps
    /\ {"mark", "pay", "publish", "confirm", "done"} \subseteq Steps
    /\ {"absent", "stock_reserved", "payment_pending", "confirmed"} \subseteq Statuses
    /\ {"conflict", "upstream", "internal", "dropped"} \subseteq Failures
    /\ {"reserve", "release", "pay"} \subseteq Calls
    /\ 0 \in Attempts
  BY Bounds DEF Steps, Statuses, Failures, Calls, Attempts

LEMMA CountOneMore ==
  ASSUME NEW S, NEW count \in [S -> Nat], NEW s \in S
  PROVE  [count EXCEPT ![s] = @ + 1] \in [S -> Nat]
  OBVIOUS

LEMMA TypeInit == Init => TypeOK
  BY Names, Bounds, Catalogue DEF Init, TypeOK

\* What the parts of an action do to the types of the variables they change.

LEMMA GotoType ==
  ASSUME TypeOK, NEW r \in Requests, NEW step \in Steps, Goto(r, step)
  PROVE  /\ pc' \in [Requests -> Steps]
         /\ reply' \in [Requests -> Requests \cup Failures \cup {"none"}]
  BY DEF TypeOK, Goto

LEMMA AnswerType ==
  ASSUME TypeOK, NEW r \in Requests, NEW a \in Requests \cup Failures, Answer(r, a)
  PROVE  /\ pc' \in [Requests -> Steps]
         /\ reply' \in [Requests -> Requests \cup Failures \cup {"none"}]
  BY Names DEF TypeOK, Answer

LEMMA TakeUnitType ==
  ASSUME TypeOK, NEW r \in Requests, NEW n \in Attempts, TakeUnit(r, n)
  PROVE  /\ stock' \in [Products -> Nat]
         /\ taken' \subseteq Requests \X Attempts
         /\ returned' \subseteq Requests \X Attempts
<1>1. ProductOf[r] \in Products /\ stock[ProductOf[r]] \in Nat
  BY Catalogue DEF TypeOK
<1>2. stock[ProductOf[r]] - 1 \in Nat
  BY <1>1 DEF TakeUnit
<1> QED
  BY <1>1, <1>2 DEF TypeOK, TakeUnit

LEMMA GiveBackUnitType ==
  ASSUME TypeOK, NEW r \in Requests, NEW n \in Attempts, GiveBackUnit(r, n)
  PROVE  /\ stock' \in [Products -> Nat]
         /\ taken' \subseteq Requests \X Attempts
         /\ returned' \subseteq Requests \X Attempts
<1>1. ProductOf[r] \in Products /\ stock[ProductOf[r]] \in Nat
  BY Catalogue DEF TypeOK
<1> QED
  BY <1>1 DEF TypeOK, GiveBackUnit

LEMMA SetPaymentType ==
  ASSUME TypeOK, NEW r \in Requests, NEW initiated \in BOOLEAN, NEW status \in Statuses,
         SetPayment(r, initiated, status)
  PROVE  /\ orderStatus' \in [Requests -> Statuses]
         /\ paymentInitiated' \in [Requests -> BOOLEAN]
  BY DEF TypeOK, SetPayment

LEMMA AbandonType ==
  ASSUME TypeOK, NEW op \in Calls, NEW r \in Requests, Abandon(op, r)
  PROVE  late' \subseteq Calls \X Requests \X Attempts
  BY DEF TypeOK, Abandon

LEMMA CallReturnsType ==
  ASSUME TypeOK, NEW op \in Calls, NEW r \in Requests, CallReturns(op, r)
  PROVE  /\ tries' \in [Requests -> Attempts]
         /\ late' \subseteq Calls \X Requests \X Attempts
  BY Names DEF TypeOK, CallReturns

LEMMA CallFailsType ==
  ASSUME TypeOK, NEW op \in Calls, NEW r \in Requests, CallFails(op, r)
  PROVE  /\ tries' \in [Requests -> Attempts]
         /\ late' \subseteq Calls \X Requests \X Attempts
<1>1. late' \subseteq Calls \X Requests \X Attempts
  BY AbandonType DEF CallFails, TypeOK
<1> QED
  BY <1>1, Names DEF TypeOK, CallFails

LEMMA AfterReleaseType ==
  ASSUME TypeOK, NEW r \in Requests, AfterRelease(r)
  PROVE  /\ pc' \in [Requests -> Steps]
         /\ reply' \in [Requests -> Requests \cup Failures \cup {"none"}]
  BY GotoType, AnswerType, Names DEF AfterRelease

LEMMA TypeHandler ==
  ASSUME TypeOK, NEW r \in Requests, Handler(r)
  PROVE  TypeOK'
<1> USE DEF stockVars, orderVars, paymentVars, callVars, controlVars
<1>0. tries[r] \in Attempts
  BY DEF TypeOK
<1>1. CASE Lookup(r)
  BY <1>1, Names, GotoType, AnswerType DEF TypeOK, Lookup, OrdersUnderKey
<1>2. CASE Validate(r)
  BY <1>2, Names, GotoType, AnswerType DEF TypeOK, Validate
<1>3. ASSUME NEW op \in Calls, RetryCall(op, r) PROVE TypeOK'
  <2>1. tries' \in [Requests -> Attempts]
    BY <1>0, <1>3, Bounds DEF TypeOK, RetryCall, Attempts
  <2> QED
    BY <1>3, <2>1, AbandonType DEF TypeOK, RetryCall
<1>4. CASE ReserveServed(r)
  BY <1>0, <1>4, Names, CallReturnsType, TakeUnitType, GotoType DEF TypeOK, ReserveServed
<1>5. CASE ReserveConflict(r)
  BY <1>5, Names, CallReturnsType, AnswerType DEF TypeOK, ReserveConflict
<1>6. CASE ReserveFails(r)
  BY <1>6, Names, CallFailsType, AnswerType DEF TypeOK, ReserveFails
<1>7. CASE Create(r)
  <2>1. /\ orderStatus' \in [Requests -> Statuses]
        /\ paymentInitiated' \in [Requests -> BOOLEAN]
    BY <1>7, Names, SetPaymentType DEF TypeOK, Create, InsertOrder
  <2>2. /\ pc' \in [Requests -> Steps]
        /\ reply' \in [Requests -> Requests \cup Failures \cup {"none"}]
    BY <1>7, Names, GotoType DEF Create
  <2>3. duplicate' \in [Requests -> BOOLEAN]
    BY <1>7 DEF TypeOK, Create, HasKey
  <2> QED
    BY <1>7, <2>1, <2>2, <2>3 DEF TypeOK, Create
<1>8. CASE ReleaseServed(r)
  BY <1>0, <1>8, Names, CallReturnsType, GiveBackUnitType, AfterReleaseType
     DEF TypeOK, ReleaseServed
<1>9. CASE ReleaseFails(r)
  BY <1>9, Names, CallFailsType, AfterReleaseType DEF TypeOK, ReleaseFails
<1>10. CASE Relookup(r)
  BY <1>10, Names, AnswerType DEF TypeOK, Relookup, OrdersUnderKey
<1>11. CASE MarkPending(r)
  <2>1. /\ orderStatus' \in [Requests -> Statuses]
        /\ paymentInitiated' \in [Requests -> BOOLEAN]
    BY <1>11, Names, SetPaymentType DEF TypeOK, MarkPending
  <2>2. /\ pc' \in [Requests -> Steps]
        /\ reply' \in [Requests -> Requests \cup Failures \cup {"none"}]
    BY <1>11, Names, GotoType, AnswerType DEF MarkPending
  <2> QED
    BY <1>11, <2>1, <2>2 DEF TypeOK, MarkPending
<1>12. CASE PaymentAccepted(r)
  BY <1>12, Names, CallReturnsType, GotoType DEF TypeOK, PaymentAccepted
<1>13. CASE PaymentFails(r)
  BY <1>13, Names, CallFailsType, GotoType DEF TypeOK, PaymentFails
<1>14. CASE PublishRetry(r)
  <2>1. ready' \in [Requests -> [1 .. MaxAttempts -> Nat]]
    <3>1. ready[r] \in [1 .. MaxAttempts -> Nat] /\ 1 \in 1 .. MaxAttempts
      BY Bounds DEF TypeOK
    <3>2. [ready[r] EXCEPT ![1] = @ + 1] \in [1 .. MaxAttempts -> Nat]
      BY <3>1, CountOneMore
    <3> QED
      BY <1>14, <3>2 DEF TypeOK, PublishRetry
  <2> QED
    BY <1>14, <2>1, AnswerType DEF TypeOK, PublishRetry
<1>15. CASE Confirm(r)
  <2>1. /\ orderStatus' \in [Requests -> Statuses]
        /\ paymentInitiated' \in [Requests -> BOOLEAN]
    BY <1>15, Names, SetPaymentType DEF TypeOK, Confirm
  <2>2. /\ pc' \in [Requests -> Steps]
        /\ reply' \in [Requests -> Requests \cup Failures \cup {"none"}]
    BY <1>15, Names, AnswerType DEF Confirm
  <2> QED
    BY <1>15, <2>1, <2>2 DEF TypeOK, Confirm
<1> QED
  BY <1>1, <1>2, <1>3, <1>4, <1>5, <1>6, <1>7, <1>8, <1>9, <1>10, <1>11,
     <1>12, <1>13, <1>14, <1>15 DEF Handler

LEMMA TypeLate ==
  ASSUME TypeOK, NEW r \in Requests, Late(r)
  PROVE  TypeOK'
<1> USE DEF stockVars, orderVars, paymentVars, controlVars, Unlate
<1>1. PICK n \in Attempts : LateReserve(r, n) \/ LateRelease(r, n) \/ LatePayment(r, n)
  BY DEF Late
<1>2. CASE LateReserve(r, n)
  BY <1>2, TakeUnitType DEF TypeOK, LateReserve
<1>3. CASE LateRelease(r, n)
  BY <1>3, GiveBackUnitType DEF TypeOK, LateRelease
<1>4. CASE LatePayment(r, n)
  BY <1>4 DEF TypeOK, LatePayment
<1> QED
  BY <1>1, <1>2, <1>3, <1>4

LEMMA TypeCrash ==
  ASSUME TypeOK, Crash
  PROVE  TypeOK'
<1>1. late' \subseteq Calls \X Requests \X Attempts
  BY DEF TypeOK, Crash, InProgress
<1>2. crashes' \in 0 .. MaxCrashes
  BY Bounds DEF TypeOK, Crash
<1> QED
  BY <1>1, <1>2, Names DEF TypeOK, Crash, stockVars, orderVars, paymentVars

LEMMA TypeStep == TypeOK /\ [Next]_vars => TypeOK'
<1> SUFFICES ASSUME TypeOK, [Next]_vars PROVE TypeOK'
  OBVIOUS
<1>1. CASE UNCHANGED vars
  BY <1>1 DEF TypeOK, vars, stockVars, orderVars, paymentVars, callVars, controlVars
<1> QED
  BY <1>1, TypeHandler, TypeLate, TypeCrash DEF Next, Finished

\* In every execution every variable keeps its type; in particular no stock
\* is ever negative, because a unit is only taken while one is left.
THEOREM TypeCorrect == Spec => []TypeOK
<1>1. Init => TypeOK
  BY TypeInit
<1>2. TypeOK /\ [Next]_vars => TypeOK'
  BY TypeStep
<1> QED
  BY <1>1, <1>2, PTL DEF Spec

(***************************************************************************)
(* The status of an order, and the index on the keys.                      *)
(***************************************************************************)

LEMMA OrderHandler ==
  ASSUME TypeOK, OrderInv, NEW r \in Requests, Handler(r), NEW q \in Requests
  PROVE  OrderInvOf(q)'
<1> USE DEF TypeOK, stockVars, orderVars, paymentVars, callVars, controlVars,
           MayRunLate, Ordered, Goto, Answer, Abandon, CallReturns, CallFails,
           OrderInv, OrderInvOf, BeforeCreate, Compensating, Settling
<1>1. CASE Lookup(r)
  BY <1>1 DEF Lookup
<1>2. CASE Validate(r)
  BY <1>2 DEF Validate
<1>3. ASSUME NEW op \in Calls, RetryCall(op, r) PROVE OrderInvOf(q)'
  BY <1>3 DEF RetryCall
<1>4. CASE ReserveServed(r)
  BY <1>4 DEF ReserveServed, TakeUnit
<1>5. CASE ReserveConflict(r)
  BY <1>5 DEF ReserveConflict
<1>6. CASE ReserveFails(r)
  BY <1>6 DEF ReserveFails
<1>7. CASE Create(r)
  BY <1>7 DEF Create, InsertOrder, SetPayment, IndexRejects
<1>8. CASE ReleaseServed(r)
  BY <1>8 DEF ReleaseServed, GiveBackUnit, AfterRelease
<1>9. CASE ReleaseFails(r)
  BY <1>9 DEF ReleaseFails, AfterRelease
<1>10. CASE Relookup(r)
  BY <1>10 DEF Relookup
<1>11. CASE MarkPending(r)
  BY <1>11 DEF MarkPending, SetPayment
<1>12. CASE PaymentAccepted(r)
  BY <1>12 DEF PaymentAccepted
<1>13. CASE PaymentFails(r)
  BY <1>13 DEF PaymentFails
<1>14. CASE PublishRetry(r)
  BY <1>14 DEF PublishRetry
<1>15. CASE Confirm(r)
  BY <1>15 DEF Confirm, SetPayment
<1> QED
  BY <1>1, <1>2, <1>3, <1>4, <1>5, <1>6, <1>7, <1>8, <1>9, <1>10, <1>11,
     <1>12, <1>13, <1>14, <1>15 DEF Handler

LEMMA OrderLate ==
  ASSUME TypeOK, OrderInv, NEW r \in Requests, Late(r), NEW q \in Requests
  PROVE  OrderInvOf(q)'
<1> USE DEF TypeOK, stockVars, orderVars, paymentVars, controlVars,
           Unlate, MayRunLate, Ordered, OrderInv, OrderInvOf, BeforeCreate, Compensating, Settling
<1>1. PICK n \in Attempts : LateReserve(r, n) \/ LateRelease(r, n) \/ LatePayment(r, n)
  BY DEF Late
<1>2. CASE LateReserve(r, n)
  BY <1>2 DEF LateReserve, TakeUnit
<1>3. CASE LateRelease(r, n)
  BY <1>3 DEF LateRelease, GiveBackUnit
<1>4. CASE LatePayment(r, n)
  BY <1>4 DEF LatePayment
<1> QED
  BY <1>1, <1>2, <1>3, <1>4

LEMMA OrderCrash ==
  ASSUME TypeOK, OrderInv, Crash, NEW q \in Requests
  PROVE  OrderInvOf(q)'
  BY Names DEF Crash, InProgress, TypeOK, stockVars, orderVars, paymentVars,
         MayRunLate, Ordered, OrderInv, OrderInvOf, BeforeCreate, Compensating, Settling

LEMMA IndexHandler ==
  ASSUME TypeOK, IndexInv, OrderInv, NEW r \in Requests, Handler(r), NEW q \in Requests, NEW s \in Requests
  PROVE  IndexInvOf(q, s)'
<1> USE DEF TypeOK, stockVars, orderVars, paymentVars, callVars, controlVars,
           MayRunLate, Ordered, Goto, Answer, Abandon, CallReturns, CallFails,
           IndexInv, IndexInvOf, OrdersUnderKey, OrderInv, OrderInvOf, BeforeCreate, Compensating, Settling
<1>1. CASE Lookup(r)
  BY <1>1 DEF Lookup
<1>2. CASE Validate(r)
  BY <1>2 DEF Validate
<1>3. ASSUME NEW op \in Calls, RetryCall(op, r) PROVE IndexInvOf(q, s)'
  BY <1>3 DEF RetryCall
<1>4. CASE ReserveServed(r)
  BY <1>4 DEF ReserveServed, TakeUnit
<1>5. CASE ReserveConflict(r)
  BY <1>5 DEF ReserveConflict
<1>6. CASE ReserveFails(r)
  BY <1>6 DEF ReserveFails
<1>7. CASE Create(r)
  BY <1>7 DEF Create, InsertOrder, SetPayment, IndexRejects
<1>8. CASE ReleaseServed(r)
  BY <1>8 DEF ReleaseServed, GiveBackUnit, AfterRelease
<1>9. CASE ReleaseFails(r)
  BY <1>9 DEF ReleaseFails, AfterRelease
<1>10. CASE Relookup(r)
  BY <1>10 DEF Relookup
<1>11. CASE MarkPending(r)
  BY <1>11 DEF MarkPending, SetPayment
<1>12. CASE PaymentAccepted(r)
  BY <1>12 DEF PaymentAccepted
<1>13. CASE PaymentFails(r)
  BY <1>13 DEF PaymentFails
<1>14. CASE PublishRetry(r)
  BY <1>14 DEF PublishRetry
<1>15. CASE Confirm(r)
  BY <1>15 DEF Confirm, SetPayment
<1> QED
  BY <1>1, <1>2, <1>3, <1>4, <1>5, <1>6, <1>7, <1>8, <1>9, <1>10, <1>11,
     <1>12, <1>13, <1>14, <1>15 DEF Handler

LEMMA IndexLate ==
  ASSUME TypeOK, IndexInv, OrderInv, NEW r \in Requests, Late(r), NEW q \in Requests, NEW s \in Requests
  PROVE  IndexInvOf(q, s)'
<1> USE DEF TypeOK, stockVars, orderVars, paymentVars, controlVars,
           Unlate, MayRunLate, Ordered, IndexInv, IndexInvOf, OrdersUnderKey, OrderInv, OrderInvOf, BeforeCreate, Compensating, Settling
<1>1. PICK n \in Attempts : LateReserve(r, n) \/ LateRelease(r, n) \/ LatePayment(r, n)
  BY DEF Late
<1>2. CASE LateReserve(r, n)
  BY <1>2 DEF LateReserve, TakeUnit
<1>3. CASE LateRelease(r, n)
  BY <1>3 DEF LateRelease, GiveBackUnit
<1>4. CASE LatePayment(r, n)
  BY <1>4 DEF LatePayment
<1> QED
  BY <1>1, <1>2, <1>3, <1>4

LEMMA IndexCrash ==
  ASSUME TypeOK, IndexInv, OrderInv, Crash, NEW q \in Requests, NEW s \in Requests
  PROVE  IndexInvOf(q, s)'
  BY Names DEF Crash, InProgress, TypeOK, stockVars, orderVars, paymentVars,
         MayRunLate, Ordered, IndexInv, IndexInvOf, OrdersUnderKey, OrderInv, OrderInvOf, BeforeCreate, Compensating, Settling



(***************************************************************************)
(* What requests are answered.                                             *)
(***************************************************************************)

LEMMA NotOrders ==
    /\ "none" \notin Requests /\ "conflict" \notin Requests /\ "upstream" \notin Requests
    /\ "internal" \notin Requests /\ "dropped" \notin Requests
  BY CheckoutAssumption DEF Failures

LEMMA ReplyHandler ==
  ASSUME TypeOK, ReplyInv, OrderInv, NEW r \in Requests, Handler(r), NEW q \in Requests
  PROVE  ReplyInvOf(q)'
<1> USE DEF TypeOK, stockVars, orderVars, paymentVars, callVars, controlVars,
           MayRunLate, Ordered, Goto, Answer, Abandon, CallReturns, CallFails,
           ReplyInv, ReplyInvOf, OrdersUnderKey, HasKey, OrderInv, OrderInvOf, BeforeCreate, Compensating, Settling
<1>1. CASE Lookup(r)
  BY <1>1, NotOrders DEF Lookup
<1>2. CASE Validate(r)
  BY <1>2, NotOrders DEF Validate
<1>3. ASSUME NEW op \in Calls, RetryCall(op, r) PROVE ReplyInvOf(q)'
  BY <1>3, NotOrders DEF RetryCall
<1>4. CASE ReserveServed(r)
  BY <1>4, NotOrders DEF ReserveServed, TakeUnit
<1>5. CASE ReserveConflict(r)
  BY <1>5, NotOrders DEF ReserveConflict
<1>6. CASE ReserveFails(r)
  BY <1>6, NotOrders DEF ReserveFails
<1>7. CASE Create(r)
  BY <1>7, NotOrders DEF Create, InsertOrder, SetPayment, IndexRejects
<1>8. CASE ReleaseServed(r)
  BY <1>8, NotOrders DEF ReleaseServed, GiveBackUnit, AfterRelease
<1>9. CASE ReleaseFails(r)
  BY <1>9, NotOrders DEF ReleaseFails, AfterRelease
<1>10. CASE Relookup(r)
  BY <1>10, NotOrders DEF Relookup
<1>11. CASE MarkPending(r)
  BY <1>11, NotOrders DEF MarkPending, SetPayment
<1>12. CASE PaymentAccepted(r)
  BY <1>12, NotOrders DEF PaymentAccepted
<1>13. CASE PaymentFails(r)
  BY <1>13, NotOrders DEF PaymentFails
<1>14. CASE PublishRetry(r)
  BY <1>14, NotOrders DEF PublishRetry
<1>15. CASE Confirm(r)
  BY <1>15, NotOrders DEF Confirm, SetPayment
<1> QED
  BY <1>1, <1>2, <1>3, <1>4, <1>5, <1>6, <1>7, <1>8, <1>9, <1>10, <1>11,
     <1>12, <1>13, <1>14, <1>15 DEF Handler

LEMMA ReplyLate ==
  ASSUME TypeOK, ReplyInv, OrderInv, NEW r \in Requests, Late(r), NEW q \in Requests
  PROVE  ReplyInvOf(q)'
<1> USE DEF TypeOK, stockVars, orderVars, paymentVars, controlVars,
           Unlate, MayRunLate, Ordered, ReplyInv, ReplyInvOf, OrdersUnderKey, HasKey, OrderInv, OrderInvOf, BeforeCreate, Compensating, Settling
<1>1. PICK n \in Attempts : LateReserve(r, n) \/ LateRelease(r, n) \/ LatePayment(r, n)
  BY DEF Late
<1>2. CASE LateReserve(r, n)
  BY <1>2 DEF LateReserve, TakeUnit
<1>3. CASE LateRelease(r, n)
  BY <1>3 DEF LateRelease, GiveBackUnit
<1>4. CASE LatePayment(r, n)
  BY <1>4 DEF LatePayment
<1> QED
  BY <1>1, <1>2, <1>3, <1>4

LEMMA ReplyCrash ==
  ASSUME TypeOK, ReplyInv, OrderInv, Crash, NEW q \in Requests
  PROVE  ReplyInvOf(q)'
  BY NotOrders DEF Crash, InProgress, TypeOK, orderVars, Ordered, ReplyInv, ReplyInvOf, HasKey




(***************************************************************************)
(* The attempts of the stock calls.                                        *)
(***************************************************************************)

LEMMA AttemptNumbers == \A n \in Attempts : n \in Nat
  BY Bounds DEF Attempts

LEMMA AttemptHandler ==
  ASSUME TypeOK, AttemptInv, NEW r \in Requests, Handler(r), NEW q \in Requests
  PROVE  AttemptInvOf(q)'
<1> USE DEF TypeOK, stockVars, orderVars, paymentVars, callVars, controlVars,
           MayRunLate, Ordered, Goto, Answer, Abandon, CallReturns, CallFails,
           AttemptInv, AttemptInvOf
<1>1. CASE Lookup(r)
  BY <1>1, AttemptNumbers DEF Lookup
<1>2. CASE Validate(r)
  BY <1>2, AttemptNumbers DEF Validate
<1>3. ASSUME NEW op \in Calls, RetryCall(op, r) PROVE AttemptInvOf(q)'
  BY <1>3, AttemptNumbers DEF RetryCall
<1>4. CASE ReserveServed(r)
  BY <1>4, AttemptNumbers DEF ReserveServed, TakeUnit
<1>5. CASE ReserveConflict(r)
  BY <1>5, AttemptNumbers DEF ReserveConflict
<1>6. CASE ReserveFails(r)
  BY <1>6, AttemptNumbers DEF ReserveFails
<1>7. CASE Create(r)
  BY <1>7, AttemptNumbers DEF Create, InsertOrder, SetPayment, IndexRejects
<1>8. CASE ReleaseServed(r)
  BY <1>8, AttemptNumbers DEF ReleaseServed, GiveBackUnit, AfterRelease
<1>9. CASE ReleaseFails(r)
  BY <1>9, AttemptNumbers DEF ReleaseFails, AfterRelease
<1>10. CASE Relookup(r)
  BY <1>10, AttemptNumbers DEF Relookup
<1>11. CASE MarkPending(r)
  BY <1>11, AttemptNumbers DEF MarkPending, SetPayment
<1>12. CASE PaymentAccepted(r)
  BY <1>12, AttemptNumbers DEF PaymentAccepted
<1>13. CASE PaymentFails(r)
  BY <1>13, AttemptNumbers DEF PaymentFails
<1>14. CASE PublishRetry(r)
  BY <1>14, AttemptNumbers DEF PublishRetry
<1>15. CASE Confirm(r)
  BY <1>15, AttemptNumbers DEF Confirm, SetPayment
<1> QED
  BY <1>1, <1>2, <1>3, <1>4, <1>5, <1>6, <1>7, <1>8, <1>9, <1>10, <1>11,
     <1>12, <1>13, <1>14, <1>15 DEF Handler

LEMMA AttemptLate ==
  ASSUME TypeOK, AttemptInv, NEW r \in Requests, Late(r), NEW q \in Requests
  PROVE  AttemptInvOf(q)'
<1> USE DEF TypeOK, stockVars, orderVars, paymentVars, controlVars,
           Unlate, MayRunLate, Ordered, AttemptInv, AttemptInvOf
<1>1. PICK n \in Attempts : LateReserve(r, n) \/ LateRelease(r, n) \/ LatePayment(r, n)
  BY DEF Late
<1>2. CASE LateReserve(r, n)
  BY <1>2 DEF LateReserve, TakeUnit
<1>3. CASE LateRelease(r, n)
  BY <1>3 DEF LateRelease, GiveBackUnit
<1>4. CASE LatePayment(r, n)
  BY <1>4 DEF LatePayment
<1> QED
  BY <1>1, <1>2, <1>3, <1>4

LEMMA AttemptCrash ==
  ASSUME TypeOK, AttemptInv, Crash, NEW q \in Requests
  PROVE  AttemptInvOf(q)'
<1> SUFFICES ASSUME NEW n \in Attempts
             PROVE  /\ MayRunLate("reserve", q, n)' \/ <<q, n>> \in taken' =>
                          /\ pc'[q] \notin {"arrive", "validate"}
                          /\ pc'[q] = "reserve" => n < tries'[q]
                    /\ MayRunLate("reserve", q, n)' => <<q, n>> \notin taken'
                    /\ MayRunLate("release", q, n)' \/ <<q, n>> \in returned' =>
                          /\ pc'[q] \in {"release", "relookup", "done"}
                          /\ pc'[q] = "release" => n < tries'[q]
                    /\ MayRunLate("release", q, n)' => <<q, n>> \notin returned'
  BY DEF AttemptInvOf, MayRunLate
<1>1. /\ taken' = taken /\ returned' = returned /\ tries' = tries
      /\ pc' = [r \in Requests |-> IF r \in InProgress THEN "done" ELSE pc[r]]
  BY DEF Crash, stockVars
<1>2. \A op : <<op, q, n>> \in late' =>
          <<op, q, n>> \in late \/ (q \in InProgress /\ pc[q] = op /\ tries[q] = n)
  BY DEF Crash
<1>3. AttemptInvOf(q)
  BY DEF AttemptInv
<1>4. tries[q] \in Nat /\ n \in Nat
  BY AttemptNumbers DEF TypeOK
<1> QED
  BY <1>1, <1>2, <1>3, <1>4 DEF AttemptInvOf, MayRunLate, InProgress, TypeOK



(***************************************************************************)
(* Who holds a unit, who gave one back, and how often.                     *)
(***************************************************************************)

LEMMA HeldHandler ==
  ASSUME TypeOK, HeldInv, OrderInv, NEW r \in Requests, Handler(r), NEW q \in Requests
  PROVE  HeldInvOf(q)'
<1> USE DEF TypeOK, stockVars, orderVars, paymentVars, callVars, controlVars,
           MayRunLate, Ordered, Goto, Answer, Abandon, CallReturns, CallFails,
           HeldInv, HeldInvOf, OrderInv, OrderInvOf, BeforeCreate, Compensating, Settling
<1>1. CASE Lookup(r)
  BY <1>1 DEF Lookup
<1>2. CASE Validate(r)
  BY <1>2 DEF Validate
<1>3. ASSUME NEW op \in Calls, RetryCall(op, r) PROVE HeldInvOf(q)'
  BY <1>3 DEF RetryCall
<1>4. CASE ReserveServed(r)
  BY <1>4 DEF ReserveServed, TakeUnit
<1>5. CASE ReserveConflict(r)
  BY <1>5 DEF ReserveConflict
<1>6. CASE ReserveFails(r)
  BY <1>6 DEF ReserveFails
<1>7. CASE Create(r)
  BY <1>7 DEF Create, InsertOrder, SetPayment, IndexRejects
<1>8. CASE ReleaseServed(r)
  BY <1>8 DEF ReleaseServed, GiveBackUnit, AfterRelease
<1>9. CASE ReleaseFails(r)
  BY <1>9 DEF ReleaseFails, AfterRelease
<1>10. CASE Relookup(r)
  BY <1>10 DEF Relookup
<1>11. CASE MarkPending(r)
  BY <1>11 DEF MarkPending, SetPayment
<1>12. CASE PaymentAccepted(r)
  BY <1>12 DEF PaymentAccepted
<1>13. CASE PaymentFails(r)
  BY <1>13 DEF PaymentFails
<1>14. CASE PublishRetry(r)
  BY <1>14 DEF PublishRetry
<1>15. CASE Confirm(r)
  BY <1>15 DEF Confirm, SetPayment
<1> QED
  BY <1>1, <1>2, <1>3, <1>4, <1>5, <1>6, <1>7, <1>8, <1>9, <1>10, <1>11,
     <1>12, <1>13, <1>14, <1>15 DEF Handler

LEMMA HeldLate ==
  ASSUME TypeOK, HeldInv, OrderInv, NEW r \in Requests, Late(r), NEW q \in Requests
  PROVE  HeldInvOf(q)'
<1> USE DEF TypeOK, stockVars, orderVars, paymentVars, controlVars,
           Unlate, MayRunLate, Ordered, HeldInv, HeldInvOf, OrderInv, OrderInvOf, BeforeCreate, Compensating, Settling
<1>1. PICK n \in Attempts : LateReserve(r, n) \/ LateRelease(r, n) \/ LatePayment(r, n)
  BY DEF Late
<1>2. CASE LateReserve(r, n)
  BY <1>2 DEF LateReserve, TakeUnit
<1>3. CASE LateRelease(r, n)
  BY <1>3 DEF LateRelease, GiveBackUnit
<1>4. CASE LatePayment(r, n)
  BY <1>4 DEF LatePayment
<1> QED
  BY <1>1, <1>2, <1>3, <1>4

LEMMA HeldCrash ==
  ASSUME TypeOK, HeldInv, OrderInv, Crash, NEW q \in Requests
  PROVE  HeldInvOf(q)'
  BY Names DEF Crash, InProgress, TypeOK, stockVars, orderVars, paymentVars,
         MayRunLate, Ordered, HeldInv, HeldInvOf, OrderInv, OrderInvOf, BeforeCreate, Compensating, Settling

LEMMA BackedHandler ==
  ASSUME TypeOK, HeldInv, OrderInv, AttemptInv, BackedInv, "insert" \notin Faults, NEW r \in Requests, Handler(r), NEW q \in Requests
  PROVE  BackedInvOf(q)'
<1> USE DEF TypeOK, stockVars, orderVars, paymentVars, callVars, controlVars,
           MayRunLate, Ordered, Goto, Answer, Abandon, CallReturns, CallFails,
           HeldInv, HeldInvOf, AttemptInv, AttemptInvOf, BackedInv, BackedInvOf,
           OrderInv, OrderInvOf, BeforeCreate, Compensating, Settling
<1>1. CASE Lookup(r)
  BY <1>1 DEF Lookup
<1>2. CASE Validate(r)
  BY <1>2 DEF Validate
<1>3. ASSUME NEW op \in Calls, RetryCall(op, r) PROVE BackedInvOf(q)'
  BY <1>3 DEF RetryCall
<1>4. CASE ReserveServed(r)
  BY <1>4 DEF ReserveServed, TakeUnit
<1>5. CASE ReserveConflict(r)
  BY <1>5 DEF ReserveConflict
<1>6. CASE ReserveFails(r)
  BY <1>6 DEF ReserveFails
<1>7. CASE Create(r)
  BY <1>7 DEF Create, InsertOrder, SetPayment, IndexRejects
<1>8. CASE ReleaseServed(r)
  BY <1>8 DEF ReleaseServed, GiveBackUnit, AfterRelease
<1>9. CASE ReleaseFails(r)
  BY <1>9 DEF ReleaseFails, AfterRelease
<1>10. CASE Relookup(r)
  BY <1>10 DEF Relookup
<1>11. CASE MarkPending(r)
  BY <1>11 DEF MarkPending, SetPayment
<1>12. CASE PaymentAccepted(r)
  BY <1>12 DEF PaymentAccepted
<1>13. CASE PaymentFails(r)
  BY <1>13 DEF PaymentFails
<1>14. CASE PublishRetry(r)
  BY <1>14 DEF PublishRetry
<1>15. CASE Confirm(r)
  BY <1>15 DEF Confirm, SetPayment
<1> QED
  BY <1>1, <1>2, <1>3, <1>4, <1>5, <1>6, <1>7, <1>8, <1>9, <1>10, <1>11,
     <1>12, <1>13, <1>14, <1>15 DEF Handler

LEMMA BackedLate ==
  ASSUME TypeOK, HeldInv, OrderInv, AttemptInv, BackedInv, "insert" \notin Faults, NEW r \in Requests, Late(r), NEW q \in Requests
  PROVE  BackedInvOf(q)'
<1> USE DEF TypeOK, stockVars, orderVars, paymentVars, controlVars,
           Unlate, MayRunLate, Ordered, HeldInv, HeldInvOf, AttemptInv, AttemptInvOf, BackedInv, BackedInvOf,
           OrderInv, OrderInvOf, BeforeCreate, Compensating, Settling
<1>1. PICK n \in Attempts : LateReserve(r, n) \/ LateRelease(r, n) \/ LatePayment(r, n)
  BY DEF Late
<1>2. CASE LateReserve(r, n)
  BY <1>2 DEF LateReserve, TakeUnit
<1>3. CASE LateRelease(r, n)
  BY <1>3 DEF LateRelease, GiveBackUnit
<1>4. CASE LatePayment(r, n)
  BY <1>4 DEF LatePayment
<1> QED
  BY <1>1, <1>2, <1>3, <1>4

LEMMA BackedCrash ==
  ASSUME TypeOK, HeldInv, OrderInv, AttemptInv, BackedInv, "insert" \notin Faults, Crash, NEW q \in Requests
  PROVE  BackedInvOf(q)'
  BY Names DEF Crash, InProgress, TypeOK, stockVars, orderVars, paymentVars,
         MayRunLate, Ordered, HeldInv, HeldInvOf, AttemptInv, AttemptInvOf, BackedInv, BackedInvOf,
           OrderInv, OrderInvOf, BeforeCreate, Compensating, Settling

LEMMA RejectHandler ==
  ASSUME TypeOK, OrderInv, ReplyInv, AttemptInv, RejectInv, "reserve" \notin Faults, NEW r \in Requests, Handler(r), NEW q \in Requests
  PROVE  RejectInvOf(q)'
<1> USE DEF TypeOK, stockVars, orderVars, paymentVars, callVars, controlVars,
           MayRunLate, Ordered, Goto, Answer, Abandon, CallReturns, CallFails,
           AttemptInv, AttemptInvOf, ReplyInv, ReplyInvOf, RejectInv, RejectInvOf,
           OrderInv, OrderInvOf, BeforeCreate, Compensating, Settling
<1>1. CASE Lookup(r)
  BY <1>1, NotOrders DEF Lookup, OrdersUnderKey
<1>2. CASE Validate(r)
  BY <1>2 DEF Validate
<1>3. ASSUME NEW op \in Calls, RetryCall(op, r) PROVE RejectInvOf(q)'
  BY <1>3 DEF RetryCall
<1>4. CASE ReserveServed(r)
  BY <1>4 DEF ReserveServed, TakeUnit
<1>5. CASE ReserveConflict(r)
  BY <1>5 DEF ReserveConflict
<1>6. CASE ReserveFails(r)
  BY <1>6 DEF ReserveFails
<1>7. CASE Create(r)
  BY <1>7 DEF Create, InsertOrder, SetPayment, IndexRejects
<1>8. CASE ReleaseServed(r)
  BY <1>8 DEF ReleaseServed, GiveBackUnit, AfterRelease
<1>9. CASE ReleaseFails(r)
  BY <1>9 DEF ReleaseFails, AfterRelease
<1>10. CASE Relookup(r)
  BY <1>10, NotOrders DEF Relookup, OrdersUnderKey
<1>11. CASE MarkPending(r)
  BY <1>11 DEF MarkPending, SetPayment
<1>12. CASE PaymentAccepted(r)
  BY <1>12 DEF PaymentAccepted
<1>13. CASE PaymentFails(r)
  BY <1>13 DEF PaymentFails
<1>14. CASE PublishRetry(r)
  BY <1>14, NotOrders DEF PublishRetry
<1>15. CASE Confirm(r)
  <2>1. pc'[r] = "done" /\ reply'[r] \in {r, "internal"}
    BY <1>15 DEF Confirm
  <2>2. q # r => pc'[q] = pc[q] /\ reply'[q] = reply[q] /\ Ordered(q)' = Ordered(q)
    BY <1>15 DEF Confirm, SetPayment
  <2>3. taken' = taken /\ late' = late
    BY <1>15 DEF Confirm
  <2> QED
    BY <2>1, <2>2, <2>3, NotOrders
<1> QED
  BY <1>1, <1>2, <1>3, <1>4, <1>5, <1>6, <1>7, <1>8, <1>9, <1>10, <1>11,
     <1>12, <1>13, <1>14, <1>15 DEF Handler

LEMMA RejectLate ==
  ASSUME TypeOK, OrderInv, ReplyInv, AttemptInv, RejectInv, "reserve" \notin Faults, NEW r \in Requests, Late(r), NEW q \in Requests
  PROVE  RejectInvOf(q)'
<1> USE DEF TypeOK, stockVars, orderVars, paymentVars, controlVars,
           Unlate, MayRunLate, Ordered, AttemptInv, AttemptInvOf, ReplyInv, ReplyInvOf, RejectInv, RejectInvOf,
           OrderInv, OrderInvOf, BeforeCreate, Compensating, Settling
<1>1. PICK n \in Attempts : LateReserve(r, n) \/ LateRelease(r, n) \/ LatePayment(r, n)
  BY DEF Late
<1>2. CASE LateReserve(r, n)
  BY <1>2 DEF LateReserve, TakeUnit
<1>3. CASE LateRelease(r, n)
  BY <1>3 DEF LateRelease, GiveBackUnit
<1>4. CASE LatePayment(r, n)
  BY <1>4 DEF LatePayment
<1> QED
  BY <1>1, <1>2, <1>3, <1>4

LEMMA RejectCrash ==
  ASSUME TypeOK, OrderInv, ReplyInv, AttemptInv, RejectInv, "reserve" \notin Faults, Crash, NEW q \in Requests
  PROVE  RejectInvOf(q)'
  BY Names DEF Crash, InProgress, TypeOK, stockVars, orderVars, paymentVars,
         MayRunLate, Ordered, AttemptInv, AttemptInvOf, ReplyInv, ReplyInvOf, RejectInv, RejectInvOf,
           OrderInv, OrderInvOf, BeforeCreate, Compensating, Settling

LEMMA ReleaseHandler ==
  ASSUME TypeOK, AttemptInv, ReleaseInv, "release" \notin Faults, NEW r \in Requests, Handler(r), NEW q \in Requests
  PROVE  ReleaseInvOf(q)'
<1> USE DEF TypeOK, stockVars, orderVars, paymentVars, callVars, controlVars,
           MayRunLate, Ordered, Goto, Answer, Abandon, CallReturns, CallFails,
           AttemptInv, AttemptInvOf, ReleaseInv, ReleaseInvOf
<1>1. CASE Lookup(r)
  BY <1>1 DEF Lookup
<1>2. CASE Validate(r)
  BY <1>2 DEF Validate
<1>3. ASSUME NEW op \in Calls, RetryCall(op, r) PROVE ReleaseInvOf(q)'
  BY <1>3 DEF RetryCall
<1>4. CASE ReserveServed(r)
  BY <1>4 DEF ReserveServed, TakeUnit
<1>5. CASE ReserveConflict(r)
  BY <1>5 DEF ReserveConflict
<1>6. CASE ReserveFails(r)
  BY <1>6 DEF ReserveFails
<1>7. CASE Create(r)
  BY <1>7 DEF Create, InsertOrder, SetPayment, IndexRejects
<1>8. CASE ReleaseServed(r)
  BY <1>8 DEF ReleaseServed, GiveBackUnit, AfterRelease
<1>9. CASE ReleaseFails(r)
  BY <1>9 DEF ReleaseFails, AfterRelease
<1>10. CASE Relookup(r)
  BY <1>10 DEF Relookup
<1>11. CASE MarkPending(r)
  BY <1>11 DEF MarkPending, SetPayment
<1>12. CASE PaymentAccepted(r)
  BY <1>12 DEF PaymentAccepted
<1>13. CASE PaymentFails(r)
  BY <1>13 DEF PaymentFails
<1>14. CASE PublishRetry(r)
  BY <1>14 DEF PublishRetry
<1>15. CASE Confirm(r)
  BY <1>15 DEF Confirm, SetPayment
<1> QED
  BY <1>1, <1>2, <1>3, <1>4, <1>5, <1>6, <1>7, <1>8, <1>9, <1>10, <1>11,
     <1>12, <1>13, <1>14, <1>15 DEF Handler

LEMMA ReleaseLate ==
  ASSUME TypeOK, AttemptInv, ReleaseInv, "release" \notin Faults, NEW r \in Requests, Late(r), NEW q \in Requests
  PROVE  ReleaseInvOf(q)'
<1> USE DEF TypeOK, stockVars, orderVars, paymentVars, controlVars,
           Unlate, MayRunLate, Ordered, AttemptInv, AttemptInvOf, ReleaseInv, ReleaseInvOf
<1>1. PICK n \in Attempts : LateReserve(r, n) \/ LateRelease(r, n) \/ LatePayment(r, n)
  BY DEF Late
<1>2. CASE LateReserve(r, n)
  BY <1>2 DEF LateReserve, TakeUnit
<1>3. CASE LateRelease(r, n)
  BY <1>3 DEF LateRelease, GiveBackUnit
<1>4. CASE LatePayment(r, n)
  BY <1>4 DEF LatePayment
<1> QED
  BY <1>1, <1>2, <1>3, <1>4

LEMMA ReleaseCrash ==
  ASSUME TypeOK, AttemptInv, ReleaseInv, "release" \notin Faults, Crash, NEW q \in Requests
  PROVE  ReleaseInvOf(q)'
  BY Names DEF Crash, InProgress, TypeOK, stockVars, orderVars, paymentVars,
         MayRunLate, Ordered, AttemptInv, AttemptInvOf, ReleaseInv, ReleaseInvOf



(***************************************************************************)
(* Units are conserved, and no two orders share one.                       *)
(***************************************************************************)

LEMMA FiniteLedger ==
  ASSUME NEW ledger \in SUBSET (Requests \X Attempts), NEW p
  PROVE  IsFiniteSet(Of(p, ledger)) /\ Cardinality(Of(p, ledger)) \in Nat
<1>1. IsFiniteSet(Requests \X Attempts)
  <2>1. IsFiniteSet(Requests)
    BY CheckoutAssumption
  <2>2. IsFiniteSet(Attempts)
    BY Bounds, FS_Interval DEF Attempts
  <2> QED
    BY <2>1, <2>2, FS_Product
<1>2. Of(p, ledger) \in SUBSET (Requests \X Attempts)
  BY DEF Of
<1> QED
  BY <1>1, <1>2, FS_Subset, FS_CardinalityType

LEMMA LedgerEntry ==
  ASSUME NEW ledger \in SUBSET (Requests \X Attempts),
         NEW r \in Requests, NEW n \in Attempts, <<r, n>> \notin ledger, NEW p
  PROVE  Cardinality(Of(p, ledger \cup {<<r, n>>})) =
             IF ProductOf[r] = p THEN Cardinality(Of(p, ledger)) + 1
                                 ELSE Cardinality(Of(p, ledger))
<1>1. CASE ProductOf[r] = p
  <2>1. Of(p, ledger \cup {<<r, n>>}) = Of(p, ledger) \cup {<<r, n>>}
    BY <1>1 DEF Of
  <2>2. <<r, n>> \notin Of(p, ledger)
    BY DEF Of
  <2>3. IsFiniteSet(Of(p, ledger))
    BY FiniteLedger
  <2>4. Cardinality(Of(p, ledger) \cup {<<r, n>>}) = Cardinality(Of(p, ledger)) + 1
    BY <2>2, <2>3, FS_AddElement
  <2> QED
    BY <1>1, <2>1, <2>4
<1>2. CASE ProductOf[r] # p
  <2>1. Of(p, ledger \cup {<<r, n>>}) = Of(p, ledger)
    BY <1>2 DEF Of
  <2> QED
    BY <1>2, <2>1
<1> QED
  BY <1>1, <1>2

LEMMA TakeUnitStock ==
  ASSUME TypeOK, StockInv, NEW r \in Requests, NEW n \in Attempts,
         <<r, n>> \notin taken, TakeUnit(r, n), NEW p \in Products
  PROVE  StockInvOf(p)'
<1>1. /\ taken' = taken \cup {<<r, n>>} /\ returned' = returned
      /\ stock' = [stock EXCEPT ![ProductOf[r]] = @ - 1]
  BY DEF TakeUnit
<1>2. /\ Cardinality(Of(p, taken)) \in Nat /\ Cardinality(Of(p, returned)) \in Nat
      /\ stock[p] \in Nat /\ Initial[p] \in Nat
  BY FiniteLedger, Catalogue DEF TypeOK
<1>3. Cardinality(Of(p, taken')) = IF ProductOf[r] = p THEN Cardinality(Of(p, taken)) + 1
                                                     ELSE Cardinality(Of(p, taken))
  <2>1. taken \in SUBSET (Requests \X Attempts)
    BY DEF TypeOK
  <2> QED
    BY <1>1, <2>1, LedgerEntry
<1>4. stock'[p] = IF ProductOf[r] = p THEN stock[p] - 1 ELSE stock[p]
  BY <1>1 DEF TypeOK
<1>5. StockInvOf(p)
  BY DEF StockInv
<1>6. Of(p, taken)' = Of(p, taken') /\ Of(p, returned)' = Of(p, returned)
  BY <1>1 DEF Of
<1> QED
  BY <1>2, <1>3, <1>4, <1>5, <1>6 DEF StockInvOf

LEMMA GiveBackUnitStock ==
  ASSUME TypeOK, StockInv, NEW r \in Requests, NEW n \in Attempts,
         <<r, n>> \notin returned, GiveBackUnit(r, n), NEW p \in Products
  PROVE  StockInvOf(p)'
<1>1. /\ returned' = returned \cup {<<r, n>>} /\ taken' = taken
      /\ stock' = [stock EXCEPT ![ProductOf[r]] = @ + 1]
  BY DEF GiveBackUnit
<1>2. /\ Cardinality(Of(p, taken)) \in Nat /\ Cardinality(Of(p, returned)) \in Nat
      /\ stock[p] \in Nat /\ Initial[p] \in Nat
  BY FiniteLedger, Catalogue DEF TypeOK
<1>3. Cardinality(Of(p, returned')) = IF ProductOf[r] = p THEN Cardinality(Of(p, returned)) + 1
                                                        ELSE Cardinality(Of(p, returned))
  <2>1. returned \in SUBSET (Requests \X Attempts)
    BY DEF TypeOK
  <2> QED
    BY <1>1, <2>1, LedgerEntry
<1>4. stock'[p] = IF ProductOf[r] = p THEN stock[p] + 1 ELSE stock[p]
  BY <1>1 DEF TypeOK
<1>5. StockInvOf(p)
  BY DEF StockInv
<1>6. Of(p, returned)' = Of(p, returned') /\ Of(p, taken)' = Of(p, taken)
  BY <1>1 DEF Of
<1> QED
  BY <1>2, <1>3, <1>4, <1>5, <1>6 DEF StockInvOf

LEMMA StockKept ==
  ASSUME StockInv, UNCHANGED stockVars, NEW p \in Products
  PROVE  StockInvOf(p)'
  BY DEF StockInv, StockInvOf, stockVars, Of

LEMMA StockStep ==
  ASSUME TypeOK, StockInv, AttemptInv, [Next]_vars, NEW p \in Products
  PROVE  StockInvOf(p)'
<1>1. ASSUME NEW r \in Requests, Handler(r) PROVE StockInvOf(p)'
  <2>0. tries[r] \in Attempts /\ tries[r] \in Nat
    BY AttemptNumbers DEF TypeOK
  <2>1. CASE ReserveServed(r)
    <3>1. <<r, tries[r]>> \notin taken
      BY <2>0, <2>1 DEF AttemptInv, AttemptInvOf, ReserveServed, CallReturns
    <3> QED
      BY <2>0, <2>1, <3>1, TakeUnitStock DEF ReserveServed
  <2>2. CASE ReleaseServed(r)
    <3>1. <<r, tries[r]>> \notin returned
      BY <2>0, <2>2 DEF AttemptInv, AttemptInvOf, ReleaseServed, CallReturns
    <3> QED
      BY <2>0, <2>2, <3>1, GiveBackUnitStock DEF ReleaseServed
  <2>3. CASE ~ReserveServed(r) /\ ~ReleaseServed(r)
    <3>1. UNCHANGED stockVars
      BY <1>1, <2>3 DEF Handler, Lookup, Validate, RetryCall, ReserveConflict, ReserveFails,
           Create, ReleaseFails, Relookup, MarkPending, PaymentAccepted, PaymentFails,
           PublishRetry, Confirm
    <3> QED
      BY <3>1, StockKept
  <2> QED
    BY <2>1, <2>2, <2>3
<1>2. ASSUME NEW r \in Requests, Late(r) PROVE StockInvOf(p)'
  <2>1. PICK n \in Attempts : LateReserve(r, n) \/ LateRelease(r, n) \/ LatePayment(r, n)
    BY <1>2 DEF Late
  <2>2. CASE LateReserve(r, n)
    <3>1. <<r, n>> \notin taken
      BY <2>2 DEF AttemptInv, AttemptInvOf, LateReserve, Unlate, MayRunLate
    <3> QED
      BY <2>2, <3>1, TakeUnitStock DEF LateReserve
  <2>3. CASE LateRelease(r, n)
    <3>1. <<r, n>> \notin returned
      BY <2>3 DEF AttemptInv, AttemptInvOf, LateRelease, Unlate, MayRunLate
    <3> QED
      BY <2>3, <3>1, GiveBackUnitStock DEF LateRelease
  <2>4. CASE LatePayment(r, n)
    BY <2>4, StockKept DEF LatePayment
  <2> QED
    BY <2>1, <2>2, <2>3, <2>4
<1>3. CASE Crash \/ Finished \/ UNCHANGED vars
  BY <1>3, StockKept DEF Crash, Finished, vars, stockVars
<1> QED
  BY <1>1, <1>2, <1>3 DEF Next

LEMMA UnitsOfDistinctRequests ==
  ASSUME TypeOK, StockInv, BackedInv, ReleaseInv, NEW p \in Products,
         NEW holders \in SUBSET Requests,
         \A r \in holders : /\ ProductOf[r] = p
                            /\ \E n \in Attempts : <<r, n>> \in taken
                            /\ \A n \in Attempts : <<r, n>> \notin returned
  PROVE  Cardinality(holders) <= Initial[p]
<1> DEFINE R == {r \in Requests : \E n \in Attempts : <<r, n>> \in Of(p, returned)}
           all == holders \cup R
           unit == [r \in all |-> CHOOSE a \in Of(p, taken) : a[1] = r]
           giver == [a \in Of(p, returned) |-> a[1]]
<1>1. unit \in Injection(all, Of(p, taken))
  <2>1. ASSUME NEW r \in all PROVE \E a \in Of(p, taken) : a[1] = r
    <3>1. PICK n \in Attempts : <<r, n>> \in taken /\ ProductOf[r] = p
      BY DEF BackedInv, BackedInvOf, Of
    <3>2. <<r, n>> \in Of(p, taken) /\ <<r, n>>[1] = r
      BY <3>1 DEF Of
    <3> QED
      BY <3>2
  <2>2. \A r \in all : unit[r] \in Of(p, taken) /\ unit[r][1] = r
    BY <2>1
  <2> QED
    BY <2>2 DEF Injection, IsInjective
<1>2. giver \in Injection(Of(p, returned), R)
  <2>1. ASSUME NEW a \in Of(p, returned)
        PROVE  /\ a = <<a[1], a[2]>> /\ a[1] \in Requests /\ a[2] \in Attempts
               /\ a \in returned /\ a[1] \in R
    <3>1. a \in returned /\ a \in Requests \X Attempts
      BY DEF Of, TypeOK
    <3>2. a = <<a[1], a[2]>> /\ a[1] \in Requests /\ a[2] \in Attempts
      BY <3>1
    <3> QED
      BY <3>1, <3>2
  <2>2. \A a, b \in Of(p, returned) : a[1] = b[1] => a = b
    BY <2>1 DEF ReleaseInv, ReleaseInvOf
  <2> QED
    BY <2>1, <2>2 DEF Injection, IsInjective
<1>3. /\ IsFiniteSet(holders) /\ IsFiniteSet(R)
      /\ Cardinality(holders) \in Nat /\ Cardinality(R) \in Nat
  BY CheckoutAssumption, FS_Subset, FS_CardinalityType
<1>4. holders \cap R = {}
  BY DEF Of
<1>5. Cardinality(all) = Cardinality(holders) + Cardinality(R)
  <2>1. Cardinality(holders \cup R) = Cardinality(holders) + Cardinality(R) - Cardinality(holders \cap R)
    BY <1>3, FS_Union
  <2>2. Cardinality(holders \cap R) = 0
    BY <1>4, FS_EmptySet
  <2> QED
    BY <1>3, <2>1, <2>2
<1>6. Cardinality(all) <= Cardinality(Of(p, taken))
  BY <1>1, FiniteLedger, FS_Injection DEF TypeOK
<1>7. Cardinality(Of(p, returned)) <= Cardinality(R)
  BY <1>2, <1>3, FS_Injection
<1>8. /\ Cardinality(Of(p, taken)) \in Nat /\ Cardinality(Of(p, returned)) \in Nat
      /\ stock[p] \in Nat /\ Initial[p] \in Nat
  BY FiniteLedger, Catalogue DEF TypeOK
<1>9. stock[p] + Cardinality(Of(p, taken)) = Initial[p] + Cardinality(Of(p, returned))
  BY DEF StockInv, StockInvOf
<1> HIDE DEF all, R
<1> QED
  BY <1>3, <1>5, <1>6, <1>7, <1>8, <1>9

(***************************************************************************)
(* The inductive invariant.                                                *)
(***************************************************************************)

LEMMA IInvInit == Init => IInv
<1> SUFFICES ASSUME Init PROVE IInv
  OBVIOUS
<1>1. TypeOK
  BY TypeInit
<1>2. OrderInv /\ IndexInv /\ HeldInv
  BY DEF Init, OrderInv, OrderInvOf, IndexInv, IndexInvOf, HeldInv, HeldInvOf, Ordered,
         MayRunLate, BeforeCreate, Compensating, Settling
<1>3. ReplyInv
  BY NotOrders DEF Init, ReplyInv, ReplyInvOf
<1>4. AttemptInv /\ BackedInv /\ ReleaseInv /\ RejectInv
  BY DEF Init, RejectInv, RejectInvOf, AttemptInv, AttemptInvOf, BackedInv, BackedInvOf, ReleaseInv, ReleaseInvOf,
         MayRunLate, Ordered, Compensating
<1>5. StockInv
  <2> SUFFICES ASSUME NEW p \in Products PROVE StockInvOf(p)
    BY DEF StockInv
  <2>1. Of(p, taken) = {} /\ Of(p, returned) = {}
    BY DEF Init, Of
  <2>2. stock[p] = Initial[p] /\ Initial[p] \in Nat
    BY Catalogue DEF Init
  <2> QED
    BY <2>1, <2>2 DEF StockInvOf
<1> QED
  BY <1>1, <1>2, <1>3, <1>4, <1>5 DEF IInv

LEMMA IInvKept == IInv /\ UNCHANGED vars => IInv'
<1> SUFFICES ASSUME IInv, UNCHANGED vars PROVE IInv'
  OBVIOUS
<1> USE DEF vars, stockVars, orderVars, paymentVars, callVars, controlVars, IInv,
           MayRunLate, Ordered
<1>1. TypeOK'
  BY TypeStep
<1>2. OrderInv' /\ IndexInv'
  BY DEF OrderInv, OrderInvOf, IndexInv, IndexInvOf
<1>3. ReplyInv' /\ AttemptInv'
  BY DEF ReplyInv, ReplyInvOf, AttemptInv, AttemptInvOf
<1>4. HeldInv' /\ ("insert" \notin Faults => BackedInv')
  BY DEF HeldInv, HeldInvOf, BackedInv, BackedInvOf
<1>5. "release" \notin Faults => ReleaseInv'
  BY DEF ReleaseInv, ReleaseInvOf
<1>6. "reserve" \notin Faults => RejectInv'
  BY DEF RejectInv, RejectInvOf
<1>7. StockInv'
  BY StockKept DEF StockInv
<1> QED
  BY <1>1, <1>2, <1>3, <1>4, <1>5, <1>6, <1>7

LEMMA IInvNext == IInv /\ Next => IInv'
<1> SUFFICES ASSUME IInv, Next PROVE IInv'
  OBVIOUS
<1>0. CASE Finished
  BY <1>0, IInvKept DEF Finished
<1>1. CASE Crash \/ \E r \in Requests : Handler(r) \/ Late(r)
  <2>1. TypeOK'
    BY TypeStep DEF IInv
  <2>2. OrderInv'
    BY <1>1, OrderHandler, OrderLate, OrderCrash DEF IInv, OrderInv
  <2>3. IndexInv'
    BY <1>1, IndexHandler, IndexLate, IndexCrash DEF IInv, IndexInv
  <2>4. ReplyInv'
    BY <1>1, ReplyHandler, ReplyLate, ReplyCrash DEF IInv, ReplyInv
  <2>5. AttemptInv'
    BY <1>1, AttemptHandler, AttemptLate, AttemptCrash DEF IInv, AttemptInv
  <2>6. HeldInv'
    BY <1>1, HeldHandler, HeldLate, HeldCrash DEF IInv, HeldInv
  <2>7. "insert" \notin Faults => BackedInv'
    BY <1>1, BackedHandler, BackedLate, BackedCrash DEF IInv, BackedInv
  <2>8. "release" \notin Faults => ReleaseInv'
    BY <1>1, ReleaseHandler, ReleaseLate, ReleaseCrash DEF IInv, ReleaseInv
  <2>9. "reserve" \notin Faults => RejectInv'
    BY <1>1, RejectHandler, RejectLate, RejectCrash DEF IInv, RejectInv
  <2>10. StockInv'
    BY StockStep DEF IInv, StockInv
  <2> QED
    BY <2>1, <2>2, <2>3, <2>4, <2>5, <2>6, <2>7, <2>8, <2>9, <2>10 DEF IInv
<1> QED
  BY <1>0, <1>1 DEF Next

\* The named parts of IInv together are inductive: they hold at the start and
\* every step of a request, late attempt or crash preserves them.
THEOREM Invariance == Spec => []IInv
<1>1. Init => IInv
  BY IInvInit
<1>2. IInv /\ [Next]_vars => IInv'
  BY IInvNext, IInvKept
<1> QED
  BY <1>1, <1>2, PTL DEF Spec

(***************************************************************************)
(* What the invariant says of the properties; the composition with the     *)
(* worker rests on the same lemmas.                                        *)
(***************************************************************************)

LEMMA KeysInv == IInv => SameKeySameOrder
<1> SUFFICES ASSUME IInv, NEW r \in Requests, NEW s \in Requests,
                    HasKey(r), KeyOf[r] = KeyOf[s]
             PROVE  /\ Ordered(r) /\ Ordered(s) => r = s
                    /\ reply[r] \in Requests /\ reply[s] \in Requests => reply[r] = reply[s]
  BY DEF SameKeySameOrder
<1>1. \A a, b \in Requests :
          KeyOf[a] = KeyOf[r] /\ KeyOf[b] = KeyOf[r] /\ Ordered(a) /\ Ordered(b) => a = b
  BY DEF IInv, IndexInv, IndexInvOf, HasKey
<1>2. \A a \in {r, s} : reply[a] \in Requests =>
          Ordered(reply[a]) /\ KeyOf[reply[a]] = KeyOf[r]
  BY DEF IInv, ReplyInv, ReplyInvOf
<1> QED
  BY <1>1, <1>2

LEMMA PaymentsInv == IInv => PaidHasOrder /\ ConfirmedIsPaid
  BY DEF IInv, OrderInv, OrderInvOf, PaidHasOrder, ConfirmedIsPaid, MayRunLate

LEMMA UnitsInv == "insert" \notin Faults => (IInv => OrderBacked)
  BY DEF IInv, HeldInv, HeldInvOf, BackedInv, BackedInvOf, OrderBacked

LEMMA SalesInv ==
    "insert" \notin Faults /\ "release" \notin Faults => (IInv => NoOversell)
<1> SUFFICES ASSUME "insert" \notin Faults, "release" \notin Faults, IInv, NEW p \in Products
             PROVE  Cardinality({o \in Requests : Ordered(o) /\ ProductOf[o] = p}) <= Initial[p]
  BY DEF NoOversell
<1>1. \A o \in Requests : Ordered(o) =>
          /\ \E n \in Attempts : <<o, n>> \in taken
          /\ \A n \in Attempts : <<o, n>> \notin returned
  BY DEF IInv, HeldInv, HeldInvOf, BackedInv, BackedInvOf
<1> QED
  BY <1>1, UnitsOfDistinctRequests DEF IInv

LEMMA RejectionsInv == "reserve" \notin Faults => (IInv => RejectedHoldsNothing)
  BY DEF IInv, RejectInv, RejectInvOf, RejectedHoldsNothing

(***************************************************************************)
(* The properties.                                                         *)
(***************************************************************************)

\* Whatever fails, one key never leads to two orders or to two answers.
THEOREM OneOrderPerKey == Spec => []SameKeySameOrder
<1> QED
  BY KeysInv, Invariance, PTL

\* Whatever fails, nothing is charged for an order that was not persisted.
THEOREM NoPaymentWithoutOrder == Spec => []PaidHasOrder
<1> QED
  BY PaymentsInv, Invariance, PTL

\* Whatever fails, createOrder confirms paid orders only.
THEOREM NoConfirmationWithoutPayment == Spec => []ConfirmedIsPaid
<1> QED
  BY PaymentsInv, Invariance, PTL

\* An order holds its unit for good unless an insert that was applied can be
\* reported as failed: compensation then gives back what an order stands on.
THEOREM OrdersHoldTheirUnits == "insert" \notin Faults => (Spec => []OrderBacked)
<1> SUFFICES ASSUME "insert" \notin Faults PROVE Spec => []OrderBacked
  OBVIOUS
<1>1. IInv => OrderBacked
  BY UnitsInv
<1> QED
  BY <1>1, Invariance, PTL

\* A product is never oversold, by any number of requests, keys, retries and
\* crashes, unless an insert or a release can be left in doubt.
THEOREM NeverOversold ==
    "insert" \notin Faults /\ "release" \notin Faults => (Spec => []NoOversell)
<1> SUFFICES ASSUME "insert" \notin Faults, "release" \notin Faults PROVE Spec => []NoOversell
  OBVIOUS
<1>1. IInv => NoOversell
  BY SalesInv
<1> QED
  BY <1>1, Invariance, PTL

\* A client told 409 or 502 holds nothing, nor does anybody in its name, unless
\* a reservation that was given up on can have been executed.
THEOREM RejectionsHoldNothing ==
    "reserve" \notin Faults => (Spec => []RejectedHoldsNothing)
<1> SUFFICES ASSUME "reserve" \notin Faults PROVE Spec => []RejectedHoldsNothing
  OBVIOUS
<1>1. IInv => RejectedHoldsNothing
  BY RejectionsInv
<1> QED
  BY <1>1, Invariance, PTL

(***************************************************************************)
(* How often a request charges.                                            *)
(***************************************************************************)

\* The payment attempts of a request that may still be executed.
Open(q) == {n \in Attempts : MayRunLate("pay", q, n)}

\* What AttemptsBoundCharges allows a request.
Allowed(q) == CASE pc[q] = "mark" -> 0
                [] pc[q] = "pay"  -> tries[q]
                [] OTHER          -> MaxRetries + 1

ChargeInvOf(q) == charged[q] + Cardinality(Open(q)) <= Allowed(q)

LEMMA OpenFinite ==
  ASSUME NEW S \in SUBSET Attempts
  PROVE  IsFiniteSet(S) /\ Cardinality(S) \in Nat
<1>1. IsFiniteSet(Attempts)
  BY Bounds, FS_Interval DEF Attempts
<1> QED
  BY <1>1, FS_Subset, FS_CardinalityType

LEMMA OneMoreOpen ==
  ASSUME NEW S \in SUBSET Attempts, NEW T \in SUBSET Attempts, NEW n \in Attempts,
         T \subseteq S \cup {n}
  PROVE  Cardinality(T) <= Cardinality(S) + 1
<1>1. IsFiniteSet(S) /\ Cardinality(S) \in Nat /\ Cardinality(T) \in Nat
  BY OpenFinite
<1>2. /\ IsFiniteSet(S \cup {n})
      /\ Cardinality(S \cup {n}) = IF n \in S THEN Cardinality(S) ELSE Cardinality(S) + 1
  BY <1>1, FS_AddElement
<1>3. Cardinality(T) <= Cardinality(S \cup {n})
  BY <1>2, FS_Subset
<1> QED
  BY <1>1, <1>2, <1>3

LEMMA OneLessOpen ==
  ASSUME NEW S \in SUBSET Attempts, NEW n \in S
  PROVE  Cardinality(S \ {n}) = Cardinality(S) - 1
  BY OpenFinite, FS_RemoveElement

\* The allowance is a number, at least the failed attempts while paying.
LEMMA AllowedIsNat ==
  ASSUME TypeOK, NEW q \in Requests
  PROVE  /\ Allowed(q) \in Nat /\ Allowed(q) <= MaxRetries + 1
         /\ charged[q] \in Nat /\ Cardinality(Open(q)) \in Nat
         /\ tries[q] \in Nat /\ tries[q] <= MaxRetries
         /\ pc[q] \notin {"mark", "pay"} => Allowed(q) = MaxRetries + 1
         /\ pc[q] = "pay" => Allowed(q) = tries[q]
         /\ pc[q] = "mark" => Allowed(q) = 0
<1>1. charged[q] \in Nat /\ tries[q] \in 0 .. MaxRetries /\ MaxRetries \in Nat
  BY Bounds DEF TypeOK, Attempts
<1>2. Cardinality(Open(q)) \in Nat
  BY OpenFinite DEF Open
<1> QED
  BY <1>1, <1>2 DEF Allowed

\* A step that neither charges a request nor opens an attempt of it, and does
\* not take it to its first status update or its payment.
LEMMA ChargeQuiet ==
  ASSUME TypeOK, TypeOK', NEW q \in Requests, ChargeInvOf(q),
         charged'[q] = charged[q],
         \A n \in Attempts : MayRunLate("pay", q, n)' = MayRunLate("pay", q, n),
         (pc'[q] = pc[q] /\ tries'[q] = tries[q]) \/ pc'[q] \notin {"mark", "pay"}
  PROVE  ChargeInvOf(q)'
<1>1. Open(q)' = Open(q)
  BY DEF Open
<1>2. /\ Allowed(q) \in Nat /\ Allowed(q) <= MaxRetries + 1 /\ Cardinality(Open(q)) \in Nat
      /\ charged[q] \in Nat
  BY AllowedIsNat
<1>3. Allowed(q)' = Allowed(q) \/ Allowed(q)' = MaxRetries + 1
  BY DEF Allowed
<1>4. charged'[q] + Cardinality(Open(q)') <= Allowed(q)'
  BY <1>1, <1>2, <1>3, Bounds DEF ChargeInvOf
<1> QED
  BY <1>4 DEF ChargeInvOf

LEMMA NothingOpen ==
  ASSUME OrderInv, NEW q \in Requests, ~Ordered(q)
  PROVE  \A n \in Attempts : ~MayRunLate("pay", q, n)
  BY DEF OrderInv, OrderInvOf

LEMMA ChargeHandler ==
  ASSUME TypeOK, TypeOK', OrderInv, NEW r \in Requests, Handler(r),
         NEW q \in Requests, ChargeInvOf(q)
  PROVE  ChargeInvOf(q)'
<1> DEFINE Quiet ==
       /\ charged'[q] = charged[q]
       /\ \A n \in Attempts : MayRunLate("pay", q, n)' = MayRunLate("pay", q, n)
       /\ (pc'[q] = pc[q] /\ tries'[q] = tries[q]) \/ pc'[q] \notin {"mark", "pay"}
<1>q. Quiet => ChargeInvOf(q)'
  BY ChargeQuiet
<1>a. /\ Allowed(q) \in Nat /\ Allowed(q) <= MaxRetries + 1
      /\ charged[q] \in Nat /\ Cardinality(Open(q)) \in Nat
      /\ tries[q] \in Nat /\ tries[q] <= MaxRetries
      /\ pc[q] = "pay" => Allowed(q) = tries[q]
      /\ pc[q] = "mark" => Allowed(q) = 0
  BY AllowedIsNat
<1>b. /\ tries'[q] \in Nat
      /\ charged'[q] \in Nat /\ Cardinality(Open(q)') \in Nat
      /\ pc'[q] \notin {"mark", "pay"} => Allowed(q)' = MaxRetries + 1
      /\ pc'[q] = "pay" => Allowed(q)' = tries'[q]
      /\ pc'[q] = "mark" => Allowed(q)' = 0
  BY OpenFinite, Bounds DEF Open, TypeOK, Attempts, Allowed
<1>c. charged[q] + Cardinality(Open(q)) <= Allowed(q)
  BY DEF ChargeInvOf
<1>d. pc \in [Requests -> Steps] /\ tries \in [Requests -> Attempts] /\ charged \in [Requests -> Nat]
  BY DEF TypeOK
<1>f. \* An abandoned payment attempt opens at most itself.
      ASSUME NEW op \in Calls, Abandon(op, r) \/ UNCHANGED late
      PROVE  /\ Open(q)' \subseteq Open(q) \cup {tries[q]}
             /\ q # r \/ op # "pay" =>
                    \A n \in Attempts : MayRunLate("pay", q, n)' = MayRunLate("pay", q, n)
  BY <1>f DEF Abandon, Open, MayRunLate
<1>g. ASSUME NEW op \in Calls, Abandon(op, r) \/ UNCHANGED late
      PROVE  Cardinality(Open(q)') <= Cardinality(Open(q)) + 1
  <2>1. Open(q)' \subseteq Open(q) \cup {tries[q]}
    BY <1>f, <1>g
  <2> QED
    BY <2>1, <1>d, OneMoreOpen DEF Open
<1> USE <1>d DEF stockVars, orderVars, paymentVars, callVars, controlVars, Goto, Answer, CallReturns
<1>1. CASE Lookup(r)
  BY <1>1, <1>q DEF Lookup, MayRunLate
<1>2. CASE Validate(r)
  BY <1>2, <1>q DEF Validate, MayRunLate
<1>3. ASSUME NEW op \in Calls, RetryCall(op, r) PROVE ChargeInvOf(q)'
  <2>1. CASE q # r \/ op # "pay"
    <3>1. \A n \in Attempts : MayRunLate("pay", q, n)' = MayRunLate("pay", q, n)
      BY <1>3, <1>f, <2>1 DEF RetryCall
    <3>2. charged'[q] = charged[q] /\ pc'[q] = pc[q]
      BY <1>3 DEF RetryCall
    <3>3. tries'[q] = tries[q] \/ (q = r /\ pc[q] = op /\ op # "pay")
      BY <1>3, <2>1 DEF RetryCall
    <3>4. op # "mark"
      BY DEF Calls
    <3> QED
      BY <3>1, <3>2, <3>3, <3>4, <1>q
  <2>2. CASE q = r /\ op = "pay"
    <3>1. charged'[q] = charged[q] /\ pc[q] = "pay" /\ pc'[q] = "pay" /\ tries'[q] = tries[q] + 1
      BY <1>3, <2>2 DEF RetryCall
    <3>2. Cardinality(Open(q)') <= Cardinality(Open(q)) + 1
      BY <1>3, <1>g DEF RetryCall
    <3>3. charged'[q] + Cardinality(Open(q)') <= Allowed(q)'
      BY <3>1, <3>2, <1>a, <1>b, <1>c
    <3> QED
      BY <3>3 DEF ChargeInvOf
  <2> QED
    BY <2>1, <2>2
<1>4. CASE ReserveServed(r)
  BY <1>4, <1>q DEF ReserveServed, MayRunLate
<1>5. CASE ReserveConflict(r)
  BY <1>5, <1>q DEF ReserveConflict, MayRunLate
<1>6. CASE ReserveFails(r)
  <2>1. \A n \in Attempts : MayRunLate("pay", q, n)' = MayRunLate("pay", q, n)
    BY <1>6, <1>f, Names DEF ReserveFails, CallFails
  <2> QED
    BY <1>6, <2>1, <1>q DEF ReserveFails, CallFails
<1>7. CASE Create(r)
  <2>1. /\ charged'[q] = charged[q] /\ late' = late
        /\ tries'[q] = tries[q]
        /\ (pc'[q] = pc[q]) \/ (pc'[q] = "release") \/ (q = r /\ pc'[q] = "mark" /\ pc[r] = "create")
    BY <1>7 DEF Create
  <2>2. CASE q = r /\ pc'[q] = "mark" /\ pc[r] = "create"
    <3>1. ~Ordered(q)
      BY <2>2 DEF OrderInv, OrderInvOf, BeforeCreate
    <3>2. charged[q] = 0
      BY <3>1, <1>a DEF OrderInv, OrderInvOf
    <3>3. Open(q)' = {}
      BY <3>1, <2>1, NothingOpen DEF Open, MayRunLate
    <3>4. Cardinality(Open(q)') = 0
      BY <3>3, FS_EmptySet
    <3>5. charged'[q] + Cardinality(Open(q)') <= Allowed(q)'
      BY <3>2, <3>4, <2>1, <2>2, <1>b
    <3> QED
      BY <3>5 DEF ChargeInvOf
  <2>3. CASE pc'[q] = pc[q] \/ pc'[q] = "release"
    BY <2>1, <2>3, <1>q DEF MayRunLate
  <2> QED
    BY <2>1, <2>2, <2>3
<1>8. CASE ReleaseServed(r)
  BY <1>8, <1>q DEF ReleaseServed, AfterRelease, MayRunLate
<1>9. CASE ReleaseFails(r)
  <2>1. \A n \in Attempts : MayRunLate("pay", q, n)' = MayRunLate("pay", q, n)
    BY <1>9, <1>f, Names DEF ReleaseFails, CallFails
  <2> QED
    BY <1>9, <2>1, <1>q DEF ReleaseFails, CallFails, AfterRelease
<1>10. CASE Relookup(r)
  BY <1>10, <1>q DEF Relookup, MayRunLate
<1>11. CASE MarkPending(r)
  <2>1. /\ charged'[q] = charged[q] /\ late' = late
        /\ tries'[q] = tries[q]
        /\ (pc'[q] = pc[q]) \/ (pc'[q] = "done") \/ (q = r /\ pc'[q] = "pay" /\ pc[q] = "mark")
    BY <1>11 DEF MarkPending
  <2>2. CASE q = r /\ pc'[q] = "pay" /\ pc[q] = "mark"
    <3>1. Open(q)' = Open(q)
      BY <2>1 DEF Open, MayRunLate
    <3>2. charged'[q] + Cardinality(Open(q)') <= Allowed(q)'
      BY <3>1, <2>1, <2>2, <1>a, <1>b, <1>c
    <3> QED
      BY <3>2 DEF ChargeInvOf
  <2>3. CASE pc'[q] = pc[q] \/ pc'[q] = "done"
    BY <2>1, <2>3, <1>q DEF MayRunLate
  <2> QED
    BY <2>1, <2>2, <2>3
<1>12. CASE PaymentAccepted(r)
  <2>1. late' = late
    BY <1>12 DEF PaymentAccepted
  <2>2. CASE q = r
    <3>1. charged'[q] = charged[q] + 1 /\ pc[q] = "pay" /\ pc'[q] = "confirm"
      BY <1>12, <2>2 DEF PaymentAccepted
    <3>2. Open(q)' = Open(q)
      BY <2>1 DEF Open, MayRunLate
    <3>3. charged'[q] + Cardinality(Open(q)') <= Allowed(q)'
      BY <3>1, <3>2, <1>a, <1>b, <1>c, Bounds
    <3> QED
      BY <3>3 DEF ChargeInvOf
  <2>3. CASE q # r
    BY <1>12, <2>1, <2>3, <1>q DEF PaymentAccepted, MayRunLate
  <2> QED
    BY <2>2, <2>3
<1>13. CASE PaymentFails(r)
  <2>1. CASE q = r
    <3>1. charged'[q] = charged[q] /\ pc[q] = "pay" /\ pc'[q] = "publish"
      BY <1>13, <2>1 DEF PaymentFails, CallFails
    <3>2. (tries[q] = MaxRetries /\ Abandon("pay", r)) \/ late' = late
      BY <1>13, <2>1 DEF PaymentFails, CallFails
    <3>3. CASE tries[q] = MaxRetries /\ Abandon("pay", r)
      <4>1. Cardinality(Open(q)') <= Cardinality(Open(q)) + 1
        BY <3>3, <1>g, Names
      <4>2. charged'[q] + Cardinality(Open(q)') <= Allowed(q)'
        BY <3>1, <3>3, <4>1, <1>a, <1>b, <1>c, Bounds
      <4> QED
        BY <4>2 DEF ChargeInvOf
    <3>4. CASE late' = late
      BY <3>1, <3>4, <1>q DEF MayRunLate
    <3> QED
      BY <3>2, <3>3, <3>4
  <2>2. CASE q # r
    <3>1. \A n \in Attempts : MayRunLate("pay", q, n)' = MayRunLate("pay", q, n)
      BY <1>13, <1>f, <2>2, Names DEF PaymentFails, CallFails
    <3> QED
      BY <1>13, <2>2, <3>1, <1>q DEF PaymentFails, CallFails
  <2> QED
    BY <2>1, <2>2
<1>14. CASE PublishRetry(r)
  BY <1>14, <1>q DEF PublishRetry, MayRunLate
<1>15. CASE Confirm(r)
  BY <1>15, <1>q DEF Confirm, MayRunLate
<1> QED
  BY <1>1, <1>2, <1>3, <1>4, <1>5, <1>6, <1>7, <1>8, <1>9, <1>10, <1>11,
     <1>12, <1>13, <1>14, <1>15 DEF Handler

\* An attempt executed late charges what it might have charged anyway.
LEMMA LateSpends ==
  ASSUME TypeOK, NEW r \in Requests, Late(r), NEW q \in Requests
  PROVE  charged'[q] + Cardinality(Open(q)') = charged[q] + Cardinality(Open(q))
<1>0. charged \in [Requests -> Nat] /\ charged[q] \in Nat /\ Cardinality(Open(q)) \in Nat
  BY OpenFinite DEF TypeOK, Open
<1>1. PICK n \in Attempts : LateReserve(r, n) \/ LateRelease(r, n) \/ LatePayment(r, n)
  BY DEF Late
<1>2. CASE LateReserve(r, n) \/ LateRelease(r, n) \/ q # r
  <2>1. charged'[q] = charged[q]
    BY <1>0, <1>1, <1>2 DEF LateReserve, LateRelease, LatePayment, paymentVars
  <2>2. \A m \in Attempts : MayRunLate("pay", q, m)' = MayRunLate("pay", q, m)
    BY <1>1, <1>2 DEF LateReserve, LateRelease, LatePayment, Unlate, MayRunLate
  <2>3. Open(q)' = Open(q)
    BY <2>2 DEF Open
  <2> QED
    BY <2>1, <2>3
<1>3. CASE LatePayment(r, n) /\ q = r
  <2>1. charged'[q] = charged[q] + 1
    BY <1>0, <1>3 DEF LatePayment
  <2>2. n \in Open(q) /\ Open(q)' = Open(q) \ {n}
    BY <1>3 DEF LatePayment, Unlate, MayRunLate, Open
  <2>3. Cardinality(Open(q)') = Cardinality(Open(q)) - 1
    BY <2>2, OneLessOpen DEF Open
  <2> QED
    BY <1>0, <2>1, <2>3
<1> QED
  BY <1>1, <1>2, <1>3

LEMMA ChargeLate ==
  ASSUME TypeOK, NEW r \in Requests, Late(r), NEW q \in Requests, ChargeInvOf(q)
  PROVE  ChargeInvOf(q)'
<1>1. pc' = pc /\ tries' = tries
  BY DEF Late, LateReserve, LateRelease, LatePayment, controlVars
<1>2. Allowed(q)' = Allowed(q)
  BY <1>1 DEF Allowed
<1> QED
  BY <1>2, LateSpends DEF ChargeInvOf

LEMMA ChargeCrash ==
  ASSUME TypeOK, TypeOK', Crash, NEW q \in Requests, ChargeInvOf(q)
  PROVE  ChargeInvOf(q)'
<1>1. /\ charged' = charged /\ tries' = tries
      /\ pc' = [r \in Requests |-> IF r \in InProgress THEN "done" ELSE pc[r]]
      /\ late' = late \cup {<<pc[r], r, tries[r]>> : r \in {s \in InProgress : pc[s] \in Calls}}
  BY DEF Crash, paymentVars
<1>2. CASE pc[q] = "pay"
  <2>1. pc'[q] = "done"
    BY <1>1, <1>2 DEF InProgress
  <2>2. Open(q)' \subseteq Open(q) \cup {tries[q]}
    BY <1>1 DEF Open, MayRunLate
  <2>3. Cardinality(Open(q)') <= Cardinality(Open(q)) + 1
    BY <2>2, OneMoreOpen DEF Open, TypeOK
  <2>4. Allowed(q)' = MaxRetries + 1 /\ Cardinality(Open(q)') \in Nat
    BY <2>1, OpenFinite DEF Allowed, Open
  <2>5. charged'[q] + Cardinality(Open(q)') <= Allowed(q)'
    BY <1>1, <1>2, <2>3, <2>4, AllowedIsNat, Bounds DEF ChargeInvOf
  <2> QED
    BY <2>5 DEF ChargeInvOf
<1>3. CASE pc[q] # "pay"
  <2>1. \A n \in Attempts : MayRunLate("pay", q, n)' = MayRunLate("pay", q, n)
    BY <1>1, <1>3 DEF MayRunLate
  <2>2. (pc'[q] = pc[q] /\ tries'[q] = tries[q]) \/ pc'[q] \notin {"mark", "pay"}
    BY <1>1
  <2> QED
    BY <1>1, <2>1, <2>2, ChargeQuiet
<1> QED
  BY <1>2, <1>3

\* A request that is over charges nothing but what it left behind.
LEMMA HandlerSpendsAtHome ==
  ASSUME TypeOK, NEW r \in Requests, Handler(r), NEW q \in Requests, pc[q] = "done"
  PROVE  /\ charged'[q] = charged[q]
         /\ \A n \in Attempts : MayRunLate("pay", q, n)' = MayRunLate("pay", q, n)
<1> USE DEF stockVars, orderVars, paymentVars, callVars, controlVars, Goto, Answer, CallReturns,
        CallFails, Abandon, MayRunLate
<1>0. charged \in [Requests -> Nat]
  BY DEF TypeOK
<1>1. CASE Lookup(r) \/ Validate(r)
  BY <1>1 DEF Lookup, Validate
<1>2. ASSUME NEW op \in Calls, RetryCall(op, r)
      PROVE  /\ charged'[q] = charged[q]
             /\ \A n \in Attempts : MayRunLate("pay", q, n)' = MayRunLate("pay", q, n)
  BY <1>2 DEF RetryCall, Calls
<1>3. CASE ReserveServed(r) \/ ReserveConflict(r) \/ ReserveFails(r)
  BY <1>3 DEF ReserveServed, ReserveConflict, ReserveFails
<1>4. CASE Create(r) \/ ReleaseServed(r) \/ ReleaseFails(r) \/ Relookup(r)
  BY <1>4 DEF Create, ReleaseServed, ReleaseFails, Relookup
<1>5. CASE MarkPending(r) \/ PublishRetry(r) \/ Confirm(r)
  BY <1>5 DEF MarkPending, PublishRetry, Confirm
<1>6. CASE PaymentAccepted(r) \/ PaymentFails(r)
  <2>1. q # r
    BY <1>6 DEF PaymentAccepted, PaymentFails
  <2> QED
    BY <1>0, <1>6, <2>1 DEF PaymentAccepted, PaymentFails
<1> QED
  BY <1>1, <1>2, <1>3, <1>4, <1>5, <1>6 DEF Handler

LEMMA SpentWhenDone ==
  ASSUME TypeOK, [Next]_vars, NEW q \in Requests, pc[q] = "done"
  PROVE  charged'[q] + Cardinality(Open(q)') = charged[q] + Cardinality(Open(q))
<1>1. CASE \E r \in Requests : Late(r)
  BY <1>1, LateSpends
<1>2. CASE ~ \E r \in Requests : Late(r)
  <2>1. /\ charged'[q] = charged[q]
        /\ \A n \in Attempts : MayRunLate("pay", q, n)' = MayRunLate("pay", q, n)
    <3>1. CASE \E r \in Requests : Handler(r)
      BY <3>1, HandlerSpendsAtHome
    <3>2. CASE Crash
      BY <3>2 DEF Crash, InProgress, paymentVars, MayRunLate
    <3>3. CASE Finished \/ UNCHANGED vars
      BY <3>3 DEF Finished, vars, paymentVars, callVars, MayRunLate
    <3> QED
      BY <1>2, <3>1, <3>2, <3>3 DEF Next
  <2>2. Open(q)' = Open(q)
    BY <2>1 DEF Open
  <2> QED
    BY <2>1, <2>2
<1> QED
  BY <1>1, <1>2

LEMMA ChargeInvIsTheBound ==
  AttemptsBoundCharges <=> \A q \in Requests : ChargeInvOf(q)
  BY DEF AttemptsBoundCharges, ChargeInvOf, Open, Allowed, MayRunLate

LEMMA ChargeInit ==
  ASSUME Init, NEW q \in Requests
  PROVE  ChargeInvOf(q)
<1>1. Open(q) = {} /\ charged[q] = 0 /\ Allowed(q) = MaxRetries + 1
  BY DEF Init, Open, MayRunLate, Allowed
<1> QED
  BY <1>1, FS_EmptySet, Bounds DEF ChargeInvOf

LEMMA ChargeStep ==
  ASSUME TypeOK, TypeOK', OrderInv, [Next]_vars, NEW q \in Requests, ChargeInvOf(q)
  PROVE  ChargeInvOf(q)'
<1>1. CASE \E r \in Requests : Handler(r) \/ Late(r)
  BY <1>1, ChargeHandler, ChargeLate
<1>2. CASE Crash
  BY <1>2, ChargeCrash
<1>3. CASE Finished \/ UNCHANGED vars
  <2>1. /\ charged'[q] = charged[q] /\ pc'[q] = pc[q] /\ tries'[q] = tries[q]
        /\ \A n \in Attempts : MayRunLate("pay", q, n)' = MayRunLate("pay", q, n)
    BY <1>3 DEF Finished, vars, paymentVars, controlVars, callVars, MayRunLate
  <2> QED
    BY <2>1, ChargeQuiet
<1> QED
  BY <1>1, <1>2, <1>3 DEF Next

\* One request charges at most once per attempt of its one payment call, those
\* that may still be executed included, whatever fails or crashes.
THEOREM ChargesAreBounded == Spec => []AttemptsBoundCharges
<1>1. Init => AttemptsBoundCharges
  BY ChargeInit, ChargeInvIsTheBound
<1>2. IInv /\ IInv' /\ AttemptsBoundCharges /\ [Next]_vars => AttemptsBoundCharges'
  <2> SUFFICES ASSUME IInv, IInv', \A q \in Requests : ChargeInvOf(q), [Next]_vars,
                      NEW q \in Requests
               PROVE  ChargeInvOf(q)'
    BY ChargeInvIsTheBound DEF AttemptsBoundCharges, ChargeInvOf, Open, Allowed, MayRunLate
  <2> QED
    BY ChargeStep DEF IInv
<1> QED
  BY <1>1, <1>2, Invariance, PTL DEF Spec

(***************************************************************************)
(* Checkout implements Placement, step by step.                            *)
(***************************************************************************)

Sold == {o \in Requests : Ordered(o)}

\* What Placement lets a step of request r do.
PromisedStep == Promise!Next \/ UNCHANGED <<Sold, reply>>

LEMMA PromiseInit == Init => Promise!Init
  BY DEF Init, Promise!Init, Ordered

\* The instance has its own copy of the operators of FiniteSets.
LEMMA SameCardinality ==
  ASSUME NEW S
  PROVE  Promise!Cardinality(S) = Cardinality(S)
  BY DEF Promise!Cardinality, Cardinality

\* A step that inserts no order leaves Sold alone.
LEMMA SoldKept ==
  ASSUME TypeOK, NEW r \in Requests, NEW initiated, NEW status \in Statuses \ {"absent"},
         Ordered(r), SetPayment(r, initiated, status)
  PROVE  Sold' = Sold
  BY DEF TypeOK, Sold, Ordered, SetPayment

LEMMA AcceptPromised ==
  ASSUME IInv, NEW r \in Requests, NEW o \in Requests, pc[r] # "done", Ordered(o),
         o = r \/ (HasKey(r) /\ KeyOf[o] = KeyOf[r]), Answer(r, o), Sold' = Sold
  PROVE  Promise!Next
<1>1. reply[r] = "none"
  BY DEF IInv, ReplyInv, ReplyInvOf
<1>2. Promise!Accept(r, o)
  BY <1>1 DEF Promise!Accept, Answer, Sold, HasKey
<1> QED
  BY <1>2 DEF Promise!Next

LEMMA RejectPromised ==
  ASSUME IInv, NEW r \in Requests, NEW failure \in {"conflict", "upstream"},
         pc[r] \in BeforeCreate, Answer(r, failure), Sold' = Sold
  PROVE  Promise!Next
<1>1. reply[r] = "none" /\ ~Ordered(r)
  BY DEF IInv, ReplyInv, ReplyInvOf, OrderInv, OrderInvOf, BeforeCreate
<1>2. Promise!Reject(r, failure)
  BY <1>1 DEF Promise!Reject, Answer, Sold
<1> QED
  BY <1>2 DEF Promise!Next

LEMMA DoubtPromised ==
  ASSUME IInv, NEW r \in Requests, pc[r] # "done", Answer(r, "internal"), Sold' = Sold
  PROVE  Promise!Next
<1>1. reply[r] = "none"
  BY DEF IInv, ReplyInv, ReplyInvOf
<1>2. reply' = [q \in Requests |-> IF q \in {r} THEN "internal" ELSE reply[q]]
  BY DEF Answer, IInv, TypeOK
<1>3. Promise!LeaveInDoubt({r}, "internal")
  BY <1>1, <1>2 DEF Promise!LeaveInDoubt, Sold
<1> QED
  BY <1>3 DEF Promise!Next

LEMMA SellPromised ==
  ASSUME IInv, "insert" \notin Faults, "release" \notin Faults,
         NEW r \in Requests, pc[r] = "create", InsertOrder(r), UNCHANGED reply
  PROVE  Promise!Next
<1>1. reply[r] = "none" /\ ~Ordered(r)
  BY DEF IInv, ReplyInv, ReplyInvOf, OrderInv, OrderInvOf, BeforeCreate
<1>2. Sold' = Sold \cup {r}
  BY DEF IInv, TypeOK, InsertOrder, SetPayment, Sold, Ordered
<1>3. KeyOf[r] # NoKey => \A o \in Sold : KeyOf[o] # KeyOf[r]
  BY DEF InsertOrder, IndexRejects, OrdersUnderKey, Sold
<1>4. Cardinality({o \in Sold : ProductOf[o] = ProductOf[r]}) < Initial[ProductOf[r]]
  <2> DEFINE buyers == {o \in Sold : ProductOf[o] = ProductOf[r]}
  <2>1. buyers \in SUBSET Requests /\ r \notin buyers
    BY <1>1 DEF Sold
  <2>2. \A o \in buyers \cup {r} :
            /\ ProductOf[o] = ProductOf[r]
            /\ \E n \in Attempts : <<o, n>> \in taken
            /\ \A n \in Attempts : <<o, n>> \notin returned
    <3>1. \A o \in buyers \cup {r} : \E n \in Attempts : <<o, n>> \in taken
      BY DEF IInv, HeldInv, HeldInvOf, Sold
    <3>2. \A o \in Sold : \A n \in Attempts : <<o, n>> \notin returned
      BY DEF IInv, BackedInv, BackedInvOf, Sold
    <3>3. \A n \in Attempts : <<r, n>> \notin returned
      BY DEF IInv, AttemptInv, AttemptInvOf
    <3> QED
      BY <3>1, <3>2, <3>3
  <2>3. ProductOf[r] \in Products
    BY Catalogue
  <2>4. Cardinality(buyers \cup {r}) <= Initial[ProductOf[r]]
    <3> HIDE DEF buyers
    <3>1. buyers \cup {r} \in SUBSET Requests
      BY <2>1
    <3> QED
      BY <2>2, <2>3, <3>1, UnitsOfDistinctRequests DEF IInv
  <2>5. IsFiniteSet(buyers) /\ Cardinality(buyers) \in Nat
    BY <2>1, CheckoutAssumption, FS_Subset, FS_CardinalityType
  <2>6. Cardinality(buyers \cup {r}) = Cardinality(buyers) + 1
    BY <2>1, <2>5, FS_AddElement
  <2>7. Initial[ProductOf[r]] \in Nat
    BY <2>3, Catalogue
  <2> QED
    BY <2>4, <2>5, <2>6, <2>7
<1>5. Promise!Sell(r)
  <2>1. r \notin Sold
    BY <1>1 DEF Sold
  <2> QED
    BY <1>1, <1>2, <1>3, <1>4, <2>1, SameCardinality DEF Promise!Sell, Sold
<1> QED
  BY <1>5 DEF Promise!Next

LEMMA HandlerPromised ==
  ASSUME IInv, "insert" \notin Faults, "release" \notin Faults,
         NEW r \in Requests, Handler(r)
  PROVE  PromisedStep
<1> USE DEF PromisedStep
<1>0. UNCHANGED orderVars => Sold' = Sold
  BY DEF orderVars, Sold, Ordered
<1>1. CASE Lookup(r)
  BY <1>0, <1>1, AcceptPromised, DoubtPromised DEF Lookup, Goto, OrdersUnderKey
<1>2. CASE Validate(r)
  BY <1>0, <1>2, RejectPromised DEF Validate, Goto, BeforeCreate
<1>3. ASSUME NEW op \in Calls, RetryCall(op, r) PROVE PromisedStep
  BY <1>0, <1>3 DEF RetryCall, controlVars
<1>4. CASE ReserveServed(r)
  BY <1>0, <1>4 DEF ReserveServed, Goto
<1>5. CASE ReserveConflict(r)
  BY <1>0, <1>5, RejectPromised DEF ReserveConflict, CallReturns, BeforeCreate
<1>6. CASE ReserveFails(r)
  BY <1>0, <1>6, RejectPromised DEF ReserveFails, CallFails, BeforeCreate
<1>7. CASE Create(r)
  <2>1. CASE InsertOrder(r) /\ Goto(r, "mark")
    BY <1>7, <2>1, SellPromised DEF Create, Goto
  <2>2. CASE UNCHANGED orderVars /\ Goto(r, "release")
    BY <1>0, <2>2 DEF Goto
  <2> QED
    BY <1>7, <2>1, <2>2 DEF Create
<1>8. CASE ReleaseServed(r)
  BY <1>0, <1>8, DoubtPromised DEF ReleaseServed, CallReturns, AfterRelease, Goto
<1>9. CASE ReleaseFails(r)
  BY <1>0, <1>9, DoubtPromised DEF ReleaseFails, CallFails, AfterRelease, Goto
<1>10. CASE Relookup(r)
  <2>1. HasKey(r)
    BY <1>10 DEF Relookup, IInv, ReplyInv, ReplyInvOf
  <2> QED
    BY <1>0, <1>10, <2>1, AcceptPromised, DoubtPromised DEF Relookup, OrdersUnderKey
<1>11. CASE MarkPending(r)
  <2>1. Ordered(r)
    BY <1>11 DEF MarkPending, IInv, OrderInv, OrderInvOf, Ordered
  <2>2. "payment_pending" \in Statuses \ {"absent"}
    BY Names
  <2>3. Sold' = Sold
    BY <1>0, <1>11, <2>1, <2>2, SoldKept DEF MarkPending, IInv
  <2> QED
    BY <1>11, <2>3, DoubtPromised DEF MarkPending, Goto
<1>12. CASE PaymentAccepted(r)
  BY <1>0, <1>12 DEF PaymentAccepted, Goto
<1>13. CASE PaymentFails(r)
  BY <1>0, <1>13 DEF PaymentFails, Goto
<1>14. CASE PublishRetry(r)
  <2>1. Ordered(r)
    BY <1>14 DEF PublishRetry, IInv, OrderInv, OrderInvOf, Settling, Ordered
  <2> QED
    BY <1>0, <1>14, <2>1, AcceptPromised DEF PublishRetry
<1>15. CASE Confirm(r)
  <2>1. Ordered(r)
    BY <1>15 DEF Confirm, IInv, OrderInv, OrderInvOf, Settling, Ordered
  <2>2. "confirmed" \in Statuses \ {"absent"}
    BY Names
  <2>3. Sold' = Sold
    BY <1>0, <1>15, <2>1, <2>2, SoldKept DEF Confirm, IInv
  <2> QED
    BY <1>15, <2>1, <2>3, AcceptPromised, DoubtPromised DEF Confirm
<1> QED
  BY <1>1, <1>2, <1>3, <1>4, <1>5, <1>6, <1>7, <1>8, <1>9, <1>10, <1>11,
     <1>12, <1>13, <1>14, <1>15 DEF Handler

LEMMA CrashPromised ==
  ASSUME IInv, Crash
  PROVE  Promise!Next
<1>1. \A r \in InProgress : reply[r] = "none"
  BY DEF IInv, ReplyInv, ReplyInvOf, InProgress
<1>2. Sold' = Sold
  BY DEF Crash, orderVars, Sold, Ordered
<1>3. Promise!LeaveInDoubt(InProgress, "dropped")
  BY <1>1, <1>2 DEF Promise!LeaveInDoubt, Crash, Sold
<1>4. InProgress \in SUBSET Requests
  BY DEF InProgress
<1> QED
  BY <1>3, <1>4 DEF Promise!Next

LEMMA StepPromised ==
  ASSUME IInv, "insert" \notin Faults, "release" \notin Faults, [Next]_vars
  PROVE  PromisedStep
<1>1. CASE \E r \in Requests : Handler(r)
  BY <1>1, HandlerPromised
<1>2. CASE \E r \in Requests : Late(r)
  BY <1>2 DEF Late, LateReserve, LateRelease, LatePayment, orderVars, controlVars,
              PromisedStep, Sold, Ordered
<1>3. CASE Crash
  BY <1>3, CrashPromised DEF PromisedStep
<1>4. CASE Finished \/ UNCHANGED vars
  BY <1>4 DEF Finished, vars, orderVars, controlVars, PromisedStep, Sold, Ordered
<1> QED
  BY <1>1, <1>2, <1>3, <1>4 DEF Next

\* Unless an insert or a release can be left in doubt, every execution of
\* createOrder is one Placement allows: each of its steps sells one unit that
\* is left, answers one request within the promise, or shows nothing.
THEOREM ImplementsPlacement ==
    "insert" \notin Faults /\ "release" \notin Faults => (Spec => PlacesOrders)
<1> SUFFICES ASSUME "insert" \notin Faults, "release" \notin Faults
             PROVE  Spec => PlacesOrders
  OBVIOUS
<1>1. Init => Promise!Init
  BY PromiseInit
<1>2. IInv /\ [Next]_vars => [Promise!Next]_<<{o \in Requests : Ordered(o)}, reply>>
  BY StepPromised DEF PromisedStep, Sold
<1> QED
  BY <1>1, <1>2, Invariance, PTL DEF Spec, PlacesOrders, Promise!Spec

(***************************************************************************)
(* A request goes on until it is answered.                                 *)
(***************************************************************************)

LEMMA Ahead ==
  /\ StepsLeft("arrive") = 7 /\ StepsLeft("validate") = 6 /\ StepsLeft("reserve") = 5
  /\ StepsLeft("create") = 4 /\ StepsLeft("mark") = 3 /\ StepsLeft("release") = 3
  /\ StepsLeft("pay") = 2 /\ StepsLeft("relookup") = 2
  /\ StepsLeft("publish") = 1 /\ StepsLeft("confirm") = 1 /\ StepsLeft("done") = 0
  BY DEF StepsLeft

LEMMA AheadOfDone ==
  ASSUME NEW s \in Steps, s # "done"
  PROVE  StepsLeft("done") < StepsLeft(s)
  BY Ahead DEF Steps

LEMMA HandlerAdvances ==
  ASSUME TypeOK, NEW r \in Requests, Handler(r)
  PROVE  Advances(r) /\ \A q \in Requests : q # r => Rests(q)
<1> USE Ahead DEF TypeOK, Advances, Rests, Goto, Answer, CallReturns, CallFails, callVars, controlVars
<1>1. CASE Lookup(r)
  BY <1>1 DEF Lookup
<1>2. CASE Validate(r)
  BY <1>2 DEF Validate
<1>3. ASSUME NEW op \in Calls, RetryCall(op, r)
      PROVE  Advances(r) /\ \A q \in Requests : q # r => Rests(q)
  BY <1>3, Bounds DEF RetryCall, Attempts
<1>4. CASE ReserveServed(r) \/ ReserveConflict(r) \/ ReserveFails(r)
  BY <1>4 DEF ReserveServed, ReserveConflict, ReserveFails
<1>5. CASE Create(r)
  BY <1>5 DEF Create
<1>6. CASE ReleaseServed(r) \/ ReleaseFails(r)
  BY <1>6 DEF ReleaseServed, ReleaseFails, AfterRelease
<1>7. CASE Relookup(r)
  BY <1>7 DEF Relookup
<1>8. CASE MarkPending(r)
  <2>1. pc[r] = "mark" /\ \E step \in {"pay", "done"} : pc' = [pc EXCEPT ![r] = step]
    BY <1>8 DEF MarkPending
  <2> QED
    BY <1>8, <2>1 DEF MarkPending
<1>9. CASE PaymentAccepted(r) \/ PaymentFails(r)
  BY <1>9 DEF PaymentAccepted, PaymentFails
<1>10. CASE PublishRetry(r) \/ Confirm(r)
  <2>1. pc[r] \in {"publish", "confirm"} /\ pc' = [pc EXCEPT ![r] = "done"] /\ UNCHANGED tries
    BY <1>10 DEF PublishRetry, Confirm
  <2> QED
    BY <2>1
<1> QED
  BY <1>1, <1>2, <1>3, <1>4, <1>5, <1>6, <1>7, <1>8, <1>9, <1>10 DEF Handler

LEMMA NobodyGoesBack ==
  ASSUME TypeOK, [Next]_vars, NEW q \in Requests
  PROVE  Advances(q) \/ Rests(q)
<1>1. ASSUME NEW r \in Requests, Handler(r) PROVE Advances(q) \/ Rests(q)
  BY <1>1, HandlerAdvances
<1>2. ASSUME NEW r \in Requests, Late(r) PROVE Rests(q)
  BY <1>2 DEF Late, LateReserve, LateRelease, LatePayment, controlVars, Rests
<1>3. CASE Crash
  BY <1>3, AheadOfDone DEF Crash, InProgress, TypeOK, Advances, Rests
<1>4. CASE Finished \/ UNCHANGED vars
  BY <1>4 DEF Finished, vars, callVars, controlVars, Rests
<1> QED
  BY <1>1, <1>2, <1>3, <1>4 DEF Next

\* Every request gets nearer to its answer with each of its steps, for any number
\* of requests, faults and crashes, and StepsLeft and MaxRetries bound how many
\* it can make: all that fairness has to add is that it makes them.
THEOREM RequestsGoOn == Spec => GoesOn
<1>1. TypeOK /\ [Next]_vars => Onward
  BY HandlerAdvances, NobodyGoesBack DEF Onward
<1> QED
  BY <1>1, TypeCorrect, PTL DEF Spec, GoesOn

=============================================================================
