--------------------------- MODULE OrderFlowProofs ---------------------------
(* Theorems of OrderFlow: what is proved of an order while its request is in  *)
(* progress still holds when the worker writes it too.                        *)
EXTENDS OrderFlow, CheckoutProofs

\* What the worker has, had or left behind of an order.
Pending(o) ==
    \/ R!InTheSystem(o)
    \/ \E n \in R!AttemptNumbers : discarded[o][n] > 0 \/ deadLetters[o][n] > 0
    \/ \E op \in R!Calls : workerLate[op][o] > 0

\* The worker is only concerned with orders whose requests are over.
WorkInv == \A o \in Requests : Pending(o) => pc[o] = "done" /\ Ordered(o)

\* Whoever says or will say that an order is confirmed has seen it paid.
WorkerPaidInv ==
    \A o \in Requests :
        (step = "confirm" /\ working = o) \/ workerLate["confirm"][o] > 0 => charged[o] > 0

FlowInv == TypeOK /\ R!TypeOK /\ OrderInv /\ WorkInv /\ WorkerPaidInv

\* A step of the worker, or of something it left behind.
WorkerStep == \/ Worker \/ WorkerInterrupted \/ WorkerRestart
              \/ \E o \in Requests, n \in R!AttemptNumbers : Expire(o, n)
              \/ \E op \in R!Calls, o \in Requests : LateWorkerCall(op, o)

\* What the worker may do to an order: leave it, pay it, or resolve it.
WorkerMay(o) ==
    /\ charged[o] <= charged'[o]
    /\ charged'[o] # charged[o] => Pending(o)
    /\ \/ orderStatus'[o] = orderStatus[o] /\ paymentInitiated'[o] = paymentInitiated[o]
       \/ /\ Pending(o)
          /\ \/ orderStatus'[o] = "confirmed" /\ paymentInitiated'[o] = TRUE /\ charged[o] > 0
             \/ orderStatus'[o] = "failed" /\ paymentInitiated'[o] = FALSE

WorkerEffect ==
    /\ R!TypeOK'
    /\ WorkerPaidInv'
    /\ \A o \in Requests : WorkerMay(o) /\ (Pending(o)' => Pending(o))

(***************************************************************************)
(* Bags of events, and bags of late attempts.                              *)
(***************************************************************************)

LEMMA MoreInBag ==
  ASSUME NEW S, NEW T, NEW bag \in [S -> [T -> Nat]], NEW s \in S, NEW t \in T
  PROVE  /\ [bag EXCEPT ![s][t] = @ + 1] \in [S -> [T -> Nat]]
         /\ \A x \in S, y \in T : [bag EXCEPT ![s][t] = @ + 1][x][y] =
                IF x = s /\ y = t THEN bag[x][y] + 1 ELSE bag[x][y]
<1> DEFINE row == [bag[s] EXCEPT ![t] = @ + 1]
<1>1. bag[s] \in [T -> Nat] /\ bag[s][t] + 1 \in Nat
  OBVIOUS
<1>2. row \in [T -> Nat] /\ \A y \in T : row[y] = IF y = t THEN bag[s][y] + 1 ELSE bag[s][y]
  BY <1>1
<1>3. [bag EXCEPT ![s][t] = @ + 1] = [bag EXCEPT ![s] = row]
  OBVIOUS
<1> QED
  BY <1>2, <1>3

LEMMA LessInBag ==
  ASSUME NEW S, NEW T, NEW bag \in [S -> [T -> Nat]], NEW s \in S, NEW t \in T, bag[s][t] > 0
  PROVE  /\ [bag EXCEPT ![s][t] = @ - 1] \in [S -> [T -> Nat]]
         /\ \A x \in S, y \in T : [bag EXCEPT ![s][t] = @ - 1][x][y] =
                IF x = s /\ y = t THEN bag[x][y] - 1 ELSE bag[x][y]
<1> DEFINE row == [bag[s] EXCEPT ![t] = @ - 1]
<1>1. bag[s] \in [T -> Nat] /\ bag[s][t] - 1 \in Nat
  OBVIOUS
<1>2. row \in [T -> Nat] /\ \A y \in T : row[y] = IF y = t THEN bag[s][y] - 1 ELSE bag[s][y]
  BY <1>1
<1>3. [bag EXCEPT ![s][t] = @ - 1] = [bag EXCEPT ![s] = row]
  OBVIOUS
<1> QED
  BY <1>2, <1>3

LEMMA PutEvent ==
  ASSUME NEW bag \in R!Bag, NEW o \in Requests, NEW n \in R!AttemptNumbers
  PROVE  /\ R!Put(bag, o, n) \in R!Bag
         /\ \A p \in Requests, m \in R!AttemptNumbers :
                R!Put(bag, o, n)[p][m] = IF p = o /\ m = n THEN bag[p][m] + 1 ELSE bag[p][m]
  BY MoreInBag DEF R!Put, R!Bag

LEMMA DropEvent ==
  ASSUME NEW bag \in R!Bag, NEW o \in Requests, NEW n \in R!AttemptNumbers, bag[o][n] > 0
  PROVE  /\ R!Drop(bag, o, n) \in R!Bag
         /\ \A p \in Requests, m \in R!AttemptNumbers :
                R!Drop(bag, o, n)[p][m] = IF p = o /\ m = n THEN bag[p][m] - 1 ELSE bag[p][m]
  BY LessInBag DEF R!Drop, R!Bag

LEMMA OneMoreLate ==
  ASSUME R!TypeOK, NEW op \in R!Calls, NEW o \in Requests
  PROVE  /\ R!MoreLate(op, o) \in [R!Calls -> [Requests -> Nat]]
         /\ \A c \in R!Calls, p \in Requests : R!MoreLate(op, o)[c][p] =
                IF c = op /\ p = o THEN workerLate[c][p] + 1 ELSE workerLate[c][p]
  BY MoreInBag DEF R!MoreLate, R!TypeOK

LEMMA OneLessLate ==
  ASSUME R!TypeOK, NEW op \in R!Calls, NEW o \in Requests, workerLate[op][o] > 0
  PROVE  /\ R!LessLate(op, o) \in [R!Calls -> [Requests -> Nat]]
         /\ \A c \in R!Calls, p \in Requests : R!LessLate(op, o)[c][p] =
                IF c = op /\ p = o THEN workerLate[c][p] - 1 ELSE workerLate[c][p]
  BY LessInBag DEF R!LessLate, R!TypeOK

(***************************************************************************)
(* What the steps of the worker do, as far as the orders are concerned.    *)
(***************************************************************************)

LEMMA WorkerNames ==
    /\ R!Steps = {"idle", "ack", "nack", "reschedule", "pay", "confirm", "fail"}
    /\ R!Calls = {"pay", "confirm", "fail"}
    /\ R!Statuses = Statuses
    /\ {"confirmed", "failed"} \subseteq Statuses
  BY DEF R!Steps, R!Calls, R!Statuses, Statuses

LEMMA WorkerBounds ==
    /\ Nobody \notin Requests /\ MaxWorkerCrashes \in Nat
    /\ R!AttemptNumbers = 1 .. MaxAttempts
    /\ MaxAttempts \in R!AttemptNumbers /\ 1 \in R!AttemptNumbers
  BY OrderFlowAssumption, Bounds DEF R!AttemptNumbers

LEMMA InHand ==
  ASSUME R!TypeOK, step # "idle"
  PROVE  working \in Requests
  BY DEF R!TypeOK

LEMMA TakesEvent ==
  ASSUME R!TypeOK, WorkerPaidInv, NEW o \in Requests, NEW n \in R!AttemptNumbers, R!Receive(o, n)
  PROVE  WorkerEffect
<1>1. ready \in R!Bag /\ ready[o][n] > 0 /\ ready' = R!Drop(ready, o, n)
  BY DEF R!TypeOK, R!Receive
<1>2. /\ ready' \in R!Bag
      /\ \A p \in Requests, m \in R!AttemptNumbers : ready'[p][m] > 0 => ready[p][m] > 0
  <2>1. \A p \in Requests, m \in R!AttemptNumbers : ready[p][m] \in Nat
    BY <1>1 DEF R!Bag
  <2> QED
    BY <1>1, <2>1, DropEvent
<1>3. /\ UNCHANGED <<orderStatus, paymentInitiated, charged, delayed, deadLetters, discarded,
                     workerTries, workerLate, channel, workerCrashes>>
      /\ working' = o /\ attempt' = n /\ step' = "pay" /\ channel = "open"
  BY DEF R!Receive, R!orderVars, R!callVars
<1>4. R!TypeOK'
  BY <1>2, <1>3, WorkerNames, WorkerBounds DEF R!TypeOK
<1>5. \A p \in Requests : Pending(p)' => Pending(p)
  BY <1>1, <1>2, <1>3 DEF Pending, R!InTheSystem, R!Queued
<1>6. WorkerPaidInv'
  BY <1>3 DEF WorkerPaidInv
<1>7. \A p \in Requests : charged[p] \in Nat
  BY DEF R!TypeOK
<1> QED
  BY <1>3, <1>4, <1>5, <1>6, <1>7 DEF WorkerEffect, WorkerMay

\* A call of the worker that was given up on may be executed later, or not.
LEMMA LeavesCall ==
  ASSUME R!TypeOK, NEW op \in R!Calls, step = op, R!Abandon(op) \/ UNCHANGED workerLate
  PROVE  /\ workerLate' \in [R!Calls -> [Requests -> Nat]]
         /\ \A c \in R!Calls, p \in Requests :
                workerLate'[c][p] > 0 => workerLate[c][p] > 0 \/ (c = op /\ p = working)
<1>1. working \in Requests
  BY InHand, WorkerNames
<1>2. workerLate \in [R!Calls -> [Requests -> Nat]]
  BY DEF R!TypeOK
<1>3. CASE workerLate' = R!MoreLate(op, working)
  BY <1>1, <1>2, <1>3, OneMoreLate
<1>4. CASE workerLate' = workerLate
  BY <1>2, <1>4
<1> QED
  BY <1>3, <1>4 DEF R!Abandon

\* A call without an answer: the next attempt of it, or the next step.
LEMMA GivesUpCall ==
  ASSUME R!TypeOK, WorkerPaidInv, NEW op \in R!Calls, step = op,
         R!Abandon(op) \/ UNCHANGED workerLate,
         UNCHANGED <<orderStatus, paymentInitiated, charged, ready, delayed, deadLetters,
                     discarded, working, attempt, channel, workerCrashes>>,
         step' = op \/ step' \in {"fail", "reschedule", "nack"},
         step' = "reschedule" => attempt < MaxAttempts,
         workerTries' \in 0 .. MaxRetries
  PROVE  WorkerEffect
<1>1. working \in Requests /\ op # "idle"
  BY InHand, WorkerNames
<1>2. /\ workerLate' \in [R!Calls -> [Requests -> Nat]]
      /\ \A c \in R!Calls, p \in Requests :
             workerLate'[c][p] > 0 => workerLate[c][p] > 0 \/ (c = op /\ p = working)
  BY LeavesCall
<1>3. R!TypeOK'
  BY <1>1, <1>2, WorkerNames, WorkerBounds DEF R!TypeOK
<1>4. \A p \in Requests : Pending(p)' => Pending(p)
  BY <1>2 DEF Pending, R!InTheSystem, R!Queued
<1>5. WorkerPaidInv'
  BY <1>2, WorkerNames DEF WorkerPaidInv
<1>6. \A p \in Requests : charged[p] \in Nat
  BY DEF R!TypeOK
<1> QED
  BY <1>3, <1>4, <1>5, <1>6 DEF WorkerEffect, WorkerMay

\* The last failure leads to another event while attempts are left.
LEMMA AfterFailures ==
  ASSUME R!TypeOK
  PROVE  \/ R!AfterFailure = "reschedule" /\ attempt < MaxAttempts
         \/ R!AfterFailure = "fail" /\ attempt = MaxAttempts
  BY WorkerBounds, Bounds DEF R!TypeOK, R!AfterFailure

LEMMA CallsFail ==
  ASSUME R!TypeOK, WorkerPaidInv,
         \/ \E op \in R!Calls : R!RetryCall(op)
         \/ R!PaymentFails \/ R!ConfirmFails \/ R!MarkFailedFails
  PROVE  WorkerEffect
<1> USE WorkerNames DEF R!orderVars, R!queueVars, R!workVars
<1>0. workerTries \in 0 .. MaxRetries /\ MaxRetries \in Nat
  BY Bounds DEF R!TypeOK
<1>1. ASSUME NEW op \in R!Calls, R!RetryCall(op) PROVE WorkerEffect
  <2>1. workerTries' \in 0 .. MaxRetries
    BY <1>0, <1>1 DEF R!RetryCall
  <2> QED
    BY <1>1, <2>1, GivesUpCall DEF R!RetryCall
<1>2. CASE R!PaymentFails
  BY <1>0, <1>2, GivesUpCall, AfterFailures DEF R!PaymentFails, R!CallFails
<1>3. CASE R!ConfirmFails
  BY <1>0, <1>3, GivesUpCall, AfterFailures DEF R!ConfirmFails, R!CallFails
<1>4. CASE R!MarkFailedFails
  BY <1>0, <1>4, GivesUpCall DEF R!MarkFailedFails, R!CallFails
<1> QED
  BY <1>1, <1>2, <1>3, <1>4

LEMMA CallsServed ==
  ASSUME R!TypeOK, WorkerPaidInv, R!PaymentAccepted \/ R!ConfirmServed \/ R!MarkFailedServed
  PROVE  WorkerEffect
<1>1. /\ UNCHANGED <<ready, delayed, deadLetters, discarded, working, attempt, workerLate,
                     channel, workerCrashes>>
      /\ workerTries' = 0 /\ step \in R!Calls
  BY WorkerNames DEF R!PaymentAccepted, R!ConfirmServed, R!MarkFailedServed, R!CallReturns,
     R!queueVars, R!workVars
<1>2. working \in Requests /\ step # "idle"
  BY <1>1, InHand, WorkerNames
<1>3. \A p \in Requests : charged[p] \in Nat
  BY DEF R!TypeOK
<1>4. \A p \in Requests : Pending(p)' => Pending(p)
  BY <1>1 DEF Pending, R!InTheSystem, R!Queued
<1>p. Pending(working)
  BY DEF Pending, R!InTheSystem
<1>s. /\ orderStatus \in [Requests -> R!Statuses]
      /\ paymentInitiated \in [Requests -> BOOLEAN]
  BY DEF R!TypeOK
<1>5. CASE R!PaymentAccepted
  <2>1. /\ UNCHANGED <<orderStatus, paymentInitiated>> /\ step' = "confirm"
        /\ charged' = [charged EXCEPT ![working] = @ + 1]
    BY <1>5 DEF R!PaymentAccepted, R!CallReturns, R!orderVars
  <2>2. /\ charged' \in [Requests -> Nat]
        /\ \A p \in Requests :
               charged'[p] = IF p = working THEN charged[p] + 1 ELSE charged[p]
    BY <1>2, <1>3, <2>1 DEF R!TypeOK
  <2>3. R!TypeOK'
    BY <1>1, <1>2, <2>1, <2>2, WorkerNames, WorkerBounds, Bounds DEF R!TypeOK
  <2>4. WorkerPaidInv'
    BY <1>1, <1>3, <2>2 DEF WorkerPaidInv
  <2>5. \A p \in Requests : WorkerMay(p)
    BY <1>3, <2>1, <2>2 DEF WorkerMay, Pending, R!InTheSystem
  <2> QED
    BY <1>4, <2>3, <2>4, <2>5 DEF WorkerEffect
<1>6. CASE R!ConfirmServed
  <2>1. /\ R!SetPayment(working, TRUE, "confirmed") /\ charged' = charged
        /\ step = "confirm" /\ step' = "ack"
    BY <1>6 DEF R!ConfirmServed, R!CallReturns
  <2>2. /\ orderStatus' \in [Requests -> R!Statuses]
        /\ paymentInitiated' \in [Requests -> BOOLEAN]
    BY <2>1, <1>2, WorkerNames DEF R!SetPayment, R!TypeOK
  <2>3. R!TypeOK'
    BY <1>1, <1>2, <2>1, <2>2, WorkerNames, WorkerBounds, Bounds DEF R!TypeOK
  <2>4. WorkerPaidInv'
    BY <1>1, <2>1 DEF WorkerPaidInv
  <2>5. charged[working] > 0
    BY <1>2, <2>1 DEF WorkerPaidInv
  <2>6. \A p \in Requests : WorkerMay(p)
    <3>1. ASSUME NEW p \in Requests, p # working
          PROVE  orderStatus'[p] = orderStatus[p] /\ paymentInitiated'[p] = paymentInitiated[p]
      BY <1>s, <2>1, <3>1, Zenon DEF R!SetPayment
    <3>2. orderStatus'[working] = "confirmed" /\ paymentInitiated'[working] = TRUE
      BY <1>2, <1>s, <2>1, Zenon DEF R!SetPayment
    <3>3. \A p \in Requests : charged'[p] = charged[p] /\ charged[p] <= charged'[p]
      BY <1>3, <2>1
    <3> QED
      BY <1>p, <2>5, <3>1, <3>2, <3>3, Zenon DEF WorkerMay
  <2> QED
    BY <1>4, <2>3, <2>4, <2>6 DEF WorkerEffect
<1>7. CASE R!MarkFailedServed
  <2>1. /\ R!SetPayment(working, FALSE, "failed") /\ charged' = charged /\ step' = "nack"
    BY <1>7 DEF R!MarkFailedServed, R!CallReturns
  <2>2. /\ orderStatus' \in [Requests -> R!Statuses]
        /\ paymentInitiated' \in [Requests -> BOOLEAN]
    BY <2>1, <1>2, WorkerNames DEF R!SetPayment, R!TypeOK
  <2>3. R!TypeOK'
    BY <1>1, <1>2, <2>1, <2>2, WorkerNames, WorkerBounds, Bounds DEF R!TypeOK
  <2>4. WorkerPaidInv'
    BY <1>1, <2>1 DEF WorkerPaidInv
  <2>6. \A p \in Requests : WorkerMay(p)
    <3>1. ASSUME NEW p \in Requests, p # working
          PROVE  orderStatus'[p] = orderStatus[p] /\ paymentInitiated'[p] = paymentInitiated[p]
      BY <1>s, <2>1, <3>1, Zenon DEF R!SetPayment
    <3>2. orderStatus'[working] = "failed" /\ paymentInitiated'[working] = FALSE
      BY <1>2, <1>s, <2>1, Zenon DEF R!SetPayment
    <3>3. \A p \in Requests : charged'[p] = charged[p] /\ charged[p] <= charged'[p]
      BY <1>3, <2>1
    <3> QED
      BY <1>p, <3>1, <3>2, <3>3, Zenon DEF WorkerMay
  <2> QED
    BY <1>4, <2>3, <2>4, <2>6 DEF WorkerEffect
<1> QED
  BY <1>5, <1>6, <1>7

\* Steps that move events: what they had of an order, the worker had before.
LEMMA EventMoves ==
  ASSUME R!TypeOK, WorkerPaidInv,
         UNCHANGED <<orderStatus, paymentInitiated, charged>>,
         R!TypeOK',
         \A p \in Requests : Pending(p)' => Pending(p),
         \A p \in Requests : workerLate'["confirm"][p] > 0 =>
             workerLate["confirm"][p] > 0 \/ (step = "confirm" /\ working = p),
         step' = "confirm" => step = "confirm" /\ working' = working
  PROVE  WorkerEffect
<1>1. WorkerPaidInv'
  BY DEF WorkerPaidInv
<1>2. \A p \in Requests : charged[p] \in Nat
  BY DEF R!TypeOK
<1> QED
  BY <1>1, <1>2 DEF WorkerEffect, WorkerMay

LEMMA Reschedules ==
  ASSUME R!TypeOK, WorkerPaidInv, R!Reschedule
  PROVE  WorkerEffect
<1>1. /\ UNCHANGED <<orderStatus, paymentInitiated, charged, ready, deadLetters, discarded,
                     working, attempt, workerTries, workerLate, channel, workerCrashes>>
      /\ step = "reschedule" /\ step' \in {"ack", "nack"}
      /\ delayed' = R!Put(delayed, working, attempt + 1) \/ delayed' = delayed
  BY DEF R!Reschedule, R!orderVars, R!workVars, R!callVars
<1>2. working \in Requests /\ attempt \in 1 .. MaxAttempts /\ attempt < MaxAttempts
  BY <1>1, InHand, WorkerBounds DEF R!TypeOK
<1>3. attempt + 1 \in R!AttemptNumbers /\ delayed \in R!Bag
  BY <1>2, WorkerBounds, Bounds DEF R!TypeOK
<1>4. /\ delayed' \in R!Bag
      /\ \A p \in Requests, m \in R!AttemptNumbers :
             p # working => delayed'[p][m] = delayed[p][m]
  BY <1>1, <1>2, <1>3, PutEvent
<1>5. R!TypeOK'
  BY <1>1, <1>2, <1>4, WorkerNames, WorkerBounds DEF R!TypeOK
<1>6. \A p \in Requests : Pending(p)' => Pending(p)
  BY <1>1, <1>4 DEF Pending, R!InTheSystem, R!Queued
<1> QED
  BY <1>1, <1>5, <1>6, EventMoves

LEMMA Acknowledges ==
  ASSUME R!TypeOK, WorkerPaidInv, R!Ack \/ R!Nack
  PROVE  WorkerEffect
<1>1. /\ UNCHANGED <<orderStatus, paymentInitiated, charged, ready, delayed, attempt,
                     workerTries, workerLate, channel, workerCrashes>>
      /\ step # "idle" /\ step' = "idle" /\ working' = Nobody
  BY DEF R!Ack, R!Nack, R!Finish, R!orderVars, R!callVars
<1>2. /\ deadLetters' = R!Put(deadLetters, working, attempt) \/ deadLetters' = deadLetters
      /\ discarded' = R!Put(discarded, working, attempt) \/ discarded' = discarded
  BY DEF R!Ack, R!Nack
<1>3. /\ working \in Requests /\ attempt \in R!AttemptNumbers
      /\ deadLetters \in R!Bag /\ discarded \in R!Bag
  BY <1>1, InHand DEF R!TypeOK
<1>4. /\ deadLetters' \in R!Bag /\ discarded' \in R!Bag
      /\ \A p \in Requests, m \in R!AttemptNumbers : p # working =>
             deadLetters'[p][m] = deadLetters[p][m] /\ discarded'[p][m] = discarded[p][m]
  BY <1>2, <1>3, PutEvent
<1>5. R!TypeOK'
  BY <1>1, <1>4, WorkerNames, WorkerBounds DEF R!TypeOK
<1>6. \A p \in Requests : Pending(p)' => Pending(p)
  BY <1>1, <1>4, WorkerBounds DEF Pending, R!InTheSystem, R!Queued
<1> QED
  BY <1>1, <1>5, <1>6, EventMoves

LEMMA Expires ==
  ASSUME R!TypeOK, WorkerPaidInv, NEW o \in Requests, NEW n \in R!AttemptNumbers, R!Expire(o, n)
  PROVE  WorkerEffect
<1>1. /\ UNCHANGED <<orderStatus, paymentInitiated, charged, deadLetters, discarded, working,
                     attempt, step, workerTries, workerLate, channel, workerCrashes>>
      /\ delayed[o][n] > 0 /\ delayed' = R!Drop(delayed, o, n) /\ ready' = R!Put(ready, o, n)
  BY DEF R!Expire, R!orderVars, R!workVars, R!callVars
<1>2. ready \in R!Bag /\ delayed \in R!Bag
  BY DEF R!TypeOK
<1>3. \A p \in Requests, m \in R!AttemptNumbers : ready[p][m] \in Nat /\ delayed[p][m] \in Nat
  BY <1>2 DEF R!Bag
<1>4. /\ ready' \in R!Bag /\ delayed' \in R!Bag
      /\ \A p \in Requests, m \in R!AttemptNumbers :
             /\ p # o => ready'[p][m] = ready[p][m]
             /\ delayed'[p][m] > 0 => delayed[p][m] > 0
  BY <1>1, <1>2, <1>3, PutEvent, DropEvent
<1>5. R!TypeOK'
  BY <1>1, <1>4, WorkerNames, WorkerBounds DEF R!TypeOK
<1>6. \A p \in Requests : Pending(p)' => Pending(p)
  BY <1>1, <1>4 DEF Pending, R!InTheSystem, R!Queued
<1> QED
  BY <1>1, <1>5, <1>6, EventMoves

LEMMA CrashesOrRestarts ==
  ASSUME R!TypeOK, WorkerPaidInv, R!Crash \/ R!Restart
  PROVE  WorkerEffect
<1>1. CASE R!Restart
  <2>1. /\ UNCHANGED <<orderStatus, paymentInitiated, charged, ready, delayed, deadLetters,
                       discarded, working, attempt, step, workerTries, workerLate, workerCrashes>>
        /\ channel' = "open"
    BY <1>1 DEF R!Restart, R!orderVars, R!queueVars, R!workVars, R!callVars
  <2>2. R!TypeOK'
    BY <2>1 DEF R!TypeOK
  <2>3. \A p \in Requests : Pending(p)' => Pending(p)
    BY <2>1 DEF Pending, R!InTheSystem, R!Queued
  <2> QED
    BY <2>1, <2>2, <2>3, EventMoves
<1>2. CASE R!Crash
  <2>1. /\ UNCHANGED <<orderStatus, paymentInitiated, charged, delayed, deadLetters, discarded,
                       attempt>>
        /\ step # "idle" /\ step' = "idle" /\ working' = Nobody /\ workerTries' = 0
        /\ workerCrashes < MaxWorkerCrashes /\ workerCrashes' = workerCrashes + 1
        /\ channel' = "down"
        /\ ready' = R!Put(ready, working, attempt) \/ ready' = ready
    BY <1>2 DEF R!Crash, R!Requeued, R!orderVars
  <2>2. workerLate' = IF step \in R!Calls THEN R!MoreLate(step, working) ELSE workerLate
    BY <1>2 DEF R!Crash
  <2>3. working \in Requests /\ attempt \in R!AttemptNumbers /\ ready \in R!Bag
    BY <2>1, InHand DEF R!TypeOK
  <2>4. /\ ready' \in R!Bag
        /\ \A p \in Requests, m \in R!AttemptNumbers :
               p # working => ready'[p][m] = ready[p][m]
    BY <2>1, <2>3, PutEvent
  <2>5. /\ workerLate' \in [R!Calls -> [Requests -> Nat]]
        /\ \A c \in R!Calls, p \in Requests :
               workerLate'[c][p] > 0 => workerLate[c][p] > 0 \/ (c = step /\ p = working)
    <3>1. workerLate \in [R!Calls -> [Requests -> Nat]]
      BY DEF R!TypeOK
    <3>2. CASE step \in R!Calls
      BY <2>2, <2>3, <3>1, <3>2, OneMoreLate
    <3>3. CASE step \notin R!Calls
      BY <2>2, <3>1, <3>3
    <3> QED
      BY <3>2, <3>3
  <2>6. workerCrashes' \in 0 .. MaxWorkerCrashes
    BY <2>1, WorkerBounds DEF R!TypeOK
  <2>7. R!TypeOK'
    <3>1. workerTries' \in 0 .. MaxRetries
      BY <2>1, Bounds
    <3>2. /\ working' \in Requests \union {Nobody} /\ step' \in R!Steps
          /\ step' = "idle" <=> working' = Nobody
          /\ step' = "reschedule" => attempt' < MaxAttempts
      BY <2>1, WorkerNames
    <3> QED
      BY <2>1, <2>4, <2>5, <2>6, <3>1, <3>2 DEF R!TypeOK
  <2>8. \A p \in Requests : Pending(p)' => Pending(p)
    BY <2>1, <2>3, <2>4, <2>5, WorkerBounds DEF Pending, R!InTheSystem, R!Queued
  <2>9. \A p \in Requests : workerLate'["confirm"][p] > 0 =>
            workerLate["confirm"][p] > 0 \/ (step = "confirm" /\ working = p)
    BY <2>5, WorkerNames
  <2> QED
    BY <2>1, <2>7, <2>8, <2>9, EventMoves
<1> QED
  BY <1>1, <1>2

LEMMA LosesItsConnection ==
  ASSUME R!TypeOK, WorkerPaidInv, R!LosesConnection
  PROVE  WorkerEffect
<1>1. /\ UNCHANGED <<orderStatus, paymentInitiated, charged, delayed, deadLetters, discarded,
                     working, attempt, step, workerTries, workerLate>>
      /\ workerCrashes < MaxWorkerCrashes /\ workerCrashes' = workerCrashes + 1
      /\ channel' = "stale"
      /\ ready' = ready \/ (step # "idle" /\ ready' = R!Put(ready, working, attempt))
  BY DEF R!LosesConnection, R!Requeued, R!orderVars, R!workVars, R!callVars
<1>2. /\ step # "idle" => working \in Requests
      /\ attempt \in R!AttemptNumbers /\ ready \in R!Bag
  BY InHand DEF R!TypeOK
<1>3. /\ ready' \in R!Bag
      /\ \A p \in Requests, m \in R!AttemptNumbers :
             p # working => ready'[p][m] = ready[p][m]
  BY <1>1, <1>2, PutEvent
<1>4. workerCrashes' \in 0 .. MaxWorkerCrashes
  BY <1>1, WorkerBounds DEF R!TypeOK
<1>5. R!TypeOK'
  BY <1>1, <1>3, <1>4 DEF R!TypeOK
<1>6. \A p \in Requests : Pending(p)' => Pending(p)
  BY <1>1, <1>3 DEF Pending, R!InTheSystem, R!Queued
<1> QED
  BY <1>1, <1>5, <1>6, EventMoves

LEMMA AnswersThrow ==
  ASSUME R!TypeOK, WorkerPaidInv, R!AnswerThrows
  PROVE  WorkerEffect
<1>1. /\ UNCHANGED <<orderStatus, paymentInitiated, charged, ready, delayed, deadLetters,
                     discarded, attempt, workerTries, workerLate, workerCrashes>>
      /\ channel' = "down" /\ working' = Nobody /\ step' = "idle"
  BY DEF R!AnswerThrows, R!orderVars, R!queueVars, R!callVars
<1>2. R!TypeOK'
  BY <1>1, WorkerNames, WorkerBounds DEF R!TypeOK
<1>3. \A p \in Requests : Pending(p)' => Pending(p)
  BY <1>1, WorkerBounds DEF Pending, R!InTheSystem, R!Queued
<1> QED
  BY <1>1, <1>2, <1>3, EventMoves

LEMMA LateCalls ==
  ASSUME R!TypeOK, WorkerPaidInv, NEW op \in R!Calls, NEW o \in Requests, R!Late(op, o)
  PROVE  WorkerEffect
<1>1. /\ UNCHANGED <<ready, delayed, deadLetters, discarded, working, attempt, step,
                     workerTries, channel, workerCrashes>>
      /\ workerLate[op][o] > 0 /\ workerLate' = R!LessLate(op, o)
  BY DEF R!Late, R!queueVars, R!workVars
<1>2. \A p \in Requests : /\ charged[p] \in Nat
                          /\ \A c \in R!Calls : workerLate[c][p] \in Nat
  BY DEF R!TypeOK
<1>3. /\ workerLate' \in [R!Calls -> [Requests -> Nat]]
      /\ \A c \in R!Calls, p \in Requests : workerLate'[c][p] > 0 => workerLate[c][p] > 0
  BY <1>1, <1>2, OneLessLate
<1>4. Pending(o)
  BY <1>1 DEF Pending
<1>5. \A p \in Requests : Pending(p)' => Pending(p)
  BY <1>1, <1>3 DEF Pending, R!InTheSystem, R!Queued
<1>6. \/ UNCHANGED <<orderStatus, paymentInitiated>> /\ charged' = [charged EXCEPT ![o] = @ + 1]
      \/ op = "confirm" /\ R!SetPayment(o, TRUE, "confirmed") /\ charged' = charged
      \/ op = "fail" /\ R!SetPayment(o, FALSE, "failed") /\ charged' = charged
  BY DEF R!Late, R!orderVars
<1>7. op = "confirm" => charged[o] > 0
  BY <1>1 DEF WorkerPaidInv
<1>8. /\ charged' \in [Requests -> Nat]
      /\ \A p \in Requests : charged[p] <= charged'[p] /\ (charged'[p] # charged[p] => p = o)
  <2>1. charged \in [Requests -> Nat]
    BY DEF R!TypeOK
  <2>2. CASE charged' = [charged EXCEPT ![o] = @ + 1]
    <3>1. charged[o] + 1 \in Nat
      BY <1>2
    <3>2. \A p \in Requests : charged'[p] = IF p = o THEN charged[p] + 1 ELSE charged[p]
      BY <2>1, <2>2
    <3>3. charged' \in [Requests -> Nat]
      BY <2>1, <2>2, <3>1
    <3> QED
      BY <1>2, <3>2, <3>3
  <2>3. CASE charged' = charged
    BY <1>2, <2>1, <2>3
  <2> QED
    BY <1>6, <2>2, <2>3
<1>9. /\ orderStatus' \in [Requests -> R!Statuses] /\ paymentInitiated' \in [Requests -> BOOLEAN]
  BY <1>6, WorkerNames DEF R!SetPayment, R!TypeOK
<1>10. R!TypeOK'
  BY <1>1, <1>3, <1>8, <1>9 DEF R!TypeOK
<1>11. WorkerPaidInv'
  BY <1>1, <1>2, <1>3, <1>8, WorkerNames DEF WorkerPaidInv
<1>12. \A p \in Requests : WorkerMay(p)
  BY <1>4, <1>6, <1>7, <1>8 DEF WorkerMay, R!SetPayment, R!TypeOK
<1> QED
  BY <1>5, <1>10, <1>11, <1>12 DEF WorkerEffect

LEMMA WorkerSteps ==
  ASSUME R!TypeOK, WorkerPaidInv, WorkerStep
  PROVE  WorkerEffect /\ UNCHANGED requestVars
<1>1. CASE Worker
  <2>1. R!Worker /\ UNCHANGED requestVars
    BY <1>1 DEF Worker
  <2>2. CASE \E o \in Requests, n \in R!AttemptNumbers : R!Receive(o, n)
    BY <2>1, <2>2, TakesEvent
  <2>3. CASE R!Reschedule \/ R!Ack \/ R!Nack \/ R!AnswerThrows
    BY <2>1, <2>3, Reschedules, Acknowledges, AnswersThrow
  <2>4. CASE R!PaymentAccepted \/ R!ConfirmServed \/ R!MarkFailedServed
    BY <2>1, <2>4, CallsServed
  <2>5. CASE (\E op \in R!Calls : R!RetryCall(op))
             \/ R!PaymentFails \/ R!ConfirmFails \/ R!MarkFailedFails
    BY <2>1, <2>5, CallsFail
  <2> QED
    BY <2>1, <2>2, <2>3, <2>4, <2>5 DEF R!Worker
<1>2. CASE WorkerInterrupted \/ WorkerRestart
  BY <1>2, CrashesOrRestarts, LosesItsConnection
     DEF WorkerInterrupted, R!Interrupted, WorkerRestart
<1>3. CASE \E o \in Requests, n \in R!AttemptNumbers : Expire(o, n)
  BY <1>3, Expires DEF Expire
<1>4. CASE \E op \in R!Calls, o \in Requests : LateWorkerCall(op, o)
  BY <1>4, LateCalls DEF LateWorkerCall
<1> QED
  BY <1>1, <1>2, <1>3, <1>4 DEF WorkerStep

(***************************************************************************)
(* What the steps of the order service do, as far as the worker is         *)
(* concerned.                                                              *)
(***************************************************************************)

\* A request touches no event and no status but its own, and its own event is
\* the last thing it touches.
RequestEffect(q) ==
    /\ charged[q] <= charged'[q]
    /\ pc[q] = "done" => pc'[q] = "done" /\ orderStatus'[q] = orderStatus[q]
    /\ \/ \A n \in R!AttemptNumbers : ready'[q][n] = ready[q][n]
       \/ /\ pc[q] = "publish" /\ pc'[q] = "done" /\ orderStatus'[q] = orderStatus[q]
          /\ \A n \in R!AttemptNumbers :
                 ready'[q][n] = IF n = 1 THEN ready[q][n] + 1 ELSE ready[q][n]

LEMMA PublishedEvents ==
  ASSUME TypeOK, NEW q \in Requests, ready' = [ready EXCEPT ![q][1] = @ + 1],
         NEW p \in Requests, NEW n \in R!AttemptNumbers
  PROVE  ready'[p][n] = IF p = q /\ n = 1 THEN ready[p][n] + 1 ELSE ready[p][n]
<1>1. ready \in [Requests -> [1 .. MaxAttempts -> Nat]] /\ n \in 1 .. MaxAttempts
  BY WorkerBounds DEF TypeOK
<1>2. CASE p # q
  BY <1>1, <1>2
<1>3. CASE p = q
  <2>1. ready'[p] = [ready[p] EXCEPT ![1] = @ + 1] /\ ready[p] \in [1 .. MaxAttempts -> Nat]
    BY <1>1, <1>3
  <2> QED
    BY <1>1, <1>3, <2>1
<1> QED
  BY <1>2, <1>3

LEMMA HandlerEffect ==
  ASSUME TypeOK, NEW r \in Requests, Handler(r), NEW q \in Requests
  PROVE  RequestEffect(q)
<1> USE DEF TypeOK, stockVars, orderVars, paymentVars, callVars, controlVars,
           Goto, Answer, CallReturns, CallFails, RequestEffect
<1>0. charged[q] \in Nat
  OBVIOUS
<1>1. CASE Lookup(r)
  BY <1>0, <1>1 DEF Lookup
<1>2. CASE Validate(r)
  BY <1>0, <1>2 DEF Validate
<1>3. ASSUME NEW op \in Calls, RetryCall(op, r) PROVE RequestEffect(q)
  BY <1>0, <1>3 DEF RetryCall
<1>4. CASE ReserveServed(r)
  BY <1>0, <1>4 DEF ReserveServed
<1>5. CASE ReserveConflict(r)
  BY <1>0, <1>5 DEF ReserveConflict
<1>6. CASE ReserveFails(r)
  BY <1>0, <1>6 DEF ReserveFails
<1>7. CASE Create(r)
  BY <1>0, <1>7 DEF Create, InsertOrder, SetPayment
<1>8. CASE ReleaseServed(r)
  BY <1>0, <1>8 DEF ReleaseServed, AfterRelease
<1>9. CASE ReleaseFails(r)
  BY <1>0, <1>9 DEF ReleaseFails, AfterRelease
<1>10. CASE Relookup(r)
  BY <1>0, <1>10 DEF Relookup
<1>11. CASE MarkPending(r)
  BY <1>0, <1>11 DEF MarkPending, SetPayment
<1>12. CASE PaymentAccepted(r)
  BY <1>0, <1>12 DEF PaymentAccepted
<1>13. CASE PaymentFails(r)
  BY <1>0, <1>13 DEF PaymentFails
<1>14. CASE PublishRetry(r)
  <2>1. /\ UNCHANGED <<charged, orderStatus>>
        /\ pc[r] = "publish" /\ pc' = [pc EXCEPT ![r] = "done"]
        /\ ready' = [ready EXCEPT ![r][1] = @ + 1] \/ ready' = ready
    BY <1>14 DEF PublishRetry
  <2>2. CASE ready' = ready
    BY <1>0, <2>1, <2>2
  <2>3. CASE ready' = [ready EXCEPT ![r][1] = @ + 1]
    <3>1. \A n \in R!AttemptNumbers :
              ready'[q][n] = IF q = r /\ n = 1 THEN ready[q][n] + 1 ELSE ready[q][n]
      BY <2>3, PublishedEvents
    <3> QED
      BY <1>0, <2>1, <3>1
  <2> QED
    BY <2>1, <2>2, <2>3
<1>15. CASE Confirm(r)
  BY <1>0, <1>15 DEF Confirm, SetPayment
<1> QED
  BY <1>1, <1>2, <1>3, <1>4, <1>5, <1>6, <1>7, <1>8, <1>9, <1>10, <1>11,
     <1>12, <1>13, <1>14, <1>15 DEF Handler

LEMMA OrderServiceEffect ==
  ASSUME TypeOK, [Next]_vars, NEW q \in Requests
  PROVE  RequestEffect(q)
<1>0. charged[q] \in Nat
  BY DEF TypeOK
<1>1. CASE \E r \in Requests : Handler(r)
  BY <1>1, HandlerEffect
<1>2. CASE \E r \in Requests : Late(r)
  <2>1. PICK r \in Requests, n \in Attempts :
            LateReserve(r, n) \/ LateRelease(r, n) \/ LatePayment(r, n)
    BY <1>2 DEF Late
  <2>2. UNCHANGED <<ready, orderStatus, pc>>
    BY <2>1 DEF LateReserve, LateRelease, LatePayment, orderVars, paymentVars, controlVars
  <2>3. charged[q] <= charged'[q]
    <3>1. charged' = charged \/ charged' = [charged EXCEPT ![r] = @ + 1]
      BY <2>1 DEF LateReserve, LateRelease, LatePayment, paymentVars
    <3>2. charged \in [Requests -> Nat]
      BY DEF TypeOK
    <3> QED
      BY <1>0, <3>1, <3>2
  <2> QED
    BY <2>2, <2>3 DEF RequestEffect
<1>3. CASE Crash
  BY <1>0, <1>3 DEF Crash, orderVars, paymentVars, RequestEffect, TypeOK, InProgress
<1>4. CASE Finished \/ UNCHANGED vars
  BY <1>0, <1>4 DEF Finished, vars, orderVars, paymentVars, controlVars, RequestEffect
<1> QED
  BY <1>1, <1>2, <1>3, <1>4 DEF Next

(***************************************************************************)
(* The inductive invariant of the composition.                             *)
(***************************************************************************)

LEMMA SameTypes ==
    /\ R!Bag = [Requests -> [1 .. MaxAttempts -> Nat]]
    /\ R!Statuses = Statuses
  BY DEF R!Bag, R!AttemptNumbers, R!Statuses, Statuses

\* How the order service moves, seen from the worker.
LEMMA OrderServiceStep ==
  ASSUME FlowInv, [Next]_vars, UNCHANGED workerVars, OrderInv'
  PROVE  FlowInv'
<1>1. TypeOK'
  BY TypeStep DEF FlowInv
<1>2. R!TypeOK'
  BY <1>1, SameTypes DEF FlowInv, TypeOK, R!TypeOK, workerVars
<1>3. \A q \in Requests : RequestEffect(q)
  BY OrderServiceEffect DEF FlowInv
<1>4. WorkInv'
  <2> SUFFICES ASSUME NEW q \in Requests, Pending(q)'
               PROVE  pc'[q] = "done" /\ orderStatus'[q] # "absent"
    BY DEF WorkInv, Ordered
  <2>1. CASE Pending(q)
    BY <1>3, <2>1 DEF FlowInv, WorkInv, Ordered, RequestEffect
  <2>2. CASE ~Pending(q)
    <3>1. ~ \A n \in R!AttemptNumbers : ready'[q][n] = ready[q][n]
      BY <2>2 DEF Pending, R!InTheSystem, R!Queued, workerVars
    <3>2. pc[q] = "publish" /\ pc'[q] = "done" /\ orderStatus'[q] = orderStatus[q]
      BY <1>3, <3>1 DEF RequestEffect
    <3> QED
      BY <3>2 DEF FlowInv, OrderInv, OrderInvOf, Settling
  <2> QED
    BY <2>1, <2>2
<1>5. WorkerPaidInv'
  <2>1. \A q \in Requests : charged[q] \in Nat /\ charged'[q] \in Nat /\ charged[q] <= charged'[q]
    BY <1>1, <1>3 DEF RequestEffect, FlowInv, TypeOK
  <2>2. UNCHANGED <<step, working, workerLate>>
    BY DEF workerVars
  <2> QED
    BY <2>1, <2>2 DEF FlowInv, WorkerPaidInv
<1> QED
  BY <1>1, <1>2, <1>4, <1>5 DEF FlowInv

LEMMA WorkerFlowStep ==
  ASSUME FlowInv, WorkerStep
  PROVE  FlowInv'
<1>1. WorkerEffect /\ UNCHANGED requestVars
  BY WorkerSteps DEF FlowInv
<1>2. R!TypeOK' /\ WorkerPaidInv'
  BY <1>1 DEF WorkerEffect
<1>3. TypeOK'
  BY <1>1, <1>2, SameTypes DEF FlowInv, TypeOK, R!TypeOK, requestVars
<1>4. \A o \in Requests : WorkerMay(o) /\ (Pending(o)' => Pending(o))
  BY <1>1 DEF WorkerEffect
<1>5. WorkInv'
  BY <1>1, <1>4 DEF FlowInv, WorkInv, WorkerMay, Ordered, requestVars
<1>6. OrderInv'
  <2> SUFFICES ASSUME NEW q \in Requests PROVE OrderInvOf(q)'
    BY DEF OrderInv
  <2>0. /\ UNCHANGED <<pc, late>> /\ WorkerMay(q) /\ OrderInvOf(q)
        /\ charged[q] \in Nat /\ charged'[q] \in Nat
    BY <1>1, <1>3, <1>4 DEF requestVars, FlowInv, OrderInv, TypeOK
  <2>1. CASE Pending(q)
    <3>1. pc[q] = "done" /\ Ordered(q)
      BY <2>1 DEF FlowInv, WorkInv
    <3>2. orderStatus'[q] = "confirmed" => charged'[q] > 0
      BY <2>0 DEF OrderInvOf, WorkerMay
    <3>3. orderStatus'[q] = "confirmed" <=> paymentInitiated'[q]
      BY <2>0, Zenon DEF OrderInvOf, WorkerMay
    <3>4. Ordered(q)'
      BY <2>0, <3>1 DEF Ordered, WorkerMay
    <3> QED
      BY <2>0, <3>1, <3>2, <3>3, <3>4 DEF OrderInvOf, MayRunLate, BeforeCreate, Compensating, Settling
  <2>2. CASE ~Pending(q)
    <3>1. UNCHANGED <<orderStatus[q], paymentInitiated[q], charged[q]>>
      BY <2>0, <2>2 DEF WorkerMay
    <3> QED
      BY <2>0, <3>1 DEF OrderInvOf, MayRunLate, Ordered
  <2> QED
    BY <2>1, <2>2
<1> QED
  BY <1>2, <1>3, <1>5, <1>6 DEF FlowInv

LEMMA NothingPending ==
  ASSUME FlowInit, NEW o \in Requests
  PROVE  ~Pending(o)
<1>1. Init /\ R!WorkerInit
  BY DEF FlowInit
<1>2. \A n \in R!AttemptNumbers : R!Empty[o][n] = 0
  BY DEF R!Empty
<1> QED
  BY <1>1, <1>2, WorkerBounds, WorkerNames DEF Init, R!WorkerInit, Pending, R!InTheSystem,
     R!Queued, R!AttemptNumbers

LEMMA FlowInvInit == FlowInit => FlowInv
<1> SUFFICES ASSUME FlowInit PROVE FlowInv
  OBVIOUS
<1>1. Init /\ R!WorkerInit
  BY DEF FlowInit
<1>2. IInv
  BY <1>1, IInvInit
<1>3. R!Empty \in R!Bag
  BY DEF R!Empty, R!Bag
<1>4. R!TypeOK
  <2>1. TypeOK
    BY <1>2 DEF IInv
  <2>2. /\ orderStatus \in [Requests -> R!Statuses]
        /\ paymentInitiated \in [Requests -> BOOLEAN]
        /\ charged \in [Requests -> Nat]
        /\ ready \in R!Bag
    BY <2>1, SameTypes DEF TypeOK
  <2>3. /\ delayed \in R!Bag /\ deadLetters \in R!Bag /\ discarded \in R!Bag
        /\ workerLate \in [R!Calls -> [Requests -> Nat]]
    BY <1>1, <1>3 DEF R!WorkerInit
  <2>4. /\ working = Nobody /\ attempt \in R!AttemptNumbers
        /\ step = "idle" /\ step \in R!Steps /\ workerTries \in 0 .. MaxRetries
        /\ channel = "open" /\ workerCrashes \in 0 .. MaxWorkerCrashes
    BY <1>1, WorkerBounds, WorkerNames, Bounds DEF R!WorkerInit
  <2> QED
    BY <2>2, <2>3, <2>4 DEF R!TypeOK
<1>5. \A o \in Requests : ~Pending(o)
  BY NothingPending
<1>6. WorkerPaidInv
  BY <1>1, WorkerNames DEF R!WorkerInit, WorkerPaidInv
<1> QED
  BY <1>2, <1>4, <1>5, <1>6 DEF IInv, FlowInv, WorkInv

LEMMA FlowSteps ==
  ASSUME FlowNext
  PROVE  \/ WorkerStep
         \/ (\E r \in Requests : Handler(r) \/ Late(r)) /\ UNCHANGED workerVars
         \/ Crash /\ UNCHANGED workerVars
         \/ UNCHANGED flowVars
  BY Zenon DEF FlowNext, WorkerStep, Request, LateCall, OrderServiceCrash, FlowFinished

\* A step of either process, in one shape.
LEMMA EitherPart ==
  ASSUME [FlowNext]_flowVars
  PROVE  WorkerStep \/ ([Next]_vars /\ UNCHANGED workerVars)
<1>1. CASE UNCHANGED flowVars
  BY <1>1 DEF flowVars
<1> QED
  BY <1>1, FlowSteps, Zenon DEF Next

LEMMA FlowInvStep ==
  ASSUME FlowInv, [FlowNext]_flowVars
  PROVE  FlowInv'
<1>0. TypeOK /\ OrderInv
  BY DEF FlowInv
<1>1. CASE WorkerStep
  BY <1>1, WorkerFlowStep
<1>2. CASE (\E r \in Requests : Handler(r) \/ Late(r)) /\ UNCHANGED workerVars
  <2>1. OrderInv'
    BY <1>0, <1>2, OrderHandler, OrderLate DEF OrderInv
  <2> QED
    BY <1>2, <2>1, OrderServiceStep, Zenon DEF Next
<1>3. CASE Crash /\ UNCHANGED workerVars
  <2>1. OrderInv'
    BY <1>0, <1>3, OrderCrash DEF OrderInv
  <2> QED
    BY <1>3, <2>1, OrderServiceStep, Zenon DEF Next
<1>4. CASE UNCHANGED flowVars
  <2>1. UNCHANGED vars /\ UNCHANGED workerVars
    BY <1>4 DEF flowVars
  <2>2. OrderInv'
    BY <1>0, <2>1 DEF OrderInv, OrderInvOf, Ordered, MayRunLate, vars, orderVars, paymentVars,
       callVars, controlVars
  <2> QED
    BY <2>1, <2>2, OrderServiceStep
<1> QED
  BY <1>1, <1>2, <1>3, <1>4, FlowSteps

THEOREM FlowInvariance == FlowSpec => []FlowInv
<1>1. FlowInv /\ [FlowNext]_flowVars => FlowInv'
  BY FlowInvStep
<1> QED
  BY <1>1, FlowInvInit, PTL DEF FlowSpec

\* Every variable of both parts keeps its type while they run together.
THEOREM FlowTypeCorrect == FlowSpec => []FlowTypeOK
<1>1. FlowInv => FlowTypeOK
  BY DEF FlowInv, FlowTypeOK
<1> QED
  BY <1>1, FlowInvariance, PTL

\* No request and worker ever have an order in hand together, whatever fails,
\* crashes or is late: that is all that keeps their unguarded writes apart.
THEOREM WritersTakeTurns == FlowSpec => []OneWriterAtATime
<1>1. FlowInv => OneWriterAtATime
  BY DEF FlowInv, WorkInv, Pending, OneWriterAtATime
<1> QED
  BY <1>1, FlowInvariance, PTL

\* Whoever confirms an order, it was paid.
THEOREM FlowConfirmsPaidOrders == FlowSpec => []ConfirmedIsPaid
<1>1. FlowInv => ConfirmedIsPaid
  BY DEF FlowInv, OrderInv, OrderInvOf, ConfirmedIsPaid
<1> QED
  BY <1>1, FlowInvariance, PTL

\* Nothing is charged, queued or given up for an order that was never placed.
THEOREM NoWorkWithoutOrder == FlowSpec => []WorkHasOrder
<1>1. FlowInv => WorkHasOrder
  <2> SUFFICES ASSUME FlowInv, NEW o \in Requests,
                      charged[o] > 0 \/ R!InTheSystem(o) \/ GivenUp(o)
               PROVE  Ordered(o)
    BY DEF WorkHasOrder
  <2>1. GivenUp(o) => discarded[o][MaxAttempts] > 0 \/ deadLetters[o][MaxAttempts] > 0
    <3>1. discarded[o][MaxAttempts] \in Nat /\ deadLetters[o][MaxAttempts] \in Nat
      <4>1. discarded \in R!Bag /\ deadLetters \in R!Bag
        BY DEF FlowInv, R!TypeOK
      <4> QED
        BY <4>1, WorkerBounds DEF R!Bag
    <3> QED
      BY <3>1 DEF GivenUp
  <2>2. CASE charged[o] > 0
    BY <2>2 DEF FlowInv, OrderInv, OrderInvOf
  <2>3. CASE R!InTheSystem(o) \/ GivenUp(o)
    BY <2>1, <2>3, WorkerBounds DEF FlowInv, WorkInv, Pending
  <2> QED
    BY <2>2, <2>3
<1> QED
  BY <1>1, FlowInvariance, PTL

(***************************************************************************)
(* What is proved of createOrder alone, while the worker writes the same   *)
(* orders.                                                                 *)
(***************************************************************************)

\* The worker neither creates nor removes an order.
LEMMA WorkerPlacesNothing ==
  ASSUME FlowInv, WorkerStep
  PROVE  UNCHANGED requestVars /\ \A o \in Requests : Ordered(o)' = Ordered(o)
<1>1. WorkerEffect /\ UNCHANGED requestVars
  BY WorkerSteps DEF FlowInv
<1>2. ASSUME NEW o \in Requests PROVE Ordered(o)' = Ordered(o)
  <2>1. WorkerMay(o)
    BY <1>1 DEF WorkerEffect
  <2> QED
    BY <2>1 DEF WorkerMay, FlowInv, WorkInv, Ordered
<1> QED
  BY <1>1, <1>2

LEMMA IInvByWorker ==
  ASSUME FlowInv, FlowInv', IInv, WorkerStep
  PROVE  IInv'
<1>1. /\ UNCHANGED <<stock, taken, returned, late, pc, tries, duplicate, reply>>
      /\ \A o \in Requests : Ordered(o)' = Ordered(o)
  BY WorkerPlacesNothing DEF requestVars
<1>2. TypeOK' /\ OrderInv'
  BY DEF FlowInv
<1>3. IndexInv' /\ ReplyInv'
  BY <1>1 DEF IInv, IndexInv, IndexInvOf, ReplyInv, ReplyInvOf
<1>4. AttemptInv'
  BY <1>1 DEF IInv, AttemptInv, AttemptInvOf, MayRunLate
<1>5. StockInv'
  BY <1>1, StockKept DEF IInv, StockInv, stockVars
<1>6. HeldInv'
  BY <1>1 DEF IInv, HeldInv, HeldInvOf
<1>7. "insert" \notin Faults => BackedInv'
  BY <1>1 DEF IInv, BackedInv, BackedInvOf, MayRunLate
<1>8. "release" \notin Faults => ReleaseInv'
  BY <1>1 DEF IInv, ReleaseInv, ReleaseInvOf, MayRunLate
<1>9. "reserve" \notin Faults => RejectInv'
  BY <1>1 DEF IInv, RejectInv, RejectInvOf, MayRunLate
<1> QED
  BY <1>2, <1>3, <1>4, <1>5, <1>6, <1>7, <1>8, <1>9 DEF IInv

\* The inductive invariant of createOrder survives the worker: it is preserved
\* by every step of either.
THEOREM FlowKeepsCheckout == FlowSpec => []IInv
<1>1. FlowInit => IInv
  BY IInvInit DEF FlowInit
<1>2. FlowInv /\ FlowInv' /\ IInv /\ [FlowNext]_flowVars => IInv'
  <2> SUFFICES ASSUME FlowInv, FlowInv', IInv, [FlowNext]_flowVars PROVE IInv'
    OBVIOUS
  <2>1. CASE WorkerStep
    BY <2>1, IInvByWorker
  <2>2. CASE [Next]_vars
    BY <2>2, IInvNext, IInvKept
  <2> QED
    BY <2>1, <2>2, EitherPart
<1> QED
  BY <1>1, <1>2, FlowInvariance, PTL DEF FlowSpec

\* One key never leads to two orders or to two answers, also while the worker
\* resolves the order that was placed.
THEOREM FlowOneOrderPerKey == FlowSpec => []SameKeySameOrder
<1> QED
  BY KeysInv, FlowKeepsCheckout, PTL

\* Nothing is charged, by the request or by the worker, or may still be charged
\* by an attempt nobody waits for, for an order that was not persisted.
THEOREM FlowChargesPlacedOrders == FlowSpec => []PaidHasOrder
<1> QED
  BY PaymentsInv, FlowKeepsCheckout, PTL

\* An order holds its unit for good, whatever its payment comes to: a failed
\* payment gives nothing back.
THEOREM FlowOrdersHoldTheirUnits == "insert" \notin Faults => (FlowSpec => []OrderBacked)
<1> SUFFICES ASSUME "insert" \notin Faults PROVE FlowSpec => []OrderBacked
  OBVIOUS
<1>1. IInv => OrderBacked
  BY UnitsInv
<1> QED
  BY <1>1, FlowKeepsCheckout, PTL

\* A product is never oversold by requests and worker together.
THEOREM FlowNeverOversold ==
    "insert" \notin Faults /\ "release" \notin Faults => (FlowSpec => []NoOversell)
<1> SUFFICES ASSUME "insert" \notin Faults, "release" \notin Faults
             PROVE  FlowSpec => []NoOversell
  OBVIOUS
<1>1. IInv => NoOversell
  BY SalesInv
<1> QED
  BY <1>1, FlowKeepsCheckout, PTL

\* A rejected request holds nothing, and the worker never hears of it.
THEOREM FlowRejectionsHoldNothing ==
    "reserve" \notin Faults => (FlowSpec => []RejectedHoldsNothing)
<1> SUFFICES ASSUME "reserve" \notin Faults PROVE FlowSpec => []RejectedHoldsNothing
  OBVIOUS
<1>1. IInv => RejectedHoldsNothing
  BY RejectionsInv
<1> QED
  BY <1>1, FlowKeepsCheckout, PTL

\* The composition still implements Placement: the worker's steps sell nothing
\* and answer nobody.
THEOREM FlowImplementsPlacement ==
    "insert" \notin Faults /\ "release" \notin Faults => (FlowSpec => PlacesOrders)
<1> SUFFICES ASSUME "insert" \notin Faults, "release" \notin Faults
             PROVE  FlowSpec => PlacesOrders
  OBVIOUS
<1>1. FlowInit => Promise!Init
  BY PromiseInit DEF FlowInit
<1>2. FlowInv /\ IInv /\ [FlowNext]_flowVars =>
          [Promise!Next]_<<{o \in Requests : Ordered(o)}, reply>>
  <2> SUFFICES ASSUME FlowInv, IInv, [FlowNext]_flowVars PROVE PromisedStep
    BY DEF PromisedStep, Sold
  <2>1. CASE WorkerStep
    <3>1. reply' = reply /\ \A o \in Requests : Ordered(o)' = Ordered(o)
      BY <2>1, WorkerPlacesNothing DEF requestVars
    <3>2. Sold' = Sold
      BY <3>1 DEF Sold
    <3> QED
      BY <3>1, <3>2 DEF PromisedStep
  <2>2. CASE [Next]_vars
    BY <2>2, StepPromised
  <2> QED
    BY <2>1, <2>2, EitherPart
<1> QED
  BY <1>1, <1>2, FlowKeepsCheckout, FlowInvariance, PTL
     DEF FlowSpec, PlacesOrders, Promise!Spec

(***************************************************************************)
(* Orders stay recoverable, as long as the broker takes what it is sent.   *)
(***************************************************************************)

EventOf(o) == R!Queued(ready, o) \/ R!Queued(delayed, o)

Recoverable(o) == Resolved(o) \/ R!InTheSystem(o) \/ GivenUp(o)

\* An event is given up at the last attempt only, and acknowledged when its
\* order is resolved or has another event; what a deaf worker still has in hand
\* is in the queue as well.
WorkerKeeps ==
    /\ step \in {"fail", "nack"} /\ channel = "open" => attempt = MaxAttempts
    /\ \A o \in Requests : channel = "stale" /\ working = o => R!Queued(ready, o)
    /\ \A o \in Requests : step = "ack" /\ working = o => Resolved(o) \/ EventOf(o)

\* The loser of a race on a key never has an order of its own.
DuplicateInvOf(r) ==
    duplicate[r] => ~Ordered(r) /\ pc[r] \in {"release", "relookup", "done"}

DuplicateInv == \A r \in Requests : DuplicateInvOf(r)

RecoverInv == ReplyInv /\ DuplicateInv /\ WorkerKeeps /\ OrdersStayRecoverable

KeepsRecoverable ==
    WorkerKeeps' /\ \A o \in Requests : Recoverable(o) => Recoverable(o)'

\* The events of a bag.
LEMMA Counts ==
  ASSUME R!TypeOK
  PROVE  /\ ready \in R!Bag /\ delayed \in R!Bag /\ discarded \in R!Bag /\ deadLetters \in R!Bag
         /\ \A o \in Requests, n \in R!AttemptNumbers :
                /\ ready[o][n] \in Nat /\ delayed[o][n] \in Nat
                /\ discarded[o][n] \in Nat /\ deadLetters[o][n] \in Nat
<1>1. ready \in R!Bag /\ delayed \in R!Bag /\ discarded \in R!Bag /\ deadLetters \in R!Bag
  BY DEF R!TypeOK
<1> QED
  BY <1>1 DEF R!Bag

LEMMA KeptByTaking ==
  ASSUME R!TypeOK, WorkerKeeps, NEW o \in Requests, NEW n \in R!AttemptNumbers, R!Receive(o, n)
  PROVE  KeepsRecoverable
<1>1. /\ UNCHANGED <<orderStatus, delayed, deadLetters, discarded>>
      /\ ready[o][n] > 0 /\ ready' = R!Drop(ready, o, n)
      /\ working' = o /\ step' = "pay" /\ step = "idle"
      /\ channel' = "open"
  BY DEF R!Receive, R!orderVars
<1>2. working = Nobody /\ Nobody \notin Requests
  BY <1>1, WorkerBounds DEF R!TypeOK
<1>3. \A p \in Requests, m \in R!AttemptNumbers : p # o => ready'[p][m] = ready[p][m]
  BY <1>1, Counts, DropEvent
<1>4. \A p \in Requests : Recoverable(p) => Recoverable(p)'
  BY <1>1, <1>2, <1>3 DEF Recoverable, Resolved, GivenUp, R!InTheSystem, R!Queued
<1> QED
  BY <1>1, <1>4 DEF KeepsRecoverable, WorkerKeeps

LEMMA KeptByCalls ==
  ASSUME R!TypeOK, WorkerKeeps,
         \/ \E op \in R!Calls : R!RetryCall(op)
         \/ R!PaymentFails \/ R!ConfirmFails \/ R!MarkFailedFails
         \/ R!PaymentAccepted \/ R!ConfirmServed \/ R!MarkFailedServed
  PROVE  KeepsRecoverable
<1>1. UNCHANGED <<ready, delayed, deadLetters, discarded, working, attempt, channel>>
  BY DEF R!RetryCall, R!PaymentFails, R!ConfirmFails, R!MarkFailedFails,
         R!PaymentAccepted, R!ConfirmServed, R!MarkFailedServed, R!queueVars, R!workVars
<1>2. step' \in {"fail", "nack"} /\ channel = "open" => attempt = MaxAttempts
  BY AfterFailures
     DEF R!RetryCall, R!PaymentFails, R!ConfirmFails, R!MarkFailedFails, R!PaymentAccepted,
         R!ConfirmServed, R!MarkFailedServed, R!CallFails, R!CallReturns, WorkerKeeps
<1>3. \/ orderStatus' = orderStatus
      \/ orderStatus' = [orderStatus EXCEPT ![working] = "confirmed"]
      \/ orderStatus' = [orderStatus EXCEPT ![working] = "failed"]
  BY DEF R!RetryCall, R!PaymentFails, R!ConfirmFails, R!MarkFailedFails,
         R!PaymentAccepted, R!ConfirmServed, R!MarkFailedServed, R!orderVars, R!SetPayment
<1>4. orderStatus \in [Requests -> R!Statuses]
  BY DEF R!TypeOK
<1>5. \A p \in Requests : Resolved(p) => Resolved(p)'
  BY <1>3, <1>4 DEF Resolved
<1>6. \A p \in Requests : step' = "ack" /\ working' = p => Resolved(p)' \/ EventOf(p)'
  <2>1. CASE R!ConfirmServed
    <3>1. orderStatus' = [orderStatus EXCEPT ![working] = "confirmed"]
      BY <2>1 DEF R!ConfirmServed, R!SetPayment
    <3> QED
      BY <1>1, <1>4, <3>1 DEF Resolved
  <2>2. CASE ~R!ConfirmServed
    <3>1. step' # "ack"
      BY <2>2, AfterFailures, WorkerNames
         DEF R!RetryCall, R!PaymentFails, R!ConfirmFails, R!MarkFailedFails,
             R!PaymentAccepted, R!MarkFailedServed, R!CallFails, R!CallReturns
    <3> QED
      BY <3>1
  <2> QED
    BY <2>1, <2>2
<1>7. \A p \in Requests : Recoverable(p) => Recoverable(p)'
  BY <1>1, <1>5 DEF Recoverable, GivenUp, R!InTheSystem, R!Queued
<1>8. \A p \in Requests : R!Queued(ready, p)' = R!Queued(ready, p)
  BY <1>1 DEF R!Queued
<1> QED
  BY <1>1, <1>2, <1>6, <1>7, <1>8 DEF KeepsRecoverable, WorkerKeeps

LEMMA KeptByRescheduling ==
  ASSUME R!TypeOK, WorkerKeeps, "broker" \notin WorkerFaults, R!Reschedule
  PROVE  KeepsRecoverable
<1>1. /\ UNCHANGED <<orderStatus, ready, deadLetters, discarded, working, attempt, channel>>
      /\ step = "reschedule"
      /\ \/ step' = "ack" /\ delayed' = R!Put(delayed, working, attempt + 1)
         \/ step' = "nack" /\ channel = "stale" /\ delayed' = delayed
  BY DEF R!Reschedule, R!orderVars, R!workVars
<1>2. working \in Requests /\ attempt \in 1 .. MaxAttempts /\ attempt < MaxAttempts
  BY <1>1, InHand, WorkerBounds DEF R!TypeOK
<1>3. attempt + 1 \in R!AttemptNumbers
  BY <1>2, WorkerBounds, Bounds
<1>4. \A p \in Requests : R!Queued(ready, p)' = R!Queued(ready, p)
  BY <1>1 DEF R!Queued
<1>5. step' = "ack" => R!Queued(delayed, working)'
  <2>1. step' = "ack" => delayed'[working][attempt + 1] > 0
    BY <1>1, <1>2, <1>3, Counts, PutEvent
  <2> QED
    BY <1>1, <1>3, <2>1 DEF R!Queued
<1>6. \A p \in Requests, m \in R!AttemptNumbers : p # working => delayed'[p][m] = delayed[p][m]
  BY <1>1, <1>2, <1>3, Counts, PutEvent
<1>7. \A p \in Requests : Recoverable(p) => Recoverable(p)'
  BY <1>1, <1>6 DEF Recoverable, Resolved, GivenUp, R!InTheSystem, R!Queued
<1>8. step' = "nack" => channel' # "open"
  BY <1>1
<1> QED
  BY <1>1, <1>4, <1>5, <1>7, <1>8 DEF KeepsRecoverable, WorkerKeeps, EventOf

LEMMA KeptByAcknowledging ==
  ASSUME R!TypeOK, WorkerKeeps, R!Ack \/ R!Nack
  PROVE  KeepsRecoverable
<1>1. /\ UNCHANGED <<orderStatus, ready, delayed>>
      /\ step \in {"ack", "nack"} /\ step' = "idle" /\ working' = Nobody
      /\ channel = "open"
  BY DEF R!Ack, R!Nack, R!Finish, R!orderVars
<1>2. working \in Requests /\ attempt \in R!AttemptNumbers /\ Nobody \notin Requests
  BY <1>1, InHand, WorkerBounds DEF R!TypeOK
<1>3. CASE R!Ack
  <2>1. UNCHANGED <<deadLetters, discarded>> /\ step = "ack"
    BY <1>3 DEF R!Ack
  <2>2. \A p \in Requests : Recoverable(p) => Recoverable(p)'
    BY <1>1, <1>2, <2>1 DEF Recoverable, Resolved, GivenUp, R!InTheSystem, R!Queued, WorkerKeeps, EventOf
  <2> QED
    BY <1>1, <1>2, <2>2 DEF KeepsRecoverable, WorkerKeeps
<1>4. CASE R!Nack
  <2>1. /\ deadLetters' = deadLetters /\ discarded' = R!Put(discarded, working, attempt)
        /\ attempt = MaxAttempts
    BY <1>1, <1>4 DEF R!Nack, R!DeadLettersRejected, WorkerKeeps
  <2>2. /\ \A p \in Requests : p # working =>
               discarded'[p][MaxAttempts] = discarded[p][MaxAttempts]
        /\ discarded'[working][MaxAttempts] = discarded[working][MaxAttempts] + 1
    BY <1>2, <2>1, Counts, PutEvent, WorkerBounds
  <2>3. ASSUME NEW p \in Requests, p = working PROVE GivenUp(p)'
    <3>1. discarded'[p][MaxAttempts] = discarded[p][MaxAttempts] + 1
      BY <2>2, <2>3
    <3>2. discarded[p][MaxAttempts] \in Nat /\ deadLetters[p][MaxAttempts] \in Nat
      BY Counts, WorkerBounds
    <3> QED
      BY <2>1, <3>1, <3>2 DEF GivenUp
  <2>4. \A p \in Requests : p # working /\ Recoverable(p) => Recoverable(p)'
    BY <1>1, <2>1, <2>2 DEF Recoverable, Resolved, GivenUp, R!InTheSystem, R!Queued
  <2>5. \A p \in Requests : Recoverable(p) => Recoverable(p)'
    BY <2>3, <2>4 DEF Recoverable
  <2> QED
    BY <1>1, <1>2, <2>5 DEF KeepsRecoverable, WorkerKeeps
<1> QED
  BY <1>3, <1>4

LEMMA KeptByThrowing ==
  ASSUME R!TypeOK, WorkerKeeps, R!AnswerThrows
  PROVE  KeepsRecoverable
<1>1. /\ UNCHANGED <<orderStatus, ready, delayed, deadLetters, discarded>>
      /\ channel = "stale" /\ channel' = "down" /\ step' = "idle" /\ working' = Nobody
  BY DEF R!AnswerThrows, R!orderVars, R!queueVars
<1>2. \A p \in Requests : working = p => R!Queued(ready, p)
  BY <1>1 DEF WorkerKeeps
<1>3. \A p \in Requests : Recoverable(p) => Recoverable(p)'
  BY <1>1, <1>2 DEF Recoverable, Resolved, GivenUp, R!InTheSystem, R!Queued
<1> QED
  BY <1>1, <1>3 DEF KeepsRecoverable, WorkerKeeps

LEMMA KeptByExpiring ==
  ASSUME R!TypeOK, WorkerKeeps, NEW o \in Requests, NEW n \in R!AttemptNumbers, R!Expire(o, n)
  PROVE  KeepsRecoverable
<1>1. /\ UNCHANGED <<orderStatus, deadLetters, discarded, working, attempt, step, channel>>
      /\ delayed[o][n] > 0 /\ delayed' = R!Drop(delayed, o, n) /\ ready' = R!Put(ready, o, n)
  BY DEF R!Expire, R!orderVars, R!workVars
<1>2. /\ ready'[o][n] > 0
      /\ \A p \in Requests, m \in R!AttemptNumbers : p # o =>
             ready'[p][m] = ready[p][m] /\ delayed'[p][m] = delayed[p][m]
  BY <1>1, Counts, PutEvent, DropEvent
<1>3. R!Queued(ready, o)'
  BY <1>2 DEF R!Queued
<1>4. \A p \in Requests : /\ EventOf(p) => EventOf(p)'
                          /\ R!Queued(ready, p) => R!Queued(ready, p)'
  BY <1>2, <1>3 DEF EventOf, R!Queued
<1>5. \A p \in Requests : Resolved(p)' = Resolved(p) /\ GivenUp(p)' = GivenUp(p)
  BY <1>1 DEF Resolved, GivenUp
<1>6. \A p \in Requests : Recoverable(p) => Recoverable(p)'
  BY <1>1, <1>4, <1>5 DEF Recoverable, R!InTheSystem, EventOf
<1> QED
  BY <1>1, <1>4, <1>5, <1>6 DEF KeepsRecoverable, WorkerKeeps

\* The event in hand is queued again, or was already.
LEMMA RequeuesEvent ==
  ASSUME R!TypeOK, WorkerKeeps, NEW w \in Requests, working = w, ready' = R!Requeued
  PROVE  /\ R!Queued(ready, w)'
         /\ \A p \in Requests : R!Queued(ready, p) => R!Queued(ready, p)'
<1>1. attempt \in R!AttemptNumbers /\ step # "idle"
  BY WorkerBounds DEF R!TypeOK
<1>2. CASE channel = "open"
  <2>1. ready' = R!Put(ready, w, attempt)
    BY <1>1, <1>2 DEF R!Requeued
  <2>2. /\ ready'[w][attempt] > 0
        /\ \A p \in Requests, m \in R!AttemptNumbers : p # w => ready'[p][m] = ready[p][m]
    BY <1>1, <2>1, Counts, PutEvent
  <2>3. R!Queued(ready, w)'
    BY <1>1, <2>2 DEF R!Queued
  <2> QED
    BY <2>2, <2>3 DEF R!Queued
<1>3. CASE channel # "open"
  <2>1. ready' = ready /\ channel = "stale"
    BY <1>1, <1>3 DEF R!Requeued, R!TypeOK
  <2>2. R!Queued(ready, w)
    BY <2>1 DEF WorkerKeeps
  <2> QED
    BY <2>1, <2>2 DEF R!Queued
<1> QED
  BY <1>2, <1>3

LEMMA KeptByCrashing ==
  ASSUME R!TypeOK, WorkerKeeps, R!Crash \/ R!Restart
  PROVE  KeepsRecoverable
<1>0. step = "idle" <=> working = Nobody
  BY DEF R!TypeOK
<1>1. CASE R!Restart
  <2>1. /\ UNCHANGED <<orderStatus, ready, delayed, deadLetters, discarded, working, attempt, step>>
        /\ step = "idle" /\ working = Nobody /\ channel' = "open"
    BY <1>0, <1>1 DEF R!Restart, R!orderVars, R!queueVars, R!workVars
  <2>2. \A p \in Requests : Recoverable(p) => Recoverable(p)'
    BY <2>1 DEF Recoverable, Resolved, GivenUp, R!InTheSystem, R!Queued
  <2> QED
    BY <2>1, <2>2 DEF KeepsRecoverable, WorkerKeeps
<1>2. CASE R!Crash
  <2>1. /\ UNCHANGED <<orderStatus, delayed, deadLetters, discarded>>
        /\ step # "idle" /\ step' = "idle" /\ working' = Nobody /\ channel' = "down"
        /\ ready' = R!Requeued
    BY <1>2 DEF R!Crash, R!orderVars
  <2>2. working \in Requests
    BY <2>1, InHand
  <2>3. /\ \A p \in Requests : R!Queued(ready, p) => R!Queued(ready, p)'
        /\ \A p \in Requests : working = p => R!Queued(ready, p)'
    BY <2>1, <2>2, RequeuesEvent
  <2>4. \A p \in Requests : Recoverable(p) => Recoverable(p)'
    BY <2>1, <2>3 DEF Recoverable, Resolved, GivenUp, R!InTheSystem, R!Queued
  <2> QED
    BY <2>1, <2>4 DEF KeepsRecoverable, WorkerKeeps
<1> QED
  BY <1>1, <1>2

LEMMA KeptByLosingConnection ==
  ASSUME R!TypeOK, WorkerKeeps, R!LosesConnection
  PROVE  KeepsRecoverable
<1>1. /\ UNCHANGED <<orderStatus, delayed, deadLetters, discarded, working, attempt, step>>
      /\ channel = "open" /\ channel' = "stale" /\ ready' = R!Requeued
  BY DEF R!LosesConnection, R!orderVars, R!workVars
<1>2. \A p \in Requests : R!Queued(ready, p) => R!Queued(ready, p)'
  <2>1. CASE step = "idle"
    BY <1>1, <2>1 DEF R!Requeued, R!Queued
  <2>2. CASE step # "idle"
    BY <1>1, <2>2, InHand, RequeuesEvent
  <2> QED
    BY <2>1, <2>2
<1>3. \A p \in Requests : working = p => R!Queued(ready, p)'
  BY <1>1, RequeuesEvent
<1>4. \A p \in Requests : Recoverable(p) => Recoverable(p)'
  BY <1>1, <1>2 DEF Recoverable, Resolved, GivenUp, R!InTheSystem, R!Queued
<1>5. \A p \in Requests : EventOf(p) => EventOf(p)'
  BY <1>1, <1>2 DEF EventOf, R!Queued
<1>6. \A p \in Requests : Resolved(p)' = Resolved(p)
  BY <1>1 DEF Resolved
<1> QED
  BY <1>1, <1>3, <1>4, <1>5, <1>6 DEF KeepsRecoverable, WorkerKeeps

LEMMA KeptByLateCalls ==
  ASSUME R!TypeOK, WorkerKeeps, NEW op \in R!Calls, NEW o \in Requests, R!Late(op, o)
  PROVE  KeepsRecoverable
<1>1. UNCHANGED <<ready, delayed, deadLetters, discarded, working, attempt, step, channel>>
  BY DEF R!Late, R!queueVars, R!workVars
<1>2. \/ orderStatus' = orderStatus
      \/ orderStatus' = [orderStatus EXCEPT ![o] = "confirmed"]
      \/ orderStatus' = [orderStatus EXCEPT ![o] = "failed"]
  BY DEF R!Late, R!orderVars, R!SetPayment
<1>3. orderStatus \in [Requests -> R!Statuses]
  BY DEF R!TypeOK
<1>4. \A p \in Requests : Resolved(p) => Resolved(p)'
  BY <1>2, <1>3 DEF Resolved
<1>5. \A p \in Requests : /\ GivenUp(p)' = GivenUp(p)
                          /\ EventOf(p)' = EventOf(p)
                          /\ R!Queued(ready, p)' = R!Queued(ready, p)
  BY <1>1 DEF GivenUp, EventOf, R!Queued
<1> QED
  BY <1>1, <1>4, <1>5 DEF KeepsRecoverable, WorkerKeeps, Recoverable, R!InTheSystem, EventOf

LEMMA KeptByWorker ==
  ASSUME R!TypeOK, WorkerKeeps, "broker" \notin WorkerFaults, WorkerStep
  PROVE  KeepsRecoverable
<1>1. CASE Worker
  <2>1. R!Worker
    BY <1>1 DEF Worker
  <2>2. CASE \E o \in Requests, n \in R!AttemptNumbers : R!Receive(o, n)
    BY <2>2, KeptByTaking
  <2>3. CASE R!Reschedule \/ R!Ack \/ R!Nack \/ R!AnswerThrows
    BY <2>3, KeptByRescheduling, KeptByAcknowledging, KeptByThrowing
  <2>4. CASE \/ \E op \in R!Calls : R!RetryCall(op)
             \/ R!PaymentFails \/ R!ConfirmFails \/ R!MarkFailedFails
             \/ R!PaymentAccepted \/ R!ConfirmServed \/ R!MarkFailedServed
    BY <2>4, KeptByCalls
  <2> QED
    BY <2>1, <2>2, <2>3, <2>4 DEF R!Worker
<1>2. CASE WorkerInterrupted \/ WorkerRestart
  BY <1>2, KeptByCrashing, KeptByLosingConnection
     DEF WorkerInterrupted, R!Interrupted, WorkerRestart
<1>3. CASE \E o \in Requests, n \in R!AttemptNumbers : Expire(o, n)
  BY <1>3, KeptByExpiring DEF Expire
<1>4. CASE \E op \in R!Calls, o \in Requests : LateWorkerCall(op, o)
  BY <1>4, KeptByLateCalls DEF LateWorkerCall
<1> QED
  BY <1>1, <1>2, <1>3, <1>4 DEF WorkerStep

LEMMA DuplicateHandler ==
  ASSUME TypeOK, OrderInv, DuplicateInv, NEW r \in Requests, Handler(r), NEW q \in Requests
  PROVE  DuplicateInvOf(q)'
<1> USE DEF TypeOK, stockVars, orderVars, paymentVars, callVars, controlVars, Ordered,
           Goto, Answer, CallReturns, CallFails, DuplicateInv, DuplicateInvOf,
           OrderInv, OrderInvOf, BeforeCreate, Settling
<1>1. CASE Lookup(r)
  BY <1>1 DEF Lookup
<1>2. CASE Validate(r)
  BY <1>2 DEF Validate
<1>3. ASSUME NEW op \in Calls, RetryCall(op, r) PROVE DuplicateInvOf(q)'
  BY <1>3 DEF RetryCall
<1>4. CASE ReserveServed(r)
  BY <1>4 DEF ReserveServed
<1>5. CASE ReserveConflict(r)
  BY <1>5 DEF ReserveConflict
<1>6. CASE ReserveFails(r)
  BY <1>6 DEF ReserveFails
<1>7. CASE Create(r)
  BY <1>7 DEF Create, InsertOrder, SetPayment
<1>8. CASE ReleaseServed(r)
  BY <1>8 DEF ReleaseServed, AfterRelease
<1>9. CASE ReleaseFails(r)
  BY <1>9 DEF ReleaseFails, AfterRelease
<1>10. CASE Relookup(r)
  BY <1>10 DEF Relookup
<1>11. CASE MarkPending(r)
  BY <1>11 DEF MarkPending, SetPayment
<1>12. CASE PaymentAccepted(r)
  BY <1>12 DEF PaymentAccepted
<1>13. CASE PaymentFails(r)
  BY <1>13 DEF PaymentFails
<1>14. CASE PublishRetry(r)
  BY <1>14 DEF PublishRetry
<1>15. CASE Confirm(r)
  BY <1>15 DEF Confirm, SetPayment
<1> QED
  BY <1>1, <1>2, <1>3, <1>4, <1>5, <1>6, <1>7, <1>8, <1>9, <1>10, <1>11,
     <1>12, <1>13, <1>14, <1>15 DEF Handler

LEMMA DuplicateStep ==
  ASSUME TypeOK, OrderInv, DuplicateInv, [Next]_vars
  PROVE  DuplicateInv'
<1> SUFFICES ASSUME NEW q \in Requests PROVE DuplicateInvOf(q)'
  BY DEF DuplicateInv
<1>1. CASE \E r \in Requests : Handler(r)
  BY <1>1, DuplicateHandler
<1>2. CASE \E r \in Requests : Late(r)
  BY <1>2 DEF Late, LateReserve, LateRelease, LatePayment, orderVars, controlVars,
              Ordered, DuplicateInv, DuplicateInvOf
<1>3. CASE Crash
  BY <1>3 DEF Crash, InProgress, orderVars, Ordered, TypeOK, DuplicateInv, DuplicateInvOf
<1>4. CASE Finished \/ UNCHANGED vars
  BY <1>4 DEF Finished, vars, orderVars, controlVars, Ordered, DuplicateInv, DuplicateInvOf
<1> QED
  BY <1>1, <1>2, <1>3, <1>4 DEF Next

LEMMA ReplyStep ==
  ASSUME TypeOK, OrderInv, ReplyInv, [Next]_vars
  PROVE  ReplyInv'
<1> SUFFICES ASSUME NEW q \in Requests PROVE ReplyInvOf(q)'
  BY DEF ReplyInv
<1>1. CASE UNCHANGED vars
  BY <1>1 DEF vars, orderVars, controlVars, ReplyInv, ReplyInvOf, Ordered
<1> QED
  BY <1>1, ReplyHandler, ReplyLate, ReplyCrash DEF Next, Finished

LEMMA Counted ==
  ASSUME TypeOK
  PROVE  \A q \in Requests : ready[q][1] \in Nat
<1>1. ready \in [Requests -> [1 .. MaxAttempts -> Nat]] /\ 1 \in 1 .. MaxAttempts
  BY Bounds DEF TypeOK
<1> QED
  BY <1>1

\* A request that answers with its own order has resolved it, or has published
\* the event that will.
LEMMA AnswersRecoverable ==
  ASSUME TypeOK, OrderInv, ReplyInv, DuplicateInv, "broker" \notin Faults,
         [Next]_vars, NEW q \in Requests, reply[q] # q, reply'[q] = q
  PROVE  Resolved(q)' \/ ready'[q][1] > 0
<1> USE NotOrders DEF TypeOK, stockVars, orderVars, paymentVars, callVars, controlVars, Ordered,
           Goto, Answer, CallReturns, CallFails, Resolved
<1>0. q \notin Failures \cup {"none"} /\ q # "internal" /\ q # "conflict" /\ q # "upstream" /\ q # "dropped"
  BY CheckoutAssumption DEF Failures
<1>1. ASSUME NEW r \in Requests, Handler(r) PROVE Resolved(q)' \/ ready'[q][1] > 0
  <2>1. CASE Lookup(r)
    BY <1>0, <2>1 DEF Lookup, OrdersUnderKey, OrderInv, OrderInvOf, BeforeCreate
  <2>2. CASE Relookup(r)
    BY <1>0, <2>2 DEF Relookup, OrdersUnderKey, ReplyInv, ReplyInvOf, DuplicateInv, DuplicateInvOf
  <2>3. CASE PublishRetry(r)
    <3>1. r = q /\ ready' = [ready EXCEPT ![r][1] = @ + 1]
      BY <1>0, <2>3 DEF PublishRetry
    <3> QED
      BY <3>1, WorkerBounds, Counted, PublishedEvents
  <2>4. CASE Confirm(r)
    BY <1>0, <2>4 DEF Confirm, SetPayment
  <2>5. CASE Validate(r)
    BY <1>0, <2>5 DEF Validate
  <2>6. CASE \E op \in Calls : RetryCall(op, r)
    BY <2>6 DEF RetryCall
  <2>7. CASE ReserveServed(r) \/ ReserveConflict(r) \/ ReserveFails(r)
    BY <1>0, <2>7 DEF ReserveServed, ReserveConflict, ReserveFails
  <2>8. CASE Create(r) \/ MarkPending(r)
    BY <1>0, <2>8 DEF Create, MarkPending
  <2>9. CASE ReleaseServed(r) \/ ReleaseFails(r)
    BY <1>0, <2>9 DEF ReleaseServed, ReleaseFails, AfterRelease
  <2>10. CASE PaymentAccepted(r) \/ PaymentFails(r)
    BY <1>0, <2>10 DEF PaymentAccepted, PaymentFails
  <2> QED
    BY <1>1, <2>1, <2>2, <2>3, <2>4, <2>5, <2>6, <2>7, <2>8, <2>9, <2>10 DEF Handler
<1>2. CASE \E r \in Requests : Late(r)
  BY <1>2 DEF Late, LateReserve, LateRelease, LatePayment
<1>3. CASE Crash
  BY <1>0, <1>3 DEF Crash
<1>4. CASE Finished \/ UNCHANGED vars
  BY <1>4 DEF Finished, vars
<1> QED
  BY <1>1, <1>2, <1>3, <1>4 DEF Next

LEMMA RecoverByOrderService ==
  ASSUME FlowInv, RecoverInv, "broker" \notin Faults, [Next]_vars, UNCHANGED workerVars
  PROVE  RecoverInv'
<1>0. TypeOK /\ R!TypeOK /\ OrderInv /\ WorkInv /\ ReplyInv /\ DuplicateInv
  BY DEF FlowInv, RecoverInv
<1>1. ReplyInv' /\ DuplicateInv'
  BY <1>0, ReplyStep, DuplicateStep
<1>2. \A q \in Requests : RequestEffect(q)
  BY <1>0, OrderServiceEffect
<1>3. UNCHANGED <<step, working, attempt, delayed, deadLetters, discarded, channel>>
  BY DEF workerVars
<1>4. ASSUME NEW q \in Requests, pc[q] = "done"
      PROVE  /\ Resolved(q)' = Resolved(q) /\ GivenUp(q)' = GivenUp(q)
             /\ R!InTheSystem(q)' = R!InTheSystem(q)
             /\ R!Queued(ready, q)' = R!Queued(ready, q) /\ R!Queued(delayed, q)' = R!Queued(delayed, q)
  <2>1. \A n \in R!AttemptNumbers : ready'[q][n] = ready[q][n]
    BY <1>2, <1>4 DEF RequestEffect
  <2>2. orderStatus'[q] = orderStatus[q]
    BY <1>2, <1>4 DEF RequestEffect
  <2> QED
    BY <1>3, <2>1, <2>2 DEF Resolved, GivenUp, R!InTheSystem, R!Queued
<1>5. WorkerKeeps'
  <2>1. \A q \in Requests : working = q => pc[q] = "done"
    BY <1>0 DEF WorkInv, Pending, R!InTheSystem
  <2> QED
    BY <1>3, <1>4, <2>1 DEF RecoverInv, WorkerKeeps, EventOf
<1>6. ASSUME NEW q \in Requests, reply'[q] = q PROVE Recoverable(q)'
  <2>1. CASE reply[q] = q
    <3>1. pc[q] = "done"
      BY <1>0, <2>1, NotOrders DEF ReplyInv, ReplyInvOf
    <3>2. Recoverable(q)
      BY <2>1 DEF RecoverInv, OrdersStayRecoverable, Recoverable
    <3> QED
      BY <1>4, <3>1, <3>2 DEF Recoverable
  <2>2. CASE reply[q] # q
    <3>1. Resolved(q)' \/ ready'[q][1] > 0
      BY <1>0, <1>6, <2>2, AnswersRecoverable
    <3> QED
      BY <3>1, WorkerBounds DEF Recoverable, R!InTheSystem, R!Queued
  <2> QED
    BY <2>1, <2>2
<1>7. OrdersStayRecoverable'
  BY <1>6 DEF OrdersStayRecoverable, Recoverable
<1> QED
  BY <1>1, <1>5, <1>7 DEF RecoverInv

LEMMA RecoverByWorker ==
  ASSUME FlowInv, RecoverInv, "broker" \notin WorkerFaults, WorkerStep
  PROVE  RecoverInv'
<1>1. WorkerEffect /\ UNCHANGED <<pc, reply, duplicate>>
  BY WorkerSteps DEF FlowInv, requestVars
<1>2. KeepsRecoverable
  BY KeptByWorker DEF FlowInv, RecoverInv
<1>3. \A o \in Requests : Ordered(o)' = Ordered(o)
  BY WorkerPlacesNothing
<1>4. ReplyInv' /\ DuplicateInv'
  BY <1>1, <1>3 DEF RecoverInv, ReplyInv, ReplyInvOf, DuplicateInv, DuplicateInvOf
<1>5. OrdersStayRecoverable'
  BY <1>1, <1>2 DEF RecoverInv, OrdersStayRecoverable, KeepsRecoverable, Recoverable
<1> QED
  BY <1>2, <1>4, <1>5 DEF RecoverInv, KeepsRecoverable

LEMMA RecoverInit == FlowInit => RecoverInv
<1> SUFFICES ASSUME FlowInit PROVE RecoverInv
  OBVIOUS
<1>1. Init /\ R!WorkerInit
  BY DEF FlowInit
<1>2. ReplyInv
  BY <1>1, IInvInit DEF IInv
<1> QED
  BY <1>1, <1>2, NotOrders DEF Init, R!WorkerInit, RecoverInv, DuplicateInv, DuplicateInvOf,
     WorkerKeeps, OrdersStayRecoverable

\* An order its client was told about is never lost, by any number of requests
\* and crashes of either process, as long as the broker takes what it is sent.
THEOREM NoOrderIsLost ==
    "broker" \notin Faults \cup WorkerFaults => (FlowSpec => []OrdersStayRecoverable)
<1> SUFFICES ASSUME "broker" \notin Faults, "broker" \notin WorkerFaults
             PROVE  FlowSpec => []OrdersStayRecoverable
  OBVIOUS
<1>1. FlowInv /\ RecoverInv /\ [FlowNext]_flowVars => RecoverInv'
  <2> SUFFICES ASSUME FlowInv, RecoverInv, [FlowNext]_flowVars PROVE RecoverInv'
    OBVIOUS
  <2>1. CASE WorkerStep
    BY <2>1, RecoverByWorker
  <2>2. CASE [Next]_vars /\ UNCHANGED workerVars
    BY <2>2, RecoverByOrderService
  <2> QED
    BY <2>1, <2>2, EitherPart
<1>2. RecoverInv => OrdersStayRecoverable
  BY DEF RecoverInv
<1> QED
  BY <1>1, <1>2, FlowInvariance, RecoverInit, PTL DEF FlowSpec

(***************************************************************************)
(* The theorems of PaymentRetryProofs, about the worker of the             *)
(* composition.                                                            *)
(***************************************************************************)

P == INSTANCE PaymentRetryProofs WITH
    Orders <- Requests, Faults <- WorkerFaults, MaxCrashes <- MaxWorkerCrashes,
    tries <- workerTries, late <- workerLate, crashes <- workerCrashes

LEMMA Alone == P!PaymentRetryAssumption
  BY OrderFlowAssumption, Bounds DEF P!PaymentRetryAssumption, P!Calls

\* PaymentRetry is instantiated twice, by itself and with its proofs.
LEMMA SameState ==
    /\ R!TypeOK <=> P!TypeOK
    /\ R!AttemptNumbers = P!AttemptNumbers /\ R!Calls = P!Calls
    /\ R!EventsBounded <=> P!EventsBounded
  BY DEF R!TypeOK, R!Statuses, R!Bag, R!AttemptNumbers, R!Steps, R!Calls,
         P!TypeOK, P!Statuses, P!Bag, P!AttemptNumbers, P!Steps, P!Calls,
         R!EventsBounded, R!CopiesLeft, R!Copies, R!Handling, R!Cardinality,
         P!EventsBounded, P!CopiesLeft, P!Copies, P!Handling, P!Cardinality

LEMMA SameStateAfterwards == R!TypeOK' <=> P!TypeOK'
<1>1. R!TypeOK <=> P!TypeOK
  BY SameState
<1> QED
  BY <1>1, PTL

LEMMA SameSteps ==
    /\ R!Worker <=> P!Worker
    /\ R!Interrupted <=> P!Interrupted
    /\ R!Restart <=> P!Restart
    /\ \A o \in Requests, n \in R!AttemptNumbers : R!Expire(o, n) <=> P!Expire(o, n)
    /\ \A op \in R!Calls, o \in Requests : R!Late(op, o) <=> P!Late(op, o)
  BY DEF R!Worker, R!Interrupted, R!Crash, R!LosesConnection, R!Requeued, R!AnswerThrows,
         R!Restart, R!Expire, R!Late, R!Receive, R!RetryCall,
         R!PaymentAccepted, R!PaymentFails, R!ConfirmServed, R!ConfirmFails, R!Reschedule,
         R!MarkFailedServed, R!MarkFailedFails, R!Ack, R!Nack, R!Finish,
         R!orderVars, R!queueVars, R!workVars, R!callVars, R!Put, R!Drop, R!MoreLate,
         R!LessLate, R!Abandon, R!CallFails, R!CallReturns, R!AfterFailure, R!SetPayment,
         R!DeadLettersRejected, R!AttemptNumbers, R!Calls,
         P!Worker, P!Interrupted, P!Crash, P!LosesConnection, P!Requeued, P!AnswerThrows,
         P!Restart, P!Expire, P!Late, P!Receive, P!RetryCall,
         P!PaymentAccepted, P!PaymentFails, P!ConfirmServed, P!ConfirmFails, P!Reschedule,
         P!MarkFailedServed, P!MarkFailedFails, P!Ack, P!Nack, P!Finish,
         P!orderVars, P!queueVars, P!workVars, P!callVars, P!Put, P!Drop, P!MoreLate,
         P!LessLate, P!Abandon, P!CallFails, P!CallReturns, P!AfterFailure, P!SetPayment,
         P!DeadLettersRejected, P!AttemptNumbers, P!Calls

\* The worker of the composition takes the steps of PaymentRetry.
LEMMA WorkerAlone ==
  ASSUME WorkerStep
  PROVE  P!Next
<1>1. CASE Worker
  BY <1>1, SameSteps DEF Worker, P!Next
<1>2. CASE WorkerInterrupted \/ WorkerRestart
  BY <1>2, SameSteps DEF WorkerInterrupted, WorkerRestart, P!Next
<1>3. CASE \E o \in Requests, n \in R!AttemptNumbers : Expire(o, n)
  BY <1>3, SameSteps, SameState DEF Expire, P!Next
<1>4. CASE \E op \in R!Calls, o \in Requests : LateWorkerCall(op, o)
  BY <1>4, SameSteps, SameState DEF LateWorkerCall, P!Next
<1> QED
  BY <1>1, <1>2, <1>3, <1>4 DEF WorkerStep

\* What its own request does to the events of an order: nothing, until it
\* publishes the first one.
OwnEvents(q) ==
    \/ /\ P!CopiesLeft(q)' = P!CopiesLeft(q) /\ P!ChancesLeft(q)' = P!ChancesLeft(q)
       /\ P!Quiet(q)' = P!Quiet(q)
    \/ /\ ~Pending(q) /\ pc[q] = "publish" /\ pc'[q] = "done" /\ orderStatus'[q] = orderStatus[q]
       /\ P!CopiesLeft(q)' = 1 /\ P!ChancesLeft(q)' = MaxAttempts

\* Without an event, in a queue or in hand.
LEMMA NotPending ==
  ASSUME FlowInv, NEW q \in Requests, ~Pending(q)
  PROVE  /\ P!Quiet(q) /\ working # q /\ \A op \in P!Calls : workerLate[op][q] = 0
         /\ P!CopiesLeft(q) = 0 /\ P!ChancesLeft(q) = 0
<1>0. R!TypeOK /\ P!TypeOK
  BY SameState DEF FlowInv
<1>1. \A n \in R!AttemptNumbers : ready[q][n] = 0 /\ delayed[q][n] = 0
  BY <1>0, Counts DEF Pending, R!InTheSystem, R!Queued
<1>2. working # q
  BY DEF Pending, R!InTheSystem
<1>3. \A op \in R!Calls : workerLate[op][q] = 0
  <2>1. \A op \in R!Calls : workerLate[op][q] \in Nat
    BY <1>0 DEF R!TypeOK
  <2> QED
    BY <2>1 DEF Pending
<1>4. P!Quiet(q)
  BY <1>1, SameState DEF P!Quiet
<1>5. P!CopiesLeft(q) = 0 /\ P!ChancesLeft(q) = 0
  BY <1>0, <1>4, Alone, P!Counted DEF P!EventCounts
<1> QED
  BY <1>2, <1>3, <1>4, <1>5, SameState

LEMMA EventsOfRequest ==
  ASSUME FlowInv, [Next]_vars, UNCHANGED workerVars, R!TypeOK', NEW q \in Requests
  PROVE  OwnEvents(q)
<1>1. RequestEffect(q)
  BY OrderServiceEffect DEF FlowInv
<1>2. delayed' = delayed
  BY DEF workerVars
<1>3. CASE \A n \in R!AttemptNumbers : ready'[q][n] = ready[q][n]
  <2>1. \A n \in P!AttemptNumbers : ready'[q][n] = ready[q][n]
    BY <1>3, SameState
  <2>2. P!Quiet(q)' = P!Quiet(q)
    BY <1>2, <2>1 DEF P!Quiet, P!AttemptNumbers
  <2>3. P!Copies(ready, q)' = P!Copies(ready, q) /\ P!Chances(ready, q)' = P!Chances(ready, q)
    BY <2>1 DEF P!Copies, P!Chances, P!AttemptNumbers
  <2>4. P!Copies(delayed, q)' = P!Copies(delayed, q) /\ P!Chances(delayed, q)' = P!Chances(delayed, q)
    BY <1>2 DEF P!Copies, P!Chances, P!AttemptNumbers
  <2> QED
    BY <2>2, <2>3, <2>4 DEF OwnEvents, P!CopiesLeft, P!ChancesLeft
<1>4. CASE /\ pc[q] = "publish" /\ pc'[q] = "done" /\ orderStatus'[q] = orderStatus[q]
           /\ \A n \in R!AttemptNumbers : ready'[q][n] = IF n = 1 THEN ready[q][n] + 1 ELSE ready[q][n]
  <2>1. ~Pending(q)
    BY <1>4 DEF FlowInv, WorkInv
  <2>2. \A n \in P!AttemptNumbers : ready[q][n] = 0 /\ delayed[q][n] = 0
    BY <2>1, NotPending DEF P!Quiet
  <2>3. \A n \in P!AttemptNumbers : ready'[q][n] = (IF n = 1 THEN 1 ELSE 0) /\ delayed'[q][n] = 0
    BY <1>2, <1>4, <2>2, SameState
  <2>4. P!Fresh(q)'
    BY <2>3 DEF P!Fresh, P!AttemptNumbers
  <2>5. P!TypeOK'
    BY SameStateAfterwards
  <2>6. P!CopiesLeft(q)' = 1 /\ P!ChancesLeft(q)' = MaxAttempts
    BY <2>4, <2>5, Alone, P!CountedAfterwards DEF P!EventCounts
  <2> QED
    BY <1>4, <2>1, <2>6 DEF OwnEvents
<1> QED
  BY <1>1, <1>3, <1>4 DEF RequestEffect

(***************************************************************************)
(* An order has one event at a time, and one more for every crash.         *)
(***************************************************************************)

LEMMA LoadByWorker ==
  ASSUME FlowInv, P!EventsBounded, WorkerStep
  PROVE  P!EventsBounded'
<1>1. P!TypeOK /\ P!Next
  BY SameState, WorkerAlone DEF FlowInv
<1> QED
  BY <1>1, Alone, P!LoadStep

LEMMA LoadByOrderService ==
  ASSUME FlowInv, FlowInv', P!EventsBounded, [Next]_vars, UNCHANGED workerVars
  PROVE  P!EventsBounded'
<1> SUFFICES ASSUME NEW q \in Requests
             PROVE  P!CopiesLeft(q)' + (IF P!Handling(q)' THEN 1 ELSE 0) <= 1 + workerCrashes'
  BY DEF P!EventsBounded
<1>1. OwnEvents(q)
  BY EventsOfRequest DEF FlowInv
<1>2. /\ P!CopiesLeft(q) + (IF P!Handling(q) THEN 1 ELSE 0) <= 1 + workerCrashes
      /\ P!Handling(q)' = P!Handling(q) /\ workerCrashes' = workerCrashes
      /\ workerCrashes \in Nat
  BY WorkerBounds DEF P!EventsBounded, P!Handling, workerVars, FlowInv, R!TypeOK
<1>3. ~Pending(q) => ~P!Handling(q)
  BY DEF Pending, R!InTheSystem, P!Handling
<1> QED
  BY <1>1, <1>2, <1>3 DEF OwnEvents

LEMMA LoadInit == FlowInit => P!EventsBounded
<1> SUFFICES ASSUME FlowInit, NEW q \in Requests
             PROVE  P!CopiesLeft(q) + (IF P!Handling(q) THEN 1 ELSE 0) <= 1 + workerCrashes
  BY DEF P!EventsBounded
<1>1. FlowInv /\ ~Pending(q)
  BY FlowInvInit, NothingPending
<1>2. P!CopiesLeft(q) = 0 /\ working # q
  BY <1>1, NotPending
<1>3. workerCrashes = 0
  BY DEF FlowInit, R!WorkerInit
<1> QED
  BY <1>2, <1>3 DEF P!Handling

LEMMA LoadInvariance == FlowSpec => [](FlowInv /\ P!EventsBounded)
<1>1. FlowInv /\ FlowInv' /\ P!EventsBounded /\ [FlowNext]_flowVars => P!EventsBounded'
  <2> SUFFICES ASSUME FlowInv, FlowInv', P!EventsBounded, [FlowNext]_flowVars PROVE P!EventsBounded'
    OBVIOUS
  <2> QED
    BY EitherPart, LoadByWorker, LoadByOrderService
<1> QED
  BY <1>1, FlowInvariance, LoadInit, PTL DEF FlowSpec

\* Whatever the order service and the worker do together, an order has one event
\* that is still to be handled, and one more for every crash of the worker.
THEOREM FlowEventsAreBounded == FlowSpec => []R!EventsBounded
<1>1. P!EventsBounded => R!EventsBounded
  BY SameState
<1> QED
  BY <1>1, LoadInvariance, PTL

(***************************************************************************)
(* What an order costs, from its request to its last event.                *)
(***************************************************************************)

\* Until its request is over, the worker has nothing to do with an order; from
\* then on, what its events may cost is what the worker allows.
FlowCostOf(q) ==
    IF pc[q] = "done"
    THEN P!Cost(q) + Cardinality(Open(q)) <= MaxRetries + 1 + P!Allowance
    ELSE ChargeInvOf(q)

FlowCostInv == \A q \in Requests : FlowCostOf(q)

\* What there is to add up.
CostTypes ==
    \A q \in Requests :
        /\ P!Cost(q) \in Nat /\ P!MayStillCost(q) \in Nat /\ P!Spent(q) \in Nat
        /\ P!MaxCharges(P!ChancesLeft(q)) \in Nat
        /\ Cardinality(Open(q)) \in Nat
        /\ P!Allowance \in Nat /\ P!MaxCharges(MaxAttempts) \in Nat
        /\ P!MaxCharges(MaxAttempts) <= P!Allowance

LEMMA CostType == FlowInv => CostTypes
<1> SUFFICES ASSUME FlowInv, NEW q \in Requests
             PROVE  /\ P!Cost(q) \in Nat /\ P!MayStillCost(q) \in Nat /\ P!Spent(q) \in Nat
                    /\ P!MaxCharges(P!ChancesLeft(q)) \in Nat
                    /\ Cardinality(Open(q)) \in Nat
                    /\ P!Allowance \in Nat /\ P!MaxCharges(MaxAttempts) \in Nat
                    /\ P!MaxCharges(MaxAttempts) <= P!Allowance
  BY DEF CostTypes
<1>1. P!TypeOK
  BY SameState DEF FlowInv
<1>2. Cardinality(Open(q)) \in Nat
  BY OpenFinite DEF Open
<1> QED
  BY <1>1, <1>2, Alone, P!LoadType, P!AllowanceType

LEMMA CostTypeAfterwards == FlowInv' => CostTypes'
  BY CostType, PTL

LEMMA CostByWorker ==
  ASSUME FlowInv, FlowInv', FlowCostInv, WorkerStep
  PROVE  FlowCostInv'
<1> SUFFICES ASSUME NEW q \in Requests PROVE FlowCostOf(q)'
  BY DEF FlowCostInv
<1>0. FlowCostOf(q) /\ CostTypes /\ CostTypes'
  BY CostType, CostTypeAfterwards DEF FlowCostInv
<1>1. UNCHANGED <<pc, late, tries>> /\ WorkerMay(q)
  BY WorkerSteps DEF FlowInv, requestVars, WorkerEffect
<1>2. Open(q)' = Open(q)
  BY <1>1 DEF Open, MayRunLate
<1>3. CASE pc[q] # "done"
  <2>1. charged'[q] = charged[q]
    BY <1>1, <1>3 DEF FlowInv, WorkInv, WorkerMay
  <2> QED
    BY <1>0, <1>1, <1>2, <1>3, <2>1 DEF FlowCostOf, ChargeInvOf, Allowed
<1>4. CASE pc[q] = "done"
  <2>1. P!TypeOK /\ P!Next
    BY SameState, WorkerAlone DEF FlowInv
  <2>2. P!Cost(q) + Cardinality(Open(q)) <= MaxRetries + 1 + P!Allowance
    BY <1>0, <1>4 DEF FlowCostOf
  <2>3. P!Cost(q)' + Cardinality(Open(q)) <= MaxRetries + 1 + P!Allowance'
    <3>1. CASE P!Interrupted
      <4>1. /\ P!Cost(q)' <= P!Cost(q) + P!MaxCharges(MaxAttempts)
            /\ P!Allowance' = P!Allowance + P!MaxCharges(MaxAttempts)
        BY <2>1, <3>1, Alone, P!InterruptedOneMore, P!InterruptedAllows
      <4> QED
        BY <1>0, <2>2, <4>1, Bounds DEF CostTypes
    <3>2. CASE ~P!Interrupted
      <4>1. P!Cost(q)' <= P!Cost(q) /\ workerCrashes' = workerCrashes
        BY <2>1, <3>2, Alone, P!NoMoreStep DEF P!NoMore
      <4>2. P!Allowance' = P!Allowance
        BY <4>1 DEF P!Allowance, P!MaxCharges
      <4> QED
        BY <1>0, <2>2, <4>1, <4>2, Bounds DEF CostTypes
    <3> QED
      BY <3>1, <3>2
  <2> QED
    BY <1>1, <1>2, <1>4, <2>3 DEF FlowCostOf
<1> QED
  BY <1>3, <1>4

LEMMA CostByOrderService ==
  ASSUME FlowInv, FlowInv', FlowCostInv, [Next]_vars, UNCHANGED workerVars
  PROVE  FlowCostInv'
<1> SUFFICES ASSUME NEW q \in Requests PROVE FlowCostOf(q)'
  BY DEF FlowCostInv
<1>0. /\ FlowCostOf(q) /\ CostTypes /\ CostTypes' /\ OwnEvents(q) /\ RequestEffect(q)
      /\ TypeOK /\ TypeOK' /\ OrderInv
  BY CostType, CostTypeAfterwards, EventsOfRequest, OrderServiceEffect DEF FlowCostInv, FlowInv
<1>1. UNCHANGED <<working, step, attempt, workerTries, workerLate, workerCrashes>>
  BY DEF workerVars
<1>2. P!Allowance' = P!Allowance
  BY <1>1 DEF P!Allowance, P!MaxCharges
<1>3. P!MayStillCost(q)' = P!MayStillCost(q)
  BY <1>1 DEF P!MayStillCost, P!Handling, P!MaxCharges
<1>4. charged[q] \in Nat /\ charged'[q] \in Nat /\ workerLate["pay"][q] \in Nat
  BY <1>0, WorkerNames DEF TypeOK, FlowInv, R!TypeOK
<1>5. /\ P!Cost(q) = charged[q] + workerLate["pay"][q] + P!MaxCharges(P!ChancesLeft(q)) + P!MayStillCost(q)
      /\ P!Cost(q)' = charged'[q] + workerLate["pay"][q] + P!MaxCharges(P!ChancesLeft(q)') + P!MayStillCost(q)
  BY <1>1, <1>3 DEF P!Cost, P!Spent, P!MaxCharges
<1>6. CASE pc[q] = "done"
  <2>1. charged'[q] + Cardinality(Open(q)') = charged[q] + Cardinality(Open(q))
    BY <1>0, <1>6, SpentWhenDone
  <2>2. P!ChancesLeft(q)' = P!ChancesLeft(q) /\ pc'[q] = "done"
    BY <1>0, <1>6 DEF OwnEvents, RequestEffect
  <2>3. P!MaxCharges(P!ChancesLeft(q)') = P!MaxCharges(P!ChancesLeft(q))
    BY <2>2
  <2>4. P!Cost(q) + Cardinality(Open(q)) <= MaxRetries + 1 + P!Allowance
    BY <1>0, <1>6 DEF FlowCostOf
  <2>5. P!Cost(q)' + Cardinality(Open(q)') <= MaxRetries + 1 + P!Allowance'
    BY <1>0, <1>2, <1>4, <1>5, <2>1, <2>3, <2>4, Bounds DEF CostTypes
  <2> QED
    BY <2>2, <2>5 DEF FlowCostOf
<1>7. CASE pc[q] # "done"
  <2>1. ChargeInvOf(q)'
    BY <1>0, <1>7, ChargeStep DEF FlowCostOf
  <2>2. CASE pc'[q] # "done"
    BY <2>1, <2>2 DEF FlowCostOf
  <2>3. CASE pc'[q] = "done"
    <3>1. charged'[q] + Cardinality(Open(q)') <= MaxRetries + 1
      BY <2>1, <2>3 DEF ChargeInvOf, Allowed
    <3>2. ~Pending(q)
      BY <1>7 DEF FlowInv, WorkInv
    <3>3. workerLate["pay"][q] = 0 /\ working # q /\ P!ChancesLeft(q) = 0
      BY <3>2, NotPending DEF P!Calls
    <3>4. P!MayStillCost(q) = 0
      BY <3>3 DEF P!MayStillCost, P!Handling
    <3>5. P!MaxCharges(P!ChancesLeft(q)') <= P!Allowance
      <4>1. P!MaxCharges(0) = 0
        BY Alone, P!Charges
      <4>2. P!ChancesLeft(q)' = 0 \/ P!ChancesLeft(q)' = MaxAttempts
        BY <1>0, <3>3 DEF OwnEvents
      <4> QED
        BY <1>0, <4>1, <4>2 DEF CostTypes
    <3>6. P!MaxCharges(P!ChancesLeft(q)') \in Nat
      BY <1>0 DEF CostTypes, P!MaxCharges
    <3>7. P!Cost(q)' + Cardinality(Open(q)') <= MaxRetries + 1 + P!Allowance'
      BY <1>0, <1>2, <1>4, <1>5, <3>1, <3>3, <3>4, <3>5, <3>6, Bounds DEF CostTypes
    <3> QED
      BY <2>3, <3>7 DEF FlowCostOf
  <2> QED
    BY <2>2, <2>3
<1> QED
  BY <1>6, <1>7

LEMMA CostInit == FlowInit => FlowCostInv
<1> SUFFICES ASSUME FlowInit, NEW q \in Requests PROVE FlowCostOf(q)
  BY DEF FlowCostInv
<1>1. Init /\ pc[q] # "done"
  BY DEF FlowInit, Init
<1> QED
  BY <1>1, ChargeInit DEF FlowCostOf

\* The bound of the worker is one of PaymentRetry.
LEMMA SameCosts ==
  ASSUME NEW q \in Requests
  PROVE  /\ R!Spent(q) = P!Spent(q) /\ R!Allowance = P!Allowance
         /\ R!MaxCharges(R!ChancesLeft(q)) = P!MaxCharges(P!ChancesLeft(q))
  BY DEF R!Spent, R!Allowance, R!MaxCharges, R!ChancesLeft, R!Chances, R!AttemptNumbers, R!Cardinality,
         P!Spent, P!Allowance, P!MaxCharges, P!ChancesLeft, P!Chances, P!AttemptNumbers, P!Cardinality

\* End to end, the payments for an order are bounded by the attempts of one call
\* of its request and of maxAttempts calls of the worker, the latter again for
\* every crash of the worker, whatever else fails, crashes or comes late.
THEOREM FlowChargesAreBounded == FlowSpec => []FlowChargesBounded
<1>1. FlowInv /\ FlowInv' /\ FlowCostInv /\ [FlowNext]_flowVars => FlowCostInv'
  <2> SUFFICES ASSUME FlowInv, FlowInv', FlowCostInv, [FlowNext]_flowVars PROVE FlowCostInv'
    OBVIOUS
  <2> QED
    BY EitherPart, CostByWorker, CostByOrderService
<1>2. FlowInv /\ FlowCostInv => FlowChargesBounded
  <2> SUFFICES ASSUME FlowInv, FlowCostInv, NEW q \in Requests
               PROVE  R!Spent(q) + Cardinality({n \in Attempts : <<"pay", q, n>> \in late})
                          + R!MaxCharges(R!ChancesLeft(q)) <= MaxRetries + 1 + R!Allowance
    BY DEF FlowChargesBounded
  <2> SUFFICES P!Spent(q) + Cardinality(Open(q)) + P!MaxCharges(P!ChancesLeft(q))
                   <= MaxRetries + 1 + P!Allowance
    BY SameCosts DEF Open, MayRunLate
  <2>0. CostTypes /\ FlowCostOf(q)
    BY CostType DEF FlowCostInv
  <2>1. CASE pc[q] = "done"
    <3>1. P!Cost(q) = P!Spent(q) + P!MaxCharges(P!ChancesLeft(q)) + P!MayStillCost(q)
      BY DEF P!Cost
    <3>2. P!Cost(q) + Cardinality(Open(q)) <= MaxRetries + 1 + P!Allowance
      BY <2>0, <2>1 DEF FlowCostOf
    <3> QED
      BY <2>0, <3>1, <3>2, Bounds DEF CostTypes
  <2>2. CASE pc[q] # "done"
    <3>1. ~Pending(q)
      BY <2>2 DEF FlowInv, WorkInv
    <3>2. workerLate["pay"][q] = 0 /\ P!ChancesLeft(q) = 0
      BY <3>1, NotPending DEF P!Calls
    <3>3. P!MaxCharges(P!ChancesLeft(q)) = 0
      BY <3>2, Alone, P!Charges
    <3>4. charged[q] + Cardinality(Open(q)) <= Allowed(q) /\ Allowed(q) <= MaxRetries + 1
      BY <2>0, <2>2, AllowedIsNat DEF FlowCostOf, ChargeInvOf, FlowInv
    <3>5. charged[q] \in Nat /\ Allowed(q) \in Nat
      BY AllowedIsNat DEF FlowInv
    <3>6. P!Spent(q) = charged[q]
      BY <3>2, <3>5 DEF P!Spent
    <3> QED
      BY <2>0, <3>3, <3>4, <3>5, <3>6, Bounds DEF CostTypes
  <2> QED
    BY <2>1, <2>2
<1> QED
  BY <1>1, <1>2, FlowInvariance, CostInit, PTL DEF FlowSpec

(***************************************************************************)
(* What a client sees of its order, while the worker is orderly.           *)
(***************************************************************************)

\* The worker stays up and no order is confirmed late, see PaymentRetry.
OrderlyWorker == "confirm" \notin WorkerFaults /\ MaxWorkerCrashes = 0

\* An order is charged, or may be, or known to the worker, from the moment its
\* status says that its payment is awaited.
AwaitedInvOf(o) ==
    charged[o] > 0 \/ Pending(o) \/ (\E n \in Attempts : MayRunLate("pay", o, n)) =>
        orderStatus[o] \notin {"absent", "stock_reserved"}

AwaitedInv == \A o \in Requests : AwaitedInvOf(o)

\* A resolved order is left alone.
SettledInv == \A o \in Requests : P!Settled(o)

LEMMA SettledByWorker ==
  ASSUME OrderlyWorker, FlowInv, P!EventsBounded, SettledInv, WorkerStep
  PROVE  SettledInv'
<1>1. P!TypeOK /\ P!Next /\ P!Orderly
  BY SameState, WorkerAlone DEF FlowInv, OrderlyWorker, P!Orderly
<1> QED
  BY <1>1, Alone, P!SettledStep DEF SettledInv

LEMMA SettledByOrderService ==
  ASSUME FlowInv, FlowInv', SettledInv, [Next]_vars, UNCHANGED workerVars
  PROVE  SettledInv'
<1> SUFFICES ASSUME NEW q \in Requests PROVE P!Settled(q)'
  BY DEF SettledInv
<1>0. P!Settled(q) /\ OwnEvents(q) /\ RequestEffect(q)
  BY EventsOfRequest, OrderServiceEffect DEF SettledInv, FlowInv
<1>1. UNCHANGED <<step, working, workerLate>>
  BY DEF workerVars
<1>2. CASE Pending(q)
  <2>1. orderStatus'[q] = orderStatus[q]
    BY <1>0, <1>2 DEF RequestEffect, FlowInv, WorkInv
  <2>2. P!Quiet(q)' = P!Quiet(q)
    BY <1>0, <1>2 DEF OwnEvents
  <2> QED
    BY <1>0, <1>1, <2>1, <2>2 DEF P!Settled, P!Resolved
<1>3. CASE ~Pending(q)
  <2>1. P!Quiet(q) /\ working # q /\ workerLate["confirm"][q] = 0 /\ workerLate["fail"][q] = 0
    BY <1>3, NotPending DEF P!Calls
  <2>2. CASE P!Quiet(q)'
    BY <1>1, <2>1, <2>2 DEF P!Settled
  <2>3. CASE ~P!Quiet(q)'
    <3>1. pc[q] = "publish" /\ orderStatus'[q] = orderStatus[q]
      BY <1>0, <2>1, <2>3 DEF OwnEvents
    <3>2. orderStatus'[q] = "payment_pending"
      BY <3>1 DEF FlowInv, OrderInv, OrderInvOf, Settling
    <3> QED
      BY <1>1, <2>1, <3>2 DEF P!Settled, P!Resolved
  <2> QED
    BY <2>2, <2>3
<1> QED
  BY <1>2, <1>3

\* What a step of the order service does to the status and the payments.
StatusEffect(q) ==
    /\ orderStatus[q] \notin {"absent", "stock_reserved"} =>
           orderStatus'[q] \notin {"absent", "stock_reserved"}
    /\ \/ charged'[q] > 0
       \/ \E n \in Attempts : MayRunLate("pay", q, n)'
       => \/ orderStatus[q] \notin {"absent", "stock_reserved"}
          \/ charged[q] > 0
          \/ \E n \in Attempts : MayRunLate("pay", q, n)

LEMMA StatusHandler ==
  ASSUME TypeOK, OrderInv, NEW r \in Requests, Handler(r), NEW q \in Requests
  PROVE  StatusEffect(q)
<1> USE DEF TypeOK, stockVars, orderVars, paymentVars, callVars, controlVars, MayRunLate,
           Goto, Answer, Abandon, CallReturns, CallFails, StatusEffect
<1>0. OrderInvOf(r)
  BY DEF OrderInv
<1>1. CASE Lookup(r)
  BY <1>1 DEF Lookup
<1>2. CASE Validate(r)
  BY <1>2 DEF Validate
<1>3. ASSUME NEW op \in Calls, RetryCall(op, r) PROVE StatusEffect(q)
  BY <1>0, <1>3 DEF RetryCall, OrderInvOf, Settling
<1>4. CASE ReserveServed(r)
  BY <1>4 DEF ReserveServed
<1>5. CASE ReserveConflict(r)
  BY <1>5 DEF ReserveConflict
<1>6. CASE ReserveFails(r)
  BY <1>6 DEF ReserveFails
<1>7. CASE Create(r)
  BY <1>0, <1>7 DEF Create, InsertOrder, SetPayment, OrderInvOf, BeforeCreate, Ordered
<1>8. CASE ReleaseServed(r)
  BY <1>8 DEF ReleaseServed, AfterRelease
<1>9. CASE ReleaseFails(r)
  BY <1>9 DEF ReleaseFails, AfterRelease
<1>10. CASE Relookup(r)
  BY <1>10 DEF Relookup
<1>11. CASE MarkPending(r)
  BY <1>11 DEF MarkPending, SetPayment
<1>12. CASE PaymentAccepted(r)
  BY <1>0, <1>12 DEF PaymentAccepted, OrderInvOf, Settling
<1>13. CASE PaymentFails(r)
  BY <1>0, <1>13 DEF PaymentFails, OrderInvOf, Settling
<1>14. CASE PublishRetry(r)
  BY <1>14 DEF PublishRetry
<1>15. CASE Confirm(r)
  BY <1>15 DEF Confirm, SetPayment
<1> QED
  BY <1>1, <1>2, <1>3, <1>4, <1>5, <1>6, <1>7, <1>8, <1>9, <1>10, <1>11,
     <1>12, <1>13, <1>14, <1>15 DEF Handler

LEMMA StatusStep ==
  ASSUME TypeOK, OrderInv, [Next]_vars, NEW q \in Requests
  PROVE  StatusEffect(q)
<1>1. CASE \E r \in Requests : Handler(r)
  BY <1>1, StatusHandler
<1>2. CASE \E r \in Requests : Late(r)
  <2>1. PICK r \in Requests, n \in Attempts :
            LateReserve(r, n) \/ LateRelease(r, n) \/ LatePayment(r, n)
    BY <1>2 DEF Late
  <2>2. orderStatus' = orderStatus
    BY <2>1 DEF LateReserve, LateRelease, LatePayment, orderVars
  <2>3. \A m \in Attempts : MayRunLate("pay", q, m)' => MayRunLate("pay", q, m)
    BY <2>1 DEF LateReserve, LateRelease, LatePayment, Unlate, MayRunLate
  <2>4. charged'[q] = charged[q] \/ MayRunLate("pay", q, n)
    BY <2>1 DEF LateReserve, LateRelease, LatePayment, Unlate, MayRunLate, paymentVars, TypeOK
  <2> QED
    BY <2>2, <2>3, <2>4 DEF StatusEffect
<1>3. CASE Crash
  <2>1. UNCHANGED <<orderStatus, charged>>
    BY <1>3 DEF Crash, orderVars, paymentVars
  <2>2. \A n \in Attempts : MayRunLate("pay", q, n)' => MayRunLate("pay", q, n) \/ pc[q] = "pay"
    BY <1>3 DEF Crash, MayRunLate
  <2>3. pc[q] = "pay" => orderStatus[q] = "payment_pending"
    BY DEF OrderInv, OrderInvOf, Settling
  <2> QED
    BY <2>1, <2>2, <2>3 DEF StatusEffect
<1>4. CASE Finished \/ UNCHANGED vars
  BY <1>4 DEF Finished, vars, orderVars, paymentVars, callVars, MayRunLate, StatusEffect
<1> QED
  BY <1>1, <1>2, <1>3, <1>4 DEF Next

\* Payments are charged, or left in doubt, for orders that await them.
LEMMA AwaitedByOrderService ==
  ASSUME FlowInv, AwaitedInv, [Next]_vars, UNCHANGED workerVars
  PROVE  AwaitedInv'
<1> SUFFICES ASSUME NEW q \in Requests PROVE AwaitedInvOf(q)'
  BY DEF AwaitedInv
<1>0. TypeOK /\ OrderInv /\ AwaitedInvOf(q) /\ OrderInvOf(q)
  BY DEF FlowInv, OrderInv, AwaitedInv
<1>1. StatusEffect(q) /\ RequestEffect(q)
  BY <1>0, StatusStep, OrderServiceEffect
<1>2. ASSUME Pending(q)' PROVE orderStatus'[q] \notin {"absent", "stock_reserved"}
  <2>1. CASE Pending(q)
    BY <1>0, <1>1, <2>1 DEF AwaitedInvOf, StatusEffect
  <2>2. CASE ~Pending(q)
    <3>1. ~ \A n \in R!AttemptNumbers : ready'[q][n] = ready[q][n]
      BY <1>2, <2>2 DEF Pending, R!InTheSystem, R!Queued, workerVars
    <3>2. pc[q] = "publish" /\ orderStatus'[q] = orderStatus[q]
      BY <1>1, <3>1 DEF RequestEffect
    <3> QED
      BY <1>0, <3>2 DEF OrderInvOf, Settling
  <2> QED
    BY <2>1, <2>2
<1>3. charged'[q] > 0 \/ (\E n \in Attempts : MayRunLate("pay", q, n)') =>
          orderStatus'[q] \notin {"absent", "stock_reserved"}
  BY <1>0, <1>1 DEF AwaitedInvOf, StatusEffect
<1> QED
  BY <1>2, <1>3 DEF AwaitedInvOf

LEMMA AwaitedByWorker ==
  ASSUME FlowInv, AwaitedInv, WorkerEffect, UNCHANGED requestVars
  PROVE  AwaitedInv'
<1> SUFFICES ASSUME NEW q \in Requests PROVE AwaitedInvOf(q)'
  BY DEF AwaitedInv
<1>1. WorkerMay(q) /\ (Pending(q)' => Pending(q)) /\ AwaitedInvOf(q)
  BY DEF WorkerEffect, AwaitedInv
<1>2. \A n \in Attempts : MayRunLate("pay", q, n)' = MayRunLate("pay", q, n)
  BY DEF requestVars, MayRunLate
<1> QED
  BY <1>1, <1>2 DEF AwaitedInvOf, WorkerMay

(* The refinement. *)

shown == [o \in Requests |-> Shown(o)]
paid  == [o \in Requests |-> charged[o] > 0]

LEMMA ShownIsStatus == TypeOK => shown = orderStatus
  BY DEF TypeOK, shown, Shown, Ordered

LEMMA ShownIsStatusNext ==
  ASSUME orderStatus' \in [Requests -> Statuses]
  PROVE  shown' = orderStatus'
<1>1. \A o \in Requests : (IF orderStatus'[o] # "absent" THEN orderStatus'[o] ELSE "absent") = orderStatus'[o]
  OBVIOUS
<1>2. shown' = [o \in Requests |-> IF orderStatus'[o] # "absent" THEN orderStatus'[o] ELSE "absent"]
  BY Zenon DEF shown, Shown, Ordered
<1>3. orderStatus' = [o \in Requests |-> orderStatus'[o]]
  OBVIOUS
<1> QED
  BY <1>1, <1>2, <1>3

LEMMA LifecycleMoves ==
  ASSUME NEW o, NEW from, NEW to
  PROVE  /\ Lifecycle!Moves(o, from, to) <=>
               shown[o] = from /\ shown' = [shown EXCEPT ![o] = to] /\ paid' = paid
         /\ Lifecycle!Pay(o) <=>
               /\ shown[o] \notin {"absent", "stock_reserved"}
               /\ paid' = [paid EXCEPT ![o] = TRUE] /\ shown' = shown
  BY DEF Lifecycle!Moves, Lifecycle!Pay, shown, paid

\* A step that sets the status of one order, and charges nothing.
LEMMA OneMove ==
  ASSUME TypeOK, TypeOK', NEW o \in Requests, NEW to,
         orderStatus' = [orderStatus EXCEPT ![o] = to], charged' = charged
  PROVE  Lifecycle!Moves(o, orderStatus[o], to)
<1>0. orderStatus' \in [Requests -> Statuses]
  BY DEF TypeOK
<1>1. shown = orderStatus /\ shown' = orderStatus'
  BY <1>0, ShownIsStatus, ShownIsStatusNext
<1>2. paid' = paid
  BY DEF paid
<1> QED
  BY <1>1, <1>2, LifecycleMoves

\* A step that charges one order.
LEMMA OnePayment ==
  ASSUME TypeOK, TypeOK', NEW o \in Requests, charged' = [charged EXCEPT ![o] = @ + 1],
         orderStatus' = orderStatus, orderStatus[o] \notin {"absent", "stock_reserved"}
  PROVE  Lifecycle!Pay(o)
<1>0. orderStatus' \in [Requests -> Statuses]
  BY DEF TypeOK
<1>1. shown = orderStatus /\ shown' = orderStatus'
  BY <1>0, ShownIsStatus, ShownIsStatusNext
<1>2. \A q \in Requests : (charged'[q] > 0) = (IF q = o THEN TRUE ELSE charged[q] > 0)
  <2>1. charged'[o] > 0
    BY DEF TypeOK
  <2>2. \A q \in Requests : q # o => charged'[q] = charged[q]
    BY DEF TypeOK
  <2>3. (charged'[o] > 0) = TRUE
    BY <2>1
  <2>4. ASSUME NEW q \in Requests, q = o
        PROVE  (charged'[q] > 0) = (IF q = o THEN TRUE ELSE charged[q] > 0)
    BY <2>3, <2>4, Zenon
  <2>5. ASSUME NEW q \in Requests, q # o
        PROVE  (charged'[q] > 0) = (IF q = o THEN TRUE ELSE charged[q] > 0)
    <3>1. (IF q = o THEN TRUE ELSE charged[q] > 0) = (charged[q] > 0)
      BY <2>5, Zenon
    <3>2. charged'[q] = charged[q]
      BY <2>2, <2>5
    <3>3. (charged'[q] > 0) = (charged[q] > 0)
      BY <3>2
    <3> QED
      BY <3>1, <3>3, Zenon
  <2> QED
    BY <2>4, <2>5, Zenon
<1>3. paid' = [q \in Requests |-> charged'[q] > 0]
  BY DEF paid
<1>4. [paid EXCEPT ![o] = TRUE] = [q \in Requests |-> IF q = o THEN TRUE ELSE charged[q] > 0]
  BY DEF paid
<1>5. [q \in Requests |-> charged'[q] > 0] = [q \in Requests |-> IF q = o THEN TRUE ELSE charged[q] > 0]
  BY <1>2, Zenon
<1>6. paid' = [paid EXCEPT ![o] = TRUE]
  BY <1>3, <1>4, <1>5, Zenon
<1> QED
  BY <1>1, <1>6, LifecycleMoves

Visible == [Lifecycle!Next]_<<shown, paid>>

LEMMA NothingVisible ==
  ASSUME orderStatus' = orderStatus, charged' = charged
  PROVE  Visible
  BY DEF Visible, shown, paid, Shown, Ordered

LEMMA OneVisible ==
  ASSUME NEW o \in Requests,
         \/ Lifecycle!Create(o) \/ Lifecycle!Await(o) \/ Lifecycle!Confirm(o)
         \/ Lifecycle!Fail(o) \/ Lifecycle!Pay(o)
  PROVE  Visible
  BY Zenon DEF Visible, Lifecycle!Next

LEMMA PaidConfirm ==
  ASSUME NEW o \in Requests, charged[o] > 0,
         Lifecycle!Moves(o, "payment_pending", "confirmed")
  PROVE  Visible
<1>1. paid[o]
  BY DEF paid
<1>2. Lifecycle!Confirm(o)
  BY <1>1, Zenon DEF Lifecycle!Confirm, paid
<1> QED
  BY <1>2, OneVisible

LEMMA VisibleHandler ==
  ASSUME TypeOK, TypeOK', OrderInv, NEW r \in Requests, Handler(r)
  PROVE  Visible
<1> USE DEF orderVars, paymentVars
<1>0. OrderInvOf(r) /\ orderStatus \in [Requests -> Statuses]
  BY DEF OrderInv, TypeOK
<1>1. CASE Create(r)
  <2>1. charged' = charged
    BY <1>1 DEF Create
  <2>2. CASE orderStatus' = orderStatus
    BY <2>1, <2>2, NothingVisible
  <2>3. CASE InsertOrder(r)
    <3>1. orderStatus[r] = "absent"
      BY <1>0, <1>1 DEF Create, OrderInvOf, BeforeCreate, Ordered
    <3>2. Lifecycle!Moves(r, "absent", "stock_reserved")
      BY <2>1, <2>3, <3>1, OneMove DEF InsertOrder, SetPayment
    <3> QED
      BY <3>2, OneVisible DEF Lifecycle!Create
  <2> QED
    BY <1>1, <2>2, <2>3 DEF Create
<1>2. CASE MarkPending(r)
  <2>1. charged' = charged
    BY <1>2 DEF MarkPending
  <2>2. CASE orderStatus' = orderStatus
    BY <2>1, <2>2, NothingVisible
  <2>3. CASE SetPayment(r, FALSE, "payment_pending")
    <3>1. orderStatus[r] = "stock_reserved"
      BY <1>0, <1>2 DEF MarkPending, OrderInvOf
    <3>2. Lifecycle!Moves(r, "stock_reserved", "payment_pending")
      BY <2>1, <2>3, <3>1, OneMove DEF SetPayment
    <3> QED
      BY <3>2, OneVisible DEF Lifecycle!Await
  <2> QED
    BY <1>2, <2>2, <2>3 DEF MarkPending
<1>3. CASE Confirm(r)
  <2>1. charged' = charged
    BY <1>3 DEF Confirm
  <2>2. CASE orderStatus' = orderStatus
    BY <2>1, <2>2, NothingVisible
  <2>3. CASE SetPayment(r, TRUE, "confirmed")
    <3>1. orderStatus[r] = "payment_pending" /\ charged[r] > 0
      BY <1>0, <1>3 DEF Confirm, OrderInvOf, Settling
    <3>2. Lifecycle!Moves(r, "payment_pending", "confirmed")
      BY <2>1, <2>3, <3>1, OneMove DEF SetPayment
    <3> QED
      BY <3>1, <3>2, PaidConfirm
  <2> QED
    BY <1>3, <2>2, <2>3 DEF Confirm
<1>4. CASE PaymentAccepted(r)
  <2>1. /\ charged' = [charged EXCEPT ![r] = @ + 1] /\ orderStatus' = orderStatus
        /\ pc[r] = "pay"
    BY <1>4 DEF PaymentAccepted, CallReturns
  <2>2. orderStatus[r] = "payment_pending"
    BY <1>0, <2>1 DEF OrderInvOf, Settling
  <2> QED
    BY <2>1, <2>2, OnePayment, OneVisible
<1>5. CASE \/ Lookup(r) \/ Validate(r) \/ \E op \in Calls : RetryCall(op, r)
           \/ ReserveServed(r) \/ ReserveConflict(r) \/ ReserveFails(r)
           \/ ReleaseServed(r) \/ ReleaseFails(r) \/ Relookup(r)
           \/ PaymentFails(r) \/ PublishRetry(r)
  BY <1>5, NothingVisible
     DEF Lookup, Validate, RetryCall, ReserveServed, ReserveConflict, ReserveFails,
         ReleaseServed, ReleaseFails, Relookup, PaymentFails, PublishRetry
<1> QED
  BY <1>1, <1>2, <1>3, <1>4, <1>5 DEF Handler

LEMMA VisibleLate ==
  ASSUME TypeOK, TypeOK', AwaitedInv, NEW r \in Requests, Late(r)
  PROVE  Visible
<1>1. PICK n \in Attempts : LateReserve(r, n) \/ LateRelease(r, n) \/ LatePayment(r, n)
  BY DEF Late
<1>2. CASE LateReserve(r, n) \/ LateRelease(r, n)
  BY <1>2, NothingVisible DEF LateReserve, LateRelease, orderVars, paymentVars
<1>3. CASE LatePayment(r, n)
  <2>1. charged' = [charged EXCEPT ![r] = @ + 1] /\ orderStatus' = orderStatus
    BY <1>3 DEF LatePayment, orderVars
  <2>2. orderStatus[r] \notin {"absent", "stock_reserved"}
    BY <1>3 DEF LatePayment, Unlate, MayRunLate, AwaitedInv, AwaitedInvOf
  <2> QED
    BY <2>1, <2>2, OnePayment, OneVisible
<1> QED
  BY <1>1, <1>2, <1>3

\* What an orderly worker changes of an order that is resolved already, or is
\* not: a payment, or the status from payment_pending.
LEMMA OneResolution ==
  ASSUME TypeOK, TypeOK', AwaitedInv, NEW o \in Requests, Pending(o), NEW to \in {"confirmed", "failed"},
         orderStatus[o] \in {"confirmed", "failed"} => orderStatus[o] = to,
         orderStatus' = [orderStatus EXCEPT ![o] = to], charged' = charged,
         to = "confirmed" => charged[o] > 0
  PROVE  Visible
<1>1. orderStatus \in [Requests -> Statuses]
  BY DEF TypeOK
<1>2. CASE orderStatus[o] = to
  BY <1>1, <1>2, NothingVisible
<1>3. CASE orderStatus[o] # to
  <2>1. orderStatus[o] = "payment_pending"
    BY <1>1, <1>3 DEF AwaitedInv, AwaitedInvOf, Statuses
  <2>2. Lifecycle!Moves(o, "payment_pending", to)
    BY <2>1, OneMove
  <2>3. CASE to = "confirmed"
    BY <2>2, <2>3, PaidConfirm
  <2>4. CASE to = "failed"
    BY <2>2, <2>4, OneVisible DEF Lifecycle!Fail
  <2> QED
    BY <2>3, <2>4
<1> QED
  BY <1>2, <1>3

LEMMA VisibleWorker ==
  ASSUME FlowInv, FlowInv', AwaitedInv, SettledInv, WorkerStep
  PROVE  Visible
<1>0. TypeOK /\ TypeOK' /\ R!TypeOK /\ WorkerPaidInv
  BY DEF FlowInv
<1>1. CASE R!PaymentAccepted \/ R!ConfirmServed \/ R!MarkFailedServed
  <2>1. step \in {"pay", "confirm", "fail"} /\ working \in Requests
    BY <1>0, <1>1, InHand DEF R!PaymentAccepted, R!ConfirmServed, R!MarkFailedServed, R!CallReturns
  <2>2. Pending(working) /\ orderStatus[working] \notin {"absent", "stock_reserved"}
    BY <2>1 DEF AwaitedInv, AwaitedInvOf, Pending, R!InTheSystem
  <2>3. CASE R!PaymentAccepted
    <3>1. charged' = [charged EXCEPT ![working] = @ + 1] /\ orderStatus' = orderStatus
      BY <2>3 DEF R!PaymentAccepted, R!orderVars
    <3> QED
      BY <1>0, <2>1, <2>2, <3>1, OnePayment, OneVisible
  <2>4. CASE R!ConfirmServed
    <3>1. /\ orderStatus' = [orderStatus EXCEPT ![working] = "confirmed"] /\ charged' = charged
          /\ step = "confirm"
      BY <2>4 DEF R!ConfirmServed, R!SetPayment, R!CallReturns
    <3>2. charged[working] > 0
      BY <1>0, <2>1, <3>1 DEF WorkerPaidInv
    <3>3. orderStatus[working] \notin {"confirmed", "failed"}
      BY <2>1, <3>1 DEF SettledInv, P!Settled, P!Resolved
    <3> QED
      BY <1>0, <2>1, <2>2, <3>1, <3>2, <3>3, OneResolution
  <2>5. CASE R!MarkFailedServed
    <3>1. /\ orderStatus' = [orderStatus EXCEPT ![working] = "failed"] /\ charged' = charged
          /\ step = "fail"
      BY <2>5 DEF R!MarkFailedServed, R!SetPayment, R!CallReturns
    <3>2. orderStatus[working] # "confirmed"
      BY <2>1, <3>1 DEF SettledInv, P!Settled
    <3> QED
      BY <1>0, <2>1, <2>2, <3>1, <3>2, OneResolution
  <2> QED
    BY <1>1, <2>3, <2>4, <2>5
<1>2. CASE Worker /\ ~(R!PaymentAccepted \/ R!ConfirmServed \/ R!MarkFailedServed)
  <2>1. orderStatus' = orderStatus /\ charged' = charged
    BY <1>2 DEF Worker, R!Worker, R!Receive, R!RetryCall, R!PaymentFails, R!ConfirmFails,
       R!Reschedule, R!MarkFailedFails, R!Ack, R!Nack, R!Finish, R!AnswerThrows, R!orderVars
  <2> QED
    BY <2>1, NothingVisible
<1>3. CASE WorkerInterrupted \/ WorkerRestart \/ \E o \in Requests, n \in R!AttemptNumbers : Expire(o, n)
  <2>1. orderStatus' = orderStatus /\ charged' = charged
    BY <1>3 DEF WorkerInterrupted, WorkerRestart, Expire, R!Interrupted, R!Crash,
                R!LosesConnection, R!Restart, R!Expire, R!orderVars
  <2> QED
    BY <2>1, NothingVisible
<1>4. ASSUME NEW op \in R!Calls, NEW o \in Requests, R!Late(op, o) PROVE Visible
  <2>1. workerLate[op][o] > 0 /\ Pending(o) /\ orderStatus[o] \notin {"absent", "stock_reserved"}
    BY <1>4 DEF R!Late, Pending, AwaitedInv, AwaitedInvOf
  <2>2. op # "confirm" /\ (op = "fail" => orderStatus[o] # "confirmed")
    BY <2>1 DEF SettledInv, P!Settled
  <2>3. CASE op = "pay"
    <3>1. charged' = [charged EXCEPT ![o] = @ + 1] /\ orderStatus' = orderStatus
      BY <1>4, <2>3 DEF R!Late, R!orderVars
    <3> QED
      BY <1>0, <2>1, <3>1, OnePayment, OneVisible
  <2>4. CASE op = "fail"
    <3>1. orderStatus' = [orderStatus EXCEPT ![o] = "failed"] /\ charged' = charged
      BY <1>4, <2>4 DEF R!Late, R!SetPayment
    <3> QED
      BY <1>0, <2>1, <2>2, <2>4, <3>1, OneResolution
  <2> QED
    BY <2>2, <2>3, <2>4, WorkerNames
<1> QED
  BY <1>1, <1>2, <1>3, <1>4 DEF WorkerStep, LateWorkerCall

LEMMA LifeInit == FlowInit => AwaitedInv /\ SettledInv
<1> SUFFICES ASSUME FlowInit, NEW o \in Requests PROVE AwaitedInvOf(o) /\ P!Settled(o)
  BY DEF AwaitedInv, SettledInv
<1>1. FlowInv /\ ~Pending(o) /\ Init
  BY FlowInvInit, NothingPending DEF FlowInit
<1>2. P!Settled(o)
  BY <1>1, NotPending DEF P!Settled, P!Calls
<1>3. AwaitedInvOf(o)
  BY <1>1 DEF Init, AwaitedInvOf, MayRunLate
<1> QED
  BY <1>2, <1>3

LEMMA LifeStep ==
  ASSUME OrderlyWorker, FlowInv, P!EventsBounded, AwaitedInv, SettledInv, [FlowNext]_flowVars
  PROVE  AwaitedInv' /\ SettledInv' /\ Visible
<1>0. FlowInv' /\ TypeOK /\ TypeOK' /\ OrderInv
  BY FlowInvStep DEF FlowInv
<1>1. CASE WorkerStep
  <2>1. WorkerEffect /\ UNCHANGED requestVars
    BY <1>1, WorkerSteps DEF FlowInv
  <2> QED
    BY <1>0, <1>1, <2>1, AwaitedByWorker, SettledByWorker, VisibleWorker
<1>2. CASE [Next]_vars /\ UNCHANGED workerVars
  <2>1. Visible
    <3>1. CASE \E r \in Requests : Handler(r) \/ Late(r)
      BY <1>0, <3>1, VisibleHandler, VisibleLate
    <3>2. CASE Crash \/ Finished \/ UNCHANGED vars
      BY <3>2, NothingVisible DEF Crash, Finished, vars, orderVars, paymentVars
    <3> QED
      BY <1>2, <3>1, <3>2 DEF Next
  <2> QED
    BY <1>0, <1>2, <2>1, AwaitedByOrderService, SettledByOrderService
<1> QED
  BY <1>1, <1>2, EitherPart

LEMMA LifecycleInit == FlowInit => Lifecycle!Init
<1> SUFFICES ASSUME FlowInit PROVE Lifecycle!Init
  OBVIOUS
<1>1. /\ orderStatus = [o \in Requests |-> "absent"]
      /\ charged = [o \in Requests |-> 0]
  BY DEF FlowInit, Init
<1>2. \A o \in Requests : Shown(o) = "absent"
  BY <1>1 DEF Shown, Ordered
<1>3. \A o \in Requests : (charged[o] > 0) = FALSE
  BY <1>1
<1>4. [o \in Requests |-> charged[o] > 0] = [o \in Requests |-> FALSE]
  BY <1>3
<1>5. [o \in Requests |-> Shown(o)] = [o \in Requests |-> "absent"]
  BY <1>2
<1> QED
  BY <1>4, <1>5, Zenon DEF Lifecycle!Init

\* Placed by any number of requests, with any fault and crash of the order
\* service, an order goes through the statuses of OrderLifecycle and no others:
\* no final status changes, and nothing is confirmed unpaid.  Payments and
\* failures executed late by the worker's calls, and events the broker does not
\* confirm, do not matter; a crash of the worker or a late confirmation does.
THEOREM OrdersFollowLifecycle == OrderlyWorker => (FlowSpec => FollowsLifecycle)
<1> SUFFICES ASSUME OrderlyWorker PROVE FlowSpec => FollowsLifecycle
  OBVIOUS
<1>1. FlowInv /\ P!EventsBounded /\ AwaitedInv /\ SettledInv /\ [FlowNext]_flowVars =>
          AwaitedInv' /\ SettledInv'
  BY LifeStep
<1>2. FlowInv /\ P!EventsBounded /\ AwaitedInv /\ SettledInv /\ [FlowNext]_flowVars =>
          [Lifecycle!Next]_<<[o \in Requests |-> Shown(o)], [o \in Requests |-> charged[o] > 0]>>
  BY LifeStep DEF Visible, shown, paid
<1> QED
  BY <1>1, <1>2, LifeInit, LifecycleInit, LoadInvariance, PTL
     DEF FlowSpec, FollowsLifecycle, Lifecycle!Spec

(***************************************************************************)
(* Orders come to an end.                                                  *)
(***************************************************************************)

LEMMA SameMoves ==
  ASSUME NEW q \in Requests
  PROVE  (R!Nearer(q) <=> P!Nearer(q)) /\ (R!Unmoved(q) <=> P!Unmoved(q))
  BY DEF R!Nearer, R!Unmoved, R!AttemptsLeft, R!MovesLeft, R!HandAttempts, R!HandMoves, R!Handling,
         R!ChancesLeft, R!Chances, R!Copies, R!AttemptNumbers, R!Cardinality,
         P!Nearer, P!Unmoved, P!AttemptsLeft, P!MovesLeft, P!HandAttempts, P!HandMoves, P!Handling,
         P!ChancesLeft, P!Chances, P!Copies, P!AttemptNumbers, P!Cardinality

\* A step of the worker leaves the requests alone and moves events as
\* PaymentRetry does.
LEMMA WorkerUsesUp ==
  ASSUME FlowInv, WorkerStep
  PROVE  /\ Worker \/ (\E o \in Requests, n \in R!AttemptNumbers : Expire(o, n)) =>
                (\E o \in Requests : FlowNearer(o)) \/ workerTries' > workerTries
         /\ ~WorkerInterrupted => \A o \in Requests : FlowNearer(o) \/ FlowUnmoved(o)
<1>1. P!UsesUp
  BY Alone, SameState, WorkerAlone, P!UsesUpStep DEF FlowInv
<1>2. UNCHANGED requestVars /\ \A o \in Requests : Rests(o)
  BY DEF WorkerStep, Worker, WorkerInterrupted, WorkerRestart, Expire, LateWorkerCall, requestVars, Rests
<1>3. ASSUME Worker \/ (\E o \in Requests, n \in R!AttemptNumbers : Expire(o, n))
      PROVE  (\E o \in Requests : FlowNearer(o)) \/ workerTries' > workerTries
  <2>1. P!Worker \/ (\E o \in Requests, n \in P!AttemptNumbers : P!Expire(o, n))
    BY <1>3, SameSteps, SameState DEF Worker, Expire
  <2>2. (\E o \in Requests : P!Nearer(o)) \/ workerTries' > workerTries
    BY <1>1, <2>1 DEF P!UsesUp
  <2> QED
    BY <1>2, <2>2, SameMoves DEF FlowNearer
<1>4. ~WorkerInterrupted => \A o \in Requests : P!Nearer(o) \/ P!Unmoved(o)
  <2>1. P!Interrupted => WorkerInterrupted
    BY <1>2, SameSteps DEF WorkerInterrupted
  <2> QED
    BY <1>1, <2>1 DEF P!UsesUp
<1> QED
  BY <1>2, <1>3, <1>4, SameMoves DEF FlowNearer, FlowUnmoved

\* A request moves no event until its last step publishes one.
LEMMA RequestsUseUp ==
  ASSUME FlowInv, FlowInv', [Next]_vars, UNCHANGED workerVars
  PROVE  /\ \A r \in Requests : Handler(r) => FlowNearer(r)
         /\ \A o \in Requests : FlowNearer(o) \/ FlowUnmoved(o)
<1>1. TypeOK /\ P!TypeOK
  BY SameState DEF FlowInv
<1>2. \A r \in Requests : Handler(r) => FlowNearer(r)
  BY <1>1, HandlerAdvances DEF FlowNearer
<1>3. ASSUME NEW o \in Requests PROVE FlowNearer(o) \/ FlowUnmoved(o)
  <2>1. Advances(o) \/ Rests(o)
    BY <1>1, NobodyGoesBack
  <2>2. CASE \A n \in R!AttemptNumbers : ready'[o][n] = ready[o][n]
    <3>1. \A n \in P!AttemptNumbers : ready'[o][n] = ready[o][n] /\ delayed'[o][n] = delayed[o][n]
      BY <2>2, SameState DEF workerVars
    <3>2. /\ P!Copies(ready, o)' = P!Copies(ready, o) /\ P!Copies(delayed, o)' = P!Copies(delayed, o)
          /\ P!Chances(ready, o)' = P!Chances(ready, o) /\ P!Chances(delayed, o)' = P!Chances(delayed, o)
      BY <3>1 DEF P!Copies, P!Chances, P!AttemptNumbers
    <3>3. P!HandAttempts(o)' = P!HandAttempts(o) /\ P!HandMoves(o)' = P!HandMoves(o)
      BY DEF workerVars, P!HandAttempts, P!HandMoves, P!Handling
    <3>4. P!Unmoved(o)
      BY <3>2, <3>3 DEF P!Unmoved, P!AttemptsLeft, P!MovesLeft, P!ChancesLeft
    <3> QED
      BY <2>1, <3>4, SameMoves DEF FlowNearer, FlowUnmoved
  <2>3. CASE pc[o] = "publish" /\ pc'[o] = "done"
    <3>1. Advances(o)
      BY <2>3, Ahead DEF Advances
    <3> QED
      BY <3>1 DEF FlowNearer
  <2>4. RequestEffect(o)
    BY OrderServiceEffect DEF FlowInv
  <2> QED
    BY <2>2, <2>3, <2>4 DEF RequestEffect
<1> QED
  BY <1>2, <1>3

LEMMA FlowUsesUpStep ==
  ASSUME FlowInv, FlowInv', [FlowNext]_flowVars
  PROVE  FlowUsesUp
<1>1. CASE WorkerStep
  <2>1. ASSUME NEW r \in Requests, Request(r) PROVE FlowNearer(r)
    BY <2>1, HandlerAdvances DEF FlowInv, Request, FlowNearer
  <2> QED
    BY <1>1, <2>1, WorkerUsesUp DEF FlowUsesUp, FlowBusy
<1>2. CASE [Next]_vars /\ UNCHANGED workerVars
  <2>1. ASSUME Worker \/ (\E o \in Requests, n \in R!AttemptNumbers : Expire(o, n))
        PROVE  (\E o \in Requests : FlowNearer(o)) \/ workerTries' > workerTries
    <3>1. WorkerStep
      BY <2>1 DEF WorkerStep
    <3> QED
      BY <2>1, <3>1, WorkerUsesUp
  <2> QED
    BY <1>2, <2>1, RequestsUseUp DEF FlowUsesUp, FlowBusy, Request
<1> QED
  BY <1>1, <1>2, EitherPart

\* An order, from its request to its last event, gets nearer to its end with every
\* step anybody takes for it, whatever fails and whatever comes late; only a crash
\* of the worker gives it events back.
THEOREM OrdersRunOut == FlowSpec => FlowRunsOut
<1>1. FlowInv /\ FlowInv' /\ [FlowNext]_flowVars => FlowUsesUp
  BY FlowUsesUpStep
<1> QED
  BY <1>1, FlowInvariance, PTL DEF FlowSpec, FlowRunsOut

=============================================================================
