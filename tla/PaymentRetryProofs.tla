------------------------- MODULE PaymentRetryProofs -------------------------
(* Theorems of PaymentRetry. *)
EXTENDS PaymentRetry, Counting

LEMMA Bounds == MaxRetries \in Nat /\ MaxCrashes \in Nat /\ MaxAttempts \in Nat \ {0}
  BY PaymentRetryAssumption

LEMMA NobodyIsNoOrder == Nobody \notin Orders
  BY PaymentRetryAssumption

(***************************************************************************)
(* Bags of events, and bags of late attempts.                              *)
(***************************************************************************)

LEMMA CountOneMore ==
  ASSUME NEW S, NEW T, NEW bag \in [S -> [T -> Nat]], NEW s \in S, NEW t \in T
  PROVE  /\ [bag EXCEPT ![s][t] = @ + 1] \in [S -> [T -> Nat]]
         /\ \A x \in S, y \in T : [bag EXCEPT ![s][t] = @ + 1][x][y] =
                IF x = s /\ y = t THEN bag[x][y] + 1 ELSE bag[x][y]
<1> DEFINE row == [bag[s] EXCEPT ![t] = @ + 1]
<1>1. bag[s] \in [T -> Nat] /\ bag[s][t] + 1 \in Nat
  OBVIOUS
<1>2. row \in [T -> Nat] /\ \A y \in T : row[y] = IF y = t THEN bag[s][y] + 1 ELSE bag[s][y]
  BY <1>1
<1>3. [bag EXCEPT ![s][t] = @ + 1] = [bag EXCEPT ![s] = row]
  OBVIOUS
<1> QED
  BY <1>2, <1>3

LEMMA CountOneLess ==
  ASSUME NEW S, NEW T, NEW bag \in [S -> [T -> Nat]], NEW s \in S, NEW t \in T, bag[s][t] > 0
  PROVE  /\ [bag EXCEPT ![s][t] = @ - 1] \in [S -> [T -> Nat]]
         /\ \A x \in S, y \in T : [bag EXCEPT ![s][t] = @ - 1][x][y] =
                IF x = s /\ y = t THEN bag[x][y] - 1 ELSE bag[x][y]
<1> DEFINE row == [bag[s] EXCEPT ![t] = @ - 1]
<1>1. bag[s] \in [T -> Nat] /\ bag[s][t] - 1 \in Nat
  OBVIOUS
<1>2. row \in [T -> Nat] /\ \A y \in T : row[y] = IF y = t THEN bag[s][y] - 1 ELSE bag[s][y]
  BY <1>1
<1>3. [bag EXCEPT ![s][t] = @ - 1] = [bag EXCEPT ![s] = row]
  OBVIOUS
<1> QED
  BY <1>2, <1>3

LEMMA PutEvent ==
  ASSUME NEW bag \in Bag, NEW o \in Orders, NEW n \in AttemptNumbers
  PROVE  /\ Put(bag, o, n) \in Bag
         /\ \A p \in Orders, m \in AttemptNumbers :
                Put(bag, o, n)[p][m] = IF p = o /\ m = n THEN bag[p][m] + 1 ELSE bag[p][m]
  BY CountOneMore DEF Put, Bag

LEMMA DropEvent ==
  ASSUME NEW bag \in Bag, NEW o \in Orders, NEW n \in AttemptNumbers, bag[o][n] > 0
  PROVE  /\ Drop(bag, o, n) \in Bag
         /\ \A p \in Orders, m \in AttemptNumbers :
                Drop(bag, o, n)[p][m] = IF p = o /\ m = n THEN bag[p][m] - 1 ELSE bag[p][m]
  BY CountOneLess DEF Drop, Bag

LEMMA OneMoreLate ==
  ASSUME late \in [Calls -> [Orders -> Nat]], NEW op \in Calls, NEW o \in Orders
  PROVE  /\ MoreLate(op, o) \in [Calls -> [Orders -> Nat]]
         /\ \A c \in Calls, p \in Orders :
                MoreLate(op, o)[c][p] = IF c = op /\ p = o THEN late[c][p] + 1 ELSE late[c][p]
  BY CountOneMore DEF MoreLate

LEMMA OneLessLate ==
  ASSUME late \in [Calls -> [Orders -> Nat]], NEW op \in Calls, NEW o \in Orders, late[op][o] > 0
  PROVE  /\ LessLate(op, o) \in [Calls -> [Orders -> Nat]]
         /\ \A c \in Calls, p \in Orders :
                LessLate(op, o)[c][p] = IF c = op /\ p = o THEN late[c][p] - 1 ELSE late[c][p]
  BY CountOneLess DEF LessLate

(***************************************************************************)
(* Types.                                                                  *)
(***************************************************************************)

\* What the enumerated sets contain, so that proofs need not expand them.
LEMMA Names ==
    /\ {"idle", "ack", "nack", "reschedule", "pay", "confirm", "fail"} \subseteq Steps
    /\ {"pay", "confirm", "fail"} \subseteq Calls
    /\ {"confirmed", "failed", "payment_pending"} \subseteq Statuses
    /\ Calls \subseteq Steps /\ {"idle", "ack", "nack", "reschedule"} \cap Calls = {}
  BY DEF Steps, Calls, Statuses

\* A worker that is not idle has an order in hand.
LEMMA InHand ==
  ASSUME TypeOK, step # "idle"
  PROVE  working \in Orders
  BY DEF TypeOK

LEMMA SetPaymentType ==
  ASSUME TypeOK, NEW o \in Orders, NEW initiated \in BOOLEAN, NEW status \in Statuses,
         SetPayment(o, initiated, status)
  PROVE  /\ orderStatus' \in [Orders -> Statuses]
         /\ paymentInitiated' \in [Orders -> BOOLEAN]
  BY DEF TypeOK, SetPayment

LEMMA AbandonType ==
  ASSUME TypeOK, NEW op \in Calls, step = op, Abandon(op)
  PROVE  late' \in [Calls -> [Orders -> Nat]]
<1>1. late \in [Calls -> [Orders -> Nat]] /\ working \in Orders
  BY InHand, Names DEF TypeOK
<1> QED
  BY <1>1, OneMoreLate DEF Abandon

LEMMA CallFailsType ==
  ASSUME TypeOK, NEW op \in Calls, NEW then \in Steps, CallFails(op, then)
  PROVE  /\ step' \in Steps /\ tries' \in 0 .. MaxRetries
         /\ late' \in [Calls -> [Orders -> Nat]]
<1>1. late' \in [Calls -> [Orders -> Nat]]
  BY AbandonType DEF CallFails, TypeOK
<1> QED
  BY <1>1, Bounds DEF CallFails

LEMMA AfterFailureType ==
  /\ AfterFailure \in Steps \ {"idle"}
  /\ AfterFailure = "reschedule" => attempt < MaxAttempts
  BY Names DEF AfterFailure

\* An order is marked failed after the last attempt only.
LEMMA LastAttempt ==
  ASSUME TypeOK
  PROVE  AfterFailure \in {"reschedule", "fail"} /\ (AfterFailure = "fail" => attempt = MaxAttempts)
  BY Bounds DEF TypeOK, AttemptNumbers, AfterFailure

\* What the failure of a call leaves of the types, whatever comes next.
LEMMA FailureType ==
  ASSUME TypeOK, NEW op \in Calls, NEW then \in Steps \ {"idle"},
         then = AfterFailure \/ then = "nack", CallFails(op, then), UNCHANGED workVars
  PROVE  /\ step' \in Steps /\ tries' \in 0 .. MaxRetries
         /\ late' \in [Calls -> [Orders -> Nat]]
         /\ step' = "idle" <=> working' = Nobody
         /\ step' = "reschedule" => attempt' < MaxAttempts
<1>1. working \in Orders
  BY InHand, Names DEF CallFails
<1>2. step' = then
  BY DEF CallFails
<1>3. "nack" # "reschedule"
  OBVIOUS
<1>4. then = "reschedule" => attempt < MaxAttempts
  BY <1>3, AfterFailureType
<1> QED
  BY <1>1, <1>2, <1>4, CallFailsType, NobodyIsNoOrder DEF workVars

\* The attempt after one that may be followed by another.
LEMMA NextAttempt ==
  ASSUME TypeOK, attempt < MaxAttempts
  PROVE  attempt + 1 \in AttemptNumbers
  BY Bounds DEF TypeOK, AttemptNumbers

\* What the broker has queued after the channel of the worker is closed.
LEMMA RequeuedEvent ==
  ASSUME TypeOK
  PROVE  /\ Requeued \in Bag
         /\ \/ (step = "idle" \/ channel # "open") /\ Requeued = ready
            \/ /\ step # "idle" /\ channel = "open"
               /\ working \in Orders /\ attempt \in AttemptNumbers
               /\ Requeued = Put(ready, working, attempt)
<1>1. ready \in Bag /\ attempt \in AttemptNumbers
  BY DEF TypeOK
<1>2. CASE step = "idle" \/ channel # "open"
  BY <1>1, <1>2 DEF Requeued
<1>3. CASE step # "idle" /\ channel = "open"
  BY <1>1, <1>3, InHand, PutEvent DEF Requeued
<1> QED
  BY <1>2, <1>3

LEMMA TypeStep ==
  ASSUME TypeOK, [Next]_vars
  PROVE  TypeOK'
<1> USE DEF orderVars, queueVars, workVars, callVars
<1>1. ASSUME NEW o \in Orders, NEW n \in AttemptNumbers, Receive(o, n) PROVE TypeOK'
  BY <1>1, DropEvent, NobodyIsNoOrder, Names DEF TypeOK, Receive
<1>2. ASSUME NEW op \in Calls, RetryCall(op) PROVE TypeOK'
  BY <1>2, AbandonType, Bounds DEF TypeOK, RetryCall
<1>3. CASE PaymentAccepted
  BY <1>3, InHand, Names, Bounds DEF TypeOK, PaymentAccepted, CallReturns
<1>4. CASE PaymentFails
  <2>1. "pay" \in Calls
    BY Names
  <2> QED
    BY <1>4, <2>1, FailureType, AfterFailureType DEF TypeOK, PaymentFails
<1>5. CASE ConfirmServed
  <2>1. working \in Orders /\ step = "confirm" /\ step' = "ack" /\ tries' = 0 /\ UNCHANGED late
    BY <1>5, InHand, Names DEF ConfirmServed, CallReturns
  <2>2. orderStatus' \in [Orders -> Statuses] /\ paymentInitiated' \in [Orders -> BOOLEAN]
    BY <1>5, <2>1, SetPaymentType, Names DEF ConfirmServed
  <2> QED
    BY <1>5, <2>1, <2>2, Names, Bounds, NobodyIsNoOrder DEF TypeOK, ConfirmServed
<1>6. CASE ConfirmFails
  <2>1. "confirm" \in Calls
    BY Names
  <2> QED
    BY <1>6, <2>1, FailureType, AfterFailureType DEF TypeOK, ConfirmFails
<1>7. CASE Reschedule
  <2>1. working \in Orders /\ attempt + 1 \in AttemptNumbers
    BY <1>7, InHand, NextAttempt DEF Reschedule, TypeOK
  <2>2. delayed' \in Bag
    BY <1>7, <2>1, PutEvent DEF Reschedule, TypeOK
  <2>3. step' \in Steps \ {"idle", "reschedule"}
    BY <1>7, Names DEF Reschedule
  <2> QED
    BY <1>7, <2>1, <2>2, <2>3, NobodyIsNoOrder DEF TypeOK, Reschedule
<1>8. CASE MarkFailedServed
  <2>1. working \in Orders /\ step = "fail" /\ step' = "nack" /\ tries' = 0 /\ UNCHANGED late
    BY <1>8, InHand, Names DEF MarkFailedServed, CallReturns
  <2>2. orderStatus' \in [Orders -> Statuses] /\ paymentInitiated' \in [Orders -> BOOLEAN]
    BY <1>8, <2>1, SetPaymentType, Names DEF MarkFailedServed
  <2> QED
    BY <1>8, <2>1, <2>2, Names, Bounds, NobodyIsNoOrder DEF TypeOK, MarkFailedServed
<1>9. CASE MarkFailedFails
  <2>1. "nack" \in Steps \ {"idle"} /\ "fail" \in Calls
    BY Names
  <2> QED
    BY <1>9, <2>1, FailureType DEF TypeOK, MarkFailedFails
<1>10. CASE Ack
  BY <1>10, Names, NobodyIsNoOrder DEF TypeOK, Ack, Finish
<1>11. CASE Nack
  BY <1>11, InHand, PutEvent, Names, NobodyIsNoOrder DEF TypeOK, Nack, Finish
<1>12. ASSUME NEW o \in Orders, NEW n \in AttemptNumbers, Expire(o, n) PROVE TypeOK'
  BY <1>12, DropEvent, PutEvent DEF TypeOK, Expire
<1>13. ASSUME NEW op \in Calls, NEW o \in Orders, Late(op, o) PROVE TypeOK'
  <2>1. late' \in [Calls -> [Orders -> Nat]]
    BY <1>13, OneLessLate DEF Late, TypeOK
  <2>2. /\ orderStatus' \in [Orders -> Statuses] /\ paymentInitiated' \in [Orders -> BOOLEAN]
        /\ charged' \in [Orders -> Nat]
    <3>1. CASE \E initiated \in BOOLEAN, status \in {"confirmed", "failed"} :
                   SetPayment(o, initiated, status) /\ UNCHANGED charged
      BY <3>1, SetPaymentType, Names DEF TypeOK
    <3>2. CASE charged' = [charged EXCEPT ![o] = @ + 1] /\ UNCHANGED orderVars
      BY <3>2 DEF TypeOK
    <3> QED
      BY <1>13, <3>1, <3>2 DEF Late
  <2> QED
    BY <1>13, <2>1, <2>2 DEF Late, TypeOK
<1>14. CASE Crash
  <2>1. working \in Orders /\ ready' \in Bag
    BY <1>14, InHand, RequeuedEvent DEF Crash
  <2>2. late' \in [Calls -> [Orders -> Nat]]
    BY <1>14, <2>1, OneMoreLate DEF Crash, TypeOK
  <2>3. crashes' \in 0 .. MaxCrashes
    BY <1>14, Bounds DEF Crash, TypeOK
  <2>4. working' = Nobody /\ step' = "idle" /\ tries' = 0 /\ channel' = "down"
    BY <1>14 DEF Crash
  <2>5. step' \in Steps /\ "idle" # "reschedule" /\ tries' \in 0 .. MaxRetries
    BY <2>4, Names, Bounds
  <2>6. UNCHANGED <<orderStatus, paymentInitiated, charged, delayed, deadLetters, discarded, attempt>>
    BY <1>14 DEF Crash
  <2> QED
    BY <2>1, <2>2, <2>3, <2>4, <2>5, <2>6 DEF TypeOK
<1>15. CASE Restart
  BY <1>15 DEF TypeOK, Restart
<1>16. CASE Finished \/ UNCHANGED vars
  BY <1>16 DEF TypeOK, Finished, vars, workerVars
<1>17. CASE LosesConnection
  <2>1. ready' \in Bag /\ crashes' \in 0 .. MaxCrashes /\ channel' = "stale"
    BY <1>17, RequeuedEvent, Bounds DEF LosesConnection, TypeOK
  <2> QED
    BY <1>17, <2>1 DEF LosesConnection, TypeOK
<1>18. CASE AnswerThrows
  BY <1>18, Names, NobodyIsNoOrder DEF TypeOK, AnswerThrows
<1> QED
  BY <1>1, <1>2, <1>3, <1>4, <1>5, <1>6, <1>7, <1>8,
     <1>9, <1>10, <1>11, <1>12, <1>13, <1>14, <1>15, <1>16, <1>17, <1>18
  DEF Next, Worker, Interrupted

(***************************************************************************)
(* A confirmed order is paid for.                                          *)
(***************************************************************************)

\* A failed attempt leaves at most itself to be executed late.
LEMMA AbandonLate ==
  ASSUME TypeOK, NEW op \in Calls, step = op, Abandon(op) \/ UNCHANGED late
  PROVE  /\ late' \in [Calls -> [Orders -> Nat]]
         /\ \A c \in Calls, o \in Orders :
                late'[c][o] > 0 => late[c][o] > 0 \/ (c = op /\ o = working)
<1>1. late \in [Calls -> [Orders -> Nat]] /\ working \in Orders
  BY InHand, Names DEF TypeOK
<1>2. CASE UNCHANGED late
  BY <1>1, <1>2
<1>3. CASE late' = MoreLate(op, working)
  BY <1>1, <1>3, OneMoreLate
<1> QED
  BY <1>2, <1>3 DEF Abandon

LEMMA PaidStep ==
  ASSUME TypeOK, PaidInv, [Next]_vars
  PROVE  PaidInv'
<1> USE DEF PaidInv, ConfirmedIsPaid, orderVars, queueVars, workVars, callVars
<1>0. "confirm" \in Calls /\ "pay" \in Calls /\ "fail" \in Calls
  BY Names
<1>1. ASSUME NEW o \in Orders, NEW n \in AttemptNumbers, Receive(o, n) PROVE PaidInv'
  BY <1>1 DEF TypeOK, Receive
<1>2. ASSUME NEW op \in Calls, RetryCall(op) PROVE PaidInv'
  BY <1>0, <1>2, InHand, AbandonLate, Names DEF RetryCall
<1>3. CASE PaymentAccepted
  BY <1>0, <1>3, InHand DEF TypeOK, PaymentAccepted, CallReturns
<1>4. CASE PaymentFails
  BY <1>0, <1>4, AbandonLate, LastAttempt DEF PaymentFails, CallFails
<1>5. CASE ConfirmServed
  BY <1>5, InHand DEF TypeOK, ConfirmServed, CallReturns, SetPayment
<1>6. CASE ConfirmFails
  BY <1>0, <1>6, InHand, AbandonLate, LastAttempt DEF ConfirmFails, CallFails
<1>7. CASE Reschedule
  BY <1>7 DEF TypeOK, Reschedule
<1>8. CASE MarkFailedServed
  BY <1>8, InHand DEF TypeOK, MarkFailedServed, CallReturns, SetPayment
<1>9. CASE MarkFailedFails
  BY <1>0, <1>9, AbandonLate DEF MarkFailedFails, CallFails
<1>10. CASE Ack
  BY <1>10, NobodyIsNoOrder DEF TypeOK, Ack, Finish
<1>11. CASE Nack
  BY <1>11, NobodyIsNoOrder DEF TypeOK, Nack, Finish
<1>12. ASSUME NEW o \in Orders, NEW n \in AttemptNumbers, Expire(o, n) PROVE PaidInv'
  BY <1>12 DEF TypeOK, Expire
<1>13. ASSUME NEW op \in Calls, NEW o \in Orders, Late(op, o) PROVE PaidInv'
  <2>1. \A p \in Orders : late'["confirm"][p] > 0 => late["confirm"][p] > 0
    <3>1. late' = LessLate(op, o) /\ late \in [Calls -> [Orders -> Nat]] /\ late[op][o] > 0
      BY <1>13 DEF TypeOK, Late
    <3>2. \A p \in Orders : late["confirm"][p] \in Nat
      BY <1>0, <3>1
    <3>3. \A p \in Orders : late'["confirm"][p] = IF op = "confirm" /\ p = o
                                 THEN late["confirm"][p] - 1 ELSE late["confirm"][p]
      BY <1>0, <3>1, OneLessLate
    <3> QED
      BY <3>2, <3>3
  <2>2. \A p \in Orders : charged[p] > 0 => charged'[p] > 0
    <3>1. CASE charged' = [charged EXCEPT ![o] = @ + 1]
      BY <3>1 DEF TypeOK
    <3> QED
      BY <1>13, <3>1 DEF Late
  <2>3. \A p \in Orders : orderStatus'[p] = "confirmed" => charged[p] > 0
    BY <1>13 DEF TypeOK, Late, SetPayment
  <2> QED
    BY <1>13, <2>1, <2>2, <2>3 DEF Late
<1>14. CASE Crash
  <2>1. \A p \in Orders :
            late'["confirm"][p] > 0 => late["confirm"][p] > 0 \/ (step = "confirm" /\ p = working)
    <3>1. working \in Orders /\ late \in [Calls -> [Orders -> Nat]]
      BY <1>14, InHand DEF TypeOK, Crash
    <3>2. CASE step \in Calls /\ late' = MoreLate(step, working)
      BY <1>0, <3>1, <3>2, OneMoreLate
    <3> QED
      BY <1>14, <3>2 DEF Crash
  <2> QED
    BY <1>14, <2>1 DEF Crash
<1>15. CASE Restart
  BY <1>15 DEF Restart
<1>16. CASE Finished \/ UNCHANGED vars
  BY <1>16 DEF Finished, vars, workerVars
<1>17. CASE LosesConnection
  BY <1>17 DEF LosesConnection
<1>18. CASE AnswerThrows
  BY <1>18, NobodyIsNoOrder DEF TypeOK, AnswerThrows
<1> QED
  BY <1>1, <1>2, <1>3, <1>4, <1>5, <1>6, <1>7, <1>8,
     <1>9, <1>10, <1>11, <1>12, <1>13, <1>14, <1>15, <1>16, <1>17, <1>18
  DEF Next, Worker, Interrupted

(***************************************************************************)
(* No order is forgotten.                                                  *)
(***************************************************************************)

LEMMA PutQueued ==
  ASSUME NEW bag \in Bag, NEW o \in Orders, NEW n \in AttemptNumbers
  PROVE  /\ Queued(Put(bag, o, n), o)
         /\ \A p \in Orders : Queued(bag, p) => Queued(Put(bag, o, n), p)
         /\ \A p \in Orders : p # o => (Queued(bag, p) <=> Queued(Put(bag, o, n), p))
<1>1. \A p \in Orders, m \in AttemptNumbers : bag[p][m] \in Nat
  BY DEF Bag
<1>2. \A p \in Orders, m \in AttemptNumbers :
          Put(bag, o, n)[p][m] = IF p = o /\ m = n THEN bag[p][m] + 1 ELSE bag[p][m]
  BY PutEvent
<1> QED
  BY <1>1, <1>2 DEF Queued

LEMMA DropQueued ==
  ASSUME NEW bag \in Bag, NEW o \in Orders, NEW n \in AttemptNumbers, bag[o][n] > 0
  PROVE  /\ Queued(bag, o)
         /\ \A p \in Orders : p # o => (Queued(bag, p) <=> Queued(Drop(bag, o, n), p))
  BY DropEvent DEF Queued, Bag

\* The last attempts at an order that ended without a next one.
UsedUp(o) == discarded[o][MaxAttempts] + deadLetters[o][MaxAttempts] > 0

LEMMA NackUsesUp ==
  ASSUME TypeOK, Nack, NEW o \in Orders, UsedUp(o) \/ (o = working /\ attempt = MaxAttempts)
  PROVE  UsedUp(o)'
<1>1. MaxAttempts \in AttemptNumbers
  BY Bounds DEF AttemptNumbers
<1>2. working \in Orders /\ attempt \in AttemptNumbers
  BY InHand DEF Nack, TypeOK
<1>3. discarded[o][MaxAttempts] \in Nat /\ deadLetters[o][MaxAttempts] \in Nat
  BY <1>1 DEF TypeOK, Bag
<1>4. ASSUME NEW bag \in Bag
      PROVE  Put(bag, working, attempt)[o][MaxAttempts] =
                 IF o = working /\ attempt = MaxAttempts THEN bag[o][MaxAttempts] + 1
                                                         ELSE bag[o][MaxAttempts]
  BY <1>1, <1>2, PutEvent
<1>5. \/ deadLetters' = Put(deadLetters, working, attempt) /\ discarded' = discarded
      \/ discarded' = Put(discarded, working, attempt) /\ deadLetters' = deadLetters
  BY DEF Nack
<1>6. discarded \in Bag /\ deadLetters \in Bag
  BY DEF TypeOK
<1> QED
  BY <1>3, <1>4, <1>5, <1>6 DEF UsedUp

\* KeptInv, an order at a time.
Kept(o) ==
  /\ orderStatus[o] = "payment_pending" => InTheSystem(o) \/ UsedUp(o)
  /\ step = "ack" /\ working = o =>
        orderStatus[o] # "payment_pending" \/ Queued(ready, o) \/ Queued(delayed, o)
  /\ channel = "stale" /\ working = o => Queued(ready, o)

LEMMA KeptIsKept ==
  KeptInv <=> /\ step \in {"fail", "nack"} /\ channel = "open" => attempt = MaxAttempts
              /\ \A o \in Orders : Kept(o)
  BY DEF KeptInv, NoOrderForgotten, Kept, UsedUp

LEMMA KeptStep ==
  ASSUME TypeOK, KeptInv, "broker" \notin Faults, [Next]_vars
  PROVE  KeptInv'
<1> USE DEF InTheSystem, orderVars, queueVars, workVars, callVars
<1>0. /\ step \in {"fail", "nack"} /\ channel = "open" => attempt = MaxAttempts
      /\ \A o \in Orders : Kept(o)
      /\ ready \in Bag /\ delayed \in Bag
  BY KeptIsKept DEF TypeOK
<1> DEFINE Goal == /\ step' \in {"fail", "nack"} /\ channel' = "open" => attempt' = MaxAttempts
                   /\ \A o \in Orders : Kept(o)'
<1> SUFFICES Goal
  BY DEF KeptInv, NoOrderForgotten, Kept, UsedUp
<1>1. ASSUME NEW o \in Orders, NEW n \in AttemptNumbers, Receive(o, n) PROVE Goal
  <2>1. \A p \in Orders : p # o /\ Queued(ready, p) => Queued(ready', p)
    BY <1>0, <1>1, DropQueued DEF Receive
  <2>2. working \notin Orders
    BY <1>1, NobodyIsNoOrder DEF Receive, TypeOK
  <2> QED
    BY <1>0, <1>1, <2>1, <2>2 DEF Receive, Kept, UsedUp, Queued
<1>2. ASSUME NEW op \in Calls, RetryCall(op) PROVE Goal
  BY <1>0, <1>2 DEF RetryCall, Kept, UsedUp, Queued
<1>3. CASE PaymentAccepted
  BY <1>0, <1>3 DEF PaymentAccepted, CallReturns, Kept, UsedUp, Queued
<1>4. CASE PaymentFails
  BY <1>0, <1>4, LastAttempt DEF PaymentFails, CallFails, Kept, UsedUp, Queued
<1>5. CASE ConfirmServed
  BY <1>0, <1>5, InHand DEF ConfirmServed, CallReturns, SetPayment, Kept, UsedUp, Queued, TypeOK
<1>6. CASE ConfirmFails
  BY <1>0, <1>6, LastAttempt DEF ConfirmFails, CallFails, Kept, UsedUp, Queued
<1>7. CASE Reschedule
  <2>1. working \in Orders /\ attempt + 1 \in AttemptNumbers
    BY <1>7, InHand, NextAttempt DEF Reschedule, TypeOK
  <2>2. CASE channel = "stale"
    BY <1>0, <1>7, <2>2 DEF Reschedule, Kept, UsedUp, Queued
  <2>3. CASE channel # "stale"
    <3>1. delayed' = Put(delayed, working, attempt + 1) /\ step' = "ack"
      BY <1>7, <2>3 DEF Reschedule
    <3>2. Queued(delayed', working) /\ \A o \in Orders : Queued(delayed, o) => Queued(delayed', o)
      BY <1>0, <2>1, <3>1, PutQueued
    <3> QED
      BY <1>0, <1>7, <2>3, <3>1, <3>2 DEF Reschedule, Kept, UsedUp, Queued
  <2> QED
    BY <2>2, <2>3
<1>8. CASE MarkFailedServed
  BY <1>0, <1>8, InHand DEF MarkFailedServed, CallReturns, SetPayment, Kept, UsedUp, Queued, TypeOK
<1>9. CASE MarkFailedFails
  BY <1>0, <1>9 DEF MarkFailedFails, CallFails, Kept, UsedUp, Queued
<1>10. CASE Ack
  BY <1>0, <1>10, NobodyIsNoOrder DEF Ack, Finish, Kept, UsedUp, Queued
<1>11. CASE Nack
  <2>1. \A o \in Orders : UsedUp(o) \/ o = working => UsedUp(o)'
    BY <1>0, <1>11, NackUsesUp DEF Nack
  <2>2. UNCHANGED <<orderVars, ready, delayed>> /\ step' = "idle"
    BY <1>11 DEF Nack, Finish
  <2>3. working' = Nobody
    BY <1>11 DEF Nack, Finish
  <2> QED
    BY <1>0, <2>1, <2>2, <2>3, NobodyIsNoOrder DEF Kept, Queued
<1>12. ASSUME NEW o \in Orders, NEW n \in AttemptNumbers, Expire(o, n) PROVE Goal
  <2>1. Queued(ready', o) /\ \A p \in Orders : Queued(ready, p) => Queued(ready', p)
    BY <1>0, <1>12, PutQueued DEF Expire
  <2>2. \A p \in Orders : p # o /\ Queued(delayed, p) => Queued(delayed', p)
    BY <1>0, <1>12, DropQueued DEF Expire
  <2> QED
    BY <1>0, <1>12, <2>1, <2>2 DEF Expire, Kept, UsedUp, Queued
<1>13. ASSUME NEW op \in Calls, NEW o \in Orders, Late(op, o) PROVE Goal
  BY <1>0, <1>13 DEF Late, SetPayment, Kept, UsedUp, Queued, TypeOK
<1>14. CASE Crash
  <2>1. working \in Orders /\ channel \in {"open", "stale"}
    BY <1>14, InHand DEF Crash, TypeOK
  <2>2. Queued(Requeued, working) /\ \A p \in Orders : Queued(ready, p) => Queued(Requeued, p)
    <3>1. CASE channel = "stale"
      BY <1>0, <2>1, <3>1, RequeuedEvent DEF Kept
    <3>2. CASE channel = "open"
      BY <1>0, <1>14, <3>2, RequeuedEvent, PutQueued DEF Crash
    <3> QED
      BY <2>1, <3>1, <3>2
  <2>3. /\ ready' = Requeued /\ step' = "idle" /\ working' = Nobody
        /\ UNCHANGED <<orderStatus, delayed, discarded, deadLetters>>
    BY <1>14 DEF Crash
  <2> QED
    BY <1>0, <2>2, <2>3, NobodyIsNoOrder DEF Kept, UsedUp, Queued
<1>15. CASE Restart
  BY <1>0, <1>15 DEF Restart, Kept, UsedUp, Queued
<1>16. CASE Finished \/ UNCHANGED vars
  BY <1>0, <1>16 DEF Finished, vars, workerVars, Kept, UsedUp, Queued
<1>17. CASE LosesConnection
  <2>1. /\ \A p \in Orders : Queued(ready, p) => Queued(Requeued, p)
        /\ \A p \in Orders : working = p => Queued(Requeued, p)
    <3>1. step # "idle" \/ working \notin Orders
      BY NobodyIsNoOrder DEF TypeOK
    <3> QED
      BY <1>0, <1>17, <3>1, RequeuedEvent, PutQueued DEF LosesConnection
  <2>2. /\ ready' = Requeued /\ channel' = "stale"
        /\ UNCHANGED <<orderStatus, delayed, discarded, deadLetters, working, attempt, step>>
    BY <1>17 DEF LosesConnection
  <2> QED
    BY <1>0, <2>1, <2>2 DEF Kept, UsedUp, Queued
<1>18. CASE AnswerThrows
  BY <1>0, <1>18, NobodyIsNoOrder DEF AnswerThrows, Kept, UsedUp, Queued
<1> QED
  BY <1>1, <1>2, <1>3, <1>4, <1>5, <1>6, <1>7, <1>8,
     <1>9, <1>10, <1>11, <1>12, <1>13, <1>14, <1>15, <1>16, <1>17, <1>18
  DEF Next, Worker, Interrupted

(***************************************************************************)
(* How many events an order has, and what they may still cost it.          *)
(***************************************************************************)

Quiet(o) == \A n \in AttemptNumbers : ready[o][n] = 0 /\ delayed[o][n] = 0

LEMMA Counts ==
  ASSUME TypeOK
  PROVE  /\ \A o \in Orders, n \in AttemptNumbers : ready[o][n] \in Nat /\ delayed[o][n] \in Nat
         /\ \A o \in Orders : charged[o] \in Nat /\ late["pay"][o] \in Nat /\ Spent(o) \in Nat
         /\ ready \in Bag /\ delayed \in Bag /\ attempt \in AttemptNumbers /\ tries \in 0 .. MaxRetries
  BY Names DEF TypeOK, Bag, Spent

LEMMA QuietQueues ==
  ASSUME TypeOK, NEW o \in Orders
  PROVE  Quiet(o) <=> ~Queued(ready, o) /\ ~Queued(delayed, o)
  BY Counts DEF Quiet, Queued

\* The operators of PaymentRetry are those of Counting, on the row of an order.
LEMMA RowOf ==
  ASSUME NEW bag \in Bag, NEW o \in Orders
  PROVE  /\ bag[o] \in [1 .. MaxAttempts -> Nat] /\ MaxAttempts \in Nat
         /\ Copies(bag, o) = CopiesOf(bag[o], MaxAttempts)
         /\ Chances(bag, o) = ChancesOf(bag[o], MaxAttempts)
  BY Bounds DEF Bag, AttemptNumbers, Copies, Chances, CopiesOf, ChancesOf

LEMMA QueueMore ==
  ASSUME NEW bag \in Bag, NEW o \in Orders, NEW n \in AttemptNumbers, NEW p \in Orders
  PROVE  /\ Cardinality(Copies(bag, p)) \in Nat /\ Cardinality(Chances(bag, p)) \in Nat
         /\ Cardinality(Copies(Put(bag, o, n), p)) =
                Cardinality(Copies(bag, p)) + (IF p = o THEN 1 ELSE 0)
         /\ Cardinality(Chances(Put(bag, o, n), p)) =
                Cardinality(Chances(bag, p)) + (IF p = o THEN MaxAttempts - n + 1 ELSE 0)
<1> DEFINE more == Put(bag, o, n)
<1>1. /\ more \in Bag
      /\ \A m \in AttemptNumbers : more[p][m] = IF p = o /\ m = n THEN bag[p][m] + 1 ELSE bag[p][m]
  BY PutEvent
<1> HIDE DEF more
<1>2. n \in 1 .. MaxAttempts /\ AttemptNumbers = 1 .. MaxAttempts
  BY DEF AttemptNumbers
<1>3. /\ bag[p] \in [1 .. MaxAttempts -> Nat] /\ more[p] \in [1 .. MaxAttempts -> Nat]
      /\ Copies(bag, p) = CopiesOf(bag[p], MaxAttempts) /\ Copies(more, p) = CopiesOf(more[p], MaxAttempts)
      /\ Chances(bag, p) = ChancesOf(bag[p], MaxAttempts) /\ Chances(more, p) = ChancesOf(more[p], MaxAttempts)
      /\ MaxAttempts \in Nat
  BY <1>1, RowOf
<1>4. Cardinality(Copies(bag, p)) \in Nat /\ Cardinality(Chances(bag, p)) \in Nat
  BY <1>3, CopiesFinite, ChancesFinite, FS_CardinalityType
<1>5. CASE p = o
  <2>1. \A m \in 1 .. MaxAttempts : more[p][m] = IF m = n THEN bag[p][m] + 1 ELSE bag[p][m]
    BY <1>1, <1>2, <1>5
  <2>2. Cardinality(CopiesOf(more[p], MaxAttempts)) = Cardinality(CopiesOf(bag[p], MaxAttempts)) + 1
    BY <1>2, <1>3, <2>1, CopyMore
  <2>3. Cardinality(ChancesOf(more[p], MaxAttempts)) =
            Cardinality(ChancesOf(bag[p], MaxAttempts)) + (MaxAttempts - n + 1)
    BY <1>2, <1>3, <2>1, ChanceMore
  <2> QED
    BY <1>3, <1>4, <1>5, <2>2, <2>3 DEF more
<1>6. CASE p # o
  <2>1. more[p] = bag[p]
    BY <1>1, <1>2, <1>3, <1>6
  <2> QED
    BY <1>3, <1>4, <1>6, <2>1 DEF more
<1> QED
  BY <1>5, <1>6

LEMMA QueueLess ==
  ASSUME NEW bag \in Bag, NEW o \in Orders, NEW n \in AttemptNumbers, bag[o][n] > 0, NEW p \in Orders
  PROVE  /\ Cardinality(Copies(Drop(bag, o, n), p)) \in Nat
         /\ Cardinality(Chances(Drop(bag, o, n), p)) \in Nat
         /\ Cardinality(Copies(bag, p)) =
                Cardinality(Copies(Drop(bag, o, n), p)) + (IF p = o THEN 1 ELSE 0)
         /\ Cardinality(Chances(bag, p)) =
                Cardinality(Chances(Drop(bag, o, n), p)) + (IF p = o THEN MaxAttempts - n + 1 ELSE 0)
<1> DEFINE less == Drop(bag, o, n)
<1>1. /\ less \in Bag
      /\ \A q \in Orders, m \in AttemptNumbers :
             less[q][m] = IF q = o /\ m = n THEN bag[q][m] - 1 ELSE bag[q][m]
  BY DropEvent
<1> HIDE DEF less
<1>2. Put(less, o, n) = bag
  <2>1. Put(less, o, n) \in Bag /\ \A q \in Orders, m \in AttemptNumbers :
            Put(less, o, n)[q][m] = IF q = o /\ m = n THEN less[q][m] + 1 ELSE less[q][m]
    BY <1>1, PutEvent
  <2>2. \A q \in Orders, m \in AttemptNumbers : bag[q][m] \in Nat
    BY DEF Bag
  <2>3. \A q \in Orders, m \in AttemptNumbers : Put(less, o, n)[q][m] = bag[q][m]
    BY <1>1, <2>1, <2>2
  <2> QED
    BY <2>1, <2>3 DEF Bag
<1>3. /\ Cardinality(Copies(less, p)) \in Nat /\ Cardinality(Chances(less, p)) \in Nat
      /\ Cardinality(Copies(Put(less, o, n), p)) =
             Cardinality(Copies(less, p)) + (IF p = o THEN 1 ELSE 0)
      /\ Cardinality(Chances(Put(less, o, n), p)) =
             Cardinality(Chances(less, p)) + (IF p = o THEN MaxAttempts - n + 1 ELSE 0)
  BY <1>1, QueueMore
<1> QED
  BY <1>2, <1>3 DEF less

LEMMA LeftType ==
  ASSUME TypeOK, NEW o \in Orders
  PROVE  /\ Cardinality(Copies(ready, o)) \in Nat /\ Cardinality(Copies(delayed, o)) \in Nat
         /\ Cardinality(Chances(ready, o)) \in Nat /\ Cardinality(Chances(delayed, o)) \in Nat
         /\ CopiesLeft(o) \in Nat /\ ChancesLeft(o) \in Nat
<1>1. attempt \in AttemptNumbers /\ ready \in Bag /\ delayed \in Bag
  BY DEF TypeOK
<1> QED
  BY <1>1, QueueMore DEF CopiesLeft, ChancesLeft

LEMMA LeftNothing ==
  ASSUME TypeOK, NEW o \in Orders, CopiesLeft(o) = 0
  PROVE  Quiet(o)
<1>1. Cardinality(Copies(ready, o)) = 0 /\ Cardinality(Copies(delayed, o)) = 0
  BY LeftType DEF CopiesLeft
<1>2. ready \in Bag /\ delayed \in Bag
  BY DEF TypeOK
<1>3. \A n \in 1 .. MaxAttempts : ready[o][n] = 0
  BY <1>1, <1>2, RowOf, NoCopies
<1>4. \A n \in 1 .. MaxAttempts : delayed[o][n] = 0
  BY <1>1, <1>2, RowOf, NoCopies
<1> QED
  BY <1>3, <1>4 DEF Quiet, AttemptNumbers

\* An order without events, and one whose only event is its first.
Fresh(o) == \A n \in AttemptNumbers : ready[o][n] = (IF n = 1 THEN 1 ELSE 0) /\ delayed[o][n] = 0

EventCounts ==
    \A o \in Orders :
        /\ Quiet(o) => CopiesLeft(o) = 0 /\ ChancesLeft(o) = 0
        /\ Fresh(o) => CopiesLeft(o) = 1 /\ ChancesLeft(o) = MaxAttempts

LEMMA Counted == TypeOK => EventCounts
<1> SUFFICES ASSUME TypeOK, NEW o \in Orders
             PROVE  /\ Quiet(o) => CopiesLeft(o) = 0 /\ ChancesLeft(o) = 0
                    /\ Fresh(o) => CopiesLeft(o) = 1 /\ ChancesLeft(o) = MaxAttempts
  BY DEF EventCounts
<1>0. ready \in Bag /\ delayed \in Bag /\ AttemptNumbers = 1 .. MaxAttempts
  BY DEF TypeOK, AttemptNumbers
<1>1. ASSUME NEW bag \in Bag, \A n \in AttemptNumbers : bag[o][n] = 0
      PROVE  Cardinality(Copies(bag, o)) = 0 /\ Cardinality(Chances(bag, o)) = 0
  <2>1. /\ bag[o] \in [1 .. MaxAttempts -> Nat] /\ MaxAttempts \in Nat
        /\ Copies(bag, o) = CopiesOf(bag[o], MaxAttempts)
        /\ Chances(bag, o) = ChancesOf(bag[o], MaxAttempts)
    BY RowOf
  <2>2. \A n \in 1 .. MaxAttempts : bag[o][n] = 0
    BY <1>0, <1>1
  <2>3. Cardinality(CopiesOf(bag[o], MaxAttempts)) = 0
    BY <2>1, <2>2, NoCopies
  <2>4. Cardinality(ChancesOf(bag[o], MaxAttempts)) = 0
    BY <2>1, <2>2, NoChances
  <2> QED
    BY <2>1, <2>3, <2>4
<1>2. CASE Quiet(o)
  <2>1. \A n \in AttemptNumbers : ready[o][n] = 0 /\ delayed[o][n] = 0
    BY <1>2 DEF Quiet
  <2> QED
    BY <1>0, <1>1, <1>2, <2>1, Bounds DEF CopiesLeft, ChancesLeft, Fresh, AttemptNumbers
<1>3. CASE Fresh(o)
  <2>1. /\ Empty \in Bag /\ 1 \in AttemptNumbers /\ MaxAttempts - 1 + 1 = MaxAttempts
        /\ \A n \in AttemptNumbers : Empty[o][n] = 0
    BY Bounds DEF Empty, Bag, AttemptNumbers
  <2>2. \A n \in AttemptNumbers : ready[o][n] = Put(Empty, o, 1)[o][n]
    BY <1>3, <2>1, PutEvent DEF Fresh
  <2>3. Put(Empty, o, 1)[o] = ready[o]
    <3>1. ready[o] \in [AttemptNumbers -> Nat] /\ Put(Empty, o, 1)[o] \in [AttemptNumbers -> Nat]
      <4>1. Put(Empty, o, 1) \in Bag
        BY <2>1, PutEvent
      <4> QED
        BY <1>0, <4>1 DEF Bag
    <3> QED
      BY <2>2, <3>1
  <2>4. /\ Copies(ready, o) = Copies(Put(Empty, o, 1), o)
        /\ Chances(ready, o) = Chances(Put(Empty, o, 1), o)
    BY <2>3 DEF Copies, Chances
  <2>5. Cardinality(Copies(Empty, o)) = 0 /\ Cardinality(Chances(Empty, o)) = 0
    BY <1>1, <2>1
  <2>6. Cardinality(Copies(ready, o)) = 1 /\ Cardinality(Chances(ready, o)) = MaxAttempts
    BY <2>1, <2>4, <2>5, QueueMore, Bounds
  <2>7. Cardinality(Copies(delayed, o)) = 0 /\ Cardinality(Chances(delayed, o)) = 0
    BY <1>0, <1>1, <1>3 DEF Fresh
  <2>8. ~Quiet(o)
    BY <1>3, <2>1 DEF Fresh, Quiet
  <2> QED
    BY <2>6, <2>7, <2>8, Bounds DEF CopiesLeft, ChancesLeft
<1> QED
  BY <1>2, <1>3

LEMMA CountedAfterwards == TypeOK' => EventCounts'
  BY Counted, PTL

\* MaxCharges is linear.
LEMMA Charges ==
  /\ \A a \in Nat : MaxCharges(a) \in Nat
  /\ \A a, b \in Nat : MaxCharges(a + b) = MaxCharges(a) + MaxCharges(b)
  /\ MaxCharges(0) = 0 /\ MaxCharges(1) = MaxRetries + 1
<1>1. MaxRetries + 1 \in Nat
  BY Bounds
<1>2. \A k, a \in Nat : k * a \in Nat /\ k * 0 = 0 /\ k * 1 = k
  OBVIOUS
<1>3. \A k, a, b \in Nat : k * (a + b) = k * a + k * b
  OBVIOUS
<1> QED
  BY <1>1, <1>2, <1>3 DEF MaxCharges

LEMMA ChargesMore ==
  ASSUME NEW a \in Nat, NEW b \in Nat, NEW P \in BOOLEAN, NEW c, c = a + (IF P THEN b ELSE 0)
  PROVE  MaxCharges(c) = MaxCharges(a) + (IF P THEN MaxCharges(b) ELSE 0)
<1>1. MaxCharges(a) \in Nat /\ MaxCharges(a + b) = MaxCharges(a) + MaxCharges(b)
  BY Charges
<1>2. CASE P
  BY <1>1, <1>2
<1>3. CASE ~P
  BY <1>1, <1>3
<1> QED
  BY <1>2, <1>3

\* What an event may cost, one that is tried again, or its successor.
LEMMA EventCosts ==
  ASSUME TypeOK
  PROVE  /\ MaxAttempts - attempt \in Nat /\ MaxCharges(MaxAttempts - attempt) \in Nat
         /\ MaxCharges(MaxAttempts - attempt + 1) = MaxCharges(MaxAttempts - attempt) + MaxRetries + 1
         /\ MaxCharges(MaxAttempts - attempt + 1) <= MaxCharges(MaxAttempts)
         /\ MaxCharges(MaxAttempts) \in Nat /\ MaxRetries + 1 <= MaxCharges(MaxAttempts)
<1>1. /\ MaxAttempts - attempt \in Nat /\ attempt - 1 \in Nat /\ MaxAttempts - 1 \in Nat
      /\ MaxAttempts = (MaxAttempts - attempt + 1) + (attempt - 1)
      /\ MaxAttempts = (MaxAttempts - 1) + 1 /\ MaxAttempts - attempt + 1 \in Nat /\ MaxAttempts \in Nat
  BY Bounds DEF TypeOK, AttemptNumbers
<1>2. /\ MaxCharges(MaxAttempts - attempt) \in Nat /\ MaxCharges(attempt - 1) \in Nat
      /\ MaxCharges(MaxAttempts - 1) \in Nat /\ MaxCharges(MaxAttempts) \in Nat
      /\ MaxCharges(MaxAttempts - attempt + 1) \in Nat
  BY <1>1, Charges
<1>3. MaxCharges(MaxAttempts - attempt + 1) = MaxCharges(MaxAttempts - attempt) + (MaxRetries + 1)
  BY <1>1, Charges
<1>4. MaxCharges(MaxAttempts) = MaxCharges(MaxAttempts - attempt + 1) + MaxCharges(attempt - 1)
  BY <1>1, Charges
<1>5. MaxCharges(MaxAttempts) = MaxCharges(MaxAttempts - 1) + (MaxRetries + 1)
  BY <1>1, Charges
<1> QED
  BY <1>1, <1>2, <1>3, <1>4, <1>5, Bounds

\* EventInv, an order at a time.
Load(o) == CopiesLeft(o) + (IF Handling(o) THEN 1 ELSE 0)
Cost(o) == Spent(o) + MaxCharges(ChancesLeft(o)) + MayStillCost(o)

LEMMA EventParts ==
  EventInv <=> \A o \in Orders : Load(o) <= 1 + crashes /\ Cost(o) <= Allowance
  BY DEF EventInv, EventsBounded, Load, Cost

\* What is in the queues of an order stays, and may cost the same.
LEMMA SameQueues ==
  ASSUME UNCHANGED <<ready, delayed>>, NEW o \in Orders
  PROVE  CopiesLeft(o)' = CopiesLeft(o) /\ ChancesLeft(o)' = ChancesLeft(o)
  BY DEF CopiesLeft, ChancesLeft, Copies, Chances

LEMMA LoadType ==
  ASSUME TypeOK, NEW o \in Orders
  PROVE  /\ Load(o) \in Nat /\ Cost(o) \in Nat /\ MayStillCost(o) \in Nat
         /\ CopiesLeft(o) \in Nat /\ MaxCharges(ChancesLeft(o)) \in Nat /\ Spent(o) \in Nat
<1>1. CopiesLeft(o) \in Nat /\ MaxCharges(ChancesLeft(o)) \in Nat /\ Spent(o) \in Nat
  BY LeftType, Charges, Counts
<1>2. MayStillCost(o) \in Nat
  <2>1. tries \in 0 .. MaxRetries
    BY DEF TypeOK
  <2> QED
    BY <2>1, EventCosts, Bounds DEF MayStillCost
<1> QED
  BY <1>1, <1>2 DEF Load, Cost

\* A step that is not a crash gives no order an event more, nor lets its events
\* cost more.
NoMore == \A o \in Orders : Load(o)' <= Load(o) /\ Cost(o)' <= Cost(o)

\* If the event in hand is still handled afterwards, nothing was tried for it.
HandledOn(o) == Handling(o)' => /\ Handling(o) /\ attempt' = attempt
                                /\ step' = "pay" <=> step = "pay"
                                /\ step' = "pay" => tries' = tries

\* A step that neither moves an event nor charges for one.
LEMMA SameEvents ==
  ASSUME TypeOK, UNCHANGED <<ready, delayed>>,
         \A o \in Orders : Spent(o)' = Spent(o),
         \A o \in Orders : HandledOn(o)
  PROVE  NoMore
<1> SUFFICES ASSUME NEW o \in Orders PROVE Load(o)' <= Load(o) /\ Cost(o)' <= Cost(o)
  BY DEF NoMore
<1>1. /\ CopiesLeft(o)' = CopiesLeft(o) /\ ChancesLeft(o)' = ChancesLeft(o)
      /\ CopiesLeft(o) \in Nat /\ MaxCharges(ChancesLeft(o)) \in Nat /\ Spent(o) \in Nat
      /\ MayStillCost(o) \in Nat
  BY SameQueues, LoadType
<1>2. MayStillCost(o)' = MayStillCost(o) \/ MayStillCost(o)' = 0
  BY DEF MayStillCost, MaxCharges, HandledOn
<1>3. Handling(o)' => Handling(o)
  BY DEF HandledOn
<1> QED
  BY <1>1, <1>2, <1>3 DEF Load, Cost, MaxCharges

\* An attempt of the payment of the order in hand.
LEMMA OneCharge ==
  ASSUME TypeOK, NEW w \in Orders, working = w, step = "pay",
         UNCHANGED <<ready, delayed, working, attempt>>,
         Spent(w)' \in Nat, Spent(w)' <= Spent(w) + 1,
         \A o \in Orders : o # w => Spent(o)' = Spent(o),
         step' # "pay" \/ tries' = tries + 1
  PROVE  NoMore
<1> SUFFICES ASSUME NEW o \in Orders PROVE Load(o)' <= Load(o) /\ Cost(o)' <= Cost(o)
  BY DEF NoMore
<1>1. /\ CopiesLeft(o)' = CopiesLeft(o) /\ ChancesLeft(o)' = ChancesLeft(o)
      /\ CopiesLeft(o) \in Nat /\ MaxCharges(ChancesLeft(o)) \in Nat /\ Spent(o) \in Nat
      /\ MayStillCost(o) \in Nat
  BY SameQueues, LoadType
<1>2. MaxCharges(ChancesLeft(o))' = MaxCharges(ChancesLeft(o))
  BY <1>1 DEF MaxCharges
<1>3. CASE o = w
  <2>1. Handling(o)
    BY <1>3 DEF Handling
  <2>2. MayStillCost(o) = MaxCharges(MaxAttempts - attempt + 1) - tries
    BY <2>1 DEF MayStillCost
  <2>3. \/ MayStillCost(o)' = MaxCharges(MaxAttempts - attempt + 1) - (tries + 1)
        \/ MayStillCost(o)' = MaxCharges(MaxAttempts - attempt)
        \/ MayStillCost(o)' = 0
    BY DEF MayStillCost, MaxCharges
  <2>4. tries \in 0 .. MaxRetries
    BY DEF TypeOK
  <2>5. MayStillCost(o)' <= MayStillCost(o) - 1 /\ MayStillCost(o)' \in Int
    BY <2>2, <2>3, <2>4, EventCosts, Bounds
  <2> QED
    BY <1>1, <1>2, <1>3, <2>1, <2>5 DEF Load, Cost
<1>4. CASE o # w
  <2>1. ~Handling(o) /\ ~Handling(o)'
    BY <1>4 DEF Handling
  <2>2. MayStillCost(o) = 0 /\ MayStillCost(o)' = 0 /\ Spent(o)' = Spent(o)
    BY <1>4, <2>1 DEF MayStillCost
  <2> QED
    BY <1>1, <1>2, <2>1, <2>2 DEF Load, Cost
<1> QED
  BY <1>3, <1>4

\* What an abandoned attempt of a call adds.
LEMMA AbandonSpent ==
  ASSUME TypeOK, NEW op \in Calls, working \in Orders, UNCHANGED charged,
         Abandon(op) \/ UNCHANGED late
  PROVE  \A o \in Orders :
             /\ Spent(o)' \in Nat /\ Spent(o)' <= Spent(o) + 1
             /\ o # working \/ op # "pay" => Spent(o)' = Spent(o)
<1>1. late' = MoreLate(op, working) \/ late' = late
  BY DEF Abandon
<1>2. \A o \in Orders : late'["pay"][o] \in {late["pay"][o], late["pay"][o] + 1}
  BY <1>1, OneMoreLate, Names DEF TypeOK
<1>3. \A o \in Orders : o # working \/ op # "pay" => late'["pay"][o] = late["pay"][o]
  BY <1>1, OneMoreLate, Names DEF TypeOK
<1> QED
  BY <1>2, <1>3, Counts DEF Spent

LEMMA ReceiveNoMore ==
  ASSUME TypeOK, NEW o \in Orders, NEW n \in AttemptNumbers, Receive(o, n)
  PROVE  NoMore
<1> SUFFICES ASSUME NEW p \in Orders PROVE Load(p)' <= Load(p) /\ Cost(p)' <= Cost(p)
  BY DEF NoMore
<1>1. /\ ready' = Drop(ready, o, n) /\ ready[o][n] > 0 /\ step = "idle" /\ step' = "pay"
      /\ working' = o /\ attempt' = n /\ UNCHANGED <<charged, late, delayed, tries>>
      /\ tries \in 0 .. MaxRetries /\ working \notin Orders /\ ready \in Bag
  BY NobodyIsNoOrder DEF Receive, callVars, TypeOK
<1> DEFINE copies  == Cardinality(Copies(ready, p))
           chances == Cardinality(Chances(ready, p))
           last    == MaxAttempts - n + 1
<1>2. /\ copies \in Nat /\ copies' \in Nat /\ copies = copies' + (IF p = o THEN 1 ELSE 0)
      /\ chances \in Nat /\ chances' \in Nat /\ chances = chances' + (IF p = o THEN last ELSE 0)
  <2>1. /\ Cardinality(Copies(Drop(ready, o, n), p)) \in Nat
        /\ Cardinality(Chances(Drop(ready, o, n), p)) \in Nat
        /\ copies = Cardinality(Copies(Drop(ready, o, n), p)) + (IF p = o THEN 1 ELSE 0)
        /\ chances = Cardinality(Chances(Drop(ready, o, n), p)) + (IF p = o THEN last ELSE 0)
    BY <1>1, QueueLess
  <2>2. /\ copies' = Cardinality(Copies(Drop(ready, o, n), p))
        /\ chances' = Cardinality(Chances(Drop(ready, o, n), p))
    BY <1>1 DEF Copies, Chances
  <2> QED
    BY <1>1, <2>1, <2>2, LeftType
<1>3. /\ Cardinality(Copies(delayed, p))' = Cardinality(Copies(delayed, p))
      /\ Cardinality(Chances(delayed, p))' = Cardinality(Chances(delayed, p))
      /\ Cardinality(Copies(delayed, p)) \in Nat /\ Cardinality(Chances(delayed, p)) \in Nat
  BY <1>1, LeftType DEF Copies, Chances
<1>a. last \in Nat
  BY Bounds DEF AttemptNumbers
<1> HIDE DEF last, copies, chances
<1>4. CopiesLeft(p) = CopiesLeft(p)' + (IF p = o THEN 1 ELSE 0) /\ CopiesLeft(p)' \in Nat
  BY <1>2, <1>3 DEF CopiesLeft, copies
<1>5. ChancesLeft(p) = ChancesLeft(p)' + (IF p = o THEN last ELSE 0) /\ ChancesLeft(p)' \in Nat
  BY <1>2, <1>3, <1>a DEF ChancesLeft, chances
<1>6. ~Handling(p) /\ (Handling(p)' <=> p = o)
  BY <1>1 DEF Handling
<1>7. Load(p)' <= Load(p)
  BY <1>4, <1>6 DEF Load
<1>8. Spent(p)' = Spent(p) /\ Spent(p) \in Nat
  BY <1>1, Counts DEF Spent
<1>9. MayStillCost(p) = 0 /\ MayStillCost(p)' = IF p = o THEN MaxCharges(last) - tries ELSE 0
  BY <1>1, <1>6 DEF MayStillCost, MaxCharges, last
<1>10. MaxCharges(last) \in Nat /\ MaxCharges(ChancesLeft(p)') \in Nat
  BY <1>5, <1>a, Charges
<1>11. MaxCharges(ChancesLeft(p)) =
           MaxCharges(ChancesLeft(p)') + (IF p = o THEN MaxCharges(last) ELSE 0)
  BY <1>5, <1>a, ChargesMore
<1>12. Cost(p) = Spent(p) + MaxCharges(ChancesLeft(p)) + MayStillCost(p)
  BY DEF Cost
<1>13. Cost(p)' = Spent(p)' + MaxCharges(ChancesLeft(p)') + MayStillCost(p)'
  BY DEF Cost, MaxCharges
<1>14. Cost(p)' <= Cost(p)
  BY <1>1, <1>8, <1>9, <1>10, <1>11, <1>12, <1>13
<1> QED
  BY <1>7, <1>14

LEMMA RescheduleNoMore ==
  ASSUME TypeOK, Reschedule
  PROVE  NoMore
<1>1. /\ working \in Orders /\ attempt + 1 \in AttemptNumbers
      /\ step = "reschedule" /\ step' \in {"ack", "nack"}
      /\ delayed' = Put(delayed, working, attempt + 1) \/ UNCHANGED delayed
      /\ UNCHANGED <<charged, late, ready, working, attempt>>
      /\ ready \in Bag /\ delayed \in Bag
  BY InHand, NextAttempt DEF Reschedule, TypeOK, workVars, callVars
<1>2. \A o \in Orders : Spent(o)' = Spent(o) /\ ~Handling(o)'
  BY <1>1 DEF Spent, Handling
<1>3. CASE UNCHANGED delayed
  BY <1>1, <1>2, <1>3, SameEvents DEF HandledOn
<1>4. CASE delayed' = Put(delayed, working, attempt + 1)
  <2> SUFFICES ASSUME NEW p \in Orders PROVE Load(p)' <= Load(p) /\ Cost(p)' <= Cost(p)
    BY DEF NoMore
  <2> DEFINE next == MaxAttempts - attempt
  <2>1. /\ Cardinality(Copies(delayed, p)') =
               Cardinality(Copies(delayed, p)) + (IF p = working THEN 1 ELSE 0)
        /\ Cardinality(Chances(delayed, p)') =
               Cardinality(Chances(delayed, p)) + (IF p = working THEN next ELSE 0)
    <3>1. MaxAttempts - (attempt + 1) + 1 = next
      BY Bounds DEF TypeOK, AttemptNumbers
    <3>2. /\ Copies(delayed, p)' = Copies(Put(delayed, working, attempt + 1), p)
          /\ Chances(delayed, p)' = Chances(Put(delayed, working, attempt + 1), p)
      BY <1>4 DEF Copies, Chances
    <3> QED
      BY <1>1, <3>1, <3>2, QueueMore
  <2>2. /\ Copies(ready, p)' = Copies(ready, p) /\ Chances(ready, p)' = Chances(ready, p)
    BY <1>1 DEF Copies, Chances
  <2>3. /\ Cardinality(Copies(ready, p)) \in Nat /\ Cardinality(Copies(delayed, p)) \in Nat
        /\ Cardinality(Chances(ready, p)) \in Nat /\ Cardinality(Chances(delayed, p)) \in Nat
        /\ next \in Nat
    BY LeftType, EventCosts
  <2>4. CopiesLeft(p)' = CopiesLeft(p) + (IF p = working THEN 1 ELSE 0) /\ CopiesLeft(p) \in Nat
    BY <2>1, <2>2, <2>3 DEF CopiesLeft
  <2>5. ChancesLeft(p)' = ChancesLeft(p) + (IF p = working THEN next ELSE 0) /\ ChancesLeft(p) \in Nat
    BY <2>1, <2>2, <2>3 DEF ChancesLeft
  <2>6. (Handling(p) <=> p = working) /\ ~Handling(p)'
    BY <1>1, <1>2 DEF Handling
  <2>7. Load(p)' <= Load(p)
    BY <2>4, <2>6 DEF Load
  <2>8. /\ MayStillCost(p) = IF p = working THEN MaxCharges(next) ELSE 0
        /\ MayStillCost(p)' = 0
    BY <1>1, <2>6 DEF MayStillCost
  <2>9. MaxCharges(ChancesLeft(p)') =
            MaxCharges(ChancesLeft(p)) + (IF p = working THEN MaxCharges(next) ELSE 0)
    BY <2>3, <2>5, ChargesMore
  <2>10. MaxCharges(next) \in Nat /\ MaxCharges(ChancesLeft(p)) \in Nat /\ Spent(p) \in Nat
    BY <2>3, <2>5, Charges, Counts
  <2>11. /\ Cost(p) = Spent(p) + MaxCharges(ChancesLeft(p)) + MayStillCost(p)
         /\ Cost(p)' = Spent(p)' + MaxCharges(ChancesLeft(p)') + MayStillCost(p)'
    BY DEF Cost, MaxCharges
  <2> HIDE DEF next
  <2>12. Cost(p)' <= Cost(p)
    BY <1>2, <2>8, <2>9, <2>10, <2>11
  <2> QED
    BY <2>7, <2>12
<1> QED
  BY <1>1, <1>3, <1>4

LEMMA ExpireNoMore ==
  ASSUME TypeOK, NEW o \in Orders, NEW n \in AttemptNumbers, Expire(o, n)
  PROVE  NoMore
<1> SUFFICES ASSUME NEW p \in Orders PROVE Load(p)' = Load(p) /\ Cost(p)' = Cost(p)
  <2>1. \A p \in Orders : Load(p) \in Nat /\ Cost(p) \in Nat
    BY LoadType
  <2> QED
    BY <2>1 DEF NoMore
<1>1. /\ ready' = Put(ready, o, n) /\ delayed' = Drop(delayed, o, n) /\ delayed[o][n] > 0
      /\ UNCHANGED <<charged, late, working, attempt, step, tries>>
      /\ ready \in Bag /\ delayed \in Bag
  BY DEF Expire, TypeOK, workVars, callVars
<1>2. /\ Copies(ready, p)' = Copies(Put(ready, o, n), p)
      /\ Chances(ready, p)' = Chances(Put(ready, o, n), p)
      /\ Copies(delayed, p)' = Copies(Drop(delayed, o, n), p)
      /\ Chances(delayed, p)' = Chances(Drop(delayed, o, n), p)
  BY <1>1 DEF Copies, Chances
<1> DEFINE gain == IF p = o THEN MaxAttempts - n + 1 ELSE 0
           one  == IF p = o THEN 1 ELSE 0
<1>3. /\ Cardinality(Copies(ready, p)) \in Nat /\ Cardinality(Chances(ready, p)) \in Nat
      /\ Cardinality(Copies(ready, p)') = Cardinality(Copies(ready, p)) + one
      /\ Cardinality(Chances(ready, p)') = Cardinality(Chances(ready, p)) + gain
  BY <1>1, <1>2, QueueMore
<1>4. /\ Cardinality(Copies(delayed, p)') \in Nat /\ Cardinality(Chances(delayed, p)') \in Nat
      /\ Cardinality(Copies(delayed, p)) = Cardinality(Copies(delayed, p)') + one
      /\ Cardinality(Chances(delayed, p)) = Cardinality(Chances(delayed, p)') + gain
  BY <1>1, <1>2, QueueLess
<1>5. one \in Nat /\ gain \in Nat
  BY Bounds DEF AttemptNumbers
<1> HIDE DEF one, gain
<1>6. CopiesLeft(p)' = CopiesLeft(p) /\ ChancesLeft(p)' = ChancesLeft(p)
  BY <1>3, <1>4, <1>5 DEF CopiesLeft, ChancesLeft
<1>7. Spent(p)' = Spent(p) /\ MayStillCost(p)' = MayStillCost(p) /\ (Handling(p)' <=> Handling(p))
  BY <1>1 DEF Spent, MayStillCost, Handling, MaxCharges
<1> QED
  BY <1>6, <1>7 DEF Load, Cost, MaxCharges

\* The broker has the event in hand once more, which may have its successor already.
LEMMA RequeuedMore ==
  ASSUME TypeOK, ready' = Requeued, UNCHANGED delayed, NEW p \in Orders
  PROVE  \/ CopiesLeft(p)' = CopiesLeft(p) /\ ChancesLeft(p)' = ChancesLeft(p)
         \/ /\ p = working
            /\ CopiesLeft(p)' = CopiesLeft(p) + 1
            /\ ChancesLeft(p)' = ChancesLeft(p) + (MaxAttempts - attempt + 1)
<1>1. Copies(delayed, p)' = Copies(delayed, p) /\ Chances(delayed, p)' = Chances(delayed, p)
  BY DEF Copies, Chances
<1>2. CASE Requeued = ready
  BY <1>1, <1>2 DEF CopiesLeft, ChancesLeft, Copies, Chances
<1>3. CASE /\ working \in Orders /\ attempt \in AttemptNumbers
           /\ Requeued = Put(ready, working, attempt)
  <2> DEFINE own == MaxAttempts - attempt + 1
  <2>1. /\ Copies(ready, p)' = Copies(Put(ready, working, attempt), p)
        /\ Chances(ready, p)' = Chances(Put(ready, working, attempt), p)
        /\ ready \in Bag
    BY <1>3 DEF Copies, Chances, TypeOK
  <2>2. /\ Cardinality(Copies(ready, p)') =
               Cardinality(Copies(ready, p)) + (IF p = working THEN 1 ELSE 0)
        /\ Cardinality(Chances(ready, p)') =
               Cardinality(Chances(ready, p)) + (IF p = working THEN own ELSE 0)
    BY <1>3, <2>1, QueueMore
  <2>3. /\ Cardinality(Copies(ready, p)) \in Nat /\ Cardinality(Copies(delayed, p)) \in Nat
        /\ Cardinality(Chances(ready, p)) \in Nat /\ Cardinality(Chances(delayed, p)) \in Nat
        /\ own \in Nat
    BY LeftType, EventCosts
  <2>4. CopiesLeft(p)' = CopiesLeft(p) + (IF p = working THEN 1 ELSE 0)
    BY <1>1, <2>2, <2>3 DEF CopiesLeft
  <2>5. ChancesLeft(p)' = ChancesLeft(p) + (IF p = working THEN own ELSE 0)
    BY <1>1, <2>2, <2>3 DEF ChancesLeft
  <2>6. CopiesLeft(p) + 0 = CopiesLeft(p) /\ ChancesLeft(p) + 0 = ChancesLeft(p)
    BY <2>3 DEF CopiesLeft, ChancesLeft
  <2> QED
    BY <2>4, <2>5, <2>6
<1> QED
  BY <1>2, <1>3, RequeuedEvent

\* What that adds to the events of an order and to what they may cost.
LEMMA RequeuedCosts ==
  ASSUME TypeOK, ready' = Requeued, UNCHANGED delayed, NEW p \in Orders
  PROVE  /\ CopiesLeft(p) \in Nat /\ CopiesLeft(p)' \in CopiesLeft(p) .. CopiesLeft(p) + 1
         /\ MaxCharges(ChancesLeft(p)) \in Nat /\ MaxCharges(ChancesLeft(p)') \in Nat
         /\ MaxCharges(ChancesLeft(p)') <= MaxCharges(ChancesLeft(p)) + MaxCharges(MaxAttempts)
         /\ p = working =>
                MaxCharges(ChancesLeft(p)') <=
                    MaxCharges(ChancesLeft(p)) + MaxCharges(MaxAttempts - attempt + 1)
<1> DEFINE own == MaxAttempts - attempt + 1
<1>1. CopiesLeft(p) \in Nat /\ ChancesLeft(p) \in Nat /\ own \in Nat
  BY LeftType, EventCosts DEF CopiesLeft, ChancesLeft
<1>2. /\ MaxCharges(own) \in Nat /\ MaxCharges(ChancesLeft(p)) \in Nat
      /\ MaxCharges(own) <= MaxCharges(MaxAttempts) /\ MaxCharges(MaxAttempts) \in Nat
  <2>1. MaxCharges(own) \in Nat /\ MaxCharges(ChancesLeft(p)) \in Nat
    BY <1>1, Charges
  <2>2. MaxCharges(own) <= MaxCharges(MaxAttempts) /\ MaxCharges(MaxAttempts) \in Nat
    BY EventCosts
  <2> QED
    BY <2>1, <2>2
<1>3. CASE CopiesLeft(p)' = CopiesLeft(p) /\ ChancesLeft(p)' = ChancesLeft(p)
  <2> HIDE DEF own, MaxCharges
  <2> QED
    BY <1>1, <1>2, <1>3 DEF own
<1>4. CASE /\ CopiesLeft(p)' = CopiesLeft(p) + 1
           /\ ChancesLeft(p)' = ChancesLeft(p) + own
  <2>1. MaxCharges(ChancesLeft(p)') = MaxCharges(ChancesLeft(p)) + MaxCharges(own)
    BY <1>1, <1>4, ChargesMore
  <2> HIDE DEF own, MaxCharges
  <2> QED
    BY <1>1, <1>2, <1>4, <2>1 DEF own
<1> QED
  BY <1>3, <1>4, RequeuedMore

\* A crash adds no more than an event that starts anew.
LEMMA CrashOneMore ==
  ASSUME TypeOK, Crash, NEW p \in Orders
  PROVE  Load(p)' <= Load(p) + 1 /\ Cost(p)' <= Cost(p) + MaxCharges(MaxAttempts)
<1>1. /\ working \in Orders /\ ready' = Requeued /\ UNCHANGED <<charged, delayed>>
      /\ late' = IF step \in Calls THEN MoreLate(step, working) ELSE late
      /\ working' = Nobody
  BY InHand DEF Crash
<1> DEFINE own == MaxAttempts - attempt + 1
<1>2. /\ CopiesLeft(p) \in Nat /\ CopiesLeft(p)' \in CopiesLeft(p) .. CopiesLeft(p) + 1
      /\ MaxCharges(ChancesLeft(p)) \in Nat /\ MaxCharges(ChancesLeft(p)') \in Nat
      /\ MaxCharges(ChancesLeft(p)') <= MaxCharges(ChancesLeft(p)) + MaxCharges(MaxAttempts)
      /\ p = working => MaxCharges(ChancesLeft(p)') <= MaxCharges(ChancesLeft(p)) + MaxCharges(own)
  BY <1>1, RequeuedCosts
<1>7. ~Handling(p)' /\ MayStillCost(p)' = 0
  BY <1>1, NobodyIsNoOrder DEF Handling, MayStillCost
<1>8. Load(p)' <= Load(p) + 1
  BY <1>2, <1>7 DEF Load
<1>10. /\ MaxCharges(own) \in Nat /\ Spent(p) \in Nat
       /\ MaxCharges(own) <= MaxCharges(MaxAttempts) /\ MaxCharges(MaxAttempts) \in Nat
       /\ MaxRetries + 1 <= MaxCharges(MaxAttempts) /\ MayStillCost(p) \in Nat
  <2>1. Spent(p) \in Nat /\ MayStillCost(p) \in Nat
    BY LoadType
  <2>2. own \in Nat
    BY EventCosts
  <2>3. MaxCharges(own) \in Nat
    BY <2>2, Charges
  <2>4. /\ MaxCharges(own) <= MaxCharges(MaxAttempts) /\ MaxCharges(MaxAttempts) \in Nat
        /\ MaxRetries + 1 <= MaxCharges(MaxAttempts)
    BY EventCosts
  <2> QED
    BY <2>1, <2>3, <2>4
<1>11. /\ Cost(p) = Spent(p) + MaxCharges(ChancesLeft(p)) + MayStillCost(p)
       /\ Cost(p)' = Spent(p)' + MaxCharges(ChancesLeft(p)') + MayStillCost(p)'
  BY DEF Cost, MaxCharges
<1>12. CASE step = "pay" /\ p = working
  <2>1. Spent(p)' = Spent(p) + 1
    BY <1>1, <1>12, OneMoreLate, Counts, Names DEF TypeOK, Spent
  <2>2. MayStillCost(p) = MaxCharges(own) - tries
    BY <1>12 DEF MayStillCost, Handling
  <2>3. tries \in 0 .. MaxRetries
    BY DEF TypeOK
  <2> HIDE DEF own
  <2>4. Cost(p)' <= Cost(p) + MaxCharges(MaxAttempts)
    BY <1>2, <1>7, <1>10, <1>11, <1>12, <2>1, <2>2, <2>3, Bounds
  <2> QED
    BY <1>8, <2>4
<1>13. CASE ~(step = "pay" /\ p = working)
  <2>1. Spent(p)' = Spent(p)
    BY <1>1, <1>13, OneMoreLate, Counts, Names DEF TypeOK, Spent
  <2> HIDE DEF own
  <2>2. Cost(p)' <= Cost(p) + MaxCharges(MaxAttempts)
    BY <1>2, <1>7, <1>10, <1>11, <2>1
  <2> QED
    BY <1>8, <2>2
<1> QED
  BY <1>12, <1>13

\* Nor does a lost connection, after which the worker goes on all the same.
LEMMA LossOneMore ==
  ASSUME TypeOK, LosesConnection, NEW p \in Orders
  PROVE  Load(p)' <= Load(p) + 1 /\ Cost(p)' <= Cost(p) + MaxCharges(MaxAttempts)
<1>1. /\ ready' = Requeued
      /\ UNCHANGED <<charged, late, delayed, working, attempt, step, tries>>
  BY DEF LosesConnection, workVars, callVars
<1>2. /\ CopiesLeft(p) \in Nat /\ CopiesLeft(p)' \in CopiesLeft(p) .. CopiesLeft(p) + 1
      /\ MaxCharges(ChancesLeft(p)) \in Nat /\ MaxCharges(ChancesLeft(p)') \in Nat
      /\ MaxCharges(ChancesLeft(p)') <= MaxCharges(ChancesLeft(p)) + MaxCharges(MaxAttempts)
  BY <1>1, RequeuedCosts
<1>3. Spent(p)' = Spent(p) /\ MayStillCost(p)' = MayStillCost(p) /\ (Handling(p)' <=> Handling(p))
  BY <1>1 DEF Spent, MayStillCost, Handling, MaxCharges
<1>4. Spent(p) \in Nat /\ MayStillCost(p) \in Nat /\ MaxCharges(MaxAttempts) \in Nat
  BY Charges, Counts, LoadType, Bounds
<1>5. /\ Cost(p) = Spent(p) + MaxCharges(ChancesLeft(p)) + MayStillCost(p)
      /\ Cost(p)' = Spent(p)' + MaxCharges(ChancesLeft(p)') + MayStillCost(p)'
  BY DEF Cost, MaxCharges
<1>6. Load(p)' <= Load(p) + 1
  BY <1>2, <1>3 DEF Load
<1> HIDE DEF MaxCharges
<1>7. Cost(p)' <= Cost(p) + MaxCharges(MaxAttempts)
  BY <1>2, <1>3, <1>4, <1>5
<1> QED
  BY <1>6, <1>7

LEMMA InterruptedOneMore ==
  ASSUME TypeOK, Interrupted, NEW p \in Orders
  PROVE  Load(p)' <= Load(p) + 1 /\ Cost(p)' <= Cost(p) + MaxCharges(MaxAttempts)
  BY CrashOneMore, LossOneMore DEF Interrupted

\* Everything but a crash or a lost connection.
LEMMA NoMoreStep ==
  ASSUME TypeOK, [Next]_vars, ~Interrupted
  PROVE  NoMore /\ crashes' = crashes
<1> USE DEF orderVars, queueVars, workVars, callVars
<1>0. crashes' = crashes
  BY DEF Next, Worker, Receive, RetryCall, PaymentAccepted, PaymentFails, ConfirmServed,
         ConfirmFails, Reschedule, MarkFailedServed, MarkFailedFails, Ack, Nack, Finish,
         AnswerThrows, Expire, Late, Restart, Finished, vars, workerVars
<1>a. ASSUME UNCHANGED <<charged, late>> PROVE \A o \in Orders : Spent(o)' = Spent(o)
  BY <1>a DEF Spent
<1>b. step # "idle" => working \in Orders
  BY InHand
<1>1. ASSUME NEW op \in Calls, RetryCall(op) PROVE NoMore
  <2>1. /\ working \in Orders /\ step = op /\ tries' = tries + 1 /\ Abandon(op)
        /\ UNCHANGED <<charged, ready, delayed, working, attempt, step>>
    BY <1>1, <1>b, Names DEF RetryCall
  <2>2. \A o \in Orders :
            /\ Spent(o)' \in Nat /\ Spent(o)' <= Spent(o) + 1
            /\ o # working \/ op # "pay" => Spent(o)' = Spent(o)
    BY <2>1, AbandonSpent
  <2>3. CASE op = "pay"
    BY <2>1, <2>2, <2>3, OneCharge
  <2>4. CASE op # "pay"
    BY <2>1, <2>2, <2>4, SameEvents DEF Handling, HandledOn
  <2> QED
    BY <2>3, <2>4
<1>2. CASE PaymentAccepted
  <2>1. /\ working \in Orders /\ step = "pay" /\ step' = "confirm"
        /\ charged' = [charged EXCEPT ![working] = @ + 1]
        /\ UNCHANGED <<late, ready, delayed, working, attempt>>
    BY <1>2, <1>b DEF PaymentAccepted, CallReturns
  <2>2. \A o \in Orders : charged'[o] = IF o = working THEN charged[o] + 1 ELSE charged[o]
    BY <2>1 DEF TypeOK
  <2>3. \A o \in Orders : Spent(o)' = IF o = working THEN Spent(o) + 1 ELSE Spent(o)
    BY <2>1, <2>2, Counts DEF Spent
  <2>4. \A o \in Orders : Spent(o)' \in Nat /\ Spent(o)' <= Spent(o) + 1
    BY <2>3, Counts
  <2> QED
    BY <1>0, <2>1, <2>3, <2>4, OneCharge
<1>3. CASE PaymentFails
  <2>1. /\ working \in Orders /\ step = "pay" /\ step' \in {"reschedule", "fail"}
        /\ Abandon("pay") \/ UNCHANGED late
        /\ UNCHANGED <<charged, ready, delayed, working, attempt>>
    BY <1>3, <1>b, LastAttempt DEF PaymentFails, CallFails
  <2>2. \A o \in Orders :
            /\ Spent(o)' \in Nat /\ Spent(o)' <= Spent(o) + 1
            /\ o # working => Spent(o)' = Spent(o)
    BY <2>1, AbandonSpent, Names
  <2> QED
    BY <1>0, <2>1, <2>2, OneCharge
<1>4. CASE ConfirmServed \/ MarkFailedServed
  <2>1. step' \in {"ack", "nack"} /\ UNCHANGED <<charged, late, ready, delayed>>
    BY <1>4 DEF ConfirmServed, MarkFailedServed, CallReturns
  <2>2. \A o \in Orders : HandledOn(o)
    BY <2>1 DEF HandledOn, Handling
  <2> QED
    BY <1>0, <2>1, <2>2, <1>a, SameEvents
<1>5. CASE ConfirmFails \/ MarkFailedFails
  <2>1. PICK op \in Calls : /\ op # "pay" /\ step = op /\ step' \in {"reschedule", "fail", "nack"}
                            /\ Abandon(op) \/ UNCHANGED late
    BY <1>5, LastAttempt, Names DEF ConfirmFails, MarkFailedFails, CallFails
  <2>2. UNCHANGED <<charged, ready, delayed, working, attempt>> /\ working \in Orders
    BY <1>5, <1>b DEF ConfirmFails, MarkFailedFails, CallFails
  <2>3. \A o \in Orders : Spent(o)' = Spent(o)
    BY <2>1, <2>2, AbandonSpent
  <2>4. step \notin {"ack", "nack"}
    BY <2>1, Names
  <2>5. \A o \in Orders : HandledOn(o)
    BY <2>1, <2>2, <2>4 DEF HandledOn, Handling
  <2> QED
    BY <1>0, <2>2, <2>3, <2>5, SameEvents
<1>6. CASE Ack \/ Nack \/ AnswerThrows
  <2>1. working' = Nobody /\ UNCHANGED <<charged, late, ready, delayed>>
    BY <1>6 DEF Ack, Nack, Finish, AnswerThrows
  <2>2. \A o \in Orders : HandledOn(o)
    BY <2>1, NobodyIsNoOrder DEF HandledOn, Handling
  <2> QED
    BY <1>0, <2>1, <2>2, <1>a, SameEvents
<1>7. ASSUME NEW op \in Calls, NEW o \in Orders, Late(op, o) PROVE NoMore
  <2>1. /\ \A p \in Orders : late'["pay"][p] =
               IF op = "pay" /\ p = o THEN late["pay"][p] - 1 ELSE late["pay"][p]
        /\ UNCHANGED <<ready, delayed, working, attempt, step, tries>>
    BY <1>7, OneLessLate, Names DEF Late, TypeOK
  <2>2. \A p \in Orders : charged'[p] = IF op = "pay" /\ p = o THEN charged[p] + 1 ELSE charged[p]
    BY <1>7 DEF Late, TypeOK
  <2>3. \A p \in Orders : Spent(p)' = Spent(p)
    BY <2>1, <2>2, Counts DEF Spent
  <2> QED
    BY <2>1, <2>3, SameEvents DEF Handling, HandledOn
<1>8. CASE Restart \/ Finished \/ UNCHANGED vars
  <2>1. UNCHANGED <<charged, late, ready, delayed, working, attempt, step, tries>>
    BY <1>8 DEF Restart, Finished, vars, workerVars
  <2>2. \A o \in Orders : HandledOn(o)
    BY <2>1 DEF HandledOn, Handling
  <2> QED
    BY <1>0, <2>1, <2>2, <1>a, SameEvents
<1> QED
  BY <1>0, <1>1, <1>2, <1>3, <1>4, <1>5, <1>6, <1>7, <1>8,
     ReceiveNoMore, RescheduleNoMore, ExpireNoMore DEF Next, Worker

\* Either adds what an event that starts anew may cost.
LEMMA InterruptedAllows ==
  ASSUME TypeOK, Interrupted
  PROVE  crashes' = crashes + 1 /\ Allowance' = Allowance + MaxCharges(MaxAttempts)
<1>1. crashes' = crashes + 1 /\ crashes \in Nat
  BY Bounds DEF Interrupted, Crash, LosesConnection, TypeOK
<1>2. MaxCharges(MaxAttempts) \in Nat
  BY Charges, Bounds
<1>3. \A c, k \in Nat : c * (1 + (k + 1)) = c * (1 + k) + c
  OBVIOUS
<1>4. MaxCharges(MaxAttempts)' = MaxCharges(MaxAttempts)
  BY DEF MaxCharges
<1> HIDE DEF MaxCharges
<1> QED
  BY <1>1, <1>2, <1>3, <1>4 DEF Allowance

LEMMA AllowanceType ==
  ASSUME TypeOK
  PROVE  /\ Allowance \in Nat /\ crashes \in Nat /\ MaxCharges(MaxAttempts) \in Nat
         /\ MaxCharges(MaxAttempts) <= Allowance
<1>1. crashes \in Nat
  BY Bounds DEF TypeOK
<1>2. MaxCharges(MaxAttempts) \in Nat
  BY Bounds, Charges
<1>3. \A c, k \in Nat : c * (1 + k) = c + c * k /\ c * k \in Nat
  OBVIOUS
<1> HIDE DEF MaxCharges
<1> QED
  BY <1>1, <1>2, <1>3 DEF Allowance

LoadTypes == \A o \in Orders : Load(o) \in Nat /\ Cost(o) \in Nat /\ CopiesLeft(o) \in Nat

LEMMA TypesAfterwards == TypeOK' => LoadTypes'
<1>1. TypeOK => LoadTypes
  BY LoadType DEF LoadTypes
<1> QED
  BY <1>1, PTL

\* How many events an order has depends on the events alone, not on what they
\* cost it.
LEMMA LoadStep ==
  ASSUME TypeOK, EventsBounded, [Next]_vars
  PROVE  EventsBounded'
<1> SUFFICES ASSUME NEW o \in Orders PROVE Load(o)' <= 1 + crashes'
  BY DEF EventsBounded, Load
<1>1. Load(o) <= 1 + crashes
  BY DEF EventsBounded, Load
<1>2. Load(o) \in Nat /\ Load(o)' \in Nat /\ crashes \in Nat
  BY TypeStep, LoadType, TypesAfterwards, AllowanceType DEF LoadTypes
<1>3. CASE Interrupted
  BY <1>1, <1>2, <1>3, InterruptedOneMore, InterruptedAllows
<1>4. CASE ~Interrupted
  BY <1>1, <1>2, <1>4, NoMoreStep DEF NoMore
<1> QED
  BY <1>3, <1>4

LEMMA EventStep ==
  ASSUME TypeOK, EventInv, [Next]_vars
  PROVE  EventInv'
<1>0. EventsBounded'
  BY LoadStep DEF EventInv
<1> SUFFICES ASSUME NEW o \in Orders PROVE Cost(o)' <= Allowance'
  BY <1>0 DEF EventInv, Cost
<1>1. Cost(o) <= Allowance
  BY EventParts
<1>2. /\ Cost(o) \in Nat /\ Cost(o)' \in Nat
      /\ Allowance \in Nat /\ MaxCharges(MaxAttempts) \in Nat
  <2>1. TypeOK'
    BY TypeStep
  <2> QED
    BY <2>1, LoadType, TypesAfterwards, AllowanceType, Charges, Bounds DEF LoadTypes
<1>3. CASE Interrupted
  BY <1>1, <1>2, <1>3, InterruptedOneMore, InterruptedAllows
<1>4. CASE ~Interrupted
  <2>1. Cost(o)' <= Cost(o) /\ crashes' = crashes
    BY <1>4, NoMoreStep DEF NoMore
  <2>2. Allowance' = Allowance
    BY <2>1 DEF Allowance, MaxCharges
  <2> QED
    BY <1>1, <1>2, <2>1, <2>2
<1> QED
  BY <1>3, <1>4

(***************************************************************************)
(* Resolved once.                                                          *)
(***************************************************************************)

\* ResolvedInv, an order at a time.
Resolved(o) == orderStatus[o] \in {"confirmed", "failed"}

Settled(o) ==
    /\ late["confirm"][o] = 0
    /\ late["fail"][o] > 0 => /\ orderStatus[o] # "confirmed" /\ Quiet(o)
                              /\ working = o => step \in {"fail", "nack"}
    /\ Resolved(o) => Quiet(o) /\ (working = o => step \in {"fail", "ack", "nack"})
    /\ orderStatus[o] = "confirmed" /\ working = o => step = "ack"

LEMMA ResolvedParts ==
  ASSUME TypeOK
  PROVE  ResolvedInv <=> \A o \in Orders : Settled(o)
  BY QuietQueues DEF ResolvedInv, Settled, Resolved

\* Until the worker dies, the event in hand is the only one of its order.
LEMMA OnlyEvent ==
  ASSUME TypeOK, EventsBounded, Orderly, working \in Orders, step \notin {"ack", "nack"}
  PROVE  Quiet(working)
<1>1. crashes = 0
  BY Bounds DEF Orderly, TypeOK
<1>2. CopiesLeft(working) + 1 <= 1 /\ CopiesLeft(working) \in Nat
  BY <1>1, LeftType DEF EventsBounded, Handling
<1>3. CopiesLeft(working) = 0
  BY <1>2
<1> QED
  BY <1>3, LeftNothing

\* An order nothing happens to stays settled.
LEMMA StaysSettled ==
  ASSUME NEW o \in Orders, Settled(o),
         orderStatus'[o] = orderStatus[o],
         ready'[o] = ready[o], delayed'[o] = delayed[o],
         late'["confirm"][o] = late["confirm"][o], late'["fail"][o] = late["fail"][o],
         working' = o => working = o /\ step' = step
  PROVE  Settled(o)'
  BY DEF Settled, Resolved, Quiet

\* Nor does a step of the worker that resolves nothing unsettle an order that
\* is not resolved and has no attempt to mark it failed on its way.
LEMMA NotResolved ==
  ASSUME NEW o \in Orders, late'["confirm"][o] = 0, ~(late'["fail"][o] > 0), ~Resolved(o)'
  PROVE  Settled(o)'
  BY DEF Settled, Resolved

LEMMA AbandonKeeps ==
  ASSUME TypeOK, Orderly, NEW op \in Calls, working \in Orders, Abandon(op) \/ UNCHANGED late
  PROVE  /\ \A o \in Orders : late'["confirm"][o] = late["confirm"][o]
         /\ \A o \in Orders : op # "fail" \/ o # working => late'["fail"][o] = late["fail"][o]
<1>1. UNCHANGED late \/ (op # "confirm" /\ late' = MoreLate(op, working))
  BY DEF Abandon, Orderly
<1>2. CASE UNCHANGED late
  BY <1>2
<1>3. CASE op # "confirm" /\ late' = MoreLate(op, working)
  <2>1. /\ late \in [Calls -> [Orders -> Nat]] /\ "confirm" \in Calls /\ "fail" \in Calls
    BY Names DEF TypeOK
  <2>2. \A c \in Calls, o \in Orders : ~(c = op /\ o = working) => late'[c][o] = late[c][o]
    BY <1>3, <2>1, OneMoreLate
  <2> QED
    BY <1>3, <2>1, <2>2
<1> QED
  BY <1>1, <1>2, <1>3

LEMMA SettledStep ==
  ASSUME TypeOK, Orderly, EventsBounded, \A o \in Orders : Settled(o), [Next]_vars
  PROVE  \A o \in Orders : Settled(o)'
<1> USE DEF orderVars, queueVars, workVars, callVars
<1> SUFFICES ASSUME NEW o \in Orders PROVE Settled(o)'
  OBVIOUS
<1>a. /\ "pay" \in Calls /\ "confirm" \in Calls /\ "fail" \in Calls
      /\ ready \in Bag /\ delayed \in Bag /\ Nobody \notin Orders
  BY Names, NobodyIsNoOrder DEF TypeOK
\* What is in hand and not yet at its end is not resolved.
<1>b. step \in {"pay", "confirm", "reschedule"} /\ working = o =>
          ~Resolved(o) /\ ~(late["fail"][o] > 0) /\ late["confirm"][o] = 0
  BY DEF Settled
<1>c. \A n \in AttemptNumbers : ready[o][n] > 0 \/ delayed[o][n] > 0 =>
          ~Resolved(o) /\ ~(late["fail"][o] > 0) /\ late["confirm"][o] = 0
  BY DEF Settled, Quiet
<1>d. step \notin {"idle", "ack", "nack"} => working \in Orders /\ Quiet(working)
  BY InHand, OnlyEvent
<1>1. ASSUME NEW p \in Orders, NEW n \in AttemptNumbers, Receive(p, n) PROVE Settled(o)'
  <2>1. UNCHANGED <<orderStatus, late, delayed>> /\ working' = p /\ ready[p][n] > 0
    BY <1>1 DEF Receive
  <2>2. CASE p = o
    BY <1>c, <2>1, <2>2, NotResolved DEF Resolved
  <2>3. CASE p # o
    <3>1. ready'[o] = ready[o]
      BY <1>1, <1>a, <2>3 DEF Receive, Drop, Bag
    <3> QED
      BY <2>1, <2>3, <3>1, StaysSettled
  <2> QED
    BY <2>2, <2>3
<1>2. ASSUME NEW op \in Calls, RetryCall(op) PROVE Settled(o)'
  <2>1. /\ working \in Orders /\ step = op /\ Abandon(op) /\ Quiet(working)
        /\ UNCHANGED <<orderStatus, ready, delayed, working, step>>
    BY <1>2, <1>d, Names DEF RetryCall
  <2>2. /\ late'["confirm"][o] = late["confirm"][o]
        /\ op # "fail" \/ o # working => late'["fail"][o] = late["fail"][o]
    BY <2>1, AbandonKeeps
  <2>3. CASE op # "fail" \/ o # working
    BY <2>1, <2>2, <2>3, StaysSettled
  <2>4. CASE op = "fail" /\ o = working
    BY <2>1, <2>2, <2>4 DEF Settled, Resolved, Quiet
  <2> QED
    BY <2>3, <2>4
<1>3. CASE PaymentAccepted \/ PaymentFails \/ ConfirmFails
  <2>1. PICK op \in Calls \ {"fail"} : step = op /\ (Abandon(op) \/ UNCHANGED late)
    BY <1>3, <1>a DEF PaymentAccepted, PaymentFails, ConfirmFails, CallReturns, CallFails
  <2>2. working \in Orders /\ UNCHANGED <<orderStatus, ready, delayed, working>>
    BY <1>3, <2>1, InHand, Names DEF PaymentAccepted, PaymentFails, ConfirmFails
  <2>3. late'["confirm"][o] = late["confirm"][o] /\ late'["fail"][o] = late["fail"][o]
    BY <2>1, <2>2, AbandonKeeps
  <2>4. CASE o = working
    <3>1. step \in {"pay", "confirm"}
      BY <2>1 DEF Calls
    <3> QED
      BY <1>b, <2>2, <2>3, <2>4, <3>1, NotResolved DEF Resolved
  <2>5. CASE o # working
    BY <2>2, <2>3, <2>5, StaysSettled
  <2> QED
    BY <2>4, <2>5
<1>4. CASE ConfirmServed
  <2>1. /\ step = "confirm" /\ step' = "ack" /\ working \in Orders /\ Quiet(working)
        /\ UNCHANGED <<late, ready, delayed, working>>
    BY <1>4, <1>d DEF ConfirmServed, CallReturns
  <2>2. CASE o = working
    BY <1>b, <2>1, <2>2 DEF Settled, Quiet
  <2>3. CASE o # working
    <3>1. orderStatus'[o] = orderStatus[o]
      BY <1>4, <2>1, <2>3 DEF ConfirmServed, SetPayment, TypeOK
    <3> QED
      BY <2>1, <2>3, <3>1, StaysSettled
  <2> QED
    BY <2>2, <2>3
<1>5. CASE MarkFailedServed
  <2>1. /\ step = "fail" /\ step' = "nack" /\ working \in Orders /\ Quiet(working)
        /\ UNCHANGED <<late, ready, delayed, working>>
    BY <1>5, <1>d DEF MarkFailedServed, CallReturns
  <2>2. \A p \in Orders :
            orderStatus'[p] = IF p = working THEN "failed" ELSE orderStatus[p]
    BY <1>5, <2>1 DEF MarkFailedServed, SetPayment, TypeOK
  <2>3. CASE o = working
    BY <2>1, <2>2, <2>3 DEF Settled, Quiet
  <2>4. CASE o # working
    BY <2>1, <2>2, <2>4, StaysSettled
  <2> QED
    BY <2>3, <2>4
<1>6. CASE MarkFailedFails
  <2>1. /\ step = "fail" /\ step' = "nack" /\ working \in Orders /\ Quiet(working)
        /\ Abandon("fail") \/ UNCHANGED late
        /\ UNCHANGED <<orderStatus, ready, delayed, working>>
    BY <1>6, <1>d DEF MarkFailedFails, CallFails
  <2>2. /\ late'["confirm"][o] = late["confirm"][o]
        /\ o # working => late'["fail"][o] = late["fail"][o]
    BY <1>a, <2>1, AbandonKeeps
  <2>3. CASE o = working
    BY <2>1, <2>2, <2>3 DEF Settled, Resolved, Quiet
  <2>4. CASE o # working
    BY <2>1, <2>2, <2>4, StaysSettled
  <2> QED
    BY <2>3, <2>4
<1>7. CASE Reschedule
  <2>1. /\ working \in Orders /\ attempt + 1 \in AttemptNumbers /\ step = "reschedule"
        /\ delayed' = Put(delayed, working, attempt + 1) \/ UNCHANGED delayed
        /\ UNCHANGED <<orderStatus, ready, working, late>>
    BY <1>7, InHand, NextAttempt DEF Reschedule, TypeOK
  <2>2. CASE o = working
    BY <1>b, <2>1, <2>2, NotResolved DEF Resolved
  <2>3. CASE o # working
    <3>1. delayed'[o] = delayed[o]
      BY <1>a, <2>1, <2>3 DEF Put, Bag
    <3> QED
      BY <2>1, <2>3, <3>1, StaysSettled
  <2> QED
    BY <2>2, <2>3
<1>8. CASE Ack \/ Nack
  <2>1. working' = Nobody /\ UNCHANGED <<orderStatus, ready, delayed, late>>
    BY <1>8 DEF Ack, Nack, Finish
  <2> QED
    BY <1>a, <2>1, StaysSettled
<1>9. ASSUME NEW p \in Orders, NEW n \in AttemptNumbers, Expire(p, n) PROVE Settled(o)'
  <2>1. UNCHANGED <<orderStatus, late, working, step>> /\ delayed[p][n] > 0
    BY <1>9 DEF Expire
  <2>2. CASE p = o
    BY <1>c, <2>1, <2>2, NotResolved DEF Resolved
  <2>3. CASE p # o
    <3>1. ready'[o] = ready[o] /\ delayed'[o] = delayed[o]
      BY <1>9, <1>a, <2>3 DEF Expire, Drop, Put, Bag
    <3> QED
      BY <2>1, <3>1, StaysSettled
  <2> QED
    BY <2>2, <2>3
<1>10. ASSUME NEW op \in Calls, NEW p \in Orders, Late(op, p) PROVE Settled(o)'
  <2>1. /\ late[op][p] > 0 /\ late' = LessLate(op, p) /\ late \in [Calls -> [Orders -> Nat]]
        /\ UNCHANGED <<ready, delayed, working, step>>
    BY <1>10 DEF Late, TypeOK
  <2>2. op # "confirm"
    <3>1. late["confirm"][p] = 0
      BY DEF Settled
    <3> QED
      BY <2>1, <3>1
  <2>3. \A c \in Calls : late'[c][o] = IF c = op /\ o = p THEN late[c][o] - 1 ELSE late[c][o]
    BY <2>1, OneLessLate
  <2>4. CASE op = "fail" /\ o = p
    <3>1. orderStatus'[o] = "failed"
      BY <1>10, <2>4 DEF Late, SetPayment, TypeOK
    <3>2. /\ Quiet(o) /\ (working = o => step \in {"fail", "nack"})
          /\ late["confirm"][o] = 0 /\ late'["confirm"][o] = late["confirm"][o]
      BY <1>a, <2>1, <2>3, <2>4 DEF Settled
    <3> QED
      BY <2>1, <3>1, <3>2 DEF Settled, Quiet
  <2>5. CASE ~(op = "fail" /\ o = p)
    <3>1. orderStatus'[o] = orderStatus[o]
      BY <1>10, <2>2, <2>5 DEF Late, SetPayment, TypeOK, Calls
    <3>2. late'["confirm"][o] = late["confirm"][o] /\ late'["fail"][o] = late["fail"][o]
      BY <1>a, <2>2, <2>3, <2>5
    <3> QED
      BY <2>1, <3>1, <3>2, StaysSettled
  <2> QED
    BY <2>4, <2>5
<1>11. ~Interrupted
  BY Bounds DEF Interrupted, Crash, LosesConnection, Orderly, TypeOK
<1>12. CASE Restart \/ Finished \/ UNCHANGED vars
  <2>1. UNCHANGED <<orderStatus, ready, delayed, late, working, step>>
    BY <1>12 DEF Restart, Finished, vars, workerVars
  <2> QED
    BY <2>1, StaysSettled
<1>13. CASE AnswerThrows
  <2>1. UNCHANGED <<orderStatus, ready, delayed, late>> /\ working' = Nobody
    BY <1>13 DEF AnswerThrows, orderVars, queueVars, callVars
  <2>2. working' # o
    BY <2>1, NobodyIsNoOrder
  <2> QED
    BY <2>1, <2>2, StaysSettled
<1> QED
  BY <1>1, <1>2, <1>3, <1>4, <1>5, <1>6, <1>7, <1>8, <1>9, <1>10, <1>11, <1>12, <1>13
     DEF Next, Worker

(***************************************************************************)
(* The theorems.                                                           *)
(***************************************************************************)

LEMMA InitType == Init => TypeOK
<1> SUFFICES ASSUME Init PROVE TypeOK
  OBVIOUS
<1>1. Empty \in Bag /\ ready \in Bag
  BY DEF Init, Empty, Bag
<1>2. 1 \in AttemptNumbers /\ 0 \in 0 .. MaxRetries /\ 0 \in 0 .. MaxCrashes
  BY Bounds DEF AttemptNumbers
<1>3. orderStatus \in [Orders -> Statuses] /\ paymentInitiated \in [Orders -> BOOLEAN]
  BY Names DEF Init
<1> QED
  BY <1>1, <1>2, <1>3, Names, NobodyIsNoOrder DEF Init, WorkerInit, TypeOK

LEMMA InitPaid == Init => PaidInv
  BY Names DEF Init, WorkerInit, PaidInv, ConfirmedIsPaid

LEMMA InitKept == Init => KeptInv
<1> SUFFICES ASSUME Init PROVE KeptInv
  OBVIOUS
<1>1. 1 \in AttemptNumbers
  BY Bounds DEF AttemptNumbers
<1>2. \A o \in Orders : Queued(ready, o)
  <2> SUFFICES ASSUME NEW o \in Orders PROVE \E n \in AttemptNumbers : ready[o][n] > 0
    BY DEF Queued
  <2>1. ready[o][1] > 0
    BY <1>1 DEF Init
  <2> QED
    BY <1>1, <2>1
<1>3. step = "idle"
  BY DEF Init, WorkerInit
<1> QED
  BY <1>2, <1>3 DEF KeptInv, NoOrderForgotten, InTheSystem

\* At first every order has one event, at its first attempt.
LEMMA InitEvents == Init => EventInv
<1> SUFFICES ASSUME Init, NEW o \in Orders PROVE Load(o) <= 1 + crashes /\ Cost(o) <= Allowance
  BY EventParts
<1>1. Fresh(o)
  BY DEF Init, WorkerInit, Empty, Fresh
<1>2. CopiesLeft(o) = 1 /\ ChancesLeft(o) = MaxAttempts
  BY <1>1, InitType, Counted DEF EventCounts
<1>3. working \notin Orders /\ crashes = 0
  BY NobodyIsNoOrder DEF Init, WorkerInit
<1>4. ~Handling(o) /\ MayStillCost(o) = 0
  BY <1>3 DEF Handling, MayStillCost
<1>5. Spent(o) = 0
  <2>1. charged[o] = 0 /\ late["pay"][o] = 0
    BY Names DEF Init, WorkerInit
  <2> QED
    BY <2>1 DEF Spent
<1>6. Allowance = MaxCharges(MaxAttempts) /\ MaxCharges(MaxAttempts) \in Nat
  <2>1. MaxCharges(MaxAttempts) \in Nat
    BY Charges, Bounds
  <2> HIDE DEF MaxCharges
  <2> QED
    BY <1>3, <2>1 DEF Allowance
<1> QED
  BY <1>2, <1>3, <1>4, <1>5, <1>6 DEF Load, Cost

LEMMA InitResolved == Init => ResolvedInv
<1> SUFFICES ASSUME Init, NEW o \in Orders PROVE Settled(o)
  BY InitType, ResolvedParts
<1>1. /\ orderStatus[o] = "payment_pending" /\ working = Nobody /\ o # Nobody
      /\ late["confirm"][o] = 0 /\ late["fail"][o] = 0
  BY Names, NobodyIsNoOrder DEF Init, WorkerInit
<1> QED
  BY <1>1 DEF Settled, Resolved

\* Every variable has its type; the worker has an order in hand exactly when
\* it is not idle, and reschedules only while maxAttempts leaves an attempt.
THEOREM TypeCorrect == Spec => []TypeOK
<1> QED
  BY InitType, TypeStep, PTL DEF Spec

\* Whatever is retried, delayed or redelivered, whatever crashes, loses
\* its connection or comes late, the worker confirms no order that was not paid for.
THEOREM ConfirmedOrdersArePaid == Spec => []ConfirmedIsPaid
<1>1. Spec => []PaidInv
  BY InitPaid, PaidStep, TypeCorrect, PTL DEF Spec
<1> QED
  BY <1>1, PTL DEF PaidInv

\* Unless the broker loses what the worker sends to the delay queue, every
\* unresolved order keeps an event until its last attempt is used up.
THEOREM NoOrderIsForgotten == "broker" \notin Faults => (Spec => []NoOrderForgotten)
<1> SUFFICES ASSUME "broker" \notin Faults PROVE Spec => []NoOrderForgotten
  OBVIOUS
<1>1. TypeOK /\ KeptInv /\ [Next]_vars => KeptInv'
  BY KeptStep
<1>2. Spec => []KeptInv
  BY <1>1, InitKept, TypeCorrect, PTL DEF Spec
<1> QED
  BY <1>2, PTL DEF KeptInv

LEMMA EventInvariance == Spec => [](TypeOK /\ EventInv)
<1>1. TypeOK /\ EventInv /\ [Next]_vars => TypeOK' /\ EventInv'
  BY TypeStep, EventStep
<1> QED
  BY <1>1, InitType, InitEvents, PTL DEF Spec

\* Of an order's events, one is still to be handled, and one more for every
\* crash or lost connection that may have left an event behind beside its
\* successor.
THEOREM EventsAreBounded == Spec => []EventsBounded
<1> QED
  BY EventInvariance, PTL DEF EventInv

\* Whatever is retried, executed late, redelivered or handled again after a
\* crash or by a worker that lost its connection, the payments for an order are
\* bounded: by maxAttempts times the attempts of an HTTP call, and as much again
\* for every crash or lost connection.
THEOREM RetriesAreBounded == Spec => []ChargesBounded
<1>1. TypeOK /\ EventInv => ChargesBounded
  <2> SUFFICES ASSUME TypeOK, EventInv, NEW o \in Orders
               PROVE  Spent(o) + MaxCharges(ChancesLeft(o)) <= Allowance
    BY DEF ChargesBounded
  <2>1. Spent(o) + MaxCharges(ChancesLeft(o)) + MayStillCost(o) <= Allowance
    BY DEF EventInv
  <2>2. Spent(o) \in Nat /\ MaxCharges(ChancesLeft(o)) \in Nat /\ MayStillCost(o) \in Nat /\ Allowance \in Nat
    BY LoadType, AllowanceType
  <2> QED
    BY <2>1, <2>2
<1> QED
  BY <1>1, EventInvariance, PTL

\* The parts of ResolvedInv, of the state after a step.
AllSettled == \A o \in Orders : Settled(o)

LEMMA SettledAfterwards == TypeOK' /\ AllSettled' => ResolvedInv'
<1>1. TypeOK /\ AllSettled => ResolvedInv
  BY ResolvedParts DEF AllSettled
<1> QED
  BY <1>1, PTL

LEMMA ResolvedStep ==
  ASSUME TypeOK, EventsBounded, Orderly, ResolvedInv, [Next]_vars
  PROVE  ResolvedInv'
<1>1. \A o \in Orders : Settled(o)
  BY ResolvedParts
<1>2. AllSettled'
  BY <1>1, SettledStep DEF AllSettled
<1> QED
  BY <1>2, TypeStep, SettledAfterwards

LEMMA ResolvedInvariance == Orderly => (Spec => [](TypeOK /\ ResolvedInv /\ EventInv))
<1> SUFFICES ASSUME Orderly PROVE Spec => [](TypeOK /\ ResolvedInv /\ EventInv)
  OBVIOUS
<1>1. TypeOK /\ EventInv /\ ResolvedInv /\ [Next]_vars => ResolvedInv'
  BY ResolvedStep DEF EventInv
<1> QED
  BY <1>1, InitResolved, EventInvariance, PTL DEF Spec

\* Unless the worker dies or loses its connection, or a PATCH that confirms an order is executed after
\* the worker gave it up, a status an order was resolved to stays.  Payments
\* executed late, PATCHes that mark an order failed late and events the broker
\* does not confirm do not change it.
THEOREM ResolutionsStay == Orderly => (Spec => ResolvedOnce)
<1> SUFFICES ASSUME Orderly PROVE Spec => ResolvedOnce
  OBVIOUS
<1> DEFINE Stay == \A o \in Orders : orderStatus[o] \in {"confirmed", "failed"} =>
                       orderStatus'[o] = orderStatus[o]
<1>1. ASSUME TypeOK, EventInv, ResolvedInv, [Next]_vars PROVE Stay
  <2> SUFFICES ASSUME NEW o \in Orders, Resolved(o) PROVE orderStatus'[o] = orderStatus[o]
    BY DEF Resolved
  <2>0. \A p \in Orders : Settled(p)
    BY <1>1, ResolvedParts
  <2>1. CASE ConfirmServed \/ MarkFailedServed
    <3>1. /\ step \in {"confirm", "fail"} /\ working \in Orders
          /\ step = "confirm" => ConfirmServed
          /\ step = "fail" => MarkFailedServed
      BY <1>1, <2>1, InHand DEF ConfirmServed, MarkFailedServed, CallReturns
    <3>2. CASE o = working
      <4>1. step = "fail" /\ orderStatus[o] = "failed" /\ MarkFailedServed
        BY <2>0, <3>1, <3>2 DEF Settled, Resolved
      <4> QED
        BY <1>1, <3>2, <4>1 DEF MarkFailedServed, SetPayment, TypeOK
    <3>3. CASE o # working
      BY <1>1, <2>1, <3>1, <3>3 DEF TypeOK, ConfirmServed, MarkFailedServed, SetPayment
    <3> QED
      BY <3>2, <3>3
  <2>2. ASSUME NEW op \in Calls, NEW p \in Orders, Late(op, p) PROVE orderStatus'[o] = orderStatus[o]
    <3>1. late[op][p] > 0 /\ late["confirm"][p] = 0
      BY <2>0, <2>2 DEF Settled, Late
    <3>2. CASE op = "fail" /\ o = p
      <4>1. orderStatus[o] = "failed"
        BY <2>0, <3>1, <3>2 DEF Settled, Resolved
      <4> QED
        BY <1>1, <2>2, <3>2, <4>1 DEF Late, SetPayment, TypeOK
    <3>3. CASE ~(op = "fail" /\ o = p)
      <4>1. op # "confirm"
        BY <3>1
      <4> QED
        BY <1>1, <2>2, <3>3, <4>1 DEF Late, SetPayment, TypeOK, orderVars
    <3> QED
      BY <3>2, <3>3
  <2>3. CASE UNCHANGED orderStatus
    BY <2>3
  <2> QED
    BY <1>1, <2>1, <2>2, <2>3
       DEF Next, Worker, Receive, RetryCall, PaymentAccepted, PaymentFails, ConfirmFails,
           Reschedule, MarkFailedFails, Ack, Nack, Finish, AnswerThrows, Expire,
           Interrupted, Crash, LosesConnection, Restart, Finished, orderVars, vars
<1> QED
  BY <1>1, ResolvedInvariance, PTL DEF Spec, ResolvedOnce

(***************************************************************************)
(* Retries run out.                                                        *)
(***************************************************************************)

\* The events of an order in either queue.
Waiting(o) == Cardinality(Copies(ready, o))
Pausing(o) == Cardinality(Copies(delayed, o))

LEMMA MovesLeftIs ==
  ASSUME NEW o \in Orders
  PROVE  /\ MovesLeft(o) = 3 * Pausing(o) + 2 * Waiting(o) + HandMoves(o)
         /\ MovesLeft(o)' = 3 * Pausing(o)' + 2 * Waiting(o)' + HandMoves(o)'
         /\ AttemptsLeft(o) = ChancesLeft(o) + HandAttempts(o)
         /\ AttemptsLeft(o)' = ChancesLeft(o)' + HandAttempts(o)'
  BY DEF MovesLeft, Pausing, Waiting, AttemptsLeft

LEMMA LeftTypes ==
  ASSUME TypeOK, NEW o \in Orders
  PROVE  /\ Waiting(o) \in Nat /\ Pausing(o) \in Nat /\ ChancesLeft(o) \in Nat
         /\ HandAttempts(o) \in Nat /\ HandMoves(o) \in Nat
         /\ working # o => HandAttempts(o) = 0 /\ HandMoves(o) = 0
<1>1. HandAttempts(o) \in Nat
  BY EventCosts DEF HandAttempts
<1>2. HandMoves(o) \in Nat
  BY DEF HandMoves
<1> QED
  BY <1>1, <1>2, LeftType DEF Waiting, Pausing, HandAttempts, HandMoves, Handling

\* A step that only the event in hand notices.
LEMMA HandStep ==
  ASSUME TypeOK, UNCHANGED <<ready, delayed>>, NEW o \in Orders,
         HandAttempts(o)' \in Nat, HandMoves(o)' \in Nat
  PROVE  /\ HandAttempts(o)' < HandAttempts(o) => Nearer(o)
         /\ HandAttempts(o)' = HandAttempts(o) /\ HandMoves(o)' < HandMoves(o) => Nearer(o)
         /\ HandAttempts(o)' = HandAttempts(o) /\ HandMoves(o)' = HandMoves(o) => Unmoved(o)
<1>1. Waiting(o)' = Waiting(o) /\ Pausing(o)' = Pausing(o) /\ ChancesLeft(o)' = ChancesLeft(o)
  BY SameQueues DEF Waiting, Pausing, Copies
<1> QED
  BY <1>1, LeftTypes, MovesLeftIs DEF Nearer, Unmoved

\* The worker goes on with the event in hand.
LEMMA NextMove ==
  ASSUME TypeOK, NEW w \in Orders, working = w, UNCHANGED <<ready, delayed>>,
         \/ /\ UNCHANGED <<working, attempt>>
            /\ \/ step = "pay" /\ step' \in {"confirm", "reschedule", "fail"}
               \/ step = "confirm" /\ step' \in {"ack", "reschedule", "fail"}
               \/ step = "reschedule" /\ step' \in {"ack", "nack"}
               \/ step = "fail" /\ step' = "nack"
         \/ step \in {"ack", "nack"} /\ working' = Nobody
  PROVE  Nearer(w) /\ \A o \in Orders : Nearer(o) \/ Unmoved(o)
<1>1. MaxAttempts - attempt \in Nat
  BY EventCosts
<1>2. ASSUME NEW o \in Orders, o # w PROVE Unmoved(o)
  <2>1. HandAttempts(o) = 0 /\ HandMoves(o) = 0 /\ HandAttempts(o)' = 0 /\ HandMoves(o)' = 0
    BY <1>2, NobodyIsNoOrder DEF HandAttempts, HandMoves, Handling
  <2> QED
    BY <2>1, HandStep
<1>3. Nearer(w)
  BY <1>1, HandStep, NobodyIsNoOrder DEF HandAttempts, HandMoves, Handling
<1> QED
  BY <1>2, <1>3

LEMMA RetryMoves ==
  ASSUME TypeOK, NEW op \in Calls, RetryCall(op)
  PROVE  tries' > tries /\ \A o \in Orders : Unmoved(o)
<1>1. tries' > tries /\ UNCHANGED <<ready, delayed, working, attempt, step>>
  BY Bounds DEF RetryCall, TypeOK, queueVars, workVars
<1>2. ASSUME NEW o \in Orders PROVE Unmoved(o)
  <2>1. HandAttempts(o)' = HandAttempts(o) /\ HandMoves(o)' = HandMoves(o)
    BY <1>1 DEF HandAttempts, HandMoves, Handling
  <2> QED
    BY <1>1, <2>1, HandStep, LeftTypes
<1> QED
  BY <1>1, <1>2

LEMMA ReceiveMoves ==
  ASSUME TypeOK, NEW o \in Orders, NEW n \in AttemptNumbers, Receive(o, n)
  PROVE  Nearer(o) /\ \A p \in Orders : Nearer(p) \/ Unmoved(p)
<1>1. /\ ready' = Drop(ready, o, n) /\ ready[o][n] > 0 /\ step' = "pay"
      /\ working' = o /\ attempt' = n /\ UNCHANGED delayed
      /\ working \notin Orders /\ ready \in Bag
  BY NobodyIsNoOrder DEF Receive, TypeOK
<1>2. ASSUME NEW p \in Orders
      PROVE  /\ Waiting(p) = Waiting(p)' + (IF p = o THEN 1 ELSE 0) /\ Waiting(p)' \in Nat
             /\ Pausing(p)' = Pausing(p) /\ Pausing(p) \in Nat
             /\ ChancesLeft(p) = ChancesLeft(p)' + (IF p = o THEN MaxAttempts - n + 1 ELSE 0)
             /\ ChancesLeft(p)' \in Nat
  <2>1. /\ Cardinality(Copies(Drop(ready, o, n), p)) \in Nat
        /\ Cardinality(Chances(Drop(ready, o, n), p)) \in Nat
        /\ Cardinality(Copies(ready, p)) =
               Cardinality(Copies(Drop(ready, o, n), p)) + (IF p = o THEN 1 ELSE 0)
        /\ Cardinality(Chances(ready, p)) =
               Cardinality(Chances(Drop(ready, o, n), p)) + (IF p = o THEN MaxAttempts - n + 1 ELSE 0)
    BY <1>1, QueueLess
  <2>2. /\ Copies(ready, p)' = Copies(Drop(ready, o, n), p)
        /\ Chances(ready, p)' = Chances(Drop(ready, o, n), p)
        /\ Copies(delayed, p)' = Copies(delayed, p) /\ Chances(delayed, p)' = Chances(delayed, p)
    BY <1>1 DEF Copies, Chances
  <2>3. Cardinality(Copies(delayed, p)) \in Nat /\ Cardinality(Chances(delayed, p)) \in Nat
    BY LeftType
  <2>4. (IF p = o THEN MaxAttempts - n + 1 ELSE 0) \in Nat
    BY Bounds DEF AttemptNumbers
  <2> QED
    BY <2>1, <2>2, <2>3, <2>4 DEF Waiting, Pausing, ChancesLeft
<1>3. ASSUME NEW p \in Orders
      PROVE  /\ HandAttempts(p) = 0 /\ HandMoves(p) = 0
             /\ HandAttempts(p)' = (IF p = o THEN MaxAttempts - n + 1 ELSE 0)
             /\ HandMoves(p)' = (IF p = o THEN 1 ELSE 0)
  BY <1>1 DEF HandAttempts, HandMoves, Handling
<1>4. MaxAttempts - n + 1 \in Nat
  BY Bounds DEF AttemptNumbers
<1>5. Nearer(o)
  BY <1>2, <1>3, <1>4, MovesLeftIs DEF Nearer
<1>6. ASSUME NEW p \in Orders, p # o PROVE Unmoved(p)
  BY <1>2, <1>3, <1>6, MovesLeftIs DEF Unmoved
<1> QED
  BY <1>5, <1>6

\* The successor that is published takes over what the event in hand allows.
LEMMA RescheduleMoves ==
  ASSUME TypeOK, NEW w \in Orders, working = w, Reschedule
  PROVE  Nearer(w) /\ \A p \in Orders : Nearer(p) \/ Unmoved(p)
<1>1. /\ attempt + 1 \in AttemptNumbers /\ attempt < MaxAttempts /\ attempt \in Nat
      /\ step = "reschedule" /\ step' \in {"ack", "nack"}
      /\ delayed' = Put(delayed, w, attempt + 1) \/ UNCHANGED delayed
      /\ UNCHANGED <<ready, working, attempt>> /\ delayed \in Bag
  BY NextAttempt DEF Reschedule, TypeOK, workVars, AttemptNumbers
<1>2. CASE UNCHANGED delayed
  BY <1>1, <1>2, NextMove
<1>3. CASE delayed' = Put(delayed, w, attempt + 1)
  <2>1. ASSUME NEW p \in Orders
        PROVE  /\ Pausing(p)' = Pausing(p) + (IF p = w THEN 1 ELSE 0) /\ Pausing(p) \in Nat
               /\ Waiting(p)' = Waiting(p) /\ Waiting(p) \in Nat
               /\ ChancesLeft(p)' = ChancesLeft(p) + (IF p = w THEN MaxAttempts - attempt ELSE 0)
               /\ ChancesLeft(p) \in Nat
    <3>1. /\ Cardinality(Copies(Put(delayed, w, attempt + 1), p)) =
                 Cardinality(Copies(delayed, p)) + (IF p = w THEN 1 ELSE 0)
          /\ Cardinality(Chances(Put(delayed, w, attempt + 1), p)) =
                 Cardinality(Chances(delayed, p))
                     + (IF p = w THEN MaxAttempts - (attempt + 1) + 1 ELSE 0)
      BY <1>1, QueueMore
    <3>2. /\ Copies(delayed, p)' = Copies(Put(delayed, w, attempt + 1), p)
          /\ Chances(delayed, p)' = Chances(Put(delayed, w, attempt + 1), p)
          /\ Copies(ready, p)' = Copies(ready, p) /\ Chances(ready, p)' = Chances(ready, p)
      BY <1>1, <1>3 DEF Copies, Chances
    <3>3. /\ Cardinality(Copies(ready, p)) \in Nat /\ Cardinality(Copies(delayed, p)) \in Nat
          /\ Cardinality(Chances(ready, p)) \in Nat /\ Cardinality(Chances(delayed, p)) \in Nat
      BY LeftType
    <3>4. MaxAttempts - (attempt + 1) + 1 = MaxAttempts - attempt /\ MaxAttempts - attempt \in Nat
      BY <1>1, Bounds
    <3> QED
      BY <3>1, <3>2, <3>3, <3>4 DEF Waiting, Pausing, ChancesLeft
  <2>2. MaxAttempts - attempt \in Nat
    BY <1>1, Bounds
  <2>3. ASSUME NEW p \in Orders
        PROVE  /\ HandAttempts(p) = (IF p = w THEN MaxAttempts - attempt ELSE 0)
               /\ HandAttempts(p)' = 0
               /\ HandMoves(p) = (IF p = w THEN 5 ELSE 0)
               /\ HandMoves(p)' = (IF p = w THEN 1 ELSE 0)
    BY <1>1, <2>2 DEF HandAttempts, HandMoves, Handling
  <2>4. Nearer(w)
    BY <2>1, <2>2, <2>3, MovesLeftIs DEF Nearer
  <2>5. ASSUME NEW p \in Orders, p # w PROVE Unmoved(p)
    BY <2>1, <2>3, <2>5, MovesLeftIs DEF Unmoved
  <2> QED
    BY <2>4, <2>5
<1> QED
  BY <1>1, <1>2, <1>3

LEMMA ExpireMoves ==
  ASSUME TypeOK, NEW o \in Orders, NEW n \in AttemptNumbers, Expire(o, n)
  PROVE  Nearer(o) /\ \A p \in Orders : Nearer(p) \/ Unmoved(p)
<1>1. /\ ready' = Put(ready, o, n) /\ delayed' = Drop(delayed, o, n) /\ delayed[o][n] > 0
      /\ UNCHANGED <<working, attempt, step>> /\ ready \in Bag /\ delayed \in Bag
  BY DEF Expire, TypeOK, workVars
<1>2. ASSUME NEW p \in Orders
      PROVE  /\ Waiting(p)' = Waiting(p) + (IF p = o THEN 1 ELSE 0) /\ Waiting(p) \in Nat
             /\ Pausing(p) = Pausing(p)' + (IF p = o THEN 1 ELSE 0) /\ Pausing(p)' \in Nat
             /\ ChancesLeft(p)' = ChancesLeft(p) /\ ChancesLeft(p) \in Nat
  <2> DEFINE gain == IF p = o THEN MaxAttempts - n + 1 ELSE 0
             one  == IF p = o THEN 1 ELSE 0
  <2>1. /\ Copies(ready, p)' = Copies(Put(ready, o, n), p)
        /\ Chances(ready, p)' = Chances(Put(ready, o, n), p)
        /\ Copies(delayed, p)' = Copies(Drop(delayed, o, n), p)
        /\ Chances(delayed, p)' = Chances(Drop(delayed, o, n), p)
    BY <1>1 DEF Copies, Chances
  <2>2. /\ Cardinality(Copies(ready, p)) \in Nat /\ Cardinality(Chances(ready, p)) \in Nat
        /\ Cardinality(Copies(ready, p)') = Cardinality(Copies(ready, p)) + one
        /\ Cardinality(Chances(ready, p)') = Cardinality(Chances(ready, p)) + gain
    BY <1>1, <2>1, QueueMore
  <2>3. /\ Cardinality(Copies(delayed, p)') \in Nat /\ Cardinality(Chances(delayed, p)') \in Nat
        /\ Cardinality(Copies(delayed, p)) = Cardinality(Copies(delayed, p)') + one
        /\ Cardinality(Chances(delayed, p)) = Cardinality(Chances(delayed, p)') + gain
    BY <1>1, <2>1, QueueLess
  <2>4. one \in Nat /\ gain \in Nat
    BY Bounds DEF AttemptNumbers
  <2> HIDE DEF gain
  <2> QED
    BY <2>2, <2>3, <2>4 DEF Waiting, Pausing, ChancesLeft
<1>3. ASSUME NEW p \in Orders
      PROVE  HandAttempts(p)' = HandAttempts(p) /\ HandMoves(p)' = HandMoves(p)
  BY <1>1 DEF HandAttempts, HandMoves, Handling
<1>4. Nearer(o)
  BY <1>2, <1>3, LeftTypes, MovesLeftIs DEF Nearer
<1>5. ASSUME NEW p \in Orders, p # o PROVE Unmoved(p)
  BY <1>2, <1>3, <1>5, MovesLeftIs DEF Unmoved
<1> QED
  BY <1>4, <1>5

\* What the worker does with the event in hand, but for repeating a call.
LEMMA WorkerMoves ==
  ASSUME TypeOK, NEW w \in Orders, working = w,
         \/ PaymentAccepted \/ PaymentFails \/ ConfirmServed \/ ConfirmFails
         \/ MarkFailedServed \/ MarkFailedFails \/ Ack \/ Nack \/ AnswerThrows
  PROVE  Nearer(w) /\ \A p \in Orders : Nearer(p) \/ Unmoved(p)
<1>1. CASE Ack \/ Nack \/ AnswerThrows
  BY <1>1, NextMove DEF Ack, Nack, Finish, AnswerThrows, queueVars
<1>2. CASE PaymentAccepted \/ PaymentFails
  BY <1>2, LastAttempt, NextMove
     DEF PaymentAccepted, PaymentFails, CallReturns, CallFails, queueVars, workVars
<1>3. CASE ConfirmServed \/ ConfirmFails
  BY <1>3, LastAttempt, NextMove
     DEF ConfirmServed, ConfirmFails, CallReturns, CallFails, queueVars, workVars
<1>4. CASE MarkFailedServed \/ MarkFailedFails
  BY <1>4, NextMove
     DEF MarkFailedServed, MarkFailedFails, CallReturns, CallFails, queueVars, workVars
<1> QED
  BY <1>1, <1>2, <1>3, <1>4

\* Nobody else moves an event, crashes and lost connections excepted.
LEMMA OthersMoveNothing ==
  ASSUME TypeOK,
         \/ Restart \/ Finished \/ UNCHANGED vars
         \/ \E op \in Calls, o \in Orders : Late(op, o)
  PROVE  \A p \in Orders : Unmoved(p)
<1>1. UNCHANGED <<ready, delayed, working, attempt, step>>
  BY DEF Restart, Finished, Late, vars, workerVars, queueVars, workVars
<1>2. ASSUME NEW p \in Orders PROVE Unmoved(p)
  <2>1. HandAttempts(p)' = HandAttempts(p) /\ HandMoves(p)' = HandMoves(p)
    BY <1>1 DEF HandAttempts, HandMoves, Handling
  <2> QED
    BY <1>1, <2>1, HandStep, LeftTypes
<1> QED
  BY <1>2

LEMMA BusyStep ==
  ASSUME TypeOK, Worker \/ \E o \in Orders, n \in AttemptNumbers : Expire(o, n)
  PROVE  /\ (\E o \in Orders : Nearer(o)) \/ tries' > tries
         /\ \A p \in Orders : Nearer(p) \/ Unmoved(p)
<1>1. CASE \E o \in Orders, n \in AttemptNumbers : Receive(o, n)
  BY <1>1, ReceiveMoves
<1>2. CASE \E op \in Calls : RetryCall(op)
  BY <1>2, RetryMoves
<1>3. CASE \E o \in Orders, n \in AttemptNumbers : Expire(o, n)
  BY <1>3, ExpireMoves
<1>4. CASE \/ PaymentAccepted \/ PaymentFails \/ ConfirmServed \/ ConfirmFails
           \/ MarkFailedServed \/ MarkFailedFails \/ Ack \/ Nack \/ AnswerThrows
  <2>1. step # "idle"
    BY <1>4 DEF PaymentAccepted, PaymentFails, ConfirmServed, ConfirmFails, MarkFailedServed,
                MarkFailedFails, Ack, Nack, AnswerThrows, CallReturns, CallFails
  <2> QED
    BY <1>4, <2>1, InHand, WorkerMoves
<1>5. CASE Reschedule
  <2>1. step # "idle"
    BY <1>5 DEF Reschedule
  <2> QED
    BY <1>5, <2>1, InHand, RescheduleMoves
<1> QED
  BY <1>1, <1>2, <1>3, <1>4, <1>5 DEF Worker

LEMMA UsesUpStep ==
  ASSUME TypeOK, [Next]_vars
  PROVE  UsesUp
  BY BusyStep, OthersMoveNothing DEF UsesUp, Next

\* The events of an order get nearer to their end with every step of the worker
\* and of the delay queue, whatever fails and whatever comes late; only a crash
\* or a lost connection takes them back.  These being finitely many, all that
\* fairness has to add is that the steps are taken.
THEOREM RetriesRunOut == Spec => RunsOut
<1>1. TypeOK /\ [Next]_vars => UsesUp
  BY UsesUpStep
<1> QED
  BY <1>1, TypeCorrect, PTL DEF Spec, RunsOut

=============================================================================
