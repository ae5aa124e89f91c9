------------------------- MODULE TransactionsProofs -------------------------
(* Theorems of Transactions. *)
EXTENDS Transactions, TLAPS

\* The broker has, or had, the event in its queue.
Arrived(p) == event[p] \notin {"none", "sent", "lost"}

ReplyInv ==
    \A p \in Payments :
        /\ reply[p] = "none" => event[p] = "none"
        /\ reply[p] = "waiting" => event[p] # "none"
        /\ reply[p] = "accepted" => Arrived(p)

\* What is written, or may still be, has arrived; what is acknowledged is written.
UpsertInv ==
    \A p \in Payments :
        /\ <<p, "find">> \in stray \/ <<p, "insert">> \in stray => Arrived(p)
        /\ event[p] = "acked" => records[p] = 1

\* With an open channel the worker has the event it works on in hand, and no
\* other; with a stale one it works on an event the broker took back.
HandInv ==
    /\ step # "idle" => channel[consumer] # "down" /\ Arrived(working)
    /\ step = "ack" => records[working] = 1
    /\ step # "idle" /\ channel[consumer] = "open" => event[working] = "inHand"
    /\ \A p \in Payments : event[p] = "inHand" => channel[consumer] = "open" /\ working = p

IInv == TypeOK /\ ReplyInv /\ UpsertInv /\ HandInv

LEMMA Bounds == MaxCrashes \in Nat /\ MaxLosses \in Nat /\ None \notin Payments
  BY TransactionsAssumption

(***************************************************************************)
(* Types.                                                                  *)
(***************************************************************************)

LEMMA InitType == Init => TypeOK
<1>1. 0 \in 0 .. 1 /\ 0 \in 0 .. MaxCrashes /\ 0 \in 0 .. MaxLosses
  BY Bounds
<1> QED
  BY <1>1 DEF Init, TypeOK

\* The worker is busy with a payment exactly while it is not idle.
LEMMA BusyWorking ==
  ASSUME TypeOK, step # "idle"
  PROVE  working \in Payments
  BY DEF TypeOK

LEMMA StrayType ==
  ASSUME TypeOK, LeaveUpsert
  PROVE  stray' \subseteq Payments \X {"find", "insert"}
<1>1. CASE step \in {"find", "insert"}
  <2>1. <<working, step>> \in Payments \X {"find", "insert"}
    BY <1>1, BusyWorking
  <2> QED
    BY <2>1 DEF LeaveUpsert, TypeOK
<1>2. CASE step \notin {"find", "insert"}
  BY <1>2 DEF LeaveUpsert, TypeOK
<1> QED
  BY <1>1, <1>2

LEMMA RequeuedType ==
  ASSUME TypeOK
  PROVE  Requeued \in [Payments -> {"none", "sent", "lost", "queued", "inHand", "acked", "dead"}]
  BY DEF TypeOK, Requeued

LEMMA TypeStep ==
  ASSUME TypeOK, [Next]_vars
  PROVE  TypeOK'
<1> USE Bounds DEF worker, Proceed, Idle
<1>1. ASSUME NEW p \in Payments, Pay(p) PROVE TypeOK'
  BY <1>1 DEF Pay, TypeOK
<1>2. ASSUME NEW p \in Payments, Accepted(p) \/ NotConfirmed(p) PROVE TypeOK'
  BY <1>2 DEF Accepted, NotConfirmed, TypeOK
<1>3. ASSUME NEW p \in Payments, Store(p) \/ Lose(p) PROVE TypeOK'
  BY <1>3 DEF Store, Lose, TypeOK
<1>4. ASSUME NEW p \in Payments, StrayFind(p) PROVE TypeOK'
  <2>1. stray' \subseteq Payments \X {"find", "insert"}
    BY <1>4 DEF StrayFind, TypeOK
  <2> QED
    BY <1>4, <2>1 DEF StrayFind, TypeOK
<1>5. ASSUME NEW p \in Payments, StrayInsert(p) PROVE TypeOK'
  <2>1. stray' \subseteq Payments \X {"find", "insert"}
    BY <1>5 DEF StrayInsert, TypeOK
  <2>2. records' \in [Payments -> 0 .. 1]
    BY <1>5 DEF StrayInsert, Stores, TypeOK
  <2> QED
    BY <1>5, <2>1, <2>2 DEF StrayInsert, TypeOK
<1>6. ASSUME NEW p \in Payments, Receive(p) PROVE TypeOK'
  BY <1>6 DEF Receive, TypeOK
<1>7. CASE Find
  BY <1>7 DEF Find, TypeOK
<1>8. CASE Insert
  <2>1. working \in Payments
    BY <1>8, BusyWorking DEF Insert
  <2>2. records' \in [Payments -> 0 .. 1]
    BY <1>8, <2>1 DEF Insert, Stores, TypeOK
  <2>3. step' \in {"find", "ack", "nack"} /\ UNCHANGED <<channel, reply, event, stray, crashes, losses, working>>
    BY <1>8 DEF Insert
  <2> QED
    BY <1>8, <2>1, <2>2, <2>3 DEF Insert, TypeOK
<1>9. CASE DatabaseFails
  BY <1>9, StrayType DEF DatabaseFails, TypeOK
<1>10. CASE Ack \/ Nack
  BY <1>10 DEF Ack, Nack, TypeOK
<1>11. CASE AnswerThrows
  BY <1>11 DEF AnswerThrows, TypeOK
<1>12. CASE ServiceLosesConnection
  <2>1. losses' \in 0 .. MaxLosses
    BY <1>12 DEF ServiceLosesConnection, TypeOK
  <2>2. channel' \in [Processes -> {"open", "stale", "down"}]
    BY <1>12 DEF ServiceLosesConnection, TypeOK
  <2> QED
    BY <1>12, <2>1, <2>2, Zenon DEF ServiceLosesConnection, TypeOK
<1>13. CASE WorkerLosesConnection
  <2>1. losses' \in 0 .. MaxLosses
    BY <1>13 DEF WorkerLosesConnection, TypeOK
  <2>2. channel' \in [Processes -> {"open", "stale", "down"}]
    BY <1>13 DEF WorkerLosesConnection, TypeOK
  <2> QED
    BY <1>13, <2>1, <2>2, RequeuedType, Zenon DEF WorkerLosesConnection, TypeOK
<1>14. CASE ServiceCrashes
  <2>1. crashes' \in 0 .. MaxCrashes
    BY <1>14 DEF ServiceCrashes, TypeOK
  <2>2. channel' \in [Processes -> {"open", "stale", "down"}]
    BY <1>14 DEF ServiceCrashes, TypeOK
  <2>3. reply' \in [Payments -> {"none", "waiting", "accepted", "failed", "dropped"}]
    BY <1>14 DEF ServiceCrashes, TypeOK
  <2> QED
    BY <1>14, <2>1, <2>2, <2>3, Zenon DEF ServiceCrashes, TypeOK
<1>15. CASE WorkerCrashes
  <2>1. crashes' \in 0 .. MaxCrashes
    BY <1>15 DEF WorkerCrashes, TypeOK
  <2>2. channel' \in [Processes -> {"open", "stale", "down"}]
    BY <1>15 DEF WorkerCrashes, TypeOK
  <2>3. step' = "idle" /\ working' = None /\ UNCHANGED <<reply, records, losses>>
    BY <1>15 DEF WorkerCrashes
  <2>4. stray' \subseteq Payments \X {"find", "insert"}
    BY <1>15, StrayType DEF WorkerCrashes
  <2>5. event' \in [Payments -> {"none", "sent", "lost", "queued", "inHand", "acked", "dead"}]
    BY <1>15, RequeuedType DEF WorkerCrashes
  <2> QED
    BY <2>1, <2>2, <2>3, <2>4, <2>5 DEF TypeOK
<1>16. ASSUME NEW process \in Processes, Start(process) PROVE TypeOK'
  BY <1>16 DEF Start, TypeOK
<1>17. CASE WorkerClosesChannel
  <2>1. channel' \in [Processes -> {"open", "stale", "down"}]
    BY <1>17 DEF WorkerClosesChannel, TypeOK
  <2> QED
    BY <1>17, <2>1, RequeuedType, Zenon DEF WorkerClosesChannel, TypeOK
<1>18. CASE WorkerExits
  <2>1. channel' \in [Processes -> {"open", "stale", "down"}]
    BY <1>18 DEF WorkerExits, TypeOK
  <2>2. step' = "idle" /\ working' = None /\ UNCHANGED <<reply, records, crashes, losses>>
    BY <1>18 DEF WorkerExits
  <2>3. stray' \subseteq Payments \X {"find", "insert"}
    BY <1>18, StrayType DEF WorkerExits
  <2>4. event' \in [Payments -> {"none", "sent", "lost", "queued", "inHand", "acked", "dead"}]
    BY <1>18, RequeuedType DEF WorkerExits
  <2> QED
    BY <2>1, <2>2, <2>3, <2>4 DEF TypeOK
<1>19. CASE UNCHANGED vars
  BY <1>19 DEF vars, TypeOK
<1> QED
  BY <1>1, <1>2, <1>3, <1>4, <1>5, <1>6, <1>7, <1>8, <1>9, <1>10, <1>11, <1>12, <1>13, <1>14,
     <1>15, <1>16, <1>17, <1>18, <1>19 DEF Next, Handle

\* Every variable has its type; a transaction has at most one record.
THEOREM TypeCorrect == Spec => []TypeOK
<1> QED
  BY InitType, TypeStep, PTL DEF Spec

(***************************************************************************)
(* The inductive invariant.                                                *)
(***************************************************************************)

\* What has arrived stays arrived.
LEMMA ArrivedStays ==
  ASSUME TypeOK, ReplyInv, [Next]_vars, NEW p \in Payments, Arrived(p)
  PROVE  Arrived(p)'
<1> USE DEF Arrived
<1>1. ASSUME NEW q \in Payments, Pay(q) PROVE Arrived(p)'
  BY <1>1 DEF Pay, TypeOK, ReplyInv
<1>2. ASSUME NEW q \in Payments, Store(q) \/ Lose(q) \/ Receive(q) PROVE Arrived(p)'
  BY <1>2 DEF Store, Lose, Receive, TypeOK
<1>3. CASE Ack \/ Nack
  BY <1>3 DEF Ack, Nack, TypeOK
<1>4. CASE WorkerLosesConnection \/ WorkerClosesChannel \/ WorkerCrashes \/ WorkerExits
  BY <1>4 DEF WorkerLosesConnection, WorkerClosesChannel, WorkerCrashes, WorkerExits, Requeued
<1>5. CASE UNCHANGED event
  BY <1>5
<1> QED
  BY <1>1, <1>2, <1>3, <1>4, <1>5 DEF Next, Handle, Accepted, NotConfirmed, StrayFind, StrayInsert,
     Find, Insert, DatabaseFails, AnswerThrows, ServiceLosesConnection, ServiceCrashes, Start, vars

LEMMA ReplyStep ==
  ASSUME IInv, [Next]_vars
  PROVE  ReplyInv'
<1> USE DEF IInv
<1> DEFINE Kept(p) == /\ reply'[p] = reply[p] \/ reply'[p] \in {"failed", "dropped"}
                      /\ event[p] = "none" <=> event'[p] = "none"
<1>1. ASSUME \A p \in Payments : Kept(p) PROVE ReplyInv'
  BY <1>1, ArrivedStays DEF ReplyInv
<1>2. ASSUME NEW q \in Payments, Pay(q) PROVE ReplyInv'
  <2>1. \A p \in Payments \ {q} : reply'[p] = reply[p] /\ event'[p] = event[p]
    BY <1>2 DEF Pay, TypeOK
  <2>2. reply'[q] = "failed" \/ (reply'[q] = "waiting" /\ event'[q] = "sent")
    BY <1>2 DEF Pay, TypeOK
  <2> QED
    BY <2>1, <2>2 DEF ReplyInv, Arrived
<1>3. ASSUME NEW q \in Payments, Accepted(q) PROVE ReplyInv'
  <2>1. \A p \in Payments \ {q} : reply'[p] = reply[p]
    BY <1>3 DEF Accepted, TypeOK
  <2>2. reply'[q] = "accepted" /\ event' = event /\ Arrived(q)
    BY <1>3 DEF Accepted, TypeOK, ReplyInv, Arrived
  <2> QED
    BY <2>1, <2>2 DEF ReplyInv, Arrived
<1>4. ASSUME NEW q \in Payments, NotConfirmed(q) PROVE ReplyInv'
  BY <1>1, <1>4 DEF NotConfirmed, TypeOK
<1>5. ASSUME NEW q \in Payments, Store(q) \/ Lose(q) \/ Receive(q) PROVE ReplyInv'
  BY <1>1, <1>5 DEF Store, Lose, Receive, TypeOK
<1>6. CASE Ack \/ Nack
  <2>1. working \in Payments /\ event[working] = "inHand"
    BY <1>6, BusyWorking DEF Ack, Nack, HandInv
  <2> QED
    BY <1>1, <1>6, <2>1 DEF Ack, Nack, TypeOK
<1>7. CASE WorkerLosesConnection \/ WorkerClosesChannel \/ WorkerCrashes \/ WorkerExits
  BY <1>1, <1>7 DEF WorkerLosesConnection, WorkerClosesChannel, WorkerCrashes, WorkerExits, Requeued
<1>8. CASE ServiceCrashes
  BY <1>1, <1>8 DEF ServiceCrashes
<1>9. CASE UNCHANGED <<reply, event>>
  BY <1>1, <1>9
<1> QED
  BY <1>2, <1>3, <1>4, <1>5, <1>6, <1>7, <1>8, <1>9 DEF Next, Handle, StrayFind, StrayInsert,
     Find, Insert, DatabaseFails, AnswerThrows, ServiceLosesConnection, Start, vars

\* A record stays.
LEMMA RecordStays ==
  ASSUME TypeOK, [Next]_vars, NEW p \in Payments, records[p] = 1
  PROVE  records'[p] = 1
<1>1. CASE Insert
  BY <1>1, BusyWorking DEF Insert, Stores, TypeOK
<1>2. ASSUME NEW q \in Payments, StrayInsert(q) PROVE records'[p] = 1
  BY <1>2 DEF StrayInsert, Stores, TypeOK
<1>3. CASE UNCHANGED records
  BY <1>3
<1> QED
  BY <1>1, <1>2, <1>3 DEF Next, Handle, Pay, Accepted, NotConfirmed, Store, Lose, StrayFind, Receive,
     Find, DatabaseFails, Ack, Nack, AnswerThrows, ServiceLosesConnection, WorkerLosesConnection,
     WorkerClosesChannel, WorkerExits, ServiceCrashes, WorkerCrashes, Start, vars

\* Where a stray upsert comes from.
LEMMA StrayFrom ==
  ASSUME TypeOK, [Next]_vars, NEW p \in Payments,
         <<p, "find">> \in stray' \/ <<p, "insert">> \in stray'
  PROVE  \/ <<p, "find">> \in stray \/ <<p, "insert">> \in stray
         \/ step # "idle" /\ working = p
<1>1. ASSUME NEW q \in Payments, StrayFind(q) \/ StrayInsert(q)
      PROVE  <<p, "find">> \in stray \/ <<p, "insert">> \in stray
  BY <1>1 DEF StrayFind, StrayInsert
<1>2. CASE LeaveUpsert
  BY <1>2 DEF LeaveUpsert
<1>3. CASE UNCHANGED stray
  BY <1>3
<1> QED
  BY <1>1, <1>2, <1>3 DEF Next, Handle, Pay, Accepted, NotConfirmed, Store, Lose, Receive, Find, Insert,
     DatabaseFails, Ack, Nack, AnswerThrows, ServiceLosesConnection, WorkerLosesConnection,
     WorkerClosesChannel, WorkerExits, ServiceCrashes, WorkerCrashes, Start, vars

\* An event is acknowledged by Ack alone.
LEMMA AckedBy ==
  ASSUME TypeOK, [Next]_vars, NEW p \in Payments, event'[p] = "acked"
  PROVE  event[p] = "acked" \/ (Ack /\ working = p)
<1>1. ASSUME NEW q \in Payments, Pay(q) \/ Store(q) \/ Lose(q) \/ Receive(q) PROVE event[p] = "acked"
  BY <1>1 DEF Pay, Store, Lose, Receive, TypeOK
<1>2. CASE Ack
  BY <1>2 DEF Ack, TypeOK
<1>3. CASE Nack
  BY <1>3 DEF Nack, TypeOK
<1>4. CASE WorkerLosesConnection \/ WorkerClosesChannel \/ WorkerCrashes \/ WorkerExits
  BY <1>4 DEF WorkerLosesConnection, WorkerClosesChannel, WorkerCrashes, WorkerExits, Requeued
<1>5. CASE UNCHANGED event
  BY <1>5
<1> QED
  BY <1>1, <1>2, <1>3, <1>4, <1>5 DEF Next, Handle, Accepted, NotConfirmed, StrayFind, StrayInsert,
     Find, Insert, DatabaseFails, AnswerThrows, ServiceLosesConnection, ServiceCrashes, Start, vars

LEMMA UpsertStep ==
  ASSUME IInv, [Next]_vars
  PROVE  UpsertInv'
<1> USE DEF IInv
<1>1. ASSUME NEW p \in Payments, <<p, "find">> \in stray' \/ <<p, "insert">> \in stray'
      PROVE  Arrived(p)'
  <2>1. Arrived(p)
    BY <1>1, StrayFrom DEF UpsertInv, HandInv
  <2> QED
    BY <2>1, ArrivedStays
<1>2. ASSUME NEW p \in Payments, event'[p] = "acked"
      PROVE  records'[p] = 1
  <2>1. records[p] = 1
    BY <1>2, AckedBy DEF UpsertInv, HandInv, Ack
  <2> QED
    BY <2>1, RecordStays
<1> QED
  BY <1>1, <1>2 DEF UpsertInv, Arrived

LEMMA HandStep ==
  ASSUME IInv, [Next]_vars
  PROVE  HandInv'
<1> USE DEF IInv, Idle, Proceed, worker
<1>1. ASSUME NEW q \in Payments, Pay(q) \/ Store(q) \/ Lose(q) PROVE HandInv'
  BY <1>1 DEF Pay, Store, Lose, TypeOK, HandInv, ReplyInv, Arrived
<1>2. ASSUME NEW q \in Payments, Accepted(q) \/ NotConfirmed(q) \/ StrayFind(q) PROVE HandInv'
  BY <1>2 DEF Accepted, NotConfirmed, StrayFind, HandInv, Arrived
<1>3. ASSUME NEW q \in Payments, StrayInsert(q) PROVE HandInv'
  BY <1>3, RecordStays, BusyWorking DEF StrayInsert, HandInv, Arrived
<1>4. ASSUME NEW q \in Payments, Receive(q) PROVE HandInv'
  <2>1. \A p \in Payments : event[p] # "inHand"
    BY <1>4, Bounds DEF Receive, HandInv, TypeOK
  <2>2. event'[q] = "inHand" /\ \A p \in Payments \ {q} : event'[p] # "inHand"
    BY <1>4, <2>1 DEF Receive, TypeOK
  <2> QED
    BY <1>4, <2>2 DEF Receive, HandInv, Arrived
<1>5. CASE Find
  BY <1>5, BusyWorking DEF Find, HandInv, Arrived, TypeOK
<1>6. CASE Insert
  <2>1. step' = "ack" => records'[working] = 1
    BY <1>6, BusyWorking DEF Insert, Stores, TypeOK
  <2>2. UNCHANGED <<channel, event, working>> /\ step # "idle"
    BY <1>6 DEF Insert
  <2> QED
    BY <2>1, <2>2 DEF HandInv, Arrived
<1>7. CASE DatabaseFails
  BY <1>7 DEF DatabaseFails, HandInv, Arrived
<1>8. CASE Ack \/ Nack
  BY <1>8, BusyWorking DEF Ack, Nack, HandInv, TypeOK
<1>9. CASE AnswerThrows
  BY <1>9 DEF AnswerThrows, HandInv, TypeOK
<1>10. CASE ServiceLosesConnection \/ ServiceCrashes
  BY <1>10 DEF ServiceLosesConnection, ServiceCrashes, HandInv, Arrived, TypeOK, Processes, service, consumer
<1>11. CASE WorkerLosesConnection \/ WorkerClosesChannel
  BY <1>11, BusyWorking DEF WorkerLosesConnection, WorkerClosesChannel, Requeued, HandInv, Arrived,
     TypeOK, Processes, consumer
<1>12. CASE WorkerCrashes \/ WorkerExits
  BY <1>12 DEF WorkerCrashes, WorkerExits, Requeued, HandInv, Arrived, TypeOK
<1>13. ASSUME NEW process \in Processes, Start(process) PROVE HandInv'
  BY <1>13 DEF Start, HandInv, Arrived, TypeOK
<1>14. CASE UNCHANGED vars
  BY <1>14 DEF vars, HandInv, Arrived
<1> QED
  BY <1>1, <1>2, <1>3, <1>4, <1>5, <1>6, <1>7, <1>8, <1>9, <1>10, <1>11, <1>12, <1>13, <1>14
     DEF Next, Handle

LEMMA InvInit == Init => IInv
  BY InitType DEF Init, IInv, ReplyInv, UpsertInv, HandInv, Arrived

LEMMA InvStep ==
  ASSUME IInv, [Next]_vars
  PROVE  IInv'
  BY TypeStep, ReplyStep, UpsertStep, HandStep DEF IInv

LEMMA Invariance == Spec => []IInv
<1>1. IInv /\ [Next]_vars => IInv'
  BY InvStep
<1> QED
  BY InvInit, <1>1, PTL DEF Spec

\* Whatever crashes, is lost or comes late, the transaction of an accepted
\* payment is in the history, on its way there, or with an operator.
THEOREM AcceptedStaysKept == Spec => []AcceptedIsKept
<1>1. IInv => AcceptedIsKept
  BY DEF IInv, ReplyInv, UpsertInv, AcceptedIsKept, Arrived, TypeOK
<1> QED
  BY <1>1, Invariance, PTL

(***************************************************************************)
(* Transactions implements TransactionHistory.                             *)
(***************************************************************************)

CustodyOf(where) == CASE where \in {"none", "sent", "lost"} -> "none"
                      [] where \in {"queued", "inHand"}     -> "held"
                      [] where \in {"acked", "dead"}        -> "released"

Custody == [p \in Payments |-> CustodyOf(event[p])]
Reported == {p \in Payments : reply[p] = "accepted"}
Dead == {p \in Payments : event[p] = "dead"}

\* The history sees nothing of a step that moves no event between the places it
\* tells apart, accepts nothing and writes nothing.
LEMMA Unseen ==
  ASSUME \A p \in Payments : /\ CustodyOf(event'[p]) = CustodyOf(event[p])
                             /\ reply'[p] = "accepted" <=> reply[p] = "accepted"
                             /\ event'[p] = "dead" <=> event[p] = "dead",
         UNCHANGED records
  PROVE  UNCHANGED History!historyVars
<1>1. Custody' = Custody
  BY DEF Custody
<1>2. Reported' = Reported /\ Dead' = Dead
  BY DEF Reported, Dead
<1> QED
  BY <1>1, <1>2 DEF History!historyVars, Custody, CustodyOf, Reported, Dead

\* One event moves.
LEMMA CustodyExcept ==
  ASSUME TypeOK, NEW q \in Payments, NEW to, event' = [event EXCEPT ![q] = to]
  PROVE  Custody' = [Custody EXCEPT ![q] = CustodyOf(to)]
  BY DEF Custody, TypeOK

LEMMA HistoryStep ==
  ASSUME IInv, [Next]_vars
  PROVE  [History!Next]_(History!historyVars)
<1> USE DEF IInv, Idle, Proceed, worker
<1>1. ASSUME NEW q \in Payments, Pay(q) PROVE UNCHANGED History!historyVars
  BY <1>1, Unseen DEF Pay, TypeOK, ReplyInv, CustodyOf
<1>2. ASSUME NEW q \in Payments, Accepted(q) PROVE History!Accept(q)
  <2>1. Reported' = Reported \union {q}
    BY <1>2 DEF Reported, Accepted, TypeOK
  <2>2. Custody' = Custody /\ Dead' = Dead /\ UNCHANGED records
    BY <1>2 DEF Custody, Dead, Accepted
  <2>3. Custody[q] # "none"
    BY <1>2 DEF Accepted, TypeOK, ReplyInv, Custody, CustodyOf
  <2> QED
    BY <2>1, <2>2, <2>3 DEF History!Accept, Custody, CustodyOf, Reported, Dead
<1>3. ASSUME NEW q \in Payments, NotConfirmed(q) PROVE UNCHANGED History!historyVars
  BY <1>3, Unseen DEF NotConfirmed, TypeOK
<1>4. ASSUME NEW q \in Payments, Store(q) PROVE History!TakeOn(q)
  <2>1. Custody' = [Custody EXCEPT ![q] = "held"] /\ Custody[q] = "none"
    BY <1>4, CustodyExcept DEF Store, CustodyOf, Custody
  <2>2. Dead' = Dead /\ Reported' = Reported /\ UNCHANGED records
    BY <1>4 DEF Store, Dead, Reported, TypeOK
  <2> QED
    BY <2>1, <2>2 DEF History!TakeOn, Custody, CustodyOf, Reported, Dead
<1>5. ASSUME NEW q \in Payments, Lose(q) \/ Receive(q) PROVE UNCHANGED History!historyVars
  BY <1>5, Unseen DEF Lose, Receive, TypeOK, CustodyOf
<1>6. ASSUME NEW q \in Payments, records[q] = 0, records' = [records EXCEPT ![q] = @ + 1],
             Arrived(q), UNCHANGED <<event, reply>>
      PROVE  History!Record(q)
  <2>1. Custody' = Custody /\ Dead' = Dead /\ Reported' = Reported
    BY <1>6 DEF Custody, Dead, Reported
  <2>2. Custody[q] # "none"
    BY <1>6 DEF Arrived, Custody, CustodyOf, TypeOK
  <2>3. records' = [records EXCEPT ![q] = 1]
    BY <1>6
  <2> QED
    BY <1>6, <2>1, <2>2, <2>3 DEF History!Record, Custody, CustodyOf, Reported, Dead
<1>7. CASE Insert
  <2>1. working \in Payments /\ Arrived(working)
    BY <1>7, BusyWorking DEF Insert, HandInv
  <2>2. CASE Stores(working)
    BY <1>6, <1>7, <2>1, <2>2 DEF Insert, Stores, History!Next
  <2>3. CASE ~Stores(working)
    BY <1>7, <2>3, Unseen DEF Insert
  <2> QED
    BY <2>2, <2>3
<1>8. ASSUME NEW q \in Payments, StrayInsert(q) PROVE [History!Next]_(History!historyVars)
  <2>1. CASE Stores(q)
    BY <1>6, <1>8, <2>1 DEF StrayInsert, Stores, UpsertInv, History!Next
  <2>2. CASE ~Stores(q)
    BY <1>8, <2>2, Unseen DEF StrayInsert
  <2> QED
    BY <2>1, <2>2
<1>9. CASE Ack
  <2> PICK q \in Payments : q = working
    BY <1>9, BusyWorking DEF Ack
  <2>1. event[q] = "inHand" /\ records[q] = 1
    BY <1>9, BusyWorking DEF Ack, HandInv
  <2>2. Custody' = [Custody EXCEPT ![q] = "released"] /\ Custody[q] = "held"
    BY <1>9, <2>1, CustodyExcept DEF Ack, CustodyOf, Custody
  <2>3. Dead' = Dead /\ Reported' = Reported /\ UNCHANGED records
    BY <1>9, <2>1 DEF Ack, Dead, Reported, TypeOK
  <2>4. History!Release(q)
    BY <2>1, <2>2, <2>3 DEF History!Release, Custody, CustodyOf, Reported, Dead
  <2> QED
    BY <2>4 DEF History!Next
<1>10. CASE Nack
  <2> PICK q \in Payments : q = working
    BY <1>10, BusyWorking DEF Nack
  <2>1. event[q] = "inHand"
    BY <1>10, BusyWorking DEF Nack, HandInv
  <2>2. Custody' = [Custody EXCEPT ![q] = "released"] /\ Custody[q] = "held"
    BY <1>10, <2>1, CustodyExcept DEF Nack, CustodyOf, Custody
  <2>3. Dead' = Dead \union {q} /\ Reported' = Reported /\ UNCHANGED records
    BY <1>10, <2>1 DEF Nack, Dead, Reported, TypeOK
  <2>4. History!HandOver(q)
    BY <2>2, <2>3 DEF History!HandOver, Custody, CustodyOf, Reported, Dead
  <2> QED
    BY <2>4 DEF History!Next
<1>11. CASE WorkerLosesConnection \/ WorkerClosesChannel \/ WorkerCrashes \/ WorkerExits
  BY <1>11, Unseen DEF WorkerLosesConnection, WorkerClosesChannel, WorkerCrashes, WorkerExits, Requeued, CustodyOf
<1>12. CASE ServiceCrashes
  BY <1>12, Unseen DEF ServiceCrashes
<1>13. CASE UNCHANGED <<event, reply, records>>
  BY <1>13, Unseen
<1> QED
  BY <1>1, <1>2, <1>3, <1>4, <1>5, <1>7, <1>8, <1>9, <1>10, <1>11, <1>12, <1>13
     DEF Next, Handle, StrayFind, Find, DatabaseFails, AnswerThrows, ServiceLosesConnection, Start, vars,
         History!Next

\* The payment service and the worker, with every crash, lost connection and
\* late write, keep the history as TransactionHistory promises.
THEOREM ImplementsHistory == Spec => KeepsHistory
<1>1. Init => History!Init
  BY DEF Init, History!Init
<1>2. IInv /\ [Next]_vars => [History!Next]_(History!historyVars)
  BY HistoryStep
<1> QED
  BY <1>1, <1>2, Invariance, PTL DEF Spec, KeepsHistory, History!Spec

=============================================================================
