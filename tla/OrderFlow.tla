------------------------------ MODULE OrderFlow ------------------------------
(***************************************************************************)
(* An order from POST /orders to its resolution: the requests of Checkout  *)
(* and the worker of PaymentRetry over the same order collection, payment  *)
(* service and payment-retry-queue.  The two write an order's status       *)
(* without any lock or version; the only thing that keeps them apart is    *)
(* that createOrder publishes the retry event last.                        *)
(***************************************************************************)
EXTENDS Checkout

CONSTANTS
    Nobody,                         \* not an order
    WorkerFaults, MaxWorkerCrashes  \* of the worker, see PaymentRetry

ASSUME OrderFlowAssumption ==
    /\ Nobody \notin Requests /\ MaxWorkerCrashes \in Nat
    /\ WorkerFaults \subseteq {"pay", "confirm", "fail", "broker"}

VARIABLES
    delayed, deadLetters, discarded, working, attempt, step,
    workerTries, workerLate, channel, workerCrashes

R == INSTANCE PaymentRetry WITH
    Orders <- Requests, Faults <- WorkerFaults, MaxCrashes <- MaxWorkerCrashes,
    tries <- workerTries, late <- workerLate, crashes <- workerCrashes

\* What only the requests, only the worker changes.
requestVars == <<stock, taken, returned, late, pc, tries, duplicate, reply, crashes>>
workerVars  == <<delayed, deadLetters, discarded, working, attempt, step,
                 workerTries, workerLate, channel, workerCrashes>>
flowVars == <<vars, workerVars>>

-----------------------------------------------------------------------------
FlowInit == Init /\ R!WorkerInit

Request(r)   == Handler(r) /\ UNCHANGED workerVars
LateCall(r)  == Late(r) /\ UNCHANGED workerVars
OrderServiceCrash == Crash /\ UNCHANGED workerVars

Worker        == R!Worker /\ UNCHANGED requestVars
Expire(o, n)  == R!Expire(o, n) /\ UNCHANGED requestVars
LateWorkerCall(op, o) == R!Late(op, o) /\ UNCHANGED requestVars
WorkerInterrupted == R!Interrupted /\ UNCHANGED requestVars
WorkerRestart == R!Restart /\ UNCHANGED requestVars

\* GET /orders/:orderId/status changes nothing; it answers 404 until the insert.
Shown(o) == IF Ordered(o) THEN orderStatus[o] ELSE "absent"

FlowFinished == (\A r \in Requests : pc[r] = "done") /\ R!Drained /\ UNCHANGED flowVars

FlowNext ==
    \/ \E r \in Requests : Request(r) \/ LateCall(r)
    \/ OrderServiceCrash \/ Worker \/ WorkerInterrupted \/ WorkerRestart
    \/ \E o \in Requests, n \in R!AttemptNumbers : Expire(o, n)
    \/ \E op \in R!Calls, o \in Requests : LateWorkerCall(op, o)
    \/ FlowFinished

FlowSpec == FlowInit /\ [][FlowNext]_flowVars

\* The fairness of both parts, see there.
FlowFairness ==
    /\ \A r \in Requests : WF_flowVars(pc[r] # "arrive" /\ Request(r))
    /\ WF_flowVars(Worker) /\ WF_flowVars(channel = "down" /\ WorkerRestart)
    /\ \A o \in Requests, n \in R!AttemptNumbers : WF_flowVars(Expire(o, n))

FairFlowSpec == FlowSpec /\ FlowFairness

-----------------------------------------------------------------------------
(* Properties; ConfirmedIsPaid is the one of Checkout, whoever confirms. *)

FlowTypeOK == TypeOK /\ R!TypeOK

Resolved(o)  == orderStatus[o] \in {"confirmed", "failed"}
GivenUp(o) == discarded[o][MaxAttempts] + deadLetters[o][MaxAttempts] > 0

\* createOrder and the worker never have the same order in hand: by the time
\* anybody can retry the payment of an order, the request that placed it has
\* nothing left to write.
OneWriterAtATime ==
    \A o \in Requests : R!InTheSystem(o) => pc[o] = "done"

\* Orders and payments of both parts: nothing is charged, queued or given up
\* for an order that was never placed.
WorkHasOrder ==
    \A o \in Requests :
        charged[o] > 0 \/ R!InTheSystem(o) \/ GivenUp(o) => Ordered(o)

\* What an order costs in the end: the attempts of the payment call of its request
\* and those of the calls its events allow, all of them again for every crash
\* or lost connection of the worker.  What was charged, may be charged by
\* attempts of either process nobody waits for, and what the events left still
\* allow stays within that.
FlowChargesBounded ==
    \A o \in Requests :
        R!Spent(o) + Cardinality({n \in Attempts : <<"pay", o, n>> \in late})
            + R!MaxCharges(R!ChancesLeft(o)) <= MaxRetries + 1 + R!Allowance

\* "Keep orders recoverable": an order its client was told about is resolved,
\* or an event to resolve it is under way, or every attempt was used up.
OrdersStayRecoverable ==
    \A o \in Requests :
        reply[o] = o => Resolved(o) \/ R!InTheSystem(o) \/ GivenUp(o)

\* Such an order is resolved or given up in the end, unless the worker is left
\* with a channel on which nothing is delivered any more.
OrdersSettle ==
    <>[](channel = "open") => \A o \in Requests : reply[o] = o ~> Resolved(o) \/ GivenUp(o)

\* What happens to an order brings it nearer to its end: its request first, then
\* its events.
FlowNearer(o)  == Advances(o) \/ (Rests(o) /\ R!Nearer(o))
FlowUnmoved(o) == Rests(o) /\ R!Unmoved(o)

\* A step of a request, of the worker or of the delay queue.
FlowBusy == \/ Worker \/ \E r \in Requests : Request(r)
            \/ \E o \in Requests, n \in R!AttemptNumbers : Expire(o, n)

\* Orders come to an end: each such step brings an order nearer to its end or
\* uses up an attempt of the call under way, and nothing but a crash or
\* a lost connection of the worker ever takes an order away from its end.
FlowUsesUp ==
    /\ FlowBusy => (\E o \in Requests : FlowNearer(o)) \/ workerTries' > workerTries
    /\ ~WorkerInterrupted => \A o \in Requests : FlowNearer(o) \/ FlowUnmoved(o)

FlowRunsOut == [][FlowUsesUp]_flowVars

\* What a client sees of its order over time.
Lifecycle == INSTANCE OrderLifecycle WITH
    Orders <- Requests,
    status <- [o \in Requests |-> Shown(o)],
    paid   <- [o \in Requests |-> charged[o] > 0]

FollowsLifecycle == Lifecycle!Spec

=============================================================================
