---------------------------- MODULE Transactions ----------------------------
(***************************************************************************)
(* From an accepted payment to its record in the transaction history: the  *)
(* payment service publishes transaction.created and waits for the confirm *)
(* of the broker; the transaction worker consumes the event, upserts the   *)
(* transaction and acknowledges.                                           *)
(*                                                                         *)
(* Each process keeps the channel it opened when it started.  A connection *)
(* that is lost is replaced, but Publisher and Consumer stay with the old  *)
(* channel: only a restart of the process gives them a new one.            *)
(*                                                                         *)
(* Every event parses, and the broker does not cancel the consumer while   *)
(* its channel is open.                                                    *)
(***************************************************************************)
EXTENDS Integers

CONSTANTS
    Payments,       \* executions of POST /payments; each draws a fresh transaction id
    MaxCrashes,     \* bound: crashes of the two processes together
    MaxLosses,      \* bound: connections lost
    None            \* what the worker has in hand when it has nothing

ASSUME TransactionsAssumption ==
    /\ MaxCrashes \in Nat /\ MaxLosses \in Nat
    /\ None \notin Payments

VARIABLES
    channel,        \* of each process: "open", "stale", or "down" with the process
    reply,          \* of each payment: "none", "waiting" for the confirm, ...
    event,          \* where the event of the payment is
    step,           \* what the worker does next with its event
    working,        \* the payment whose event it handles
    stray,          \* upserts nobody waits for any more: <<payment, stage>>
    records,        \* documents with this transactionId
    crashes, losses

worker == <<step, working>>
vars == <<channel, reply, event, worker, stray, records, crashes, losses>>

Processes == {"payment-service", "transaction-worker"}
service   == "payment-service"
consumer  == "transaction-worker"

-----------------------------------------------------------------------------
Init == /\ channel = [process \in Processes |-> "down"]
        /\ reply = [p \in Payments |-> "none"]
        /\ event = [p \in Payments |-> "none"]
        /\ step = "idle" /\ working = None
        /\ stray = {}
        /\ records = [p \in Payments |-> 0]
        /\ crashes = 0 /\ losses = 0

(* The payment service. *)

\* Publisher.publish throws on a channel that is closed.
Pay(p) ==
    /\ reply[p] = "none" /\ channel[service] # "down"
    /\ \/ /\ channel[service] = "open"
          /\ reply' = [reply EXCEPT ![p] = "waiting"]
          /\ event' = [event EXCEPT ![p] = "sent"]
       \/ /\ channel[service] = "stale"
          /\ reply' = [reply EXCEPT ![p] = "failed"]
          /\ UNCHANGED event
    /\ UNCHANGED <<channel, worker, stray, records, crashes, losses>>

\* Bug: the publish is not awaited.
AcceptedBug(p) ==
    /\ reply[p] = "waiting"
    /\ reply' = [reply EXCEPT ![p] = "accepted"]
    /\ UNCHANGED <<channel, event, worker, stray, records, crashes, losses>>

Accepted(p) ==
    /\ reply[p] = "waiting" /\ channel[service] = "open"
    /\ event[p] \notin {"sent", "lost"}
    /\ reply' = [reply EXCEPT ![p] = "accepted"]
    /\ UNCHANGED <<channel, event, worker, stray, records, crashes, losses>>

\* No confirm; the event may have reached the broker or still reach it.
NotConfirmed(p) ==
    /\ reply[p] = "waiting"
    /\ reply' = [reply EXCEPT ![p] = "failed"]
    /\ UNCHANGED <<channel, event, worker, stray, records, crashes, losses>>

(* The broker. *)

\* It has the event in its durable queue ...
Store(p) ==
    /\ event[p] = "sent"
    /\ event' = [event EXCEPT ![p] = "queued"]
    /\ UNCHANGED <<channel, reply, worker, stray, records, crashes, losses>>

\* ... or never will.
Lose(p) ==
    /\ event[p] = "sent"
    /\ event' = [event EXCEPT ![p] = "lost"]
    /\ UNCHANGED <<channel, reply, worker, stray, records, crashes, losses>>

\* Events that were delivered on a channel return to the queue with its end.
Requeued == [p \in Payments |-> IF event[p] = "inHand" THEN "queued" ELSE event[p]]

(* The transaction worker. *)

Receive(p) ==
    /\ channel[consumer] = "open" /\ step = "idle" /\ event[p] = "queued"
    /\ event' = [event EXCEPT ![p] = "inHand"]
    /\ step' = "find" /\ working' = p
    /\ UNCHANGED <<channel, reply, stray, records, crashes, losses>>

Proceed(next) == step' = next /\ UNCHANGED working

\* The upsert looks the transaction up ...
Find ==
    /\ step = "find"
    /\ Proceed(IF records[working] = 0 THEN "insert" ELSE "ack")
    /\ UNCHANGED <<channel, reply, event, stray, records, crashes, losses>>

\* Bug: transactionId has no unique index.
StoresBug(p) == TRUE

\* transactionId has a unique index.
Stores(p) == records[p] = 0

\* ... and inserts it, or runs into the index and begins again or is an error.
Insert ==
    /\ step = "insert"
    /\ IF Stores(working)
       THEN records' = [records EXCEPT ![working] = @ + 1] /\ Proceed("ack")
       ELSE UNCHANGED records /\ (Proceed("find") \/ Proceed("nack"))
    /\ UNCHANGED <<channel, reply, event, stray, crashes, losses>>

\* Of an upsert nobody waits for the database executes the rest, or nothing.
LeaveUpsert ==
    stray' \in {stray, IF step \in {"find", "insert"} THEN stray \union {<<working, step>>} ELSE stray}

DatabaseFails ==
    /\ step \in {"find", "insert"}
    /\ LeaveUpsert
    /\ Proceed("nack")
    /\ UNCHANGED <<channel, reply, event, records, crashes, losses>>

StrayFind(p) ==
    /\ <<p, "find">> \in stray
    /\ stray' = (stray \ {<<p, "find">>}) \union (IF records[p] = 0 THEN {<<p, "insert">>} ELSE {})
    /\ UNCHANGED <<channel, reply, event, worker, records, crashes, losses>>

StrayInsert(p) ==
    /\ <<p, "insert">> \in stray
    /\ stray' = stray \ {<<p, "insert">>}
    /\ records' = IF Stores(p) THEN [records EXCEPT ![p] = @ + 1] ELSE records
    /\ UNCHANGED <<channel, reply, event, worker, crashes, losses>>

Idle == step' = "idle" /\ working' = None

Ack ==
    /\ step = "ack" /\ channel[consumer] = "open"
    /\ event' = [event EXCEPT ![working] = "acked"]
    /\ Idle
    /\ UNCHANGED <<channel, reply, stray, records, crashes, losses>>

\* Bug: a rejected event goes back to the queue.
NackRequeues ==
    /\ step = "nack" /\ channel[consumer] = "open"
    /\ event' = [event EXCEPT ![working] = "queued"]
    /\ Idle
    /\ UNCHANGED <<channel, reply, stray, records, crashes, losses>>

\* Bug: the queue has no dead-letter exchange.
NackDrops ==
    /\ step = "nack" /\ channel[consumer] = "open"
    /\ event' = [event EXCEPT ![working] = "lost"]
    /\ Idle
    /\ UNCHANGED <<channel, reply, stray, records, crashes, losses>>

\* The queue has a dead-letter exchange.
Nack ==
    /\ step = "nack" /\ channel[consumer] = "open"
    /\ event' = [event EXCEPT ![working] = "dead"]
    /\ Idle
    /\ UNCHANGED <<channel, reply, stray, records, crashes, losses>>

\* ack throws on a stale channel, and so does the nack in the catch block: a
\* rejection nobody handles, which ends the process.
AnswerThrows ==
    /\ step \in {"ack", "nack"} /\ channel[consumer] = "stale"
    /\ channel' = [channel EXCEPT ![consumer] = "down"]
    /\ Idle
    /\ UNCHANGED <<reply, event, stray, records, crashes, losses>>

(* What goes wrong, and how the worker ends. *)

ServiceLosesConnection ==
    /\ losses < MaxLosses /\ channel[service] = "open"
    /\ losses' = losses + 1
    /\ channel' = [channel EXCEPT ![service] = "stale"]
    /\ UNCHANGED <<reply, event, worker, stray, records, crashes>>

\* The handler goes on with an event that is in the queue again.
WorkerLosesConnection ==
    /\ losses < MaxLosses /\ channel[consumer] = "open"
    /\ losses' = losses + 1
    /\ channel' = [channel EXCEPT ![consumer] = "stale"]
    /\ event' = Requeued
    /\ UNCHANGED <<reply, worker, stray, records, crashes>>

\* The worker closes its channel at its shutdown, with the same effect.
WorkerClosesChannel ==
    /\ channel[consumer] = "open"
    /\ channel' = [channel EXCEPT ![consumer] = "stale"]
    /\ event' = Requeued
    /\ UNCHANGED <<reply, worker, stray, records, crashes, losses>>

ServiceCrashes ==
    /\ crashes < MaxCrashes /\ channel[service] # "down"
    /\ crashes' = crashes + 1
    /\ channel' = [channel EXCEPT ![service] = "down"]
    /\ reply' = [p \in Payments |-> IF reply[p] = "waiting" THEN "dropped" ELSE reply[p]]
    /\ UNCHANGED <<event, worker, stray, records, losses>>

WorkerCrashes ==
    /\ crashes < MaxCrashes /\ channel[consumer] # "down"
    /\ crashes' = crashes + 1
    /\ channel' = [channel EXCEPT ![consumer] = "down"]
    /\ event' = Requeued
    /\ LeaveUpsert
    /\ Idle
    /\ UNCHANGED <<reply, records, losses>>

\* At the end of its shutdown, by its forced exit or by an unhandled error.
WorkerExits ==
    /\ channel[consumer] # "down"
    /\ channel' = [channel EXCEPT ![consumer] = "down"]
    /\ event' = Requeued
    /\ LeaveUpsert
    /\ Idle
    /\ UNCHANGED <<reply, records, crashes, losses>>

Start(process) ==
    /\ channel[process] = "down"
    /\ channel' = [channel EXCEPT ![process] = "open"]
    /\ UNCHANGED <<reply, event, worker, stray, records, crashes, losses>>

-----------------------------------------------------------------------------
Handle == \/ \E p \in Payments : Receive(p)
          \/ Find \/ Insert \/ DatabaseFails \/ Ack \/ Nack \/ AnswerThrows

Next == \/ \E p \in Payments : \/ Pay(p) \/ Accepted(p) \/ NotConfirmed(p)
                               \/ Store(p) \/ Lose(p)
                               \/ StrayFind(p) \/ StrayInsert(p)
        \/ Handle
        \/ ServiceLosesConnection \/ WorkerLosesConnection
        \/ WorkerClosesChannel \/ WorkerExits
        \/ ServiceCrashes \/ WorkerCrashes
        \/ \E process \in Processes : Start(process)

Spec == Init /\ [][Next]_vars

-----------------------------------------------------------------------------
(* Properties. *)

TypeOK ==
    /\ channel \in [Processes -> {"open", "stale", "down"}]
    /\ reply \in [Payments -> {"none", "waiting", "accepted", "failed", "dropped"}]
    /\ event \in [Payments -> {"none", "sent", "lost", "queued", "inHand", "acked", "dead"}]
    /\ step \in {"idle", "find", "insert", "ack", "nack"}
    /\ working \in Payments \union {None}
    /\ working = None <=> step = "idle"
    /\ stray \subseteq Payments \X {"find", "insert"}
    /\ records \in [Payments -> 0 .. 1]
    /\ crashes \in 0 .. MaxCrashes /\ losses \in 0 .. MaxLosses

\* "We must not report accepted": the transaction of an accepted payment is in
\* the history, on its way there, or with an operator, wherever a process dies
\* or a connection is lost.
AcceptedIsKept ==
    \A p \in Payments : reply[p] = "accepted" =>
        records[p] = 1 \/ event[p] \in {"queued", "inHand", "dead"}

\* Once connections no longer break, or break with the worker at work so that
\* it is started again, every queued event is recorded or dead-lettered.
EventsDrain ==
    <>[](channel[consumer] = "open") =>
        \A p \in Payments : event[p] = "queued" ~> event[p] \in {"acked", "dead"}

History == INSTANCE TransactionHistory WITH
    custody <- [p \in Payments |->
                    CASE event[p] \in {"none", "sent", "lost"} -> "none"
                      [] event[p] \in {"queued", "inHand"}     -> "held"
                      [] event[p] \in {"acked", "dead"}        -> "released"],
    accepted <- {p \in Payments : reply[p] = "accepted"},
    deadLetters <- {p \in Payments : event[p] = "dead"}

\* Implementation: nothing is accepted before the broker has it, and no
\* redelivery or stray upsert records a transaction twice.
KeepsHistory == History!Spec

=============================================================================
