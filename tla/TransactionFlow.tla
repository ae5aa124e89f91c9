--------------------------- MODULE TransactionFlow ---------------------------
(***************************************************************************)
(* Transactions with the transaction worker as a process: it starts,       *)
(* connects, consumes, loses its connection and connects again, is told to *)
(* stop and shuts down, or is forced to.  What Transactions assumes of     *)
(* channel[consumer] is here what bootstrap, RabbitMQConnection and        *)
(* registerGracefulShutdown make of it: the channel of the first connect() *)
(* goes to Consumer, the channels of later ones to nobody.                 *)
(***************************************************************************)
EXTENDS Transactions, RabbitMQConnection

VARIABLE phase      \* what bootstrap or the shutdown waits for

flowVars == <<vars, connectionVars, phase>>

Stopping == {"draining", "closing", "disconnecting"}

\* What /health answers 200 for, as long as the database is there.
Ready == connected

-----------------------------------------------------------------------------
FlowInit == Init /\ ConnectionInit /\ phase = "down"

Enter(next) == phase' = next

(* bootstrap *)

Launch == /\ phase = "down" /\ Enter("database")
          /\ UNCHANGED <<vars, connectionVars>>

DatabaseConnected == /\ phase = "database" /\ Enter("connecting")
                     /\ FirstConnect
                     /\ UNCHANGED vars

\* The first channel is the one bootstrap goes on with.
Established == /\ ChannelCreated
               /\ IF phase = "connecting" THEN Enter("consuming") ELSE UNCHANGED phase
               /\ UNCHANGED vars

\* Topology, subscription and monitoring server are done.
Consumes == /\ phase = "consuming" /\ ownChannel = "open" /\ Enter("running")
            /\ Start(consumer)
            /\ UNCHANGED connectionVars

\* Anything that fails: process.exit(1).
BootstrapFails == /\ \/ phase \in {"database", "consuming"}
                     \/ phase = "connecting" /\ stage = "idle"
                  /\ Enter("down") /\ Gone
                  /\ UNCHANGED vars

(* The connection. *)

Reconnecting == /\ TimerFires \/ Opens \/ AttemptFails \/ CleanedUp \/ DelayOver
                /\ UNCHANGED <<vars, phase>>

\* The consumer loses its channel, or a later connection that it does not use.
LosesConnection ==
    /\ Lost
    /\ IF channel[consumer] = "open" THEN WorkerLosesConnection ELSE UNCHANGED vars
    /\ UNCHANGED phase

(* registerGracefulShutdown *)

\* A second signal has no effect.
Signal == /\ phase = "running" /\ Enter("draining")
          /\ UNCHANGED <<vars, connectionVars>>

\* Until here the worker goes on consuming.
ServerClosed ==
    /\ phase = "draining" /\ Enter("closing")
    /\ Close
    /\ IF channel[consumer] = "open" THEN WorkerClosesChannel ELSE UNCHANGED vars

ClosesConnection == /\ ChannelClosed \/ ConnectionClosed
                    /\ UNCHANGED <<vars, phase>>

RabbitClosed == /\ phase = "closing" /\ closer = "done" /\ Enter("disconnecting")
                /\ UNCHANGED <<vars, connectionVars>>

ProcessEnds == Enter("down") /\ Gone /\ WorkerExits

\* The shutdown is complete, or an error ends it.
Exits == /\ phase = "disconnecting" \/ (phase = "closing" /\ closer = "failed")
         /\ ProcessEnds

\* Bug: the timer is cleared once the HTTP server is closed.
ForcedExitBug == phase = "draining" /\ ProcessEnds

\* The timer of the shutdown.
ForcedExit == phase \in Stopping /\ ProcessEnds

\* A connection that is lost before its handlers are attached emits an error
\* nobody listens to.
UnheardError == /\ ~Watched /\ connection = "open"
                /\ Enter("down") /\ Gone
                /\ IF phase = "connecting" THEN UNCHANGED vars ELSE WorkerExits

(* The worker. *)

Crashes == WorkerCrashes /\ Enter("down") /\ Gone

\* Neither ack nor nack on the lost channel: an unhandled rejection.
Throws == AnswerThrows /\ Enter("down") /\ Gone

Handles == /\ \/ \E p \in Payments : Receive(p)
              \/ Find \/ Insert \/ DatabaseFails \/ Ack \/ Nack
           /\ UNCHANGED <<connectionVars, phase>>

\* What the worker has no part in.
Others ==
    /\ \/ \E p \in Payments : \/ Pay(p) \/ Accepted(p) \/ NotConfirmed(p)
                              \/ Store(p) \/ Lose(p)
                              \/ StrayFind(p) \/ StrayInsert(p)
       \/ ServiceLosesConnection \/ ServiceCrashes \/ Start(service)
    /\ UNCHANGED <<connectionVars, phase>>

FlowNext == \/ Launch \/ DatabaseConnected \/ Established \/ Consumes \/ BootstrapFails
            \/ Reconnecting \/ LosesConnection
            \/ Signal \/ ServerClosed \/ ClosesConnection \/ RabbitClosed
            \/ Exits \/ ForcedExit \/ UnheardError
            \/ Crashes \/ Throws \/ Handles \/ Others

FlowSpec == FlowInit /\ [][FlowNext]_flowVars

\* The worker goes on with its event, connect() ends its attempts, and timers
\* fire.  Nobody is obliged to answer a close().
FairFlowSpec == /\ FlowSpec
                /\ WF_flowVars(Handles \/ Throws)
                /\ WF_flowVars(Established \/ Reconnecting)
                /\ WF_flowVars(ForcedExit)

-----------------------------------------------------------------------------
(* Properties. *)

\* While the worker can consume, /health says so; the reverse does not hold,
\* since Consumer keeps the channel of a connection that was replaced.
ConsumingIsReady == channel[consumer] = "open" => Ready /\ ownChannel = "open"

\* A running worker that has lost its connection has one again or runs out of
\* attempts: neither a handler nor the flag of a clean-up leaves it waiting.
Reconnects == phase = "running" /\ ~Ready ~> Ready \/ gaveUp \/ phase # "running"

\* A process that was told to stop ends, though the broker may never answer the
\* closing of a channel, clients may keep the HTTP server open and a reconnect
\* may get in the way of close().
ShutdownEnds == phase \in Stopping ~> phase = "down"

\* "Transaction Worker consumes that event and saves the transaction history to
\* payment_db" (README.md:117): a worker that stays up and ready leaves no event
\* in its queue.  It does, when the connection it is ready with is not its first.
ReadyWorkerConsumes ==
    <>[](phase = "running" /\ Ready) =>
        \A p \in Payments : event[p] = "queued" ~> event[p] # "queued"

=============================================================================
