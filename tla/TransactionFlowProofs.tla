----------------------- MODULE TransactionFlowProofs -----------------------
(* Theorems of TransactionFlow: what is proved of Transactions and of        *)
(* RabbitMQConnection holds of the worker they are put together to.          *)
EXTENDS TransactionFlow, TransactionsProofs, RabbitMQConnectionProofs

\* The worker's channel lives from bootstrap to the end of the process, and is
\* open only before close().
PhaseInv ==
    /\ channel[consumer] # "down" <=> phase \in {"running"} \union Stopping
    /\ channel[consumer] = "open" =>
           phase \in {"running", "draining"} /\ connected /\ ownChannel = "open"
    /\ closer # "idle" => phase \in {"closing", "disconnecting"}
    /\ stage = "unused" => phase \in {"down", "database"}

FlowInv == IInv /\ ConnectionInv /\ PhaseInv

(***************************************************************************)
(* Refinement.                                                             *)
(***************************************************************************)

\* Every step of the process is a step of the payment's way, or none.
LEMMA StepOfTransactions ==
  ASSUME [FlowNext]_flowVars
  PROVE  [Next]_vars
<1>1. CASE Launch \/ DatabaseConnected \/ Established \/ BootstrapFails \/ Reconnecting
           \/ Signal \/ ClosesConnection \/ RabbitClosed
  BY <1>1, Zenon DEF Launch, DatabaseConnected, Established, BootstrapFails, Reconnecting,
     Signal, ClosesConnection, RabbitClosed
<1>2. CASE Consumes
  <2>1. consumer \in Processes
    BY DEF consumer, Processes
  <2> QED
    BY <1>2, <2>1, Zenon DEF Consumes, Next
<1>3. CASE LosesConnection \/ ServerClosed
  BY <1>3, Zenon DEF LosesConnection, ServerClosed, Next
<1>4. CASE Exits \/ ForcedExit \/ UnheardError
  BY <1>4, Zenon DEF Exits, ForcedExit, ProcessEnds, UnheardError, Next
<1>5. CASE Crashes \/ Throws
  BY <1>5, Zenon DEF Crashes, Throws, Next, Handle
<1>6. CASE Handles
  BY <1>6, Zenon DEF Handles, Next, Handle
<1>7. CASE Others
  <2>1. service \in Processes
    BY DEF service, Processes
  <2> QED
    BY <1>7, <2>1, Zenon DEF Others, Next
<1>8. CASE UNCHANGED flowVars
  BY <1>8 DEF flowVars
<1> QED
  BY <1>1, <1>2, <1>3, <1>4, <1>5, <1>6, <1>7, <1>8, Zenon DEF FlowNext

\* Every step of the process is a step of its connection, or none; close() is
\* called on an object that has been used.
LEMMA StepOfConnection ==
  ASSUME PhaseInv, [FlowNext]_flowVars
  PROVE  [ConnectionNext]_connectionVars
<1>1. CASE Launch \/ Consumes \/ Signal \/ RabbitClosed \/ Handles \/ Others
  BY <1>1, Zenon DEF Launch, Consumes, Signal, RabbitClosed, Handles, Others
<1>2. CASE DatabaseConnected \/ Established \/ LosesConnection
  BY <1>2, Zenon DEF DatabaseConnected, Established, LosesConnection, ConnectionNext, Connecting
<1>3. CASE Reconnecting \/ ClosesConnection
  BY <1>3, Zenon DEF Reconnecting, ClosesConnection, ConnectionNext, Connecting
<1>4. CASE ServerClosed
  <2>1. stage # "unused"
    BY <1>4 DEF ServerClosed, PhaseInv
  <2> QED
    BY <1>4, <2>1, Zenon DEF ServerClosed, ConnectionNext, Closing
<1>5. CASE BootstrapFails \/ Exits \/ ForcedExit \/ UnheardError \/ Crashes \/ Throws
  BY <1>5, Zenon DEF BootstrapFails, Exits, ForcedExit, ProcessEnds, UnheardError, Crashes, Throws,
     ConnectionNext
<1>6. CASE UNCHANGED flowVars
  BY <1>6 DEF flowVars
<1> QED
  BY <1>1, <1>2, <1>3, <1>4, <1>5, <1>6, Zenon DEF FlowNext

(***************************************************************************)
(* The invariant of the process.                                           *)
(***************************************************************************)

LEMMA ChannelsApart == consumer # service /\ consumer \in Processes /\ service \in Processes
  BY DEF consumer, service, Processes

LEMMA PhaseInit == FlowInit => PhaseInv
<1>1. Init => channel[consumer] = "down"
  BY ChannelsApart DEF Init
<1> QED
  BY <1>1 DEF FlowInit, ConnectionInit, PhaseInv, Stopping

\* The process is over.
LEMMA PhaseDown ==
  ASSUME phase' = "down", Gone, channel'[consumer] = "down"
  PROVE  PhaseInv'
  BY DEF Gone, PhaseInv, Stopping

LEMMA PhaseStep ==
  ASSUME FlowInv, [FlowNext]_flowVars
  PROVE  PhaseInv'
<1>0. PhaseInv /\ LinkInv /\ channel \in [Processes -> {"open", "stale", "down"}]
  BY DEF FlowInv, IInv, TypeOK, ConnectionInv
<1> USE ChannelsApart DEF Enter
<1>1. CASE Launch \/ Signal \/ RabbitClosed
  <2>1. /\ UNCHANGED <<channel, connected, ownChannel, closer, stage>>
        /\ \/ phase = "down" /\ phase' = "database"
           \/ phase = "running" /\ phase' = "draining"
           \/ phase = "closing" /\ phase' = "disconnecting"
    BY <1>1 DEF Launch, Signal, RabbitClosed, vars, connectionVars, link, loop
  <2> QED
    BY <1>0, <2>1 DEF PhaseInv, Stopping
<1>2. CASE DatabaseConnected
  <2>1. /\ UNCHANGED <<channel, connected, ownChannel, closer>> /\ stage' = "open"
        /\ phase = "database" /\ phase' = "connecting"
    BY <1>2 DEF DatabaseConnected, FirstConnect, Connect, vars, link
  <2> QED
    BY <1>0, <2>1 DEF PhaseInv, Stopping
<1>3. CASE Established
  <2>1. /\ UNCHANGED <<channel, closer>> /\ stage' = "idle" /\ stage = "channel"
        /\ connected' = TRUE /\ ownChannel' = "open"
    BY <1>3 DEF Established, ChannelCreated, vars
  <2>2. phase' = phase \/ (phase = "connecting" /\ phase' = "consuming")
    BY <1>3, Zenon DEF Established
  <2> QED
    BY <1>0, <2>1, <2>2 DEF PhaseInv, Stopping
<1>4. CASE Consumes
  <2>1. channel'[consumer] = "open" /\ phase' = "running" /\ ownChannel = "open"
        /\ UNCHANGED <<connected, ownChannel, closer, stage>> /\ phase = "consuming"
    BY <1>0, <1>4 DEF Consumes, Start, connectionVars, link, loop
  <2> QED
    BY <1>0, <2>1 DEF PhaseInv, LinkInv, Stopping
<1>5. CASE BootstrapFails
  <2>1. channel'[consumer] = "down"
    BY <1>0, <1>5 DEF BootstrapFails, PhaseInv, Stopping, vars
  <2> QED
    BY <1>5, <2>1, PhaseDown DEF BootstrapFails
<1>6. CASE Reconnecting
  <2>1. stage # "unused" /\ stage' # "unused" /\ UNCHANGED <<channel, phase, closer>>
    BY <1>6 DEF Reconnecting, TimerFires, Connect, Opens, AttemptFails, CleanedUp, DelayOver, vars
  <2>2. \/ stage \notin {"idle"}
        \/ UNCHANGED <<connected, ownChannel>>
    BY <1>6 DEF Reconnecting, TimerFires, Opens, AttemptFails, CleanedUp, DelayOver, link
  <2> QED
    BY <1>0, <2>1, <2>2 DEF PhaseInv, LinkInv, Stopping
<1>7. CASE LosesConnection
  <2>1. channel'[consumer] # "open" /\ (channel'[consumer] = "down" <=> channel[consumer] = "down")
    BY <1>0, <1>7 DEF LosesConnection, WorkerLosesConnection, vars
  <2>2. UNCHANGED <<phase, closer, stage>>
    BY <1>7 DEF LosesConnection, Lost, loop
  <2> QED
    BY <1>0, <2>1, <2>2 DEF PhaseInv
<1>8. CASE ServerClosed
  <2>1. channel'[consumer] # "open" /\ channel[consumer] # "down" /\ channel'[consumer] # "down"
    BY <1>0, <1>8 DEF ServerClosed, WorkerClosesChannel, vars, PhaseInv, Stopping
  <2>2. phase = "draining" /\ phase' = "closing" /\ UNCHANGED stage
    BY <1>8 DEF ServerClosed, Close, loop
  <2> QED
    BY <1>0, <2>1, <2>2 DEF PhaseInv, Stopping
<1>9. CASE ClosesConnection
  <2>1. phase \in {"closing", "disconnecting"}
    BY <1>0, <1>9 DEF ClosesConnection, ChannelClosed, ConnectionClosed, PhaseInv
  <2>2. UNCHANGED <<channel, phase, stage>>
    BY <1>9 DEF ClosesConnection, ChannelClosed, ConnectionClosed, loop, vars
  <2> QED
    BY <1>0, <2>1, <2>2 DEF PhaseInv
<1>10. CASE Exits \/ ForcedExit \/ Crashes
  BY <1>0, <1>10, PhaseDown DEF Exits, ForcedExit, ProcessEnds, Crashes, WorkerExits, WorkerCrashes
<1>11. CASE UnheardError
  <2>1. channel'[consumer] = "down"
    BY <1>0, <1>11 DEF UnheardError, WorkerExits, PhaseInv, Stopping, vars
  <2> QED
    BY <1>11, <2>1, PhaseDown DEF UnheardError
<1>12. CASE Throws
  BY <1>0, <1>12, PhaseDown DEF Throws, AnswerThrows
<1>13. CASE Handles
  <2>1. UNCHANGED <<channel, connectionVars, phase>>
    BY <1>13 DEF Handles, Receive, Find, Insert, DatabaseFails, Ack, Nack
  <2> QED
    BY <1>0, <2>1 DEF PhaseInv, connectionVars, link, loop
<1>14. CASE Others
  <2>1. channel'[consumer] = channel[consumer]
    BY <1>0, <1>14 DEF Others, Pay, Accepted, NotConfirmed, Store, Lose, StrayFind, StrayInsert,
       ServiceLosesConnection, ServiceCrashes, Start
  <2>2. UNCHANGED <<connectionVars, phase>>
    BY <1>14, Zenon DEF Others
  <2> QED
    BY <1>0, <2>1, <2>2 DEF PhaseInv, connectionVars, link, loop
<1>15. CASE UNCHANGED flowVars
  BY <1>0, <1>15 DEF flowVars, vars, connectionVars, link, loop, PhaseInv
<1> QED
  BY <1>1, <1>2, <1>3, <1>4, <1>5, <1>6, <1>7, <1>8, <1>9, <1>10, <1>11, <1>12, <1>13, <1>14,
     <1>15, Zenon DEF FlowNext

LEMMA FlowInvariance == FlowSpec => []FlowInv
<1>1. FlowInit => FlowInv
  BY InvInit, ConnectionInvInit, PhaseInit DEF FlowInit, FlowInv
<1>2. FlowInv /\ [FlowNext]_flowVars => FlowInv'
  <2> SUFFICES ASSUME FlowInv, [FlowNext]_flowVars PROVE FlowInv'
    OBVIOUS
  <2>1. IInv'
    BY StepOfTransactions, InvStep, Zenon DEF FlowInv
  <2>2. ConnectionInv'
    BY StepOfConnection, ConnectionInvStep, Zenon DEF FlowInv
  <2> QED
    BY <2>1, <2>2, PhaseStep, Zenon DEF FlowInv
<1> QED
  BY <1>1, <1>2, PTL DEF FlowSpec

(***************************************************************************)
(* Theorems.                                                               *)
(***************************************************************************)

\* The worker as a process implements the worker that Transactions models: a
\* restart, a reconnect or a shutdown is nothing but a crash, a lost connection
\* or no step at all.  So its history keeps what TransactionHistory promises.
THEOREM WorkerKeepsHistory == FlowSpec => KeepsHistory
<1>1. FlowInit => Init
  BY DEF FlowInit
<1>2. [FlowNext]_flowVars => [Next]_vars
  BY StepOfTransactions
<1> QED
  BY <1>1, <1>2, ImplementsHistory, PTL DEF FlowSpec, Spec

\* An accepted payment is kept however its worker starts, reconnects and stops.
THEOREM WorkerKeepsAccepted == FlowSpec => []AcceptedIsKept
<1>1. FlowInit => Init
  BY DEF FlowInit
<1>2. [FlowNext]_flowVars => [Next]_vars
  BY StepOfTransactions
<1> QED
  BY <1>1, <1>2, AcceptedStaysKept, PTL DEF FlowSpec, Spec

\* The worker uses its connection as RabbitMQConnection models it, so a loss is
\* never ignored and never answered twice.
THEOREM WorkerUsesConnection == FlowSpec => ConnectionSpec
<1>1. FlowInit => ConnectionInit
  BY DEF FlowInit
<1>2. FlowInv /\ [FlowNext]_flowVars => [ConnectionNext]_connectionVars
  BY StepOfConnection DEF FlowInv
<1> QED
  BY <1>1, <1>2, FlowInvariance, PTL DEF FlowSpec, ConnectionSpec

\* A worker that can consume is reported ready.
THEOREM ConsumingWorkerIsReady == FlowSpec => []ConsumingIsReady
<1>1. FlowInv => ConsumingIsReady
  BY DEF FlowInv, PhaseInv, ConsumingIsReady, Ready
<1> QED
  BY <1>1, FlowInvariance, PTL

=============================================================================
