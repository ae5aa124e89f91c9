---------------------- MODULE RabbitMQConnectionProofs ----------------------
(* Theorems of RabbitMQConnection. *)
EXTENDS RabbitMQConnection, TLAPS

\* Only close() leaves the closing flag set; a clean-up in between keeps what
\* it found.
FlagInv == /\ wasClosing => stage = "cleanup" /\ closer # "idle"
           /\ isClosing /\ stage # "cleanup" => closer # "idle"

\* A connection is reported, and its channel open, only while no connect() is
\* under way.
LinkInv == /\ connected => connection = "open" /\ stage = "idle"
           /\ ownChannel = "open" => connected

AttemptInv == stage = "delay" => attempt < ConnectMaxAttempts

ConnectionInv == /\ ConnectionTypeOK /\ OneConnect /\ NeverAbandoned
                 /\ FlagInv /\ LinkInv /\ AttemptInv

LEMMA AttemptBounds == ConnectMaxAttempts \in Nat /\ 1 <= ConnectMaxAttempts
  BY ConnectionAssumption

(***************************************************************************)
(* Types.                                                                  *)
(***************************************************************************)

\* The types in two parts: the Booleans, and what is counted or named.
Booleans == /\ connected \in BOOLEAN /\ isClosing \in BOOLEAN
            /\ wasClosing \in BOOLEAN /\ gaveUp \in BOOLEAN

LinkTypes == /\ connection \in {"null", "open", "closed"}
             /\ ownChannel \in {"null", "open", "closed"}
             /\ reconnects \in Nat
             /\ closer \in {"idle", "channel", "connection", "done", "failed"}

LoopTypes == /\ stage \in {"unused", "idle", "open", "channel", "cleanup", "delay"}
             /\ attempt \in 0 .. ConnectMaxAttempts
             /\ attempt > 0 <=> stage \notin {"unused", "idle"}

LEMMA TypeParts == ConnectionTypeOK <=> Booleans /\ LinkTypes /\ LoopTypes
  BY Zenon DEF ConnectionTypeOK, Booleans, LinkTypes, LoopTypes

LEMMA BooleansStep ==
  ASSUME Booleans, [ConnectionNext]_connectionVars
  PROVE  Booleans'
<1> USE DEF Booleans, link, flags, loop
<1>1. CASE FirstConnect \/ TimerFires
  BY <1>1, Zenon DEF FirstConnect, TimerFires, Connect
<1>2. CASE Opens \/ ChannelCreated \/ AttemptFails \/ DelayOver
  BY <1>2, Zenon DEF Opens, ChannelCreated, AttemptFails, DelayOver
<1>3. CASE CleanedUp
  <2>1. gaveUp' \in BOOLEAN
    BY <1>3, Zenon DEF CleanedUp
  <2> QED
    BY <1>3, <2>1, Zenon DEF CleanedUp
<1>4. CASE Lost \/ ConnectionClosed
  <2>1. connected' = FALSE \/ connected' = connected
    BY <1>4, Zenon DEF Lost, ConnectionClosed, Ends, Handlers
  <2> QED
    BY <1>4, <2>1, Zenon DEF Lost, ConnectionClosed
<1>5. CASE Close \/ ChannelClosed
  BY <1>5, Zenon DEF Close, ChannelClosed
<1>6. CASE Gone
  BY <1>6, Zenon DEF Gone
<1>7. CASE UNCHANGED connectionVars
  BY <1>7, Zenon DEF connectionVars
<1> QED
  BY <1>1, <1>2, <1>3, <1>4, <1>5, <1>6, <1>7, Zenon DEF ConnectionNext, Connecting, Closing

LEMMA LoopStep ==
  ASSUME LoopTypes, AttemptInv, [ConnectionNext]_connectionVars
  PROVE  LoopTypes'
<1> USE AttemptBounds DEF LoopTypes
<1>1. CASE FirstConnect \/ TimerFires
  <2>1. stage' = "open" /\ attempt' = 1
    BY <1>1, Zenon DEF FirstConnect, TimerFires, Connect
  <2> QED
    BY <2>1
<1>2. CASE Opens
  BY <1>2 DEF Opens
<1>3. CASE ChannelCreated
  BY <1>3 DEF ChannelCreated
<1>4. CASE AttemptFails
  BY <1>4 DEF AttemptFails
<1>5. CASE CleanedUp
  <2>1. stage = "cleanup"
    BY <1>5, Zenon DEF CleanedUp
  <2>2. CASE attempt = ConnectMaxAttempts \/ wasClosing
    <3>1. stage' = "idle" /\ attempt' = 0
      BY <1>5, <2>2, Zenon DEF CleanedUp
    <3> QED
      BY <2>1, <3>1
  <2>3. CASE ~(attempt = ConnectMaxAttempts \/ wasClosing)
    <3>1. stage' = "delay" /\ attempt' = attempt
      BY <1>5, <2>3, Zenon DEF CleanedUp
    <3> QED
      BY <2>1, <3>1
  <2> QED
    BY <2>2, <2>3
<1>6. CASE DelayOver
  BY <1>6 DEF DelayOver, AttemptInv
<1>7. CASE Gone
  <2>1. stage' = "unused" /\ attempt' = 0
    BY <1>7, Zenon DEF Gone
  <2> QED
    BY <2>1
<1>8. CASE UNCHANGED loop
  BY <1>8 DEF loop
<1> QED
  BY <1>1, <1>2, <1>3, <1>4, <1>5, <1>6, <1>7, <1>8, Zenon
     DEF ConnectionNext, Connecting, Closing, Lost, Close, ChannelClosed, ConnectionClosed,
         connectionVars

LEMMA LinkStep ==
  ASSUME LinkTypes, [ConnectionNext]_connectionVars
  PROVE  LinkTypes'
<1> USE DEF LinkTypes, link
<1>1. CASE FirstConnect
  BY <1>1 DEF FirstConnect
<1>2. CASE TimerFires
  BY <1>2 DEF TimerFires
<1>3. CASE Opens \/ ChannelCreated \/ AttemptFails \/ DelayOver
  BY <1>3 DEF Opens, ChannelCreated, AttemptFails, DelayOver
<1>4. CASE CleanedUp
  BY <1>4 DEF CleanedUp
<1>5. CASE Lost \/ ConnectionClosed
  <2>1. reconnects' \in Nat
    BY <1>5 DEF Lost, ConnectionClosed, Ends, Handlers
  <2>2. closer' = closer \/ closer' \in {"done", "failed"}
    BY <1>5, Zenon DEF Lost, ConnectionClosed
  <2>3. /\ connection' \in {connection, "closed"}
        /\ ownChannel' \in {ownChannel, "closed"}
    BY <1>5 DEF Lost, ConnectionClosed, Ends
  <2> QED
    BY <2>1, <2>2, <2>3
<1>6. CASE Close
  BY <1>6 DEF Close, CloseConnection
<1>7. CASE ChannelClosed
  BY <1>7 DEF ChannelClosed, CloseConnection
<1>8. CASE Gone
  BY <1>8 DEF Gone
<1>9. CASE UNCHANGED connectionVars
  BY <1>9 DEF connectionVars
<1> QED
  BY <1>1, <1>2, <1>3, <1>4, <1>5, <1>6, <1>7, <1>8, <1>9, Zenon
     DEF ConnectionNext, Connecting, Closing

LEMMA ConnectionTypeStep ==
  ASSUME ConnectionInv, [ConnectionNext]_connectionVars
  PROVE  ConnectionTypeOK'
<1>1. Booleans /\ LinkTypes /\ LoopTypes /\ AttemptInv
  BY TypeParts, Zenon DEF ConnectionInv
<1>2. Booleans' /\ LinkTypes' /\ LoopTypes'
  BY <1>1, BooleansStep, LinkStep, LoopStep, Zenon
<1> QED
  BY <1>2, Zenon DEF ConnectionTypeOK, Booleans, LinkTypes, LoopTypes

(***************************************************************************)
(* The other parts of the invariant.                                       *)
(***************************************************************************)

\* The end of a connection sets one timer at most, when no connect() is under way.
LEMMA EndsStep ==
  ASSUME ConnectionInv, connection = "open", Ends, UNCHANGED <<flags, loop>>,
         closer' = closer \/ closer' = "done"
  PROVE  OneConnect' /\ NeverAbandoned' /\ FlagInv' /\ LinkInv' /\ AttemptInv'
<1> USE DEF ConnectionInv, flags, loop
<1>1. reconnects = 0
  BY DEF OneConnect, ConnectionTypeOK
<1>2. CASE Watched
  <2>1. stage = "idle"
    BY <1>2 DEF Watched, OneConnect
  <2>2. connected' = FALSE /\ reconnects' = IF isClosing THEN 0 ELSE 1
    BY <1>1, <1>2 DEF Ends, Handlers
  <2> QED
    BY <2>1, <2>2 DEF Ends, OneConnect, NeverAbandoned, FlagInv, LinkInv, AttemptInv
<1>3. CASE ~Watched
  BY <1>1, <1>3 DEF Watched, Ends, OneConnect, NeverAbandoned, FlagInv, LinkInv, AttemptInv
<1> QED
  BY <1>2, <1>3

LEMMA ConnectionStep ==
  ASSUME ConnectionInv, [ConnectionNext]_connectionVars
  PROVE  OneConnect' /\ NeverAbandoned' /\ FlagInv' /\ LinkInv' /\ AttemptInv'
<1> USE DEF ConnectionInv, OneConnect, NeverAbandoned, FlagInv, LinkInv, AttemptInv,
            link, flags, loop
<1>1. CASE FirstConnect
  BY <1>1, AttemptBounds DEF FirstConnect, Connect, ConnectionTypeOK
<1>2. CASE TimerFires
  <2>1. reconnects' = 0 /\ connection # "open"
    BY <1>2 DEF TimerFires, ConnectionTypeOK
  <2> QED
    BY <1>2, <2>1 DEF TimerFires, Connect
<1>3. CASE Opens
  BY <1>3 DEF Opens, ConnectionTypeOK
<1>4. CASE ChannelCreated
  BY <1>4 DEF ChannelCreated, ConnectionTypeOK
<1>5. CASE AttemptFails
  BY <1>5 DEF AttemptFails
<1>6. CASE CleanedUp
  <2>1. stage = "cleanup" /\ connection' = "null" /\ ownChannel' = "null" /\ UNCHANGED <<connected, reconnects, closer>>
    BY <1>6 DEF CleanedUp
  <2>2. reconnects = 0 /\ ~connected
    BY <2>1 DEF ConnectionTypeOK
  <2>3. CASE wasClosing
    BY <1>6, <2>1, <2>2, <2>3 DEF CleanedUp
  <2>4. CASE ~wasClosing /\ attempt = ConnectMaxAttempts
    <3>1. isClosing' = FALSE /\ wasClosing' = FALSE /\ stage' = "idle" /\ gaveUp' = TRUE
      BY <1>6, <2>4 DEF CleanedUp, ConnectionTypeOK
    <3> QED
      BY <2>1, <2>2, <3>1
  <2>5. CASE ~wasClosing /\ attempt # ConnectMaxAttempts
    <3>1. isClosing' = FALSE /\ wasClosing' = FALSE /\ stage' = "delay" /\ attempt' = attempt
      BY <1>6, <2>5 DEF CleanedUp, ConnectionTypeOK
    <3>2. attempt < ConnectMaxAttempts
      BY <2>5, AttemptBounds DEF ConnectionTypeOK
    <3> QED
      BY <2>1, <2>2, <3>1, <3>2
  <2> QED
    BY <2>3, <2>4, <2>5
<1>7. CASE DelayOver
  BY <1>7 DEF DelayOver, ConnectionTypeOK
<1>8. CASE Lost
  BY <1>8, EndsStep DEF Lost
<1>9. CASE Close
  <2>1. closer' # "idle"
    BY <1>9 DEF Close, CloseConnection, ConnectionTypeOK
  <2>2. ownChannel' # "open" /\ UNCHANGED <<connection, connected, wasClosing, loop, reconnects>>
    BY <1>9 DEF Close, ConnectionTypeOK
  <2> QED
    BY <2>1, <2>2
<1>10. CASE ChannelClosed
  BY <1>10 DEF ChannelClosed, CloseConnection
<1>11. CASE ConnectionClosed
  <2>1. CASE connection = "open"
    BY <1>11, <2>1, EndsStep DEF ConnectionClosed
  <2>2. CASE connection # "open"
    BY <1>11, <2>2 DEF ConnectionClosed
  <2> QED
    BY <2>1, <2>2
<1>12. CASE Gone
  BY <1>12 DEF Gone
<1>13. CASE UNCHANGED connectionVars
  BY <1>13 DEF connectionVars
<1> QED
  BY <1>1, <1>2, <1>3, <1>4, <1>5, <1>6, <1>7, <1>8, <1>9, <1>10, <1>11, <1>12, <1>13
     DEF ConnectionNext, Connecting, Closing

LEMMA ConnectionInvInit == ConnectionInit => ConnectionInv
<1>1. ConnectionInit => Booleans
  BY Zenon DEF ConnectionInit, Booleans
<1>2. ConnectionInit => LinkTypes /\ LoopTypes
  BY AttemptBounds DEF ConnectionInit, LinkTypes, LoopTypes
<1>3. ConnectionInit => OneConnect /\ NeverAbandoned /\ FlagInv /\ LinkInv /\ AttemptInv
  BY DEF ConnectionInit, OneConnect, NeverAbandoned, FlagInv, LinkInv, AttemptInv
<1> QED
  BY <1>1, <1>2, <1>3, TypeParts, Zenon DEF ConnectionInv

LEMMA ConnectionInvStep ==
  ASSUME ConnectionInv, [ConnectionNext]_connectionVars
  PROVE  ConnectionInv'
  BY ConnectionTypeStep, ConnectionStep DEF ConnectionInv

LEMMA ConnectionInvariance == ConnectionSpec => []ConnectionInv
<1>1. ConnectionInv /\ [ConnectionNext]_connectionVars => ConnectionInv'
  BY ConnectionInvStep
<1> QED
  BY ConnectionInvInit, <1>1, PTL DEF ConnectionSpec

(***************************************************************************)
(* Theorems.                                                               *)
(***************************************************************************)

\* Every variable of RabbitMQConnection has its type; connect() makes no more
\* than connectMaxAttempts attempts.
THEOREM ConnectionTypeCorrect == ConnectionSpec => []ConnectionTypeOK
<1> QED
  BY ConnectionInvariance, PTL DEF ConnectionInv

\* However losses, attempts, clean-ups and close() interleave, connect() never
\* runs twice at the same time, nor next to a connection.
THEOREM OneConnectAtATime == ConnectionSpec => []OneConnect
<1> QED
  BY ConnectionInvariance, PTL DEF ConnectionInv

\* isConnected() is true only with a connection.
THEOREM ReportedConnectionIsLive == ConnectionSpec => []ConnectedIsLive
<1>1. ConnectionInv => ConnectedIsLive
  BY DEF ConnectionInv, LinkInv, ConnectedIsLive
<1> QED
  BY <1>1, ConnectionInvariance, PTL

\* An object that lost its connection and is not being closed has a reconnect
\* pending or under way, or has used up its attempts.
THEOREM LossIsNotIgnored == ConnectionSpec => []NeverAbandoned
<1> QED
  BY ConnectionInvariance, PTL DEF ConnectionInv

=============================================================================
