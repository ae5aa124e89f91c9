------------------------- MODULE RabbitMQConnection -------------------------
(***************************************************************************)
(* One object of class RabbitMQConnection and the amqplib connection it    *)
(* keeps: connect() with its attempts, the handlers that reconnect after a *)
(* loss, close(), and closePartialConnection() in between.                 *)
(*                                                                         *)
(* stage says what connect() waits for, closer what close() waits for.     *)
(* The "error" and "close" handlers are attached once the channel exists,  *)
(* so a connection that is lost before is noticed by connect() alone.      *)
(***************************************************************************)
EXTENDS Integers

CONSTANT ConnectMaxAttempts     \* RabbitMQConnectionOptions.connectMaxAttempts

ASSUME ConnectionAssumption == ConnectMaxAttempts \in Nat \ {0}

VARIABLES
    connection,     \* this.connection: "null", "open" or "closed"
    ownChannel,     \* this.channel, likewise
    connected,
    isClosing,      \* isClosingIntentionally
    wasClosing,     \* wasClosingIntentionally, FALSE when out of scope
    stage,          \* "unused", "idle", or what connect() waits for
    attempt,        \* its loop variable, 0 when out of scope
    gaveUp,         \* ghost: the last connect() failed in all its attempts
    reconnects,     \* setTimeout(() => this.connect()) that are pending
    closer          \* "idle", what close() waits for, "done" or "failed"

link  == <<connection, ownChannel, connected>>
flags == <<isClosing, wasClosing>>
loop  == <<stage, attempt, gaveUp>>
connectionVars == <<link, flags, loop, reconnects, closer>>

-----------------------------------------------------------------------------
ConnectionInit ==
    /\ connection = "null" /\ ownChannel = "null" /\ connected = FALSE
    /\ isClosing = FALSE /\ wasClosing = FALSE
    /\ stage = "unused" /\ attempt = 0 /\ gaveUp = FALSE
    /\ reconnects = 0 /\ closer = "idle"

(* connect *)

Connect == stage' = "open" /\ attempt' = 1 /\ gaveUp' = FALSE

FirstConnect == /\ stage = "unused" /\ Connect
                /\ UNCHANGED <<link, flags, reconnects, closer>>

\* OneConnect shows that no connect() is under way when a timer fires.
TimerFires == /\ reconnects > 0 /\ stage = "idle"
              /\ reconnects' = reconnects - 1
              /\ Connect
              /\ UNCHANGED <<link, flags, closer>>

Opens == /\ stage = "open"
         /\ connection' = "open" /\ stage' = "channel"
         /\ UNCHANGED <<ownChannel, connected, flags, attempt, gaveUp, reconnects, closer>>

\* Bug: connected is left to the handlers.
ChannelCreatedBug ==
    /\ stage = "channel" /\ connection = "open" /\ closer # "connection"
    /\ ownChannel' = "open"
    /\ stage' = "idle" /\ attempt' = 0
    /\ UNCHANGED <<connection, connected, flags, gaveUp, reconnects, closer>>

\* The channel is created and the handlers are attached.
ChannelCreated ==
    /\ stage = "channel" /\ connection = "open" /\ closer # "connection"
    /\ ownChannel' = "open" /\ connected' = TRUE
    /\ stage' = "idle" /\ attempt' = 0
    /\ UNCHANGED <<connection, flags, gaveUp, reconnects, closer>>

\* The broker refuses, or the connection is gone before it has a channel;
\* closePartialConnection begins.
AttemptFails ==
    /\ stage \in {"open", "channel"}
    /\ connected' = FALSE
    /\ wasClosing' = isClosing /\ isClosing' = TRUE
    /\ stage' = "cleanup"
    /\ UNCHANGED <<connection, ownChannel, attempt, gaveUp, reconnects, closer>>

\* Bug: closePartialConnection leaves the flag set.
CleanedUpBug ==
    /\ stage = "cleanup"
    /\ wasClosing' = FALSE
    /\ connection' = "null" /\ ownChannel' = "null"
    /\ stage' = "idle" /\ attempt' = 0 /\ gaveUp' = (attempt = ConnectMaxAttempts)
    /\ UNCHANGED <<connected, isClosing, reconnects, closer>>

\* Bug: the attempts are counted from zero.
CleanedUpOnceMore ==
    /\ stage = "cleanup"
    /\ isClosing' = wasClosing /\ wasClosing' = FALSE
    /\ connection' = "null" /\ ownChannel' = "null"
    /\ IF attempt > ConnectMaxAttempts \/ wasClosing
       THEN stage' = "idle" /\ attempt' = 0 /\ gaveUp' = (attempt > ConnectMaxAttempts)
       ELSE stage' = "delay" /\ UNCHANGED <<attempt, gaveUp>>
    /\ UNCHANGED <<connected, reconnects, closer>>

\* It ends and restores the flag, even one that close() set in the meantime.
CleanedUp ==
    /\ stage = "cleanup"
    /\ isClosing' = wasClosing /\ wasClosing' = FALSE
    /\ connection' = "null" /\ ownChannel' = "null"
    /\ IF attempt = ConnectMaxAttempts \/ wasClosing
       THEN stage' = "idle" /\ attempt' = 0 /\ gaveUp' = (attempt = ConnectMaxAttempts)
       ELSE stage' = "delay" /\ UNCHANGED <<attempt, gaveUp>>
    /\ UNCHANGED <<connected, reconnects, closer>>

DelayOver == /\ stage = "delay"
             /\ stage' = "open" /\ attempt' = attempt + 1
             /\ UNCHANGED <<link, flags, gaveUp, reconnects, closer>>

(* The connection ends. *)

Watched == stage \notin {"channel", "cleanup"}

\* Bug: the "error" handler reconnects as well.
HandlersBug ==
    /\ connected' = FALSE
    /\ reconnects' = IF isClosing THEN reconnects ELSE reconnects + 2

\* Bug: nothing is done for a connection that is closed on purpose.
HandlersQuietly ==
    IF isClosing THEN UNCHANGED <<connected, reconnects>>
                 ELSE connected' = FALSE /\ reconnects' = reconnects + 1

\* Bug: the "close" handler has no timer.
HandlersForget == connected' = FALSE /\ UNCHANGED reconnects

\* The "error" and "close" handlers.
Handlers ==
    /\ connected' = FALSE
    /\ reconnects' = IF isClosing THEN reconnects ELSE reconnects + 1

Ends == /\ connection' = "closed"
        /\ ownChannel' = IF ownChannel = "open" THEN "closed" ELSE ownChannel
        /\ IF Watched THEN Handlers ELSE UNCHANGED <<connected, reconnects>>

Lost == /\ connection = "open" /\ Ends
        /\ UNCHANGED <<flags, loop, closer>>

(* close *)

\* What awaiting this.channel?.close() is followed by: a second close() of
\* what is closed or being closed throws.
CloseConnection ==
    closer' = CASE connection = "null"                      -> "done"
                [] connection = "open" /\ stage # "cleanup" -> "connection"
                [] OTHER                                    -> "failed"

\* The channel is of no use from the moment close() is called on it.
Close ==
    /\ closer = "idle"
    /\ isClosing' = TRUE
    /\ CASE ownChannel = "open"   -> ownChannel' = "closed" /\ closer' = "channel"
         [] ownChannel = "closed" -> closer' = "failed" /\ UNCHANGED ownChannel
         [] ownChannel = "null"   -> CloseConnection /\ UNCHANGED ownChannel
    /\ UNCHANGED <<connection, connected, wasClosing, loop, reconnects>>

ChannelClosed == /\ closer = "channel" /\ CloseConnection
                 /\ UNCHANGED <<link, flags, loop, reconnects>>

ConnectionClosed ==
    /\ closer = "connection"
    /\ IF connection = "open"
       THEN Ends /\ closer' = "done"
       ELSE closer' \in {"done", "failed"} /\ UNCHANGED <<link, reconnects>>
    /\ UNCHANGED <<flags, loop>>

\* The process ends and the object with it.
Gone == /\ connection' = "null" /\ ownChannel' = "null" /\ connected' = FALSE
        /\ isClosing' = FALSE /\ wasClosing' = FALSE
        /\ stage' = "unused" /\ attempt' = 0 /\ gaveUp' = FALSE
        /\ reconnects' = 0 /\ closer' = "idle"

-----------------------------------------------------------------------------
\* connect() goes on, or is called by its timer.
Connecting == \/ TimerFires \/ Opens \/ ChannelCreated \/ AttemptFails
              \/ CleanedUp \/ DelayOver

Closing == stage # "unused" /\ Close

ConnectionNext == \/ FirstConnect \/ Connecting \/ Lost
                  \/ Closing \/ ChannelClosed \/ ConnectionClosed \/ Gone

ConnectionSpec == ConnectionInit /\ [][ConnectionNext]_connectionVars

-----------------------------------------------------------------------------
(* Properties. *)

ConnectionTypeOK ==
    /\ connection \in {"null", "open", "closed"}
    /\ ownChannel \in {"null", "open", "closed"}
    /\ connected \in BOOLEAN /\ isClosing \in BOOLEAN
    /\ wasClosing \in BOOLEAN /\ gaveUp \in BOOLEAN
    /\ stage \in {"unused", "idle", "open", "channel", "cleanup", "delay"}
    /\ attempt \in 0 .. ConnectMaxAttempts
    /\ attempt > 0 <=> stage \notin {"unused", "idle"}
    /\ reconnects \in Nat
    /\ closer \in {"idle", "channel", "connection", "done", "failed"}

\* A loss is answered by one reconnect: a process never runs two connect()
\* side by side, and none while it has a connection, or this.connection would
\* be overwritten and a connection left open that nobody can close.
OneConnect ==
    /\ reconnects <= 1
    /\ reconnects = 1 => stage = "idle" /\ connection # "open"
    /\ connection = "open" => stage \in {"idle", "channel", "cleanup"}

\* isConnected(), which /health reports, is never true without a connection,
\* whatever ended it: a loss, a failed attempt or close().
ConnectedIsLive == connected => connection = "open"

\* Unless it is being closed, an object without a connection is getting one,
\* or has used up all its attempts: the flag that closePartialConnection sets
\* never makes it stop early.
NeverAbandoned ==
    stage = "idle" /\ connection # "open" /\ closer = "idle" => reconnects > 0 \/ gaveUp

=============================================================================
