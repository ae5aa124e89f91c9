----------------------------- MODULE HttpClient -----------------------------
(***************************************************************************)
(* One HttpClient with its retries and the circuit breaker (opossum) they  *)
(* are wrapped in, shared by all calls of a process to one service.        *)
(*                                                                         *)
(* The breaker counts calls and failed calls over a rolling window.  When  *)
(* a call fails and the failure rate is too high it opens, refuses calls   *)
(* until its reset timeout, then is half-open: it admits one trial call,   *)
(* closes at the next call that succeeds and opens at the next that fails. *)
(* Calls admitted earlier go on whatever the breaker does meanwhile.       *)
(***************************************************************************)
EXTENDS Integers

CONSTANTS
    Callers,        \* the calls that may be under way at the same time
    MaxRetries,     \* HttpClientOptions.maxRetries
    ErrorThreshold, \* errorThresholdPercentage of the breaker
    Conditions,     \* the conditions the service may be in, see below
    MaxFires        \* bound: calls the window counts before it moves on

\* The service answers, answers with a 4xx, or gives no answer or a 5xx.
AllConditions == {"up", "rejecting", "down"}

ASSUME HttpClientAssumption ==
    /\ MaxRetries \in Nat
    /\ ErrorThreshold \in Nat
    /\ Conditions \subseteq AllConditions /\ "up" \in Conditions
    /\ MaxFires \in Nat \ {0}

VARIABLES
    service,        \* the condition the service is in
    phase,          \* of each call: "idle", "sent" or "backoff"
    tries,          \* executeWithRetry: attempts that failed so far
    outcome,        \* how the last call ended, "none" before
    breaker,        \* "closed", "open" or "halfOpen"
    pendingClose,   \* the half-open breaker still has to admit its trial call
    fires,          \* calls in the window, refused ones included
    failures        \* failed calls in the window

callState    == <<phase, tries, outcome>>
breakerState == <<breaker, pendingClose>>
window       == <<fires, failures>>
vars == <<service, callState, breakerState, window>>

-----------------------------------------------------------------------------
Init == /\ service \in Conditions
        /\ phase = [c \in Callers |-> "idle"]
        /\ tries = [c \in Callers |-> 0]
        /\ outcome = [c \in Callers |-> "none"]
        /\ breaker = "closed" /\ pendingClose = FALSE
        /\ fires = 0 /\ failures = 0

Ends(c, result) == /\ phase' = [phase EXCEPT ![c] = "idle"]
                   /\ outcome' = [outcome EXCEPT ![c] = result]
                   /\ UNCHANGED tries

\* The breaker learns that a call succeeded.
Succeeded == /\ breaker' = IF breaker = "halfOpen" THEN "closed" ELSE breaker
             /\ pendingClose' = (pendingClose /\ breaker # "halfOpen")
             /\ UNCHANGED window

TooManyFailures == (failures + 1) * 100 > ErrorThreshold * fires

\* The breaker learns that a call failed.
Failed == /\ failures' = failures + 1
          /\ IF breaker = "halfOpen" \/ TooManyFailures
             THEN breaker' = "open" /\ pendingClose' = FALSE
             ELSE UNCHANGED breakerState
          /\ UNCHANGED fires

\* breaker.fire admits the call ...
Admit(c) ==
    /\ phase[c] = "idle" /\ fires < MaxFires
    /\ breaker = "closed" \/ pendingClose
    /\ fires' = fires + 1
    /\ pendingClose' = FALSE
    /\ phase' = [phase EXCEPT ![c] = "sent"]
    /\ tries' = [tries EXCEPT ![c] = 0]
    /\ UNCHANGED <<service, outcome, breaker, failures>>

\* ... or refuses it with "Breaker is open".
Refuse(c) ==
    /\ phase[c] = "idle" /\ fires < MaxFires
    /\ breaker # "closed" /\ ~pendingClose
    /\ fires' = fires + 1
    /\ outcome' = [outcome EXCEPT ![c] = "error"]
    /\ UNCHANGED <<service, phase, tries, breakerState, failures>>

Answered(c) ==
    /\ phase[c] = "sent" /\ service = "up"
    /\ Ends(c, "answer") /\ Succeeded
    /\ UNCHANGED service

\* Bug: a 4xx is an error of the caller, so the breaker is not told.
RejectedBug(c) ==
    /\ phase[c] = "sent" /\ service = "rejecting"
    /\ Ends(c, "error")
    /\ UNCHANGED <<service, breakerState, window>>

\* A 4xx ends the call at once, for the breaker with a failure.
Rejected(c) ==
    /\ phase[c] = "sent" /\ service = "rejecting"
    /\ Ends(c, "error") /\ Failed
    /\ UNCHANGED service

\* Bug: the last attempt is not recognised as such.
NoAnswerBug(c) ==
    /\ phase[c] = "sent" /\ service = "down" /\ tries[c] <= MaxRetries
    /\ phase' = [phase EXCEPT ![c] = "backoff"]
    /\ tries' = [tries EXCEPT ![c] = @ + 1]
    /\ UNCHANGED <<service, outcome, breakerState, window>>

NoAnswer(c) ==
    /\ phase[c] = "sent" /\ service = "down" /\ tries[c] < MaxRetries
    /\ phase' = [phase EXCEPT ![c] = "backoff"]
    /\ tries' = [tries EXCEPT ![c] = @ + 1]
    /\ UNCHANGED <<service, outcome, breakerState, window>>

\* Bug: once the breaker is open a retry is held back, until a trial succeeds.
ResendBug(c) ==
    /\ phase[c] = "backoff" /\ breaker = "closed"
    /\ phase' = [phase EXCEPT ![c] = "sent"]
    /\ UNCHANGED <<service, tries, outcome, breakerState, window>>

\* After the backoff; the breaker is not asked again.
Resend(c) ==
    /\ phase[c] = "backoff"
    /\ phase' = [phase EXCEPT ![c] = "sent"]
    /\ UNCHANGED <<service, tries, outcome, breakerState, window>>

\* No answer to the last attempt.
GiveUp(c) ==
    /\ phase[c] = "sent" /\ service = "down" /\ tries[c] = MaxRetries
    /\ Ends(c, "error") /\ Failed
    /\ UNCHANGED service

\* The reset timeout of the open breaker.
HalfOpen == /\ breaker = "open"
            /\ breaker' = "halfOpen" /\ pendingClose' = TRUE
            /\ UNCHANGED <<service, callState, window>>

\* The window moves on.  It is one bucket here where opossum has ten; calls
\* under way stay, so their failures may meet a window without their fires.
Forget == /\ fires > 0 \/ failures > 0
          /\ fires' = 0 /\ failures' = 0
          /\ UNCHANGED <<service, callState, breakerState>>

ServiceChanges == /\ service' \in Conditions
                  /\ UNCHANGED <<callState, breakerState, window>>

Fire(c)     == Admit(c) \/ Refuse(c)
Progress(c) == Answered(c) \/ Rejected(c) \/ NoAnswer(c) \/ Resend(c) \/ GiveUp(c)

Next == \/ \E c \in Callers : Fire(c) \/ Progress(c)
        \/ HalfOpen \/ Forget \/ ServiceChanges

Spec == Init /\ [][Next]_vars

\* Attempts end by axios' timeout, backoff and reset timeout by their timers,
\* the window moves on with time.  The last conjunct is no duty of the client
\* but its use: calls keep coming.
Fairness == /\ \A c \in Callers : WF_vars(Progress(c))
            /\ WF_vars(HalfOpen) /\ WF_vars(Forget)
            /\ \A c \in Callers : WF_vars(Fire(c))

FairSpec == Spec /\ Fairness

-----------------------------------------------------------------------------
(* Properties. *)

TypeOK ==
    /\ service \in Conditions
    /\ phase \in [Callers -> {"idle", "sent", "backoff"}]
    /\ tries \in [Callers -> 0 .. MaxRetries]
    /\ \A c \in Callers : phase[c] = "backoff" => tries[c] > 0
    /\ outcome \in [Callers -> {"none", "answer", "error"}]
    /\ breaker \in {"closed", "open", "halfOpen"}
    /\ pendingClose \in BOOLEAN
    /\ pendingClose => breaker = "halfOpen"
    /\ fires \in 0 .. MaxFires /\ failures \in Nat

UnderWay(c) == phase[c] # "idle"

\* A half-open breaker that admits nobody waits for a call that is really under
\* way and will close or open it: it can never be left refusing all calls.
TrialUnderWay ==
    breaker = "halfOpen" /\ ~pendingClose => \E c \in Callers : UnderWay(c)

\* Whoever calls gets an answer or an error, retries and all.
CallsEnd == \A c \in Callers : UnderWay(c) ~> ~UnderWay(c)

\* "Allows a trial request through to check recovery": once the service is up
\* for good and calls keep coming, the breaker is closed for good, although
\* calls from before the outage may still report failures to it.
Recovers == <>[](service = "up") => <>[](breaker = "closed")

\* "If a downstream service is genuinely down": a service that answers every
\* request, if only with a 4xx, is never cut off.
AnsweringServiceIsReached == "down" \notin Conditions => breaker = "closed"

\* What Checkout and PaymentRetry assume of a call.
Call == INSTANCE HttpCall WITH
    underWay <- [c \in Callers |-> UnderWay(c)], attempts <- tries

MakesCalls == Call!Spec

=============================================================================
