------------------------------ MODULE HttpCall ------------------------------
(***************************************************************************)
(* What a caller of HttpClient may rely on, and what Checkout and          *)
(* PaymentRetry assume of their calls: a call is refused, or it makes up   *)
(* to MaxRetries + 1 attempts one after the other, and it ends with an     *)
(* answer or with an UpstreamServiceError.                                 *)
(***************************************************************************)
EXTENDS Naturals

CONSTANTS
    Callers,        \* the calls that may be under way at the same time
    MaxRetries      \* HttpClientOptions.maxRetries

VARIABLES
    underWay,       \* whether the call is
    attempts,       \* attempts of the call that failed so far
    outcome         \* "answer" or "error" of the last call, "none" before

callVars == <<underWay, attempts, outcome>>

Init == /\ underWay = [c \in Callers |-> FALSE]
        /\ attempts = [c \in Callers |-> 0]
        /\ outcome = [c \in Callers |-> "none"]

Refuse(c) == /\ ~underWay[c]
             /\ outcome' = [outcome EXCEPT ![c] = "error"]
             /\ UNCHANGED <<underWay, attempts>>

Begin(c) == /\ ~underWay[c]
            /\ underWay' = [underWay EXCEPT ![c] = TRUE]
            /\ attempts' = [attempts EXCEPT ![c] = 0]
            /\ UNCHANGED outcome

Retry(c) == /\ underWay[c] /\ attempts[c] < MaxRetries
            /\ attempts' = [attempts EXCEPT ![c] = @ + 1]
            /\ UNCHANGED <<underWay, outcome>>

End(c, result) == /\ underWay[c]
                  /\ underWay' = [underWay EXCEPT ![c] = FALSE]
                  /\ outcome' = [outcome EXCEPT ![c] = result]
                  /\ UNCHANGED attempts

Next == \E c \in Callers :
            Refuse(c) \/ Begin(c) \/ Retry(c) \/ \E result \in {"answer", "error"} : End(c, result)

Spec == Init /\ [][Next]_callVars

=============================================================================
