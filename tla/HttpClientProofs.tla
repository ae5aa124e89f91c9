-------------------------- MODULE HttpClientProofs --------------------------
(* Theorems of HttpClient. *)
EXTENDS HttpClient, TLAPS

LEMMA Bounds == MaxRetries \in Nat /\ MaxFires \in Nat /\ ErrorThreshold \in Nat
  BY HttpClientAssumption

(***************************************************************************)
(* Types.                                                                  *)
(***************************************************************************)

\* What a step leaves of the breaker's types when it learns how a call ended.
LEMMA BreakerType ==
  ASSUME TypeOK, Succeeded \/ Failed
  PROVE  /\ breaker' \in {"closed", "open", "halfOpen"} /\ pendingClose' \in BOOLEAN
         /\ pendingClose' => breaker' = "halfOpen"
         /\ fires' \in 0 .. MaxFires /\ failures' \in Nat
<1>1. CASE Succeeded
  BY <1>1 DEF Succeeded, TypeOK, window
<1>2. CASE Failed
  <2>1. fires' \in 0 .. MaxFires /\ failures' \in Nat
    BY <1>2, Bounds DEF Failed, TypeOK
  <2>2. (breaker' = "open" /\ pendingClose' = FALSE) \/ UNCHANGED <<breaker, pendingClose>>
    BY <1>2 DEF Failed, breakerState
  <2>3. CASE breaker' = "open" /\ pendingClose' = FALSE
    BY <2>1, <2>3
  <2>4. CASE UNCHANGED <<breaker, pendingClose>>
    BY <2>1, <2>4 DEF TypeOK
  <2> QED
    BY <2>2, <2>3, <2>4
<1> QED
  BY <1>1, <1>2

LEMMA InitType == Init => TypeOK
<1>1. 0 \in 0 .. MaxRetries /\ 0 \in 0 .. MaxFires /\ 0 \in Nat
  BY Bounds
<1> QED
  BY <1>1 DEF Init, TypeOK

LEMMA TypeStep ==
  ASSUME TypeOK, [Next]_vars
  PROVE  TypeOK'
<1> USE Bounds DEF callState, breakerState, window
<1>1. ASSUME NEW c \in Callers, Admit(c) PROVE TypeOK'
  <2>1. fires' \in 0 .. MaxFires
    BY <1>1 DEF Admit, TypeOK
  <2>2. 0 \in 0 .. MaxRetries /\ tries' \in [Callers -> 0 .. MaxRetries]
    BY <1>1 DEF Admit, TypeOK
  <2>3. phase' \in [Callers -> {"idle", "sent", "backoff"}]
    BY <1>1 DEF Admit, TypeOK
  <2>4. \A d \in Callers : phase'[d] = "backoff" => tries'[d] > 0
    BY <1>1 DEF Admit, TypeOK
  <2> QED
    BY <1>1, <2>1, <2>2, <2>3, <2>4, Zenon DEF Admit, TypeOK
<1>2. ASSUME NEW c \in Callers, Refuse(c) PROVE TypeOK'
  BY <1>2 DEF Refuse, TypeOK
<1>3. ASSUME NEW c \in Callers, Answered(c) PROVE TypeOK'
  BY <1>3, BreakerType DEF Answered, Ends, TypeOK
<1>4. ASSUME NEW c \in Callers, Rejected(c) \/ GiveUp(c) PROVE TypeOK'
  BY <1>4, BreakerType DEF Rejected, GiveUp, Ends, TypeOK
<1>5. ASSUME NEW c \in Callers, NoAnswer(c) PROVE TypeOK'
  <2>1. tries[c] + 1 \in 0 .. MaxRetries /\ tries[c] + 1 > 0
    BY <1>5 DEF NoAnswer, TypeOK
  <2> QED
    BY <1>5, <2>1 DEF NoAnswer, TypeOK
<1>6. ASSUME NEW c \in Callers, Resend(c) PROVE TypeOK'
  BY <1>6 DEF Resend, TypeOK
<1>7. CASE HalfOpen
  BY <1>7 DEF HalfOpen, TypeOK
<1>8. CASE Forget
  <2>1. 0 \in 0 .. MaxFires /\ 0 \in Nat
    OBVIOUS
  <2> QED
    BY <1>8, <2>1 DEF Forget, TypeOK
<1>9. CASE ServiceChanges
  BY <1>9 DEF ServiceChanges, TypeOK
<1>10. CASE UNCHANGED vars
  BY <1>10 DEF vars, TypeOK
<1> QED
  BY <1>1, <1>2, <1>3, <1>4, <1>5, <1>6, <1>7, <1>8, <1>9, <1>10 DEF Next, Fire, Progress

\* Every variable has its type; no call makes more than MaxRetries + 1 attempts.
THEOREM TypeCorrect == Spec => []TypeOK
<1> QED
  BY InitType, TypeStep, PTL DEF Spec

(***************************************************************************)
(* The half-open breaker.                                                  *)
(***************************************************************************)

\* When a call ends the breaker is not left half-open without a trial to come.
LEMMA EndedCall ==
  ASSUME TypeOK, Succeeded \/ Failed
  PROVE  breaker' # "halfOpen"
  BY DEF Succeeded, Failed, TypeOK, breakerState

LEMMA TrialStep ==
  ASSUME TypeOK, TrialUnderWay, [Next]_vars
  PROVE  TrialUnderWay'
<1> USE DEF callState, breakerState, window
<1>1. ASSUME NEW c \in Callers, Admit(c) PROVE TrialUnderWay'
  BY <1>1 DEF Admit, TrialUnderWay, UnderWay, TypeOK
<1>2. ASSUME NEW c \in Callers, Refuse(c) PROVE TrialUnderWay'
  BY <1>2 DEF Refuse, TrialUnderWay, UnderWay
<1>3. ASSUME NEW c \in Callers, Answered(c) \/ Rejected(c) \/ GiveUp(c) PROVE TrialUnderWay'
  BY <1>3, EndedCall DEF Answered, Rejected, GiveUp, TrialUnderWay
<1>4. ASSUME NEW c \in Callers, NoAnswer(c) \/ Resend(c) PROVE TrialUnderWay'
  <2>1. UNCHANGED <<breaker, pendingClose>>
    BY <1>4 DEF NoAnswer, Resend
  <2>2. \A d \in Callers : UnderWay(d) => UnderWay(d)'
    BY <1>4 DEF NoAnswer, Resend, UnderWay, TypeOK
  <2> QED
    BY <2>1, <2>2 DEF TrialUnderWay
<1>5. CASE HalfOpen \/ Forget \/ ServiceChanges \/ UNCHANGED vars
  BY <1>5 DEF HalfOpen, Forget, ServiceChanges, vars, TrialUnderWay, UnderWay
<1> QED
  BY <1>1, <1>2, <1>3, <1>4, <1>5 DEF Next, Fire, Progress

\* Whatever the service does and however many calls are under way, a half-open
\* breaker either has its trial call to admit or waits for one that is running.
THEOREM TrialIsUnderWay == Spec => []TrialUnderWay
<1>1. Init => TrialUnderWay
  BY DEF Init, TrialUnderWay
<1> QED
  BY <1>1, TrialStep, TypeCorrect, PTL DEF Spec

(***************************************************************************)
(* HttpClient implements HttpCall.                                         *)
(***************************************************************************)

Active == [c \in Callers |-> UnderWay(c)]

\* A call that enters or leaves a phase is the only one that does.
LEMMA ActiveExcept ==
  ASSUME TypeOK, NEW c \in Callers, NEW to \in {"idle", "sent", "backoff"},
         phase' = [phase EXCEPT ![c] = to]
  PROVE  Active' = [Active EXCEPT ![c] = (to # "idle")]
<1>1. \A d \in Callers : phase'[d] = IF d = c THEN to ELSE phase[d]
  BY DEF TypeOK
<1> QED
  BY <1>1 DEF Active, UnderWay

LEMMA ActiveSame ==
  ASSUME UNCHANGED phase
  PROVE  UNCHANGED Active
  BY DEF Active, UnderWay

LEMMA CallStep ==
  ASSUME TypeOK, [Next]_vars
  PROVE  [Call!Next]_(Call!callVars)
<1> USE DEF callState, breakerState, window
<1>0. Active = [c \in Callers |-> UnderWay(c)] /\ \A c \in Callers : Active[c] = UnderWay(c)
  BY DEF Active
<1>1. ASSUME NEW c \in Callers, Admit(c) PROVE Call!Begin(c)
  <2>1. Active' = [Active EXCEPT ![c] = TRUE]
    BY <1>1, ActiveExcept DEF Admit
  <2> QED
    BY <1>0, <1>1, <2>1 DEF Admit, Call!Begin, UnderWay, Active
<1>2. ASSUME NEW c \in Callers, Refuse(c) PROVE Call!Refuse(c)
  <2>1. UNCHANGED Active
    BY <1>2, ActiveSame DEF Refuse
  <2> QED
    BY <1>0, <1>2, <2>1 DEF Refuse, Call!Refuse, UnderWay, Active
<1>3. ASSUME NEW c \in Callers, Answered(c) PROVE Call!End(c, "answer")
  <2>1. Active' = [Active EXCEPT ![c] = FALSE]
    BY <1>3, ActiveExcept DEF Answered, Ends
  <2> QED
    BY <1>0, <1>3, <2>1 DEF Answered, Ends, Call!End, UnderWay, Active
<1>4. ASSUME NEW c \in Callers, Rejected(c) \/ GiveUp(c) PROVE Call!End(c, "error")
  <2>1. Active' = [Active EXCEPT ![c] = FALSE]
    BY <1>4, ActiveExcept DEF Rejected, GiveUp, Ends
  <2> QED
    BY <1>0, <1>4, <2>1 DEF Rejected, GiveUp, Ends, Call!End, UnderWay, Active
<1>5. ASSUME NEW c \in Callers, NoAnswer(c) PROVE Call!Retry(c)
  <2>1. Active' = [Active EXCEPT ![c] = TRUE] /\ Active[c] = TRUE
    BY <1>0, <1>5, ActiveExcept DEF NoAnswer, UnderWay
  <2>2. UNCHANGED Active
    BY <2>1 DEF Active
  <2> QED
    BY <1>0, <1>5, <2>2 DEF NoAnswer, Call!Retry, UnderWay, Active
<1>6. ASSUME NEW c \in Callers, Resend(c) PROVE UNCHANGED Call!callVars
  <2>1. Active' = [Active EXCEPT ![c] = TRUE] /\ Active[c] = TRUE
    BY <1>0, <1>6, ActiveExcept DEF Resend, UnderWay
  <2>2. UNCHANGED Active
    BY <2>1 DEF Active
  <2> QED
    BY <1>6, <2>2 DEF Resend, Call!callVars, Active
<1>7. CASE HalfOpen \/ Forget \/ ServiceChanges \/ UNCHANGED vars
  <2>1. UNCHANGED <<phase, tries, outcome>>
    BY <1>7 DEF HalfOpen, Forget, ServiceChanges, vars
  <2> QED
    BY <2>1, ActiveSame DEF Call!callVars, Active
<1> QED
  BY <1>1, <1>2, <1>3, <1>4, <1>5, <1>6, <1>7 DEF Next, Fire, Progress, Call!Next

\* Retries and breaker together still make calls as HttpCall describes them,
\* which is what the calls of Checkout and PaymentRetry are modelled on.
THEOREM ImplementsHttpCall == Spec => MakesCalls
<1>1. Init => Call!Init
  BY DEF Init, Call!Init, UnderWay
<1>2. TypeOK /\ [Next]_vars => [Call!Next]_(Call!callVars)
  BY CallStep
<1> QED
  BY <1>1, <1>2, TypeCorrect, PTL DEF Spec, MakesCalls, Call!Spec

=============================================================================
