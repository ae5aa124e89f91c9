------------------------------ MODULE Placement ------------------------------
(***************************************************************************)
(* What POST /orders promises, without saying how: a request sells at most *)
(* one unit of its product, while units are left; requests that name the   *)
(* same sale by an Idempotency-Key share one order; a request answered     *)
(* with an order got its own or the one of its key; a request answered     *)
(* with a rejection sold nothing and never will.                           *)
(***************************************************************************)
EXTENDS Integers, FiniteSets

CONSTANTS
    Requests,       \* the requests; a sale is named by the request it serves
    Products,       \* product ids
    ProductOf,      \* the product each request asks for
    KeyOf,          \* the key each request carries
    NoKey,          \* the key of a request without one
    Identifies,     \* the keys under which a client may ask again
    Initial         \* units of each product for sale

VARIABLES
    sold,           \* the requests that became an order
    answer          \* what each request was answered, "none" while it is open

Init == /\ sold = {}
        /\ answer = [r \in Requests |-> "none"]

Sell(r) ==
    /\ answer[r] = "none" /\ r \notin sold
    /\ KeyOf[r] # NoKey => \A o \in sold : KeyOf[o] # KeyOf[r]
    /\ Cardinality({o \in sold : ProductOf[o] = ProductOf[r]}) < Initial[ProductOf[r]]
    /\ sold' = sold \cup {r}
    /\ UNCHANGED answer

\* A client that gets an order gets the one of its request or of its key.
Accept(r, o) ==
    /\ answer[r] = "none" /\ o \in sold
    /\ o = r \/ (KeyOf[r] \in Identifies /\ KeyOf[o] = KeyOf[r])
    /\ answer' = [answer EXCEPT ![r] = o]
    /\ UNCHANGED sold

\* 409 and 502: the request sold nothing.
Reject(r, failure) ==
    /\ answer[r] = "none" /\ r \notin sold
    /\ answer' = [answer EXCEPT ![r] = failure]
    /\ UNCHANGED sold

\* A 500, or no answer at all: the client must ask again to find out.
LeaveInDoubt(doubtful, failure) ==
    /\ \A r \in doubtful : answer[r] = "none"
    /\ answer' = [r \in Requests |-> IF r \in doubtful THEN failure ELSE answer[r]]
    /\ UNCHANGED sold

Next ==
    \/ \E r \in Requests :
           \/ Sell(r)
           \/ \E o \in Requests : Accept(r, o)
           \/ Reject(r, "conflict") \/ Reject(r, "upstream")
           \/ LeaveInDoubt({r}, "internal")
    \/ \E doubtful \in SUBSET Requests : LeaveInDoubt(doubtful, "dropped")

Spec == Init /\ [][Next]_<<sold, answer>>

=============================================================================
