----------------------------- MODULE MCCheckout -----------------------------
(* Checkout on small instances. *)
EXTENDS CheckoutInv, TLC

CONSTANTS r1, r2, r3, r4, p1, key

\* One unit for everybody.
MCProductOf == [r \in Requests |-> p1]
MCInitial   == [p \in Products |-> 1]

\* r1 and r2 are one client's try and retry, r3 and r4 are strangers who both
\* send an empty key.
MCKeyOf == [r \in Requests |-> IF r \in {r1, r2} THEN key ELSE EmptyKey]

=============================================================================
