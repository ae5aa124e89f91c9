--------------------------- MODULE OrderLifecycle ---------------------------
(***************************************************************************)
(* What a client who polls GET /orders/:orderId/status may see of an       *)
(* order: it is created with its stock reserved, then waits for its        *)
(* payment, then is confirmed, which takes a payment, or failed, and that  *)
(* is final.                                                               *)
(***************************************************************************)
CONSTANT Orders     \* the orders

VARIABLES
    status,         \* what GET shows, "absent" for a 404
    paid            \* whether a payment for the order was accepted

Init == /\ status = [o \in Orders |-> "absent"]
        /\ paid = [o \in Orders |-> FALSE]

Moves(o, from, to) == /\ status[o] = from
                      /\ status' = [status EXCEPT ![o] = to]
                      /\ UNCHANGED paid

Create(o)  == Moves(o, "absent", "stock_reserved")
Await(o)   == Moves(o, "stock_reserved", "payment_pending")
Confirm(o) == paid[o] /\ Moves(o, "payment_pending", "confirmed")
Fail(o)    == Moves(o, "payment_pending", "failed")

\* A payment may be accepted long after the order was given up.
Pay(o) == /\ status[o] \notin {"absent", "stock_reserved"}
          /\ paid' = [paid EXCEPT ![o] = TRUE]
          /\ UNCHANGED status

Next == \E o \in Orders : Create(o) \/ Await(o) \/ Confirm(o) \/ Fail(o) \/ Pay(o)

Spec == Init /\ [][Next]_<<status, paid>>

=============================================================================
