--------------------------- MODULE MCPaymentRetry ---------------------------
(* PaymentRetry on small instances. *)
EXTENDS PaymentRetry, TLC

CONSTANTS o1, o2

=============================================================================
