--------------------------- MODULE MCTransactions ---------------------------
(* TransactionFlow on small instances. *)
EXTENDS TransactionFlow, TLC

CONSTANT p1

=============================================================================
