------------------------- MODULE TransactionHistory -------------------------
(***************************************************************************)
(* What the payment service and the transaction worker promise together:   *)
(* no payment is accepted before its transaction is in safe custody, which *)
(* ends only in the history or with an operator (the dead-letter queue),   *)
(* and no transaction enters the history twice.                            *)
(***************************************************************************)
EXTENDS Naturals

CONSTANT Payments

VARIABLES
    custody,        \* of each transaction: "none", "held", "released"
    accepted,       \* the payments reported as accepted
    records,        \* of each transaction: its records in the history
    deadLetters     \* the transactions left to an operator

historyVars == <<custody, accepted, records, deadLetters>>

Init == /\ custody = [p \in Payments |-> "none"]
        /\ accepted = {}
        /\ records = [p \in Payments |-> 0]
        /\ deadLetters = {}

TakeOn(p) == /\ custody[p] = "none"
             /\ custody' = [custody EXCEPT ![p] = "held"]
             /\ UNCHANGED <<accepted, records, deadLetters>>

Accept(p) == /\ custody[p] # "none"
             /\ accepted' = accepted \union {p}
             /\ UNCHANGED <<custody, records, deadLetters>>

\* A stray write may record what was released to an operator meanwhile.
Record(p) == /\ custody[p] # "none" /\ records[p] = 0
             /\ records' = [records EXCEPT ![p] = 1]
             /\ UNCHANGED <<custody, accepted, deadLetters>>

Release(p) == /\ custody[p] = "held" /\ records[p] = 1
              /\ custody' = [custody EXCEPT ![p] = "released"]
              /\ UNCHANGED <<accepted, records, deadLetters>>

HandOver(p) == /\ custody[p] = "held"
               /\ custody' = [custody EXCEPT ![p] = "released"]
               /\ deadLetters' = deadLetters \union {p}
               /\ UNCHANGED <<accepted, records>>

Next == \E p \in Payments :
            TakeOn(p) \/ Accept(p) \/ Record(p) \/ Release(p) \/ HandOver(p)

Spec == Init /\ [][Next]_historyVars

=============================================================================
