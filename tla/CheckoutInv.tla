----------------------------- MODULE CheckoutInv -----------------------------
(***************************************************************************)
(* The inductive invariant behind the safety properties of Checkout, in    *)
(* named parts.  CheckoutProofs proves it; the runs check it.              *)
(***************************************************************************)
EXTENDS Checkout

BeforeCreate == {"arrive", "validate", "reserve", "create"}
Compensating == {"release", "relookup"}
Settling     == {"pay", "publish", "confirm"}

MayRunLate(op, r, n) == <<op, r, n>> \in late

\* The status of an order says how far its request has come.
OrderInvOf(r) ==
    /\ pc[r] \in BeforeCreate => ~Ordered(r)
    /\ pc[r] = "mark" => orderStatus[r] = "stock_reserved"
    /\ pc[r] \in Settling => orderStatus[r] = "payment_pending"
    /\ pc[r] \in Compensating => orderStatus[r] \in {"absent", "stock_reserved"}
    /\ pc[r] = "confirm" => charged[r] > 0
    /\ charged[r] > 0 => Ordered(r)
    /\ \A n \in Attempts : MayRunLate("pay", r, n) => Ordered(r)
    /\ orderStatus[r] = "confirmed" => charged[r] > 0
    /\ orderStatus[r] = "confirmed" <=> paymentInitiated[r]

OrderInv == \A r \in Requests : OrderInvOf(r)

\* The unique index admits one order per key.
IndexInvOf(r, s) ==
    KeyOf[r] = KeyOf[s] /\ KeyOf[r] # NoKey /\ Ordered(r) /\ Ordered(s) => r = s

IndexInv == \A r, s \in Requests : IndexInvOf(r, s)

\* A request is answered with its own order or with the one of its key.
ReplyInvOf(r) ==
    /\ duplicate[r] => HasKey(r)
    /\ pc[r] = "relookup" => duplicate[r]
    /\ pc[r] # "done" => reply[r] = "none"
    /\ reply[r] \in Requests =>
          /\ Ordered(reply[r])
          /\ reply[r] = r \/ (HasKey(r) /\ KeyOf[reply[r]] = KeyOf[r])

ReplyInv == \A r \in Requests : ReplyInvOf(r)

\* An attempt is executed at most once, and never before it was sent.
AttemptInvOf(r) ==
    \A n \in Attempts :
        /\ MayRunLate("reserve", r, n) \/ <<r, n>> \in taken =>
              /\ pc[r] \notin {"arrive", "validate"}
              /\ pc[r] = "reserve" => n < tries[r]
        /\ MayRunLate("reserve", r, n) => <<r, n>> \notin taken
        /\ MayRunLate("release", r, n) \/ <<r, n>> \in returned =>
              /\ pc[r] \in {"release", "relookup", "done"}
              /\ pc[r] = "release" => n < tries[r]
        /\ MayRunLate("release", r, n) => <<r, n>> \notin returned

AttemptInv == \A r \in Requests : AttemptInvOf(r)

Of(p, attempts) == {a \in attempts : ProductOf[a[1]] = p}

\* The units of a product are in stock or taken and not given back.
StockInvOf(p) ==
    stock[p] + Cardinality(Of(p, taken)) = Initial[p] + Cardinality(Of(p, returned))

StockInv == \A p \in Products : StockInvOf(p)

\* A request past its reservation holds a unit.
HeldInvOf(r) ==
    pc[r] \notin {"arrive", "validate", "reserve", "done"} \/ Ordered(r)
        => \E n \in Attempts : <<r, n>> \in taken

HeldInv == \A r \in Requests : HeldInvOf(r)

\* An order is not compensated, when an insert reported as failed did fail.
BackedInvOf(r) ==
    /\ pc[r] \in Compensating => ~Ordered(r)
    /\ \A n \in Attempts :
           MayRunLate("release", r, n) \/ <<r, n>> \in returned =>
              /\ ~Ordered(r)
              /\ \E m \in Attempts : <<r, m>> \in taken

BackedInv == \A r \in Requests : BackedInvOf(r)

\* A request gives back at most once, when a release without an answer did
\* not happen.
ReleaseInvOf(r) ==
    \A n \in Attempts :
        MayRunLate("release", r, n) \/ <<r, n>> \in returned =>
            /\ pc[r] # "release"
            /\ \A m \in Attempts :
                   MayRunLate("release", r, m) \/ <<r, m>> \in returned => m = n

ReleaseInv == \A r \in Requests : ReleaseInvOf(r)

\* A request that has not reserved, or was answered with 409 or 502, has nothing
\* and is getting nothing, when a reservation without an answer did not happen.
RejectInvOf(r) ==
    pc[r] \in {"arrive", "validate", "reserve"} \/ reply[r] \in {"conflict", "upstream"} =>
        /\ ~Ordered(r)
        /\ \A n \in Attempts : <<r, n>> \notin taken /\ ~MayRunLate("reserve", r, n)

RejectInv == \A r \in Requests : RejectInvOf(r)

\* The inductive invariant of Checkout: why every property of it holds.
IInv ==
    /\ TypeOK /\ OrderInv /\ IndexInv /\ ReplyInv
    /\ AttemptInv /\ StockInv /\ HeldInv
    /\ "insert" \notin Faults => BackedInv
    /\ "release" \notin Faults => ReleaseInv
    /\ "reserve" \notin Faults => RejectInv

=============================================================================
