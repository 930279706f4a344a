-------------------------- MODULE DepositLifecycle --------------------------
(***************************************************************************)
(* What a deposit promises its app, without tables, workers or webhooks:   *)
(* the status machine of the deposit lifecycle, and the settlement orders  *)
(* (PaymentFactory.execute) it gives.  An order is given on entering       *)
(* `paid` and may be given again while the deposit is `paid`; every order  *)
(* is a new one, and no other status gives any.                            *)
(***************************************************************************)
EXTENDS Naturals

VARIABLES
    status,   \* the deposit's status
    orders    \* the settlement orders given so far

lifecycleVars == <<status, orders>>

Unpaid == {"pending", "partial_paid"}

GiveOrder == \E k \in orders' : k \notin orders /\ orders' = orders \cup {k}

Init == status = "pending" /\ orders = {}

Detect  == status \in Unpaid /\ status' = "partial_paid" /\ UNCHANGED orders
Ready   == status \in Unpaid /\ status' = "paid" /\ GiveOrder
Reorder == status = "paid"   /\ status' = "paid" /\ GiveOrder
Settle  == status = "paid"   /\ status' = "settled" /\ UNCHANGED orders
Fail    == status \in Unpaid \cup {"paid"} /\ status' = "failed" /\ UNCHANGED orders
Expire  == status \in Unpaid /\ status' = "expired" /\ UNCHANGED orders
Retry   == status = "failed" /\ status' = "paid" /\ GiveOrder

Next == Detect \/ Ready \/ Reorder \/ Settle \/ Fail \/ Expire \/ Retry

Spec == Init /\ [][Next]_lifecycleVars
=============================================================================
