--------------------------- MODULE RefundPromise ---------------------------
(***************************************************************************)
(* What the refund of an order promises, seen from outside by the user and *)
(* the merchant: at most one payout is under way or made; the user is      *)
(* charged before the payout is requested or when it is confirmed, never   *)
(* more than the order; money is given back only when there is no payout;  *)
(* the order is shown as refunded only after it, and as refundable only    *)
(* without one.                                                            *)
(***************************************************************************)
EXTENDS Naturals

CONSTANTS Orders, Amount

VARIABLES
    view,       \* "open", "working", "pending" or "refunded"
    payout,     \* the gateway's: "none", "pending", "success" or "failed"
    charge      \* taken from the user and not given back

NoPayout == {"none", "failed"}

\* An order may come with a refund under way, charged to the user or not.
Init ==
    /\ view \in [Orders -> {"open", "pending"}]
    /\ payout = [o \in Orders |-> IF view[o] = "open" THEN "none" ELSE "pending"]
    /\ charge \in [Orders -> Nat]
    /\ \A o \in Orders : charge[o] = 0 \/ (view[o] = "pending" /\ charge[o] = Amount[o])

Move(o, from, to) == view[o] \in from /\ view' = [view EXCEPT ![o] = to]
Pays(o, s) == payout' = [payout EXCEPT ![o] = s]
MoreCharged(o) == \E n \in charge[o]..Amount[o] : charge' = [charge EXCEPT ![o] = n]
LessCharged(o) == \E n \in 0..charge[o] : charge' = [charge EXCEPT ![o] = n]

Begin(o) == Move(o, {"open"}, "working") /\ UNCHANGED <<payout, charge>>

Charge(o) ==
    /\ view[o] = "working" /\ payout[o] \in NoPayout
    /\ MoreCharged(o)
    /\ UNCHANGED <<view, payout>>

Request(o) ==
    /\ view[o] = "working" /\ payout[o] \in NoPayout
    /\ \E s \in {"pending", "success", "failed"} : Pays(o, s)
    /\ UNCHANGED <<view, charge>>

\* A payout under way ends whatever the order is shown as.
Settle(o) ==
    /\ payout[o] = "pending"
    /\ \E s \in {"success", "failed"} : Pays(o, s)
    /\ UNCHANGED <<view, charge>>

Return(o) ==
    /\ view[o] = "working" /\ payout[o] \in NoPayout
    /\ LessCharged(o)
    /\ UNCHANGED <<view, payout>>

Pend(o) == payout[o] # "none" /\ Move(o, {"working"}, "pending") /\ UNCHANGED <<payout, charge>>

\* A refund that an older release left pending is charged when it is confirmed.
Confirm(o) ==
    /\ payout[o] = "success" /\ Move(o, {"working", "pending"}, "refunded")
    /\ MoreCharged(o)
    /\ UNCHANGED payout

Withdraw(o) ==
    /\ payout[o] \in NoPayout /\ Move(o, {"working", "pending"}, "open")
    /\ LessCharged(o)
    /\ UNCHANGED payout

Next ==
    \E o \in Orders :
        \/ Begin(o) \/ Charge(o) \/ Request(o) \/ Settle(o) \/ Return(o)
        \/ Pend(o) \/ Confirm(o) \/ Withdraw(o)

Spec == Init /\ [][Next]_<<view, payout, charge>>
=============================================================================
