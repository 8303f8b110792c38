--------------------------- MODULE PaymentPromise ---------------------------
(***************************************************************************)
(* What the payment system promises a buyer, seen from outside: the money  *)
(* handed to the provider buys one delivery, never without a matching      *)
(* payment and never twice, and an order is shown as completed only after  *)
(* the delivery.                                                           *)
(***************************************************************************)
EXTENDS Naturals

CONSTANT Orders

VARIABLES
    paid,       \* "no", or whether the payment matches the order
    delivered,  \* how many times the goods were delivered
    completed   \* orders shown as completed, or as refunded later

Init ==
    /\ paid = [o \in Orders |-> "no"]
    /\ delivered = [o \in Orders |-> 0]
    /\ completed = {}

Pay(o) ==
    /\ paid[o] = "no"
    /\ \E p \in {"match", "mismatch"} : paid' = [paid EXCEPT ![o] = p]
    /\ UNCHANGED <<delivered, completed>>

Deliver(o) ==
    /\ paid[o] = "match" /\ delivered[o] = 0
    /\ delivered' = [delivered EXCEPT ![o] = 1]
    /\ UNCHANGED <<paid, completed>>

Complete(o) ==
    /\ delivered[o] = 1 /\ o \notin completed
    /\ completed' = completed \union {o}
    /\ UNCHANGED <<paid, delivered>>

Next == \E o \in Orders : Pay(o) \/ Deliver(o) \/ Complete(o)

Spec == Init /\ [][Next]_<<paid, delivered, completed>>
=============================================================================
