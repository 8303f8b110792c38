------------------------- MODULE BatchImagePromise -------------------------
(***************************************************************************)
(* What the batch image service promises a user, seen from outside: a job  *)
(* is sent to the provider only against a hold, the hold is not given back *)
(* while the provider works, one charge is made and it is the price of the *)
(* results, a job is delivered only after its charge, and a job that has   *)
(* ended stays so.                                                         *)
(***************************************************************************)
EXTENDS Naturals

CONSTANTS Jobs, Hold, Costs

VARIABLES
    stage,      \* "none", "unsent", "sent", "settling", "delivered" or "ended"
    held,       \* jobs whose hold was taken
    givenBack,  \* jobs whose hold was given back
    settled,    \* jobs that were charged
    price,      \* per job: price of its results
    charge      \* per job: amount of the charge

Init ==
    /\ stage = [j \in Jobs |-> "none"]
    /\ held = {} /\ givenBack = {} /\ settled = {}
    /\ price = [j \in Jobs |-> 0]
    /\ charge = [j \in Jobs |-> 0]

Move(j, from, to) ==
    /\ stage[j] \in from /\ stage' = [stage EXCEPT ![j] = to]
    /\ UNCHANGED <<held, givenBack, settled, price, charge>>

Open(j) == Move(j, {"none"}, "unsent")

Take(j) ==
    /\ stage[j] \in {"unsent", "ended"} /\ j \notin held
    /\ held' = held \union {j}
    /\ UNCHANGED <<stage, givenBack, settled, price, charge>>

Send(j) == j \in held \ givenBack /\ Move(j, {"unsent"}, "sent")

Results(j) ==
    /\ stage[j] = "sent"
    /\ \E n \in Costs : price' = [price EXCEPT ![j] = n]
    /\ UNCHANGED <<stage, held, givenBack, settled, charge>>

Settle(j) == Move(j, {"sent"}, "settling")

\* A settlement that was given up may have been overtaken by another one.
Charge(j) ==
    /\ stage[j] \in {"settling", "ended"} /\ j \in held \ settled /\ price[j] <= Hold
    /\ settled' = settled \union {j}
    /\ charge' = [charge EXCEPT ![j] = price[j]]
    /\ UNCHANGED <<stage, held, givenBack, price>>

Deliver(j) == j \in settled /\ Move(j, {"settling"}, "delivered")

End(j) == Move(j, {"unsent", "sent", "settling"}, "ended")

\* The hold of a job that was not sent, has failed, or whose settlement failed
\* too often
GiveBack(j) ==
    /\ stage[j] # "sent" /\ j \in held \ givenBack
    /\ givenBack' = givenBack \union {j}
    /\ UNCHANGED <<stage, held, settled, price, charge>>

Next ==
    \E j \in Jobs :
        \/ Open(j) \/ Take(j) \/ Send(j) \/ Results(j) \/ Settle(j)
        \/ Charge(j) \/ Deliver(j) \/ End(j) \/ GiveBack(j)

Spec == Init /\ [][Next]_<<stage, held, givenBack, settled, price, charge>>
=============================================================================
