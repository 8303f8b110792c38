-------------------------- MODULE BatchImageLedger --------------------------
(***************************************************************************)
(* The balance of a user and the three operations of usage_billing_repo.go *)
(* that batch images use: hold the expected cost, capture the real one, or *)
(* give the hold back.  Each is one transaction that first claims its own  *)
(* request id in usage_billing_dedup: an operation that was claimed before *)
(* answers "ok" and changes nothing.                                       *)
(*                                                                         *)
(* Amounts are natural numbers.  A fingerprint is a function of the job    *)
(* for all three operations, so a conflict of fingerprints does not occur. *)
(* Jobs of cost zero hold nothing and do not touch the balance.            *)
(***************************************************************************)
EXTENDS Integers, BatchImageJob

CONSTANTS
    Hold,           \* HoldAmount of a job
    Costs           \* possible actual costs of a job

ASSUME LedgerAssumption == Hold \in Nat \ {0} /\ Costs \subseteq Nat

VARIABLES
    balance,        \* users.balance
    frozen,         \* users.frozen_balance
    claims,         \* per job: request ids in usage_billing_dedup
    charged,        \* history, per job: the amount captured
    returned,       \* history, per job: was the hold given back?
    spent           \* history: all captured amounts

ledger == <<balance, frozen, claims, charged, returned, spent>>

Operations == {"hold", "capture", "release"}

LedgerTypeOK ==
    /\ balance \in Nat
    /\ frozen \in Nat
    /\ claims \in [Jobs -> SUBSET Operations]
    /\ charged \in [Jobs -> Nat]
    /\ returned \in [Jobs -> BOOLEAN]
    /\ spent \in Nat

Claim(j, op) == claims' = [claims EXCEPT ![j] = @ \union {op}]

\* The hold of j is part of frozen_balance.
Outstanding(j) ==
    "hold" \in claims[j] /\ "capture" \notin claims[j] /\ ~returned[j]

\* Mutant: the balance is not compared with the hold.
ReserveBatchImageBalance_Overdraws(j, ok) ==
    \/ ok /\ "hold" \in claims[j] /\ UNCHANGED ledger
    \/ /\ ok /\ "hold" \notin claims[j]
       /\ balance' = balance - Hold
       /\ frozen' = frozen + Hold
       /\ Claim(j, "hold") /\ UNCHANGED <<charged, returned, spent>>

\* reserveUsageBillingBatchImageBalance
ReserveBatchImageBalance(j, ok) ==
    \/ ok /\ "hold" \in claims[j] /\ UNCHANGED ledger
    \/ /\ ok /\ "hold" \notin claims[j] /\ balance >= Hold
       /\ balance' = balance - Hold
       /\ frozen' = frozen + Hold
       /\ Claim(j, "hold") /\ UNCHANGED <<charged, returned, spent>>
    \/ ~ok /\ "hold" \notin claims[j] /\ balance < Hold /\ UNCHANGED ledger

\* Mutant: the rest of the hold is not given back.
CaptureBatchImageBalance_KeepsRest(j, amount, ok) ==
    \/ ok /\ "capture" \in claims[j] /\ UNCHANGED ledger
    \/ /\ ok /\ "capture" \notin claims[j] /\ amount <= Hold /\ frozen >= Hold
       /\ frozen' = frozen - Hold
       /\ charged' = [charged EXCEPT ![j] = amount]
       /\ spent' = spent + amount
       /\ Claim(j, "capture") /\ UNCHANGED <<balance, returned>>
    \/ ~ok /\ "capture" \notin claims[j] /\ (amount > Hold \/ frozen < Hold) /\ UNCHANGED ledger

\* captureUsageBillingBatchImageBalance
CaptureBatchImageBalance(j, amount, ok) ==
    \/ ok /\ "capture" \in claims[j] /\ UNCHANGED ledger
    \/ /\ ok /\ "capture" \notin claims[j] /\ amount <= Hold /\ frozen >= Hold
       /\ balance' = balance + (Hold - amount)
       /\ frozen' = frozen - Hold
       /\ charged' = [charged EXCEPT ![j] = amount]
       /\ spent' = spent + amount
       /\ Claim(j, "capture") /\ UNCHANGED returned
    \/ ~ok /\ "capture" \notin claims[j] /\ (amount > Hold \/ frozen < Hold) /\ UNCHANGED ledger

\* releaseUsageBillingBatchImageBalance.  If nothing was held, the request id is
\* claimed all the same.
ReleaseBatchImageBalance(j, ok) ==
    \/ ok /\ "release" \in claims[j] /\ UNCHANGED ledger
    \/ /\ ok /\ "release" \notin claims[j] /\ "hold" \notin claims[j]
       /\ Claim(j, "release") /\ UNCHANGED <<balance, frozen, charged, returned, spent>>
    \/ /\ ok /\ "release" \notin claims[j] /\ "hold" \in claims[j] /\ frozen >= Hold
       /\ balance' = balance + Hold
       /\ frozen' = frozen - Hold
       /\ returned' = [returned EXCEPT ![j] = TRUE]
       /\ Claim(j, "release") /\ UNCHANGED <<charged, spent>>
    \/ /\ ~ok /\ "release" \notin claims[j] /\ "hold" \in claims[j] /\ frozen < Hold
       /\ UNCHANGED ledger
=============================================================================
