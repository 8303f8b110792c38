----------------------- MODULE MC_SystemOperationLock -----------------------
(* Instances of SystemOperationLock for TLC. *)
EXTENDS SystemOperationLock, TLC

CONSTANTS w1, w2

RequestSymmetry == Permutations(Workers)

-----------------------------------------------------------------------------
(* What a test says of the program and the code does not do.               *)

\* TestSystemOperationLockService_RenewLease: locked_until is renewed while the lock
\* is held; so as long as nobody outlived a lease, no holder's renewLoop has ended.
RenewedWhileHeld ==
    ~overran => \A w \in Workers : pc[w] = "held" => w \in renewing
=============================================================================
