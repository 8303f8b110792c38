-------------------------- MODULE MC_TenantEscrow --------------------------
(* Instances of TenantEscrow for TLC.  The bounds are in the .cfg files.   *)
EXTENDS TenantEscrow, TLC

CONSTANTS a, b, p1, p2, r1, r2

MCSymmetry == Permutations(Nodes) \union Permutations(Procs) \union Permutations(Requests)
=============================================================================
