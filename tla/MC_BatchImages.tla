--------------------------- MODULE MC_BatchImages ---------------------------
(* Instances of BatchImages for TLC.  The bounds are in the .cfg files.    *)
EXTENDS BatchImages, TLC

CONSTANTS j1, w1, w2, c1

=============================================================================
