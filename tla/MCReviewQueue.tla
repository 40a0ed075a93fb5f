--------------------------- MODULE MCReviewQueue ---------------------------
(* The queue and its abstract specification, for TLC. *)
EXTENDS QueueImplementsService, TLC

(* Pull requests are interchangeable (safety runs only). *)
Symmetry == Permutations(PRs)
=============================================================================
