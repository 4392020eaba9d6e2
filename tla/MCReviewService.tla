-------------------------- MODULE MCReviewService --------------------------
(* Instances of ReviewService for TLC. *)
EXTENDS ReviewService, TLC

CONSTANTS t1, t2, s1, s2
=============================================================================
