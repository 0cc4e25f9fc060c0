----------------------------- MODULE MCReviewer -----------------------------
(* Constants are given in the configurations.                              *)
EXTENDS Reviewer
=============================================================================
