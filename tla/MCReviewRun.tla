---------------------------- MODULE MCReviewRun ----------------------------
(***************************************************************************)
(* Instances of ReviewRun for TLC: jobs and pairs are model values.        *)
(***************************************************************************)
EXTENDS ReviewRun, TLC

JobSymmetry == Permutations(Jobs)
=============================================================================
