------------------------- MODULE MCRunTransactions -------------------------
(***************************************************************************)
(* Instances of RunTransactions for TLC.                                   *)
(***************************************************************************)
EXTENDS RunTransactions, TLC

UserSymmetry == Permutations(Users)
=============================================================================
