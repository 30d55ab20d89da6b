------------------------ MODULE MCInvestigationFeed ------------------------
(***************************************************************************)
(* Instances of InvestigationFeed for TLC: two readings at once, a page    *)
(* that takes two steps, four steps.                                       *)
(***************************************************************************)
EXTENDS InvestigationFeed, TLC

CONSTANTS r1, r2

ReadingSymmetry == Permutations({r1, r2})
=============================================================================
