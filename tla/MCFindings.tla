----------------------------- MODULE MCFindings -----------------------------
(***************************************************************************)
(* Instances of Findings for TLC.  The kinds leave out only attributes that *)
(* a draft's other attributes make irrelevant: what a draft outside the    *)
(* diff quotes, and what was shown to a reviewer who claims nothing.       *)
(***************************************************************************)
EXTENDS Findings, TLC

MCKinds ==
    {k \in Kinds :
        /\ ~k.claims => ~k.shown
        /\ "patch" \in k.evidence => k.evidence = {"patch"}
        /\ ~k.covers => ~k.shown}

MCInit == InitWith(MCKinds)
MCSpec == MCInit /\ [][Next]_vars

DraftSymmetry == Permutations(Drafts)
=============================================================================
