-------------------------------- MODULE MCChat --------------------------------
(***************************************************************************)
(* Instances of Chat: two pages of one organisation, one model besides     *)
(* the local one.                                                          *)
(***************************************************************************)
EXTENDS Chat

CONSTANTS remote, t1, p1, p2

MCRemotes == <<remote>>
MCPreferences == {remote}
MCMaxSteps == (p1 :> 2) @@ (p2 :> 1)
MCTenantOf == [p \in Pages |-> t1]

MCChoices ==
    {[m \in Models |->
        IF m = Local THEN [trust |-> 0, tools |-> TRUE, window |-> 0]
        ELSE [trust |-> 1, tools |-> TRUE, window |-> AgenticContext]]}

MCInit == InitWith(MCChoices, {"private"})
MCFairSpec == MCInit /\ [][Next]_vars /\ \A p \in Pages : WF_vars(Task(p))
MCSpec == MCInit /\ [][Next]_vars
=============================================================================
