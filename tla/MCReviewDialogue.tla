--------------------------- MODULE MCReviewDialogue ---------------------------
(***************************************************************************)
(* Instances of ReviewDialogue: the local model and one remote one, one    *)
(* tool call, windows that are unknown, too small for the loop, and large. *)
(***************************************************************************)
EXTENDS ReviewDialogue

CONSTANTS local, remote, c1

MCRemotes == <<remote>>
MCCallLists == {<<>>, <<c1>>, <<c1, c1>>}

MCWindows == {0, 8, 64}

(* A remote model of some trust, whose window is known.                    *)
MCChoices ==
    {c \in Choices : /\ c[local].trust = 0 /\ c[local].window # 64
                     /\ c[remote].trust > 0 /\ c[remote].window = 64}

(* A large patch and a missing navigator both lead to the single pass.     *)
MCSetups ==
    {s \in Setups : /\ s.policy < 2
                    /\ s.preferred # local
                    /\ s.navigator \/ (s.small /\ s.policy = 0)
                    /\ s.small \/ s.policy = 0
                    /\ ~s.redis}

(* Answers are kept while large patches are read in a single pass.         *)
KeptChoices == {c \in MCChoices : /\ c[local] = [trust |-> 0, tools |-> FALSE, window |-> 0]
                                  /\ c[remote].tools /\ c[remote].trust = 1}
KeptSetups == {s \in Setups : s.policy = 1 /\ s.preferred = Nameless
                              /\ ~s.small /\ s.navigator /\ s.redis}

MCInit == InitWith(MCChoices, MCSetups) \/ InitWith(KeptChoices, KeptSetups)
MCFairSpec == MCInit /\ [][Next]_vars /\ WF_vars(Work)
=============================================================================
