----------------------------- MODULE Transcript -----------------------------
(***************************************************************************)
(* What the chat promises, seen from outside: a conversation is opened     *)
(* once and deleted for good; what is said in it only grows, by a question *)
(* or by all that was done on one of its questions, at once; whatever ends *)
(* a question is the last thing done on it, and is shown to somebody only  *)
(* while it can be read there.                                             *)
(***************************************************************************)
EXTENDS Integers, Sequences

CONSTANTS Conversations, Questions, Events, FinalEvents

VARIABLES opened, gone, log, asked, happened, shown

vars == <<opened, gone, log, asked, happened, shown>>

Init ==
    /\ opened = {} /\ gone = {} /\ log = [c \in Conversations |-> <<>>]
    /\ asked = 0 /\ happened = [q \in Questions |-> <<>>] /\ shown = {}

There == opened \ gone
Mentions(c, q) == {i \in DOMAIN log[c] : log[c][i].of = q}

(* Of a question there is nothing but the question itself.                 *)
Unanswered(c, q) == \A i \in Mentions(c, q) : log[c][i].kind = "question"
Ended(c, q) == \E i \in Mentions(c, q) : log[c][i].kind \in FinalEvents

Open(c) ==
    /\ c \in Conversations \ opened
    /\ opened' = opened \cup {c}
    /\ UNCHANGED <<gone, log, asked, happened, shown>>

Delete(c) ==
    /\ c \in There
    /\ gone' = gone \cup {c} /\ log' = [log EXCEPT ![c] = <<>>]
    /\ UNCHANGED <<opened, asked, happened, shown>>

Question(c) ==
    /\ c \in There
    /\ asked' = asked + 1 /\ asked' \in Questions
    /\ log' = [log EXCEPT ![c] = Append(@, [kind |-> "question", of |-> asked'])]
    /\ UNCHANGED <<opened, gone, happened, shown>>

Act(q, event) ==
    /\ q <= asked
    /\ \A i \in DOMAIN happened[q] : happened[q][i] \notin FinalEvents
    /\ \A c \in There : Unanswered(c, q)
    /\ happened' = [happened EXCEPT ![q] = Append(@, event)]
    /\ UNCHANGED <<opened, gone, log, asked, shown>>

Record(c, q) ==
    /\ c \in There
    /\ Mentions(c, q) # {} /\ Unanswered(c, q) /\ happened[q] # <<>>
    /\ log' = [log EXCEPT ![c] =
                 @ \o [i \in DOMAIN happened[q] |-> [kind |-> happened[q][i], of |-> q]]]
    /\ UNCHANGED <<opened, gone, asked, happened, shown>>

Show(c, q) ==
    /\ c \in gone \/ Ended(c, q)
    /\ shown' = shown \cup {<<q, c>>}
    /\ UNCHANGED <<opened, gone, log, asked, happened>>

Next ==
    \/ \E c \in Conversations : Open(c) \/ Delete(c) \/ Question(c)
    \/ \E q \in Questions, event \in Events : Act(q, event)
    \/ \E c \in Conversations, q \in Questions : Record(c, q) \/ Show(c, q)

Spec == Init /\ [][Next]_vars
=============================================================================
