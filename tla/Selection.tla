------------------------------ MODULE Selection ------------------------------
(***************************************************************************)
(* A comprehension over a sequence that keeps the elements of a set in     *)
(* their order, written so that it can be reasoned about.                  *)
(***************************************************************************)
EXTENDS Integers, Sequences

Among(s) == {s[i] : i \in DOMAIN s}

Only(s, S) ==
    LET only[i \in 0..Len(s)] ==
            IF i = 0 THEN <<>>
            ELSE IF s[i] \in S THEN Append(only[i - 1], s[i]) ELSE only[i - 1]
    IN  only[Len(s)]
=============================================================================
