---------------------------- MODULE SourceLines ----------------------------
(***************************************************************************)
(* Lines of a file, and how a reader gets them back from the chunks that   *)
(* the indexer cut it into.  A text is the sequence of the numbers of its  *)
(* lines.  A name is a sequence of segments.                               *)
(***************************************************************************)
EXTENDS Selection, SequencesExt

Larger(a, b) == IF a > b THEN a ELSE b
Lines(a, b) == [i \in 1 .. Larger(b - a + 1, 0) |-> a + i - 1]
Merged(seqs) == FlattenSeq(seqs)

LastOf(name) == name[Len(name)]

(* The lines of a chunk are counted from its first line, and of two chunks *)
(* that give a line the earlier is believed.                               *)
Given(c) == c.first .. c.first + Len(c.text) - 1
LineAt(c, n) == c.text[n - c.first + 1]

\* mutant: the texts of the chunks are put one after another
GluedLines(chunks, a, b) ==
    LET asked == Only(chunks, {c \in Among(chunks) : c.first <= b /\ c.last >= a})
        text == Merged([i \in DOMAIN asked |-> asked[i].text])
    IN [n \in a .. a + Len(text) - 1 |-> text[n - a + 1]]

ReadLines(chunks, a, b) ==
    LET asked == Only(chunks, {c \in Among(chunks) : c.first <= b /\ c.last >= a})
        numbers == {n \in a .. b : \E i \in DOMAIN asked : n \in Given(asked[i])}
    IN [n \in numbers |-> LineAt(asked[SelectInSeq(asked, LAMBDA c : n \in Given(c))], n)]

(* Whichever chunks give two lines, the later line is of the later number. *)
(* Cutting a file does not see to that: what is joined loses the blank     *)
(* lines in between and is counted too low, and the lines that the next    *)
(* piece gives once more then have two numbers.                            *)
InOrder(chunks) ==
    \A c, d \in Among(chunks) :
        \A n \in Given(c), m \in Given(d) : n < m => LineAt(c, n) < LineAt(d, m)
=============================================================================
