------------------------------ MODULE Chunking ------------------------------
(***************************************************************************)
(* The fragments of a file on their way to being chunks: what is too large *)
(* is cut, and what is too small is joined with what follows it.           *)
(*                                                                         *)
(* A fragment is [first, last, text, symbol, owner, module]: symbol is the *)
(* place of its symbol in the file, 0 for none.  Lines differ in length: a *)
(* long one has two tokens and any other one.                              *)
(***************************************************************************)
EXTENDS SourceLines, FiniteSets

CONSTANTS
    MaxTokens,  \* tokens of the largest chunk of code
    MinTokens,  \* a fragment below this is merged with the next one
    Overlap     \* lines that two pieces of one body share

ASSUME SizesAssumption == MaxTokens \in Nat \ {0} /\ {MinTokens, Overlap} \subseteq Nat

Weight(long, text) == Len(text) + Cardinality({i \in DOMAIN text : text[i] \in long})
Tokens(long, fragment) == Weight(long, fragment.text)

(* Pieces of equal length that overlap; the symbol stays with the first.   *)
SplitByLines(long, fragment) ==
    LET count == Len(fragment.text)
        step == Larger(1, (count * MaxTokens) \div Larger(Tokens(long, fragment), 1))
        stride == Larger(step - Overlap, 1)
        pieces == IF count <= step THEN 1 ELSE 1 + (count - step + stride - 1) \div stride
        piece(j) ==
            LET start == (j - 1) * stride
                end == IF start + step < count THEN start + step ELSE count
            IN [fragment EXCEPT !.first = fragment.first + start,
                                !.last = fragment.first + end - 1,
                                !.text = SubSeq(fragment.text, start + 1, end),
                                !.symbol = IF start = 0 THEN fragment.symbol ELSE 0]
    IN IF count = 0 THEN <<>> ELSE [j \in 1 .. pieces |-> piece(j)]

Slice(fragment, a, b) ==
    [fragment EXCEPT !.first = a, !.last = b, !.module = FALSE,
        !.text = SubSeq(@, a - fragment.first + 1, b - fragment.first + 1)]

(* The blank lines between the nodes of a group are not in its text.       *)
ModuleFragment(group) ==
    [first |-> Head(group).first, last |-> Last(group).last,
     text |-> Merged([i \in 1 .. Len(group) |-> group[i].text]),
     symbol |-> 0, owner |-> <<>>, module |-> TRUE]

(* Neighbouring code between definitions, in groups that fit a chunk.      *)
GroupedByBudget(long, fragments) ==
    LET place(groups, f) ==
            IF groups # <<>> /\ Tokens(long, ModuleFragment(Last(groups))) + Tokens(long, f) <= MaxTokens
            THEN Front(groups) \o <<Append(Last(groups), f)>>
            ELSE Append(groups, <<f>>)
    IN FoldLeft(place, <<>>, fragments)

Flush(long, fragments) ==
    LET groups == GroupedByBudget(long, fragments)
        cut(f) == IF Tokens(long, f) <= MaxTokens THEN <<f>> ELSE SplitByLines(long, f)
    IN Merged([i \in 1 .. Len(groups) |-> cut(ModuleFragment(groups[i]))])

MergedSymbol(previous, fragment) ==
    CASE previous.symbol = 0 -> fragment.symbol
      [] fragment.symbol \in {0, previous.symbol} -> previous.symbol
      [] OTHER -> 0

CommonOwner(first, second) ==
    IF first = <<>> \/ second = <<>> THEN first \o second
    ELSE LongestCommonPrefix({first, second})

Join(previous, fragment) ==
    [previous EXCEPT !.last = fragment.last,
                     !.text = @ \o fragment.text,
                     !.symbol = MergedSymbol(previous, fragment),
                     !.owner = CommonOwner(@, fragment.owner)]

MergeSmall(long, fragments) ==
    LET joinable(previous, f) ==
            /\ ~previous.module /\ ~f.module
            /\ Tokens(long, previous) < MinTokens
            /\ Tokens(long, previous) + Tokens(long, f) <= MaxTokens
            /\ f.first >= previous.last
        place(merged, f) ==
            IF merged # <<>> /\ joinable(Last(merged), f)
            THEN Append(Front(merged), Join(Last(merged), f))
            ELSE Append(merged, f)
    IN FoldLeft(place, <<>>, fragments)
=============================================================================
