----------------------------- MODULE SourceText -----------------------------
(***************************************************************************)
(* What the indexer makes of one version of a file: its symbols, the       *)
(* chunks it is cut into and the references its symbols make, and what a   *)
(* reader puts together again from the chunks.  Everything here is a       *)
(* function of the path and of the syntax tree.                            *)
(*                                                                         *)
(* A path is a record [dirs, stem, ext].  A version is a record            *)
(*   language : "python", "script" or "text"                               *)
(*   last     : its last line                                              *)
(*   blank    : the blank lines (text only)                                *)
(*   long     : the lines that are two tokens long                         *)
(*   imports  : what each imported name stands for (python only)           *)
(*   body     : the sequence of its top-level nodes,                       *)
(* and a node is a record [kind, name, first, last, wrapped, refs, inner]: *)
(* a class, function, property or method, a "value" (a declaration of a    *)
(* script that is no symbol), other "code", or an "error" node.  wrapped   *)
(* says that a script's node is an export or a constant around the         *)
(* definition.  A reference is a record [kind, raw, line]; raw is the name *)
(* as it is written, a sequence of segments.                               *)
(***************************************************************************)
EXTENDS Chunking

CONSTANTS
    TextTokens,  \* tokens after which a text is cut at a blank line
    MinLines,    \* lines of the shortest piece of a text
    Builtins     \* names that are no reference

ASSUME TextSizesAssumption == {TextTokens, MinLines} \subseteq Nat \ {0}

-----------------------------------------------------------------------------
(* Symbols.                                                                *)

(* Everything up to the last "src" is dropped from a module's name, and    *)
(* the file that stands for its package is named like the package.         *)
PythonModule(path) ==
    LET parts == Append(path.dirs, path.stem)
        below == IF "src" \in ToSet(parts)
                 THEN SubSeq(parts, SelectLastInSeq(parts, LAMBDA s : s = "src") + 1, Len(parts))
                 ELSE parts
    IN IF below # <<>> /\ LastOf(below) = "__init__" THEN Front(below) ELSE below

ScriptModule(path) ==
    IF path.stem = "index" THEN path.dirs ELSE Append(path.dirs, path.stem)

ModulePath(path, version) ==
    CASE version.language = "python" -> PythonModule(path)
      [] version.language = "script" -> ScriptModule(path)
      [] OTHER -> path.dirs \o <<path.stem, path.ext>>

IsDefinition(node) == node.kind \in {"class", "function", "property", "method"}

(* The definitions right below a node; a node that did not parse is passed *)
(* through.                                                                *)
RECURSIVE DefinitionsIn(_)
DefinitionsIn(nodes) ==
    Merged([i \in 1 .. Len(nodes) |->
        CASE IsDefinition(nodes[i]) -> <<nodes[i]>>
          [] nodes[i].kind = "error" -> DefinitionsIn(nodes[i].inner)
          [] OTHER -> <<>>])

(* Python names what functions define as well, a script what classes do.   *)
Members(language, node) ==
    IF language = "python" \/ node.kind = "class" THEN DefinitionsIn(node.inner) ELSE <<>>

KindOf(node, owner) ==
    CASE node.kind \in {"class", "property", "method"} -> node.kind
      [] owner.kind = "class" -> "method"
      [] OTHER -> "function"

RECURSIVE Nested(_, _, _)
Nested(language, nodes, owner) ==
    Merged([i \in 1 .. Len(nodes) |->
        LET symbol == [kind  |-> KindOf(nodes[i], owner),
                       name  |-> Append(owner.name, nodes[i].name),
                       first |-> nodes[i].first,
                       last  |-> nodes[i].last,
                       scope |-> IF owner.kind = "class" THEN owner.name ELSE <<>>,
                       node  |-> nodes[i]]
        IN <<symbol>> \o Nested(language, Members(language, nodes[i]), symbol)])

Symbols(path, version) ==
    LET root == [kind |-> "code", name |-> "", first |-> 1, last |-> version.last,
                 wrapped |-> FALSE, refs |-> <<>>, inner |-> version.body]
        module == [kind |-> "module", name |-> ModulePath(path, version),
                   first |-> 1, last |-> version.last, scope |-> <<>>, node |-> root]
    IN <<module>> \o Nested(version.language, DefinitionsIn(version.body), module)

-----------------------------------------------------------------------------
(* References.                                                             *)

(* What a symbol refers to itself: the definitions inside it that are      *)
(* symbols of their own keep their references.                             *)
RECURSIVE OwnRefs(_, _)
OwnRefs(node, deep) ==
    node.refs \o Merged([i \in 1 .. Len(node.inner) |->
        IF deep \/ ~IsDefinition(node.inner[i]) THEN OwnRefs(node.inner[i], deep) ELSE <<>>])

Written(version, symbol) ==
    OwnRefs(symbol.node, version.language = "script" /\ symbol.kind \notin {"class", "module"})

NoName == <<>>

(* The name in full, as far as one file tells: through self to the class,  *)
(* to the module itself, through an import, or as it is written.           *)
PythonName(raw, version, module, scope) ==
    CASE Head(raw) \in {"self", "cls"} ->
            IF Len(raw) = 1 THEN NoName
            ELSE (IF scope # <<>> THEN scope ELSE module) \o Tail(raw)
      [] Len(raw) = 1 /\ Head(raw) \in Builtins -> NoName
      [] OTHER ->
            LET top == {n.name : n \in ToSet(DefinitionsIn(version.body))} IN
            IF Head(raw) \in top THEN module \o raw
            ELSE IF Head(raw) \in DOMAIN version.imports
                 THEN version.imports[Head(raw)] \o Tail(raw)
                 ELSE raw

(* A name a symbol refers to twice is one reference, as sure as the first. *)
(* A script's names stay as they are written.                              *)
References(path, version) ==
    LET symbols == Symbols(path, version)
        module == ModulePath(path, version)
        full(k, ref) == IF version.language = "python"
                        THEN PythonName(ref.raw, version, module, symbols[k].scope)
                        ELSE ref.raw
        of(k) == LET refs == Written(version, symbols[k]) IN
                 {[source |-> k, kind |-> refs[i].kind, name |-> full(k, refs[i]),
                   sure |-> version.language = "script" \/ Len(refs[i].raw) = 1] :
                    i \in {j \in 1 .. Len(refs) :
                             /\ full(k, refs[j]) # NoName
                             /\ \A h \in 1 .. j - 1 :
                                   <<refs[h].kind, full(k, refs[h])>>
                                     # <<refs[j].kind, full(k, refs[j])>>}}
    IN IF version.language = "text" THEN {} ELSE UNION {of(k) : k \in 1 .. Len(symbols)}

-----------------------------------------------------------------------------
(* Chunks.                                                                 *)

CutApart(language, node) == IsDefinition(node) \/ (language = "script" /\ node.kind = "value")

FragmentOf(symbols, node) ==
    LET symbol == SelectLastInSeq(symbols, LAMBDA s : s.first = node.first /\ s.last = node.last)
    IN [first  |-> node.first,
        last   |-> node.last,
        text   |-> Lines(node.first, node.last),
        symbol |-> symbol,
        owner  |-> IF symbol = 0 THEN <<>> ELSE symbols[symbol].name,
        module |-> FALSE]

InnerDefinitions(language, node) ==
    IF language = "script" /\ node.wrapped THEN <<>>
    ELSE SelectSeq(node.inner, LAMBDA n : CutApart(language, n))

(* A definition that is too large becomes its head and its parts.  What    *)
(* stands between the parts and after them is in no chunk.                 *)
RECURSIVE SplitIfLarge(_, _, _)
SplitIfLarge(version, symbols, node) ==
    LET fragment == FragmentOf(symbols, node)
        inner == InnerDefinitions(version.language, node)
        header == IF inner[1].first > node.first
                  THEN <<Slice(fragment, node.first, inner[1].first - 1)>>
                  ELSE <<>>
    IN CASE Tokens(version.long, fragment) <= MaxTokens -> <<fragment>>
         [] inner = <<>> -> SplitByLines(version.long, fragment)
         [] OTHER -> header \o Merged([i \in 1 .. Len(inner) |->
                                          SplitIfLarge(version, symbols, inner[i])])

(* Definitions become chunks, and the code between them is kept apart.     *)
CodeChunks(path, version) ==
    LET symbols == Symbols(path, version)
        place(cut, node) ==
            IF CutApart(version.language, node)
            THEN [done |-> cut.done \o Flush(version.long, cut.pending)
                             \o SplitIfLarge(version, symbols, node),
                  pending |-> <<>>]
            ELSE [cut EXCEPT !.pending = Append(@, FragmentOf(symbols, node))]
        cut == FoldLeft(place, [done |-> <<>>, pending |-> <<>>], version.body)
    IN MergeSmall(version.long, cut.done \o Flush(version.long, cut.pending))

(* A text is cut at a blank line once it is long enough, and anywhere when *)
(* it is twice that.  Blank lines around a piece are taken off its text.   *)
TextChunks(version) ==
    LET chunk(first, last) ==
            LET inked == {n \in first .. last : n \notin version.blank} IN
            [first |-> first, last |-> last,
             text |-> IF inked = {} THEN <<>>
                      ELSE Lines(CHOOSE n \in inked : \A m \in inked : n <= m,
                                 CHOOSE n \in inked : \A m \in inked : n >= m),
             symbol |-> 1, owner |-> <<>>, module |-> FALSE]
        place(cut, n) ==
            LET size == Weight(version.long, Lines(cut.start, n))
                boundary == n \in version.blank /\ n - cut.start + 1 >= MinLines
            IN IF (boundary /\ size >= TextTokens) \/ size >= 2 * TextTokens
               THEN [done |-> Append(cut.done, chunk(cut.start, n)), start |-> n + 1]
               ELSE cut
        cut == FoldLeft(place, [done |-> <<>>, start |-> 1], Lines(1, version.last))
    IN IF cut.start .. version.last \subseteq version.blank THEN cut.done
       ELSE Append(cut.done, chunk(cut.start, version.last))

Chunks(path, version) ==
    IF version.language = "text" THEN TextChunks(version) ELSE CodeChunks(path, version)

(* The parser of the file's language.                                      *)
Parse(path, version) ==
    [symbols |-> LET symbols == Symbols(path, version) IN
                 [k \in DOMAIN symbols |-> Restrict(symbols[k], {"kind", "name", "first", "last"})],
     chunks |-> Chunks(path, version),
     references |-> References(path, version)]

-----------------------------------------------------------------------------
(* What is written on a line: the name of a definition, after a keyword or *)
(* as the member of a script's class, or a name that is referred to.       *)

RECURSIVE NodesIn(_)
NodesIn(nodes) == Merged([i \in 1 .. Len(nodes) |-> <<nodes[i]>> \o NodesIn(nodes[i].inner)])

DecoratorsOf(node) == Cardinality({i \in 1 .. Len(node.refs) : node.refs[i].kind = "decorates"})

Marks(version) ==
    LET nodes == ToSet(NodesIn(version.body)) IN
    {[line |-> n.first + DecoratorsOf(n), word |-> n.name,
      form |-> IF n.kind = "method" THEN "member" ELSE "definition"] :
        n \in {m \in nodes : IsDefinition(m)}}
    \cup UNION {{[line |-> r.line, word |-> LastOf(r.raw), form |-> r.kind] :
                    r \in ToSet(n.refs)} : n \in nodes}
=============================================================================
