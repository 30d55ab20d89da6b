------------------------------- MODULE Revision -------------------------------
(***************************************************************************)
(* Answers about one commit that git alone can give.  Git knows lines and  *)
(* words and no symbols, so what a line is about is guessed from its form. *)
(* A commit does not change, and an answer is a function of it, whatever   *)
(* number of git's commands it takes.                                      *)
(*                                                                         *)
(* A fragment is a record [role, path, of, name, first, last, text]; of is *)
(* the version it was taken from and text a record [of, lines].  An answer *)
(* is a record [source, fragments, note, listed, error, tool, name]; the   *)
(* last two say what it answers.                                           *)
(***************************************************************************)
EXTENDS CodeGraph

CONSTANTS
    MatchesPerFile,   \* lines of one file that git reports
    MarksOf,          \* what is written on the lines of each version
    DefinitionLines,  \* lines shown below a definition
    Margin            \* lines shown around the lines asked for

Limited(seq, n) == IF Len(seq) > n THEN SubSeq(seq, 1, n) ELSE seq

Answer(source, fragments, note, listed) ==
    [source |-> source, fragments |-> fragments, note |-> note,
     listed |-> listed, error |-> "none", tool |-> "none", name |-> <<>>]
Error(source, why) == [Answer(source, {}, "none", {}) EXCEPT !.error = why]

-----------------------------------------------------------------------------
(* A path is named by its tail, by its extension, or by a directory.       *)
HasTail(p, path) ==
    /\ PathOf[p].stem = path.stem /\ PathOf[p].ext = path.ext
    /\ IsSuffix(path.dirs, PathOf[p].dirs)

Matches(p, how, path) ==
    CASE how = "tail" -> HasTail(p, path)
      [] how = "extension" -> PathOf[p].ext = path.ext
      [] how = "below" -> IsPrefix(path.dirs, PathOf[p].dirs)

-----------------------------------------------------------------------------
(* Commands.  A tree gives the version of each path.                       *)

TreePaths(tree) == {p \in Paths : tree[p] # Absent}

(* The lines with one of the forms, in the order of paths and lines: so    *)
(* many of each file and so many altogether.                               *)
Grep(tree, words, forms, limit) ==
    LET lines(p) == {m.line : m \in {k \in MarksOf[tree[p]] : k.word \in words /\ k.form \in forms}}
        hits(p) == Limited(SetToSortSeq({[path |-> p, line |-> n] : n \in lines(p)},
                                        LAMBDA a, b : a.line < b.line), MatchesPerFile)
        paths == SetToSortSeq(TreePaths(tree), LAMBDA a, b : a < b)
    IN Limited(Merged([i \in 1 .. Len(paths) |-> hits(paths[i])]), limit)

Window(tree, role, p, a, b) ==
    LET first == Larger(1, a)
        last == IF b < Content[tree[p]].last THEN b ELSE Content[tree[p]].last
    IN [role |-> role, path |-> p, of |-> tree[p], name |-> <<>>, first |-> first, last |-> last,
        text |-> [of |-> tree[p], lines |-> Lines(first, last)]]

Windows(tree, role, hits, before, after) ==
    {Window(tree, role, h.path, h.line - before, h.line + after) : h \in ToSet(hits)}

Defines(tree, hit, word) ==
    \E m \in MarksOf[tree[hit.path]] :
        m.line = hit.line /\ m.word = word /\ m.form = "definition"

AnyForm == {"definition", "member", "calls", "imports", "inherits", "raises", "decorates",
            "references", "mentions"}

-----------------------------------------------------------------------------
(* Answers.                                                                *)

GitDefinition(tree, req, limit) ==
    LET word == {LastOf(req.name)}
        exact == Grep(tree, word, {"definition"}, limit)
        hits == IF exact # <<>> THEN exact ELSE Grep(tree, word, AnyForm, limit)
    IN Answer("git", Windows(tree, "definition", hits, 1, DefinitionLines), "approximate", {})

(* What has the form of a call and is no definition after a keyword; the   *)
(* lines are counted before the definitions are taken out.                 *)
GitCallers(tree, req, limit) ==
    LET word == LastOf(req.name)
        hits == Grep(tree, {word}, {"calls", "definition", "member"}, limit)
        callers == SelectSeq(hits, LAMBDA h : ~Defines(tree, h, word))
    IN Answer("git", Windows(tree, "caller", callers, 1, 1), "approximate", {})

RelationForms == [any        |-> AnyForm,
                  subclasses |-> {"inherits"},
                  importers  |-> {"imports"},
                  raised_by  |-> {"raises"}]
RelationRoles == [any        |-> "related",
                  subclasses |-> "subclass",
                  importers  |-> "importer",
                  raised_by  |-> "raiser"]

GitReferences(tree, req, limit) ==
    LET word == LastOf(req.name)
        hits == Grep(tree, {word}, RelationForms[req.relation], limit)
        found == SelectSeq(hits, LAMBDA h : ~Defines(tree, h, word))
    IN Answer("git", Windows(tree, RelationRoles[req.relation], found, 1, 1), "approximate", {})

(* A path is taken as it is written.                                       *)
GitLines(tree, req, role, margin) ==
    LET asked == {p \in TreePaths(tree) : PathOf[p] = req.path} IN
    IF asked = {} THEN Answer("git", {}, "missing", {})
    ELSE Answer("git", {Window(tree, role, p, req.first - margin, req.last + margin) : p \in asked},
                "none", {})

GitOutline(tree, req) ==
    LET asked == {p \in TreePaths(tree) : PathOf[p] = req.path}
        names(p) == {m \in MarksOf[tree[p]] : m.form = "definition"}
    IN IF asked = {} THEN Answer("git", {}, "missing", {})
       ELSE Answer("git", {}, "outline", UNION {{<<m.line, m.word>> : m \in names(p)} : p \in asked})

GitSymbols(tree, req, limit) ==
    LET hits == Grep(tree, req.query, {"definition"}, limit) IN
    Answer("git",
           {[Window(tree, "name", h.path, h.line, h.line) EXCEPT !.role = "name"] : h \in ToSet(hits)},
           IF hits = <<>> THEN "nothing" ELSE "names", {})

GitSearch(tree, req, limit) ==
    Answer("git", Windows(tree, "match", Grep(tree, req.query, AnyForm, limit), 2, 2),
           "approximate", {})

(* The search looks wider, because what is no documentation is taken out.  *)
GitDocs(tree, req, limit) ==
    LET hits == Grep(tree, req.query, AnyForm, 4 * limit)
        found == SelectSeq(hits, LAMBDA h : Content[tree[h.path]].language = "text")
    IN Answer("git", Windows(tree, "match", Limited(found, limit), 2, 2),
              IF found = <<>> THEN "nothing" ELSE "approximate", {})

CountsBy(paths, key(_)) ==
    {<<k, Cardinality({p \in paths : key(p) = k})>> : k \in {key(p) : p \in paths}}

TopDirectory(p) == IF PathOf[p].dirs = <<>> THEN "/" ELSE PathOf[p].dirs[1]

GitDigest(tree) ==
    LET paths == TreePaths(tree) IN
    Answer("git", {}, IF paths = {} THEN "nothing" ELSE "digest",
           CountsBy(paths, LAMBDA p : PathOf[p].ext) \cup CountsBy(paths, TopDirectory))

GitFiles(tree, req, limit) ==
    LET found == SetToSortSeq({p \in TreePaths(tree) : Matches(p, req.how, req.path)}, LAMBDA a, b : a < b) IN
    Answer("git", {}, IF found = <<>> THEN "nothing" ELSE "files", ToSet(Limited(found, limit)))

(* A search that git refuses finds nothing.                                *)
GitAnswer(tree, req, limit) ==
    CASE req.tool = "get_definition" -> GitDefinition(tree, req, limit)
      [] req.tool = "find_callers" -> GitCallers(tree, req, limit)
      [] req.tool = "find_references" -> GitReferences(tree, req, limit)
      [] req.tool = "get_file_context" -> GitLines(tree, req, "definition", Margin)
      [] req.tool = "read_file" -> GitLines(tree, req, "source", 0)
      [] req.tool = "get_file_outline" -> GitOutline(tree, req)
      [] req.tool = "find_symbol" -> GitSymbols(tree, req, limit)
      [] req.tool = "search_code" -> GitSearch(tree, req, limit)
      [] req.tool = "project_docs" -> GitDocs(tree, req, limit)
      [] req.tool = "describe_repository" -> GitDigest(tree)
      [] req.tool = "list_files" -> GitFiles(tree, req, limit)

=============================================================================
