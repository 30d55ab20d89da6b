------------------------------ MODULE Navigation ------------------------------
(***************************************************************************)
(* A reviewer, a chat or an MCP client walks through the code while builds *)
(* rewrite the index.  What answers is chosen once, when the reader opens  *)
(* the code: the index, or git at the commit under review.                 *)
(*                                                                         *)
(* An answer of the index takes several statements, each of which sees     *)
(* what is committed when it runs; a statement is one step, so a build may *)
(* store a file or become ready between any two of them.  The order of     *)
(* rows the database leaves open is open here.                             *)
(***************************************************************************)
EXTENDS Revision, FiniteSetsExt

CONSTANTS
    Requests,      \* the calls a reader may make
    Limit,         \* rows of one answer
    SimilarLimit,  \* similar places around a change
    GitAvailable,  \* whether a review may fall back to git
    Base,          \* the commit a review compares with
    Budget,        \* lines of context around a change
    CodeWords,     \* words that look like code
    LongWords,     \* words long enough to be looked for inside others
    Pieces,        \* the words some words are made of
    Expansions     \* how a model may write a question in words of the code

ASSUME LimitsAssumption == {Limit, SimilarLimit} \subseteq Nat

VARIABLES
    reader,  \* who reads, and what answers
    call,    \* the call that is being answered
    answer   \* the last answer

vars == <<graph, reader, call, answer>>

NoReader == [who |-> "nobody", head |-> Base, file |-> 0, source |-> "none"]
NoCall == [step |-> "idle", tool |-> "none"]
NoAnswer == Answer("none", {}, "none", {})

Finish(a) ==
    /\ call' = NoCall
    /\ answer' = [a EXCEPT !.tool = call.tool, !.name = call.req.name]
Reading == reader.source = "index"
At(step) == Reading /\ call.step = step
Done(note) == Finish(Answer("index", ToSet(call.got), note, {}))
Reads == UNCHANGED <<graph, reader>>

-----------------------------------------------------------------------------
(* What answers.  The revision of the index is that of the snapshot that   *)
(* became ready last.                                                      *)

Changed(head) == {p \in Paths : Tree[head][p] # Tree[Base][p]}

Source(head) ==
    CASE LatestReady # 0 /\ snaps[LatestReady].commit = head -> "index"
      [] GitAvailable -> "git"
      [] LatestReady # 0 -> "index"
      [] OTHER -> "none"

OpenReview(head, p) ==
    /\ reader = NoReader
    /\ p \in Changed(head)
    /\ reader' = [who |-> "review", head |-> head, file |-> p, source |-> Source(head)]
    /\ UNCHANGED <<graph, call, answer>>

(* A chat and an MCP client have the index only.                           *)
OpenIndex ==
    /\ reader = NoReader
    /\ LatestReady # 0
    /\ reader' = [NoReader EXCEPT !.who = "guest", !.source = "index"]
    /\ UNCHANGED <<graph, call, answer>>

Close ==
    /\ reader # NoReader
    /\ call = NoCall
    /\ reader' = NoReader
    /\ answer' = NoAnswer
    /\ UNCHANGED <<graph, call>>

(* What each tool is told; a limit and a relation may be left out.         *)
Parameters ==
    [search_code |-> {"query", "limit"}, get_definition |-> {"name", "limit"},
     find_callers |-> {"name", "limit"}, find_references |-> {"name", "relation", "limit"},
     get_file_context |-> {"path", "lines"}, read_file |-> {"path", "lines"},
     get_file_outline |-> {"path"}, find_symbol |-> {"query", "limit"},
     project_docs |-> {"query"}, describe_repository |-> {}, list_files |-> {"pattern"}]

(* A call that is written badly is answered with what is wrong with it.  A *)
(* call that leaves something out is told that there is no such tool.      *)
RefuseCall(tool, why) ==
    /\ reader.source # "none"
    /\ call = NoCall
    /\ tool \in CASE why = "no such tool" -> {"unknown"} \cup
                        {t \in DOMAIN Parameters : Parameters[t] \ {"limit", "relation"} # {}}
                  [] why = "bad arguments" ->
                        {t \in DOMAIN Parameters : Parameters[t] \cap {"limit", "lines"} # {}}
                  [] OTHER -> {"unknown"} \cup DOMAIN Parameters
    /\ answer' = Error(reader.source, why)
    /\ UNCHANGED <<graph, reader, call>>

(* A file that the change removes has a patch and no line.                 *)
Patch(head, p, req) ==
    IF Tree[head][p] # Absent THEN Window(Tree[head], "match", p, req.first, req.last)
    ELSE [role |-> "match", path |-> p, of |-> Absent, name |-> <<>>, first |-> 1, last |-> 1,
          text |-> [of |-> Absent, lines |-> <<>>]]

(* The rest of the change, for the reviewer of one of its files.           *)
ReadChange(req) ==
    LET others == Changed(reader.head) \ {reader.file}
        asked == {p \in Changed(reader.head) : PathOf[p] = req.path}
    IN /\ reader.who = "review" /\ reader.source # "none"
       /\ call = NoCall
       /\ req.tool \in {"get_diff_summary", "get_file_diff"}
       /\ answer' =
            CASE others = {} -> Error(reader.source, "one file")
              [] others # {} /\ req.tool = "get_diff_summary" ->
                    Answer(reader.source, {}, "changes", others)
              [] others # {} /\ req.tool = "get_file_diff" /\ asked = {} ->
                    Error(reader.source, "no such change")
              [] OTHER -> Answer(reader.source, {Patch(reader.head, p, req) : p \in asked},
                                 "patch", {})
       /\ UNCHANGED <<graph, reader, call>>

AskGit(req) ==
    /\ reader.source = "git"
    /\ call = NoCall
    /\ req.tool \notin {"get_diff_summary", "get_file_diff", "context"}
    /\ answer' = GitAnswer(Tree[reader.head], req, Limit)
    /\ UNCHANGED <<graph, reader, call>>

-----------------------------------------------------------------------------
(* Rows.                                                                   *)

(* The first n of a set whose order is given by a rank alone, or all of    *)
(* them if there are fewer.                                                *)
Top(S, n, rank(_)) ==
    {s \in UNION {[1 .. m -> S] : m \in 0 .. n} :
        /\ IsInjective(s)
        /\ Len(s) < n => S \subseteq ToSet(s)
        /\ \A i, j \in DOMAIN s : i < j => rank(s[i]) <= rank(s[j])
        /\ \A i \in DOMAIN s, x \in S \ ToSet(s) : rank(s[i]) <= rank(x)}

Fragment(role, row, text) ==
    [role |-> role, path |-> row.path, of |-> row.of, name |-> row.name,
     first |-> row.first, last |-> row.last, text |-> text]

(* A neighbour comes as what it promises, which its own row tells.         *)
Contract(role, row) == Fragment(role, row, [of |-> row.of, lines |-> <<row.first>>])

Match(chunk) ==
    [role |-> "match", path |-> chunk.path, of |-> chunk.of, name |-> <<>>,
     first |-> chunk.first, last |-> chunk.last, text |-> [of |-> chunk.of, lines |-> chunk.text]]

(* A body is put together from the chunks that are linked to the symbol    *)
(* by now; without them the signature of the row is shown.                 *)
Body(row) ==
    LET chunks == IF row.path \in Stored THEN ChunksOf(row.path) ELSE <<>>
        linked == Only(chunks, {c \in Among(chunks) : c.symbol = row.id})
    IN IF linked = <<>> THEN Contract("definition", row)
       ELSE Fragment("definition", row,
                     [of |-> linked[1].of,
                      lines |-> Merged([i \in DOMAIN linked |-> linked[i].text])])

(* No symbol has an empty name.                                            *)
ByName(name) ==
    {row \in SymbolRows : name # <<>> /\ row.path \in Live /\ IsSuffix(name, row.name)}

(* Files that are gone are not left out here.                              *)
Covering(p, a, b) == {row \in SymbolRows : row.path = p /\ row.first <= b /\ row.last >= a}

(* Edges of some kinds, of any kind when none is named, that lead out of   *)
(* the given symbols; with the row at the other end.                       *)
Wanted(kinds, e) == kinds = {} \/ e.kind \in kinds
Incoming(ids, kinds) ==
    {[edge |-> e, row |-> Row(e.source)] :
        e \in {f \in edges : f.target \in ids /\ f.source \notin ids /\ Wanted(kinds, f)}}
Outgoing(ids, kinds) ==
    {[edge |-> e, row |-> Row(e.target)] :
        e \in {f \in edges : /\ f.source \in ids /\ f.target \notin ids \cup {NoSymbol}
                             /\ Wanted(kinds, f)}}
Surest(near) == 0 - near.edge.confidence

Found(how, path, n) ==
    LET found == SetToSortSeq({p \in Live : Matches(p, how, path)},
                    LAMBDA a, b : \/ Len(PathOf[a].dirs) < Len(PathOf[b].dirs)
                                  \/ (Len(PathOf[a].dirs) = Len(PathOf[b].dirs) /\ a < b))
    IN Limited(found, n)

Needles(path) == IF path.dirs = <<>> THEN <<path>> ELSE <<path, [path EXCEPT !.dirs = <<>>]>>

-----------------------------------------------------------------------------
(* A call begins.                                                          *)

FirstStep ==
    [get_definition |-> "names", find_callers |-> "names", find_references |-> "names",
     get_file_context |-> "cover", read_file |-> "path", get_file_outline |-> "path",
     find_symbol |-> "words", search_code |-> "words", project_docs |-> "words",
     describe_repository |-> "count", list_files |-> "files", context |-> "cover"]

ASSUME RequestsAssumption ==
    \A req \in Requests :
        /\ req.tool \in DOMAIN FirstStep \cup {"get_diff_summary", "get_file_diff"}
        /\ req.name \in Seq(Among(req.name))
        /\ req.relation \in DOMAIN RelationRoles
        /\ {req.first, req.last} \subseteq Int

(* The exact wordings of a query, from the narrowest to the widest, what   *)
(* is looked for inside of words, and the words taken apart.               *)
Stages(query, symbols) ==
    LET coded == query \cap CodeWords
        long == coded \cap LongWords
        distinctive == IF Cardinality(long) < 2 THEN {} ELSE {CHOOSE w \in long : TRUE}
        apart == UNION {Pieces[w] : w \in query \cap DOMAIN Pieces}
        exact == SelectSeq(<<distinctive, IF coded = distinctive THEN {} ELSE coded,
                             IF query \in {coded, distinctive} THEN {} ELSE query>>,
                           LAMBDA words : words # {})
        inside == IF symbols \/ long = {} THEN <<>>
                  ELSE <<[how |-> "inside", words |-> {CHOOSE w \in long : TRUE}]>>
        split == IF apart = {} \/ apart \in ToSet(exact) THEN <<>>
                 ELSE <<[how |-> "word", words |-> apart]>>
    IN [i \in 1 .. Len(exact) |-> [how |-> "word", words |-> exact[i]]] \o inside \o split

Ask(req, queries) ==
    /\ Reading
    /\ call = NoCall
    /\ req.tool \in DOMAIN FirstStep
    /\ req.tool = "context" => reader.who = "review" /\ req.path = PathOf[reader.file]
    /\ LET known == {p \in Paths : PathOf[p] = req.path}
       IN call' = [step |-> FirstStep[req.tool], tool |-> req.tool, req |-> req,
                   path |-> IF known = {} THEN 0 ELSE CHOOSE p \in known : TRUE,
                   needles |-> Needles(req.path), looked |-> FALSE, rows |-> {}, got |-> <<>>,
                   queries |-> queries, stages |-> Stages(Head(queries), req.tool = "find_symbol"),
                   hits |-> {}]
    /\ answer' = NoAnswer
    /\ Reads

(* A question in prose may first be written in words of the code, and is   *)
(* searched for itself after them.                                         *)
Wordings(req) ==
    {<<req.query>>} \cup
    {<<other, req.query>> : other \in IF req.tool = "search_code" /\ req.prose THEN Expansions ELSE {}}

AskIndex(req) == \E queries \in Wordings(req) : Ask(req, queries)

-----------------------------------------------------------------------------
(* Symbols and their neighbours.                                           *)

FindNames ==
    /\ At("names")
    /\ \E rows \in Top(ByName(call.req.name), Limit, LAMBDA r : IF r.name = call.req.name THEN 0 ELSE 1) :
          IF rows = <<>> THEN Done("none")
          ELSE /\ call' = [call EXCEPT !.rows = ToSet(rows),
                              !.step = IF call.tool = "get_definition" THEN "bodies" ELSE "related"]
               /\ UNCHANGED answer
    /\ Reads

Ids == {row.id : row \in call.rows}

RelationKinds == [any |-> {}, subclasses |-> {"inherits"}, importers |-> {"imports"},
                  raised_by |-> {"raises"}]
EdgeRoles == [calls |-> "caller", inherits |-> "subclass", imports |-> "importer",
              raises |-> "raiser", decorates |-> "decorated", references |-> "related"]

KindsShown == IF call.tool = "find_references" THEN RelationKinds[call.req.relation] ELSE {"calls"}
Ambiguity == IF Cardinality(call.rows) > 1 THEN "ambiguous" ELSE "none"

FindRelated ==
    /\ At("related")
    /\ \E near \in Top(Incoming(Ids, KindsShown), Limit, Surest) :
          LET got == [i \in DOMAIN near |-> Contract(EdgeRoles[near[i].edge.kind], near[i].row)] IN
          IF KindsShown = {} THEN Finish(Answer("index", ToSet(got), Ambiguity, {}))
          ELSE call' = [call EXCEPT !.got = got, !.step = "others"] /\ UNCHANGED answer
    /\ Reads

(* Relations that the answer leaves out are named in its note.             *)
CountOthers ==
    /\ At("others")
    /\ Done(CASE \E near \in Incoming(Ids, {}) : near.edge.kind \notin KindsShown -> "others"
              [] call.tool = "find_references" -> Ambiguity
              [] OTHER -> "none")
    /\ Reads

ReadBodies ==
    /\ At("bodies")
    /\ \E bySize \in Top(call.rows, Cardinality(call.rows), LAMBDA r : r.last - r.first) :
          LET got == [i \in DOMAIN bySize |-> Body(bySize[i])] IN
          IF call.tool = "get_definition"
          THEN Finish(Answer("index", ToSet(got), Ambiguity, {}))
          ELSE call' = [call EXCEPT !.got = got, !.step = "callees"] /\ UNCHANGED answer
    /\ Reads

CoverLines ==
    /\ At("cover")
    /\ LET all == IF call.path = 0 THEN {} ELSE Covering(call.path, call.req.first, call.req.last)
           rows == IF call.tool = "context" THEN {r \in all : r.kind # "module"} ELSE all
       IN CASE rows # {} -> call' = [call EXCEPT !.rows = rows, !.step = "bodies"] /\ UNCHANGED answer
            [] rows = {} /\ call.tool = "context" ->
                  call' = [call EXCEPT !.step = "words"] /\ UNCHANGED answer
            [] rows = {} /\ call.tool # "context" /\ ~call.looked ->
                  call' = [call EXCEPT !.step = "path"] /\ UNCHANGED answer
            [] OTHER -> Done("no symbols")
    /\ Reads

FindCallees ==
    /\ At("callees")
    /\ \E near \in Top(Outgoing(Ids, {"calls"}), Limit, Surest) :
          call' = [call EXCEPT !.got = @ \o [i \in DOMAIN near |-> Contract("callee", near[i].row)],
                               !.step = "callers"]
    /\ UNCHANGED answer /\ Reads

FindCallersOfLines ==
    /\ At("callers")
    /\ \E near \in Top(Incoming(Ids, {"calls"}), Limit, Surest) :
          LET got == call.got \o [i \in DOMAIN near |-> Contract("caller", near[i].row)] IN
          IF call.tool = "context"
          THEN call' = [call EXCEPT !.got = got, !.step = "words"] /\ UNCHANGED answer
          ELSE Finish(Answer("index", ToSet(got), IF call.looked THEN "renamed" ELSE "none", {}))
    /\ Reads

-----------------------------------------------------------------------------
(* Paths and files.                                                        *)

(* The path as it was named, then its last part alone; a name that several *)
(* files have is none.                                                     *)
ResolvePath ==
    /\ At("path")
    /\ LET found == Found("tail", Head(call.needles), 2)
           next == [read_file |-> "lines", get_file_outline |-> "outline", get_file_context |-> "cover"]
           unresolved == IF call.tool = "get_file_context" THEN "missing" ELSE next[call.tool]
       IN CASE Len(found) = 1 ->
                  call' = [call EXCEPT !.path = found[1], !.looked = TRUE, !.step = next[call.tool]]
            [] found = <<>> /\ Len(call.needles) > 1 -> call' = [call EXCEPT !.needles = Tail(@)]
            [] OTHER -> call' = [call EXCEPT !.step = unresolved, !.needles = Needles(call.req.path)]
    /\ UNCHANGED answer /\ Reads

(* Paths that are alike; among them may be the very path that was asked.   *)
SuggestPaths ==
    /\ At("missing")
    /\ LET found == Found("tail", Head(call.needles), 5) IN
       IF found = <<>> /\ Len(call.needles) > 1
       THEN call' = [call EXCEPT !.needles = Tail(@)] /\ UNCHANGED answer
       ELSE Finish(Answer("index", {}, "missing", ToSet(found)))
    /\ Reads

ReadFile ==
    /\ At("lines")
    /\ LET lines == IF call.path \in Live
                    THEN ReadLines(ChunksOf(call.path), call.req.first, call.req.last)
                    ELSE [n \in {} |-> 0]
           order == Only(Lines(call.req.first, call.req.last), DOMAIN lines)
       IN IF order = <<>>
          THEN call' = [call EXCEPT !.step = "missing", !.needles = Needles(call.req.path)]
               /\ UNCHANGED answer
          ELSE Finish(Answer("index",
                  {[role |-> "source", path |-> call.path, of |-> files[call.path].version,
                    name |-> <<>>, first |-> call.req.first, last |-> call.req.last,
                    text |-> [of |-> files[call.path].version,
                              lines |-> [i \in 1 .. Len(order) |-> lines[order[i]]]]]},
                  IF PathOf[call.path] = call.req.path THEN "none" ELSE "renamed", {}))
    /\ Reads

OutlineFile ==
    /\ At("outline")
    /\ LET rows == IF call.path \in Live THEN SymbolsOf(call.path) ELSE {} IN
       Finish(Answer("index", {}, IF rows = {} THEN "no symbols" ELSE "outline",
                     {<<r.first, LastOf(r.name)>> : r \in rows}))
    /\ Reads

(* Three statements count three things.  The symbols of files that are     *)
(* gone are counted too.                                                   *)
Describe ==
    /\ At("count")
    /\ CASE call.hits = {} ->
              /\ call' = [call EXCEPT !.hits = {"kinds"},
                            !.got = <<CountsBy(Live, LAMBDA p : PathOf[p].ext)>>]
              /\ UNCHANGED answer
         [] call.hits = {"kinds"} ->
              /\ call' = [call EXCEPT !.hits = {"kinds", "places"},
                            !.got = Append(@, CountsBy(Live, TopDirectory))]
              /\ UNCHANGED answer
         [] OTHER ->
              Finish(Answer("index", {}, IF call.got[1] = {} THEN "nothing" ELSE "digest",
                            call.got[1] \cup call.got[2] \cup {<<"symbols", Cardinality(SymbolRows)>>}))
    /\ Reads

(* A directory is no tail of a path, so below it the index finds nothing.  *)
ListFiles ==
    /\ At("files")
    /\ LET found == IF call.req.how = "below" THEN <<>> ELSE Found(call.req.how, call.req.path, 300) IN
       Finish(Answer("index", {}, IF found = <<>> THEN "nothing" ELSE "files",
                     ToSet(Limited(found, Limit))))
    /\ Reads

-----------------------------------------------------------------------------
(* Search by words, one wording after another until one finds something,   *)
(* and then by meaning.                                                    *)

WrittenIn(chunk) == {m.word : m \in {k \in MarksOf[chunk.of] : k.line \in ToSet(chunk.text)}}
WithPieces(words) == words \cup UNION {Pieces[w] : w \in words \cap DOMAIN Pieces}

(* A stage compares whole words and their pieces, and the names above the  *)
(* chunk count as well; or it looks inside of what is written.             *)
Matching(stage, chunk) ==
    IF stage.how = "word"
    THEN stage.words \cap WithPieces(WrittenIn(chunk) \cup ToSet(chunk.owner)) # {}
    ELSE stage.words \cap WithPieces(WrittenIn(chunk)) # {}

SearchedChunks ==
    LET docs == call.tool = "project_docs" IN
    UNION {ToSet(ChunksOf(p)) : p \in {q \in Live : docs => Content[files[q].version].language = "text"}}

Candidates == IF call.tool = "context" THEN 2 * SimilarLimit ELSE Limit
AnyOf(S, n) == kSubset(IF Cardinality(S) < n THEN Cardinality(S) ELSE n, S)

SearchSymbols ==
    /\ At("words")
    /\ call.tool = "find_symbol"
    /\ LET named == IF call.stages = <<>> THEN {}
                    ELSE {r \in SymbolRows : /\ r.path \in Live
                                             /\ WithPieces(ToSet(r.name)) \cap Head(call.stages).words # {}}
       IN CASE named # {} ->
                  \E rows \in AnyOf(named, Limit) :
                      Finish(Answer("index", {Contract("name", r) : r \in rows}, "names", {}))
            [] named = {} /\ call.stages # <<>> ->
                  call' = [call EXCEPT !.stages = Tail(@)] /\ UNCHANGED answer
            [] OTHER -> Done("nothing")
    /\ Reads

SearchWords ==
    /\ At("words")
    /\ call.tool # "find_symbol"
    /\ IF call.stages = <<>>
       THEN call' = [call EXCEPT !.step = "meaning"]
       ELSE LET matching == {c \in SearchedChunks : Matching(Head(call.stages), c)} IN
            IF matching = {} THEN call' = [call EXCEPT !.stages = Tail(@)]
            ELSE \E hits \in AnyOf(matching, Candidates) :
                    call' = [call EXCEPT !.hits = hits, !.step = "meaning"]
    /\ UNCHANGED answer /\ Reads

(* What both searches found comes first, then what was found by the one    *)
(* that suits the query.                                                   *)
Fused(byWords, byMeaning, chunk) ==
    LET literal == Head(call.queries) \cap CodeWords # {}
        preferred == IF literal THEN byWords ELSE byMeaning
    IN
    CASE chunk \in byWords \cap byMeaning -> 0
      [] chunk \in preferred \ (byWords \cap byMeaning) -> 1
      [] OTHER -> 2

Place(piece) == <<piece.path, piece.first, piece.last>>

(* Of the places that several wordings find, each is kept once.            *)
Collected(hits) ==
    LET all == call.got \o [i \in DOMAIN hits |-> Match(hits[i])]
        firsts == {i \in DOMAIN all : \A j \in 1 .. i - 1 : Place(all[j]) # Place(all[i])}
        places == Only([i \in DOMAIN all |-> i], firsts)
    IN Limited([k \in DOMAIN places |-> all[places[k]]], Limit)

(* Similar places: not of the changed file and not the changed symbols.    *)
Similar(hits) ==
    LET elsewhere == {c \in Among(hits) : c.path # reader.file /\ c.symbol \notin Ids}
        places == Limited(Only(hits, elsewhere), SimilarLimit)
    IN [i \in DOMAIN places |-> Match(places[i])]

(* Pieces are taken in their order while they fit, a place once.           *)
Packed(pieces) ==
    LET size(i) == Len(pieces[i].text.lines)
        taken[i \in DOMAIN pieces] ==
            LET before == {j \in 1 .. i - 1 : taken[j]} IN
            /\ size(i) # 0
            /\ \A j \in before : Place(pieces[j]) # Place(pieces[i])
            /\ MapThenSumSet(size, before) + size(i) <= Budget
    IN {pieces[i] : i \in {j \in DOMAIN pieces : taken[j]}}

SearchMeaning ==
    /\ At("meaning")
    /\ \E near \in {{}} \cup AnyOf(SearchedChunks, Candidates) :
          \E hits \in Top(call.hits \cup near, Candidates, LAMBDA c : Fused(call.hits, near, c)) :
             IF call.tool = "context"
             THEN Finish(Answer("index", Packed(call.got \o Similar(hits)), "context", {}))
             ELSE LET got == Collected(hits) IN
                  IF Len(call.queries) > 1 /\ Len(got) < Limit
                  THEN /\ call' = [call EXCEPT !.got = got, !.queries = Tail(@), !.step = "words",
                                      !.stages = Stages(call.queries[2], FALSE), !.hits = {}]
                       /\ UNCHANGED answer
                  ELSE Finish(Answer("index", ToSet(got),
                                     IF call.tool = "project_docs" /\ got = <<>> THEN "nothing"
                                     ELSE "none", {}))
    /\ Reads

(* A statement that takes too long fails the call.  The context of a       *)
(* change only goes without similar places, if it was the search by words: *)
(* the search by meaning fails with an error that nobody expects.          *)
TimeOut ==
    /\ At("words") \/ At("meaning")
    /\ CASE call.tool # "context" -> Finish(Error("index", "timed out"))
         [] call.tool = "context" /\ call.step = "words" ->
              Finish(Answer("index", Packed(call.got), "context", {}))
         [] OTHER -> Finish(Error("index", "unexpected"))
    /\ Reads

-----------------------------------------------------------------------------
Init ==
    /\ GraphInit
    /\ reader = NoReader
    /\ call = NoCall
    /\ answer = NoAnswer

IndexStep ==
    \/ FindNames \/ FindRelated \/ CountOthers \/ ReadBodies
    \/ CoverLines \/ FindCallees \/ FindCallersOfLines
    \/ ResolvePath \/ SuggestPaths \/ ReadFile \/ OutlineFile \/ Describe \/ ListFiles
    \/ SearchSymbols \/ SearchWords \/ SearchMeaning \/ TimeOut

Next ==
    \/ GraphNext /\ UNCHANGED <<reader, call, answer>>
    \/ \E head \in Commits, p \in Paths : OpenReview(head, p)
    \/ OpenIndex
    \/ Close
    \/ \E tool \in {"find_callers", "describe_repository", "unknown"},
          why \in {"not JSON", "no such tool", "bad arguments"} : RefuseCall(tool, why)
    \/ \E req \in Requests : ReadChange(req) \/ AskGit(req) \/ AskIndex(req)
    \/ IndexStep

Spec == Init /\ [][Next]_vars

-----------------------------------------------------------------------------
(* Properties.                                                             *)

(* The text under a place is of the version the place is of: a file that   *)
(* is stored again between the statement for the rows and the statement    *)
(* for their texts must not lend its new text to the old lines.            *)
TextMatchesItsPlace ==
    \A f \in answer.fragments : f.text.of = f.of

(* Who is shown as calling, inheriting or raising a name does so itself,   *)
(* in the version that is shown: an edge that was resolved when other code *)
(* was stored must not be read with the symbols of today.                  *)
RolesAreReal ==
    \A f \in answer.fragments :
        reader.source = "index" /\ answer.tool \in {"find_callers", "find_references"} =>
            \E ref \in ParseOf[f.path][f.of].references :
                /\ EdgeRoles[ref.kind] = f.role
                /\ LastOf(ref.name) = LastOf(answer.name)
                /\ ParseOf[f.path][f.of].symbols[ref.source].name = f.name

(* The lines of a file come in their order and none of them twice, from    *)
(* git always and from the index wherever the chunks of the file are in    *)
(* order, however these overlap and whenever the file is stored anew.      *)
ReadingFollowsChunks ==
    \A f \in answer.fragments :
        f.role = "source" /\ (reader.source = "git" \/ InOrder(ParseOf[f.path][f.of].chunks)) =>
            \A i \in 1 .. Len(f.text.lines) - 1 : f.text.lines[i] < f.text.lines[i + 1]
=============================================================================
