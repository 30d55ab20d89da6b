----------------------------- MODULE MCNavigation -----------------------------
(* A class with two methods, a module that calls them, a text and a        *)
(* script.  The second commit changes the first file, drops the text and   *)
(* adds the script.  One line is long.                                     *)
EXTENDS Navigation, SourceText

Ref(kind, raw, line) == [kind |-> kind, raw |-> raw, line |-> line]
Node(kind, name, first, last, refs, inner) ==
    [kind |-> kind, name |-> name, first |-> first, last |-> last, wrapped |-> FALSE,
     refs |-> refs, inner |-> inner]
Code(first, last, refs) == Node("code", "", first, last, refs, <<>>)
File(language, last, imports, body) ==
    [language |-> language, last |-> last, blank |-> {}, long |-> {}, imports |-> imports, body |-> body]
NoImports == [n \in {} |-> <<>>]

\* class Run: def add(self) / def stop(self): self.add(), too long for a chunk
RunOld == File("python", 9, NoImports,
    <<Node("class", "Run", 1, 9, <<>>,
        <<Node("function", "add", 2, 3, <<>>, <<>>),
          Node("function", "stop", 5, 9, <<Ref("calls", <<"self", "add">>, 6)>>, <<>>)>>)>>)
\* an import, a blank line, and add after stop
RunNew == File("python", 9, NoImports,
    <<Code(1, 1, <<Ref("imports", <<"log">>, 1)>>),
      Node("class", "Run", 3, 9, <<>>,
        <<Node("function", "stop", 4, 6, <<Ref("calls", <<"self", "add">>, 5)>>, <<>>),
          Node("function", "add", 8, 9, <<>>, <<>>)>>)>>)
\* from run import Run; class Late(Run); def close(): Run.stop(); add(), with
\* a long last line: Late is joined with the first piece of close
User == [File("python", 8, [Run |-> <<"run", "Run">>],
    <<Code(1, 1, <<Ref("imports", <<"run", "Run">>, 1)>>),
      Node("class", "Late", 3, 3, <<Ref("inherits", <<"Run">>, 3)>>, <<>>),
      Node("function", "close", 5, 8, <<Ref("calls", <<"Run", "stop">>, 7),
                                        Ref("calls", <<"r", "add">>, 8)>>, <<>>)>>)
            EXCEPT !.long = {8}]
Guide == [File("text", 4, NoImports, <<Code(1, 4, <<Ref("mentions", <<"add">>, 2)>>)>>)
            EXCEPT !.blank = {3}]
\* export class Box { open() ... shut() ... } with a field; const size = add()
Script == File("script", 7, NoImports,
    <<[Node("class", "Box", 1, 5, <<Ref("inherits", <<"Run">>, 1)>>,
          <<Node("method", "open", 2, 2, <<>>, <<>>),
            Node("method", "shut", 4, 4, <<Ref("calls", <<"open">>, 4)>>, <<>>)>>)
        EXCEPT !.wrapped = TRUE],
      Node("value", "size", 7, 7, <<Ref("calls", <<"add">>, 7)>>, <<>>)>>)

MCContent == [old |-> RunOld, new |-> RunNew, user |-> User, guide |-> Guide, script |-> Script]
MCVersions == DOMAIN MCContent
MCMarksOf == [v \in MCVersions |-> Marks(MCContent[v])]
MCPathOf == << [dirs |-> <<"src">>, stem |-> "run", ext |-> "py"],
               [dirs |-> <<"src">>, stem |-> "user", ext |-> "py"],
               [dirs |-> <<>>, stem |-> "run", ext |-> "md"],
               [dirs |-> <<"web">>, stem |-> "box", ext |-> "ts"] >>
MCParseOf == [p \in 1 .. 4 |-> [v \in MCVersions |-> Parse(MCPathOf[p], MCContent[v])]]
MCTree == [c1 |-> <<"old", "user", "guide", "none">>, c2 |-> <<"new", "user", "none", "script">>]

Req(tool) == [tool |-> tool, name |-> <<"none">>, relation |-> "any", how |-> "tail",
              path |-> [dirs |-> <<>>, stem |-> "run", ext |-> "py"], first |-> 2, last |-> 6,
              query |-> {}, prose |-> FALSE]
MCRequests ==
    {[Req("get_definition") EXCEPT !.name = <<"Run", "add">>],
     [Req("find_callers") EXCEPT !.name = <<"add">>],
     [Req("find_references") EXCEPT !.name = <<"Run">>, !.relation = "subclasses"],
     [Req("find_references") EXCEPT !.name = <<"Run", "add">>],
     [Req("get_file_context") EXCEPT !.path.dirs = <<"src">>],
     [Req("get_file_context") EXCEPT !.path.dirs = <<"lib">>, !.path.stem = "user", !.path.ext = "py"],
     [Req("read_file") EXCEPT !.last = 9],
     [Req("read_file") EXCEPT !.path = MCPathOf[2], !.last = 8],
     [Req("read_file") EXCEPT !.path.stem = "lost", !.path.dirs = <<"src">>],
     Req("get_file_outline"),
     [Req("find_symbol") EXCEPT !.query = {"shut", "box"}],
     [Req("search_code") EXCEPT !.query = {"late", "question"}, !.prose = TRUE],
     [Req("project_docs") EXCEPT !.query = {"add"}],
     Req("describe_repository"),
     [Req("list_files") EXCEPT !.how = "extension"],
     [Req("context") EXCEPT !.path.dirs = <<"src">>, !.query = {"add", "stop"}],
     [Req("context") EXCEPT !.path = MCPathOf[4], !.first = 6, !.query = {"add"}],
     Req("get_diff_summary"),
     [Req("get_file_diff") EXCEPT !.path.dirs = <<"src">>],
     Req("get_file_diff"),
     [Req("get_file_diff") EXCEPT !.path = MCPathOf[2]]}
MCPieces == [Late |-> {"late"}, Box |-> {"box"}]
MCExpansions == {{"Late"}}

(* The chunks of every file are in order but those of the file in which a  *)
(* joined chunk is followed by the overlap: its line 7 is counted twice.   *)
ASSUME InstanceChunks ==
    \A p \in 1 .. 4, v \in MCVersions : InOrder(MCParseOf[p][v].chunks) <=> v # "user"
=============================================================================
