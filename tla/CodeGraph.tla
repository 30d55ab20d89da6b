------------------------------ MODULE CodeGraph ------------------------------
(***************************************************************************)
(* The index as its readers see it: one row per path, the symbols and      *)
(* chunks of its last parse, and the edges between symbols, while builds   *)
(* rewrite them one batch at a time.  IndexBuild has the statuses of the   *)
(* snapshots and who may start or stop a build; here a build only runs,    *)
(* becomes ready or ends before that, at any point between two             *)
(* transactions.                                                           *)
(*                                                                         *)
(* A parse gives every symbol and chunk a new identifier, so the third     *)
(* symbol that build s found at path p is <<p, s, 3>>.                     *)
(***************************************************************************)
EXTENDS SourceLines, FiniteSets

CONSTANTS
    Paths,     \* the paths the parser supports, numbered in their order
    PathOf,    \* directories, stem and extension of each
    Versions,  \* what a file may contain
    Content,   \* the syntax tree of each version
    ParseOf,   \* what a parse finds in each version at each path
    Absent,    \* the version of a path that a commit does not have
    Commits,
    Tree,      \* the version of each path in each commit
    MaxBuilds  \* bound: builds ever started

ASSUME TreeAssumption == Tree \in [Commits -> [Paths -> Versions \cup {Absent}]]
(* The references that a parse finds leave from symbols that it finds.     *)
ASSUME ParsesAssumption ==
    \A p \in Paths, v \in Versions :
        LET found == ParseOf[p][v] IN
        /\ \A k \in DOMAIN found.symbols :
              /\ found.symbols[k].first \in Nat
              /\ found.symbols[k].name \in Seq(Among(found.symbols[k].name))
        /\ found.chunks \in Seq(Among(found.chunks))
        /\ \A ref \in found.references : ref.source \in DOMAIN found.symbols
(* A file that has nothing in it has no line.                              *)
ASSUME ContentAssumption == \A v \in Versions : Content[v].last \in Nat
ASSUME BuildsAssumption == MaxBuilds \in Nat \ {0}

VARIABLES
    files,  \* the row of each path, with what its last parse found
    edges,  \* the references written so far
    snaps,  \* the builds, in the order of their start
    build   \* what the running build has yet to do

graph == <<files, edges, snaps, build>>

NoFile == [version |-> Absent, parse |-> 0, seen |-> 0, deleted |-> FALSE,
           symbols |-> <<>>, chunks |-> <<>>, references |-> {}]
NoSymbol == <<>>
Idle == [phase |-> "idle", todo |-> {}, parsed |-> {}, reused |-> {}, vanished |-> {}]

(* How sure an edge is: a plain name, a name with a dot, a bare last name. *)
Certain == 10
Attribute == 5
Suffix == 3

-----------------------------------------------------------------------------
(* The tables.                                                             *)

Stored == {p \in Paths : files[p].parse # 0}
Live == {p \in Stored : ~files[p].deleted}

\* mutant: the rows of a new parse take over the identifiers of the old one
SameId(p, parse, k) == <<p, 1, k>>
Id(p, parse, k) == <<p, parse, k>>

SymbolRow(p, file, k) ==
    LET symbol == file.symbols[k] IN
    [id |-> Id(p, file.parse, k), path |-> p, of |-> file.version,
     kind |-> symbol.kind, name |-> symbol.name, first |-> symbol.first, last |-> symbol.last]

SymbolsOf(p) == {SymbolRow(p, files[p], k) : k \in DOMAIN files[p].symbols}

ChunkRow(p, file, i) ==
    LET chunk == file.chunks[i] IN
    [id |-> Id(p, file.parse, i), path |-> p, of |-> file.version,
     symbol |-> IF chunk.symbol = 0 THEN NoSymbol ELSE Id(p, file.parse, chunk.symbol),
     first |-> chunk.first, last |-> chunk.last, text |-> chunk.text, owner |-> chunk.owner]

ChunksOf(p) == [i \in DOMAIN files[p].chunks |-> ChunkRow(p, files[p], i)]

SymbolRows == UNION {SymbolsOf(p) : p \in Stored}
Row(id) == CHOOSE row \in SymbolRows : row.id = id

(* The references of a file as they are written: to a name, not a symbol.  *)
EdgesOf(p) ==
    {[source |-> Id(p, files[p].parse, ref.source), kind |-> ref.kind, name |-> ref.name,
      target |-> NoSymbol, resolved |-> FALSE,
      confidence |-> IF ref.sure THEN Certain ELSE Attribute] :
        ref \in files[p].references}

(* The hashes a build may rely on: of live files that a build which became *)
(* ready was the last to see.                                              *)
Trusted == {p \in Live : snaps[files[p].seen].status = "ready"}

LatestReady ==
    LET ready == {s \in 1 .. Len(snaps) : snaps[s].status = "ready"} IN
    IF ready = {} THEN 0 ELSE CHOOSE s \in ready : \A t \in ready : t <= s

-----------------------------------------------------------------------------
(* Resolving names.  An edge that is resolved once is not looked at again. *)

(* A name in full is its symbol if one file alone has it.                  *)
FullName(e) ==
    LET named == {row \in SymbolRows : row.name = e.name} IN
    IF Cardinality({row.path : row \in named}) # 1 THEN {}
    ELSE {(CHOOSE row \in named : \A other \in named : row.first <= other.first).id}

\* mutant: the name may be any part of the symbol's name
AnyPart(e) ==
    LET named == {row \in SymbolRows : row.kind # "module" /\ LastOf(e.name) \in ToSet(row.name)} IN
    IF named = {} THEN {}
    ELSE {(CHOOSE row \in named : \A other \in named : row.first >= other.first).id}

(* A last name is its symbol if no other symbol of the repository has it.  *)
SuffixName(e) ==
    LET named == {row \in SymbolRows : row.kind # "module" /\ LastOf(row.name) = LastOf(e.name)} IN
    IF Cardinality(named) # 1 THEN {} ELSE {row.id : row \in named}

Resolved(e) ==
    CASE e.resolved -> e
      [] ~e.resolved /\ FullName(e) # {} ->
            [e EXCEPT !.target = CHOOSE id \in FullName(e) : TRUE, !.resolved = TRUE]
      [] ~e.resolved /\ FullName(e) = {} /\ SuffixName(e) # {} ->
            [e EXCEPT !.target = CHOOSE id \in SuffixName(e) : TRUE, !.resolved = TRUE,
                      !.confidence = Suffix]
      [] OTHER -> e

-----------------------------------------------------------------------------
(* A build.                                                                *)

StartBuild(c) ==
    /\ build.phase = "idle"
    /\ Len(snaps) < MaxBuilds
    /\ LET supported == {p \in Paths : Tree[c][p] # Absent}
           reused == {p \in Trusted \cap supported : files[p].version = Tree[c][p]}
       IN build' = [phase |-> "storing", todo |-> supported \ reused, parsed |-> {},
                    reused |-> reused, vanished |-> Trusted \ supported]
    /\ snaps' = Append(snaps, [commit |-> c, status |-> "running"])
    /\ UNCHANGED <<files, edges>>

(* The rows of the earlier parse are deleted.  The database removes the    *)
(* edges that leave them and empties the target of those that lead to      *)
(* them, which stay resolved.                                              *)
WithoutSymbols(p) ==
    {[e EXCEPT !.target = IF @ # NoSymbol /\ @[1] = p THEN NoSymbol ELSE @] :
        e \in {f \in edges : f.source[1] # p}}

StoreFile(p) ==
    /\ build.phase = "storing"
    /\ p \in build.todo
    /\ LET version == Tree[snaps[Len(snaps)].commit][p]
           found == ParseOf[p][version]
       IN files' = [files EXCEPT ![p] =
                       [version |-> version, parse |-> Len(snaps), seen |-> Len(snaps),
                        deleted |-> FALSE, symbols |-> found.symbols, chunks |-> found.chunks,
                        references |-> found.references]]
    /\ edges' = WithoutSymbols(p)
    /\ build' = [build EXCEPT !.todo = @ \ {p}, !.parsed = @ \cup {p}]
    /\ UNCHANGED snaps

MarkFiles ==
    /\ build.phase = "storing"
    /\ build.todo = {}
    /\ files' = [p \in Paths |->
                    IF p \in (build.reused \cup build.vanished) \cap Stored
                    THEN [files[p] EXCEPT !.seen = Len(snaps), !.deleted = p \in build.vanished]
                    ELSE files[p]]
    /\ build' = [build EXCEPT !.phase = "linking"]
    /\ UNCHANGED <<edges, snaps>>

WriteEdges ==
    /\ build.phase = "linking"
    /\ edges' = {e \in edges : e.source[1] \notin build.parsed}
                \cup UNION {EdgesOf(p) : p \in build.parsed}
    /\ build' = [build EXCEPT !.phase = "resolving"]
    /\ UNCHANGED <<files, snaps>>

ResolveEdges ==
    /\ build.phase = "resolving"
    /\ edges' = {Resolved(e) : e \in edges}
    /\ snaps' = [snaps EXCEPT ![Len(snaps)].status = "ready"]
    /\ build' = Idle
    /\ UNCHANGED files

(* Cancelled, failed, out of time or killed: what is written stays.        *)
EndBuild ==
    /\ build.phase # "idle"
    /\ snaps' = [snaps EXCEPT ![Len(snaps)].status = "ended"]
    /\ build' = Idle
    /\ UNCHANGED <<files, edges>>

GraphInit ==
    /\ files = [p \in Paths |-> NoFile]
    /\ edges = {}
    /\ snaps = <<>>
    /\ build = Idle

GraphNext ==
    \/ \E c \in Commits : StartBuild(c)
    \/ \E p \in Paths : StoreFile(p)
    \/ MarkFiles
    \/ WriteEdges
    \/ ResolveEdges
    \/ EndBuild

-----------------------------------------------------------------------------
(* Properties.                                                             *)

(* An index that is ready closes every reference that its symbols allow to *)
(* close, however it was built: an incremental build must leave no edge    *)
(* without a target that a build from nothing would have given one.        *)
ReadyGraphIsClosed ==
    build.phase = "idle" /\ snaps # <<>> /\ snaps[Len(snaps)].status = "ready" =>
        \A e \in edges :
            e.target = NoSymbol => FullName(e) = {} /\ SuffixName(e) = {}

=============================================================================
