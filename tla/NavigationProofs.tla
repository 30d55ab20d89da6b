---------------------------- MODULE NavigationProofs -------------------------
(***************************************************************************)
(* Proofs about Navigation, for any paths and commits, whatever a parse    *)
(* finds in a version, any requests and every bound.                       *)
(*                                                                         *)
(* The invariant says what the stored rows are of, what an edge leaves and *)
(* leads to, and what the rows are of that a call still holds while builds *)
(* go on.  The last is what lets a step of a reader be judged by itself:   *)
(* a row that was read stays a row of what some build parsed.              *)
(*                                                                         *)
(* The last part is about Chunking: what the reader of a file makes of the *)
(* pieces of a definition that was too long.                               *)
(***************************************************************************)
EXTENDS Navigation, Chunking, TLAPS, WellFoundedInduction, SequenceTheorems, FiniteSetTheorems

-----------------------------------------------------------------------------
(* Selections from sequences, and the ends of names.                       *)

LEMMA LeastIs ==
    ASSUME NEW S, S \subseteq Nat, S # {}
    PROVE  \E i \in S : \A j \in S : i <= j
<1>1. \E i \in S : \A j \in S : ~(<<j, i>> \in OpToRel(<, Nat))
  BY NatLessThanWellFounded, WFMin
<1>2. ASSUME NEW i \in Nat, NEW j \in Nat, j < i
      PROVE  <<j, i>> \in OpToRel(<, Nat)
  BY <1>2, Zenon DEF OpToRel
<1>3. \E i \in S : \A j \in S : ~(j < i)
  <2> HIDE DEF OpToRel
  <2>1. QED
    BY <1>1, <1>2
<1>4. QED
  BY <1>3

(* Induction up to a bound, with a set in the place of the predicate.      *)
LEMMA UpTo ==
    ASSUME NEW n \in Nat, NEW S, 0 \in S, \A i \in 0..(n - 1) : i \in S => i + 1 \in S
    PROVE  \A i \in 0..n : i \in S
<1> DEFINE missing == {i \in 0..n : i \notin S}
<1>1. SUFFICES ASSUME missing # {} PROVE FALSE
  OBVIOUS
<1>2. PICK i \in missing : \A j \in missing : i <= j
  <2>1. missing \subseteq Nat
    OBVIOUS
  <2> HIDE DEF missing
  <2>2. QED
    BY <1>1, <2>1, LeastIs
<1>3. i # 0 /\ i - 1 \in 0..(n - 1) /\ i - 1 \notin missing
  BY <1>2
<1>4. i - 1 \in S
  BY <1>3
<1>5. QED
  BY <1>2, <1>3, <1>4

(* The function that Only reads its value from.                            *)
Keeps(f, s, S) ==
    /\ f = [i \in 0..Len(s) |-> f[i]]
    /\ f[0] = <<>>
    /\ \A i \in 1..Len(s) : f[i] = IF s[i] \in S THEN Append(f[i - 1], s[i]) ELSE f[i - 1]

LEMMA OnlyIs ==
    ASSUME NEW A, NEW s \in Seq(A), NEW S
    PROVE  \E f : Keeps(f, s, S) /\ Only(s, S) = f[Len(s)]
<1> DEFINE n == Len(s)
           part(f, k) == f = [i \in 0..k |-> IF i = 0 THEN <<>>
                                             ELSE IF s[i] \in S THEN Append(f[i - 1], s[i])
                                             ELSE f[i - 1]]
           done == {k \in 0..n : \E f : part(f, k)}
<1>1. n \in Nat
  OBVIOUS
<1>2. 0 \in done
  <2> DEFINE f == [i \in 0..0 |-> <<>>]
  <2>1. part(f, 0)
    OBVIOUS
  <2> HIDE DEF f, part
  <2>2. QED
    BY <1>1, <2>1
<1>3. ASSUME NEW k \in 0..(n - 1), k \in done
      PROVE  k + 1 \in done
  <2>1. PICK f : part(f, k)
    BY <1>3
  <2> DEFINE last == IF s[k + 1] \in S THEN Append(f[k], s[k + 1]) ELSE f[k]
             g == [i \in 0..(k + 1) |-> IF i = k + 1 THEN last ELSE f[i]]
  <2>2. /\ DOMAIN f = 0..k
        /\ \A i \in 0..k : f[i] = IF i = 0 THEN <<>>
                                  ELSE IF s[i] \in S THEN Append(f[i - 1], s[i]) ELSE f[i - 1]
    BY <2>1
  <2>3. ASSUME NEW i \in 0..(k + 1)
        PROVE  g[i] = IF i = 0 THEN <<>>
                      ELSE IF s[i] \in S THEN Append(g[i - 1], s[i]) ELSE g[i - 1]
    <3>1. CASE i = k + 1
      <4>1. g[i] = last /\ g[i - 1] = f[k] /\ i # 0 /\ i - 1 = k
        BY <1>1, <3>1
      <4>2. QED
        BY <3>1, <4>1
    <3>2. CASE i \in 1..k
      <4>1. g[i] = f[i] /\ g[i - 1] = f[i - 1]
        BY <1>1, <3>2
      <4> HIDE DEF g
      <4>2. QED
        BY <2>2, <3>2, <4>1
    <3>3. CASE i = 0
      <4>1. g[i] = f[0] /\ 0 \in 0..k
        BY <1>1, <3>3
      <4> HIDE DEF g
      <4>2. QED
        BY <2>2, <3>3, <4>1
    <3>4. QED
      BY <1>1, <3>1, <3>2, <3>3
  <2>4. g = [i \in 0..(k + 1) |-> g[i]]
    OBVIOUS
  <2> HIDE DEF g
  <2>5. part(g, k + 1)
    BY <2>3, <2>4
  <2> HIDE DEF part, last
  <2>6. QED
    BY <1>1, <2>5
<1>4. n \in done
  <2> HIDE DEF done, n, part
  <2>1. \A k \in 0..(n - 1) : k \in done => k + 1 \in done
    BY <1>3
  <2>2. \A k \in 0..n : k \in done
    BY <1>1, <1>2, <2>1, UpTo
  <2>3. QED
    BY <1>1, <2>2
<1> DEFINE only == CHOOSE f : part(f, n)
<1>5. part(only, n)
  BY <1>4
<1>6. Only(s, S) = only[n]
  BY DEF Only
<1> HIDE DEF only
<1>7. Keeps(only, s, S)
  <2>1. \A i \in 0..n : only[i] = IF i = 0 THEN <<>>
                                  ELSE IF s[i] \in S THEN Append(only[i - 1], s[i]) ELSE only[i - 1]
    BY <1>5
  <2>2. DOMAIN only = 0..n /\ only = [i \in 0..n |-> only[i]]
    BY <1>5
  <2>3. QED
    BY <1>1, <2>1, <2>2 DEF Keeps
<1>8. QED
  BY <1>6, <1>7

(* What is kept of the first elements of a sequence.                       *)
KeptOf(k, s, i, S, A) ==
    k \in Seq(A) /\ \A x : x \in Among(k) <=> x \in S /\ \E j \in 1..i : x = s[j]

LEMMA KeepsElements ==
    ASSUME NEW A, NEW s \in Seq(A), NEW S, NEW f, Keeps(f, s, S)
    PROVE  \A i \in 0..Len(s) : KeptOf(f[i], s, i, S, A)
<1> DEFINE n == Len(s)
           good == {i \in 0..n : KeptOf(f[i], s, i, S, A)}
<1>1. n \in Nat /\ DOMAIN s = 1..n /\ \A i \in 1..n : s[i] \in A
  OBVIOUS
<1>2. 0 \in good
  <2>1. f[0] = <<>> /\ 0 \in 0..n
    BY <1>1 DEF Keeps
  <2>2. KeptOf(<<>>, s, 0, S, A)
    BY DEF KeptOf, Among
  <2> HIDE DEF n
  <2>3. QED
    BY <2>1, <2>2
<1>3. ASSUME NEW i \in 0..(n - 1), i \in good
      PROVE  i + 1 \in good
  <2>1. i + 1 \in 1..n /\ (i + 1) - 1 = i
    BY <1>1
  <2>2. f[i + 1] = IF s[i + 1] \in S THEN Append(f[i], s[i + 1]) ELSE f[i]
    BY <2>1 DEF Keeps
  <2>3. KeptOf(f[i], s, i, S, A) /\ s[i + 1] \in A
    BY <1>1, <1>3, <2>1
  <2>4. \A x : (\E j \in 1..(i + 1) : x = s[j]) <=> x = s[i + 1] \/ \E j \in 1..i : x = s[j]
    BY <1>1
  <2>5. \A q \in Seq(A), x \in A : Append(q, x) \in Seq(A) /\ Among(Append(q, x)) = Among(q) \cup {x}
    <3>1. TAKE q \in Seq(A), x \in A
    <3>2. /\ DOMAIN Append(q, x) = DOMAIN q \cup {Len(q) + 1}
          /\ \A j \in DOMAIN q : Append(q, x)[j] = q[j]
          /\ Append(q, x)[Len(q) + 1] = x
      OBVIOUS
    <3>3. QED
      BY <3>2 DEF Among
  <2>6. KeptOf(f[i + 1], s, i + 1, S, A)
    BY <2>2, <2>3, <2>4, <2>5 DEF KeptOf
  <2>7. QED
    BY <1>1, <2>6
<1>4. \A i \in 0..n : i \in good
  <2> HIDE DEF good, n
  <2>1. QED
    BY <1>1, <1>2, <1>3, UpTo
<1>5. QED
  BY <1>4

LEMMA OnlyKeeps ==
    ASSUME NEW A, NEW s \in Seq(A), NEW S
    PROVE  Only(s, S) \in Seq(A) /\ Among(Only(s, S)) = Among(s) \cap S
<1>1. PICK f : Keeps(f, s, S) /\ Only(s, S) = f[Len(s)]
  BY OnlyIs
<1>2. Len(s) \in 0..Len(s) /\ DOMAIN s = 1..Len(s)
  OBVIOUS
<1>3. KeptOf(Only(s, S), s, Len(s), S, A)
  BY <1>1, <1>2, KeepsElements
<1>4. \A x : x \in Among(s) <=> \E j \in 1..Len(s) : x = s[j]
  BY <1>2 DEF Among
<1>5. QED
  BY <1>3, <1>4 DEF KeptOf

(* A name that ends in another one has its last segment.                   *)
IsSequence(s) == s \in Seq(Among(s))

LEMMA SuffixEnds ==
    ASSUME NEW s, NEW t, IsSequence(s), IsSequence(t), s # <<>>, IsSuffix(s, t)
    PROVE  LastOf(s) = LastOf(t)
<1> DEFINE A == Among(s)
           B == Among(t)
<1>0. s \in Seq(A) /\ t \in Seq(B)
  BY DEF IsSequence
<1> HIDE DEF A, B
<1> USE <1>0
<1> DEFINE m == Len(s)
           n == Len(t)
           back == Reverse(s)
           whole == Reverse(t)
<1>1. m \in Nat \ {0} /\ n \in Nat
  OBVIOUS
<1>2. back \in Seq(A) /\ Len(back) = m /\ back[1] = s[m]
  <2>1. \A i \in 1 .. m : s[(m - i) + 1] \in A
    BY <1>1
  <2>2. back \in [1 .. m -> A]
    BY <2>1 DEF Reverse
  <2>3. back[1] = s[(m - 1) + 1]
    BY <1>1 DEF Reverse
  <2> HIDE DEF back, m
  <2>4. QED
    BY <1>1, <2>2, <2>3
<1>3. whole \in Seq(B) /\ Len(whole) = n /\ (n >= 1 => whole[1] = t[n])
  <2>1. \A i \in 1 .. n : t[(n - i) + 1] \in B
    BY <1>1
  <2>2. whole \in [1 .. n -> B]
    BY <2>1 DEF Reverse
  <2>3. n >= 1 => whole[1] = t[(n - 1) + 1]
    BY <1>1 DEF Reverse
  <2> HIDE DEF whole, n
  <2>4. QED
    BY <1>1, <2>2, <2>3
<1>4. Len(back) <= Len(whole) /\ SubSeq(back, 1, m) = SubSeq(whole, 1, m)
  BY <1>2 DEF IsSuffix, IsPrefix
<1> HIDE DEF back, whole, m, n
<1>5. SubSeq(back, 1, m)[1] = back[1] /\ SubSeq(whole, 1, m)[1] = whole[1]
  BY <1>1, <1>2, <1>3, <1>4
<1>6. back[1] = whole[1] /\ n >= 1
  BY <1>1, <1>2, <1>3, <1>4, <1>5
<1>7. s[m] = t[n]
  BY <1>2, <1>3, <1>6
<1>8. QED
  BY <1>7 DEF LastOf, m, n

-----------------------------------------------------------------------------
(* What holds of the index between any two transactions.                   *)

VersionAt(p, s) == Tree[snaps[s].commit][p]

Snapshots == [commit : Commits, status : {"running", "ready", "ended"}]
SnapsInv == snaps \in Seq(Snapshots)

(* A stored file is of the version that the build which parsed it saw, and *)
(* what was parsed is that of that version.                                *)
FileFields == {"version", "parse", "seen", "deleted", "symbols", "chunks", "references"}
FilesInv ==
    /\ DOMAIN files = Paths
    /\ \A p \in Paths : DOMAIN files[p] = FileFields
    /\ \A p \in Stored :
          LET version == files[p].version IN
          /\ files[p].parse \in 1 .. Len(snaps)
          /\ version = VersionAt(p, files[p].parse) /\ version \in Versions
          /\ files[p].symbols = ParseOf[p][version].symbols
          /\ files[p].chunks = ParseOf[p][version].chunks
          /\ files[p].references = ParseOf[p][version].references

BuildInv ==
    /\ build \in [phase : {"idle", "storing", "linking", "resolving"}, todo : SUBSET Paths,
                  parsed : SUBSET Paths, reused : SUBSET Paths, vanished : SUBSET Paths]
    /\ build.phase # "idle" => snaps # <<>>
    /\ build.parsed \subseteq Stored
    /\ build.phase = "storing" => \A p \in build.todo : VersionAt(p, Len(snaps)) \in Versions

(* An edge leaves a symbol of today by one of its references of today, and *)
(* a target it has is a symbol of today whose name ends as the edge says.  *)
Leaves(e) ==
    \E p \in Stored : \E ref \in files[p].references :
        /\ e.source = Id(p, files[p].parse, ref.source)
        /\ e.kind = ref.kind /\ e.name = ref.name
Leads(e) ==
    e.target # NoSymbol =>
        \E p \in Stored : \E k \in DOMAIN files[p].symbols :
            /\ e.target = Id(p, files[p].parse, k)
            /\ LastOf(files[p].symbols[k].name) = LastOf(e.name)
EdgeFields == {"source", "kind", "name", "target", "resolved", "confidence"}
EdgesInv == \A e \in edges : DOMAIN e = EdgeFields /\ Leaves(e) /\ Leads(e)

GraphInv == SnapsInv /\ FilesInv /\ BuildInv /\ EdgesInv

(* Builds are only added, and keep the commit they are of.                 *)
SnapsGrow ==
    /\ Len(snaps) <= Len(snaps')
    /\ \A s \in 1 .. Len(snaps) : snaps'[s].commit = snaps[s].commit

LEMMA VersionsStay ==
    ASSUME SnapsInv, SnapsGrow, NEW p, NEW s \in 1 .. Len(snaps)
    PROVE  VersionAt(p, s)' = VersionAt(p, s)
  BY DEF SnapsGrow, VersionAt

LEMMA GraphInitInv == GraphInit => GraphInv
<1>1. SUFFICES ASSUME GraphInit PROVE GraphInv
  OBVIOUS
<1>2. Stored = {}
  BY <1>1 DEF GraphInit, Stored, NoFile
<1>3. SnapsInv /\ EdgesInv
  BY <1>1 DEF GraphInit, SnapsInv, EdgesInv
<1>4. FilesInv
  BY <1>1, <1>2 DEF GraphInit, FilesInv, NoFile, FileFields
<1>5. BuildInv
  BY <1>1 DEF GraphInit, BuildInv, Idle
<1>6. QED
  BY <1>3, <1>4, <1>5 DEF GraphInv

(* Symbols of today are where their build found them.                      *)
LEMMA RowsAreParsed ==
    ASSUME FilesInv, NEW row \in SymbolRows
    PROVE  \E p \in Stored : \E k \in DOMAIN files[p].symbols :
              /\ row = SymbolRow(p, files[p], k)
              /\ row.id = Id(p, files[p].parse, k) /\ row.path = p
              /\ row.of = files[p].version /\ row.name = files[p].symbols[k].name
              /\ row.first = files[p].symbols[k].first
<1>1. PICK p \in Stored : row \in SymbolsOf(p)
  BY DEF SymbolRows
<1>2. PICK k \in DOMAIN files[p].symbols : row = SymbolRow(p, files[p], k)
  BY <1>1 DEF SymbolsOf
<1>3. QED
  BY <1>1, <1>2 DEF SymbolRow

-----------------------------------------------------------------------------
(* Each step of a build.                                                   *)

(* A step that keeps the rows and their edges needs to say only what it    *)
(* does to the builds.                                                     *)
LEMMA FilesStay ==
    ASSUME SnapsInv, SnapsInv', SnapsGrow, FilesInv, EdgesInv, UNCHANGED <<files, edges>>
    PROVE  FilesInv' /\ EdgesInv' /\ Stored' = Stored
<1>1. Stored' = Stored
  BY DEF Stored
<1>2. FilesInv'
  <2>1. SUFFICES ASSUME NEW p \in Stored
                 PROVE  /\ files[p].parse \in 1 .. Len(snaps')
                        /\ files[p].version = VersionAt(p, files[p].parse)'
    BY <1>1 DEF FilesInv
  <2>2. files[p].parse \in 1 .. Len(snaps) /\ files[p].version = VersionAt(p, files[p].parse)
    BY <2>1 DEF FilesInv
  <2>3. Len(snaps) \in Nat /\ Len(snaps') \in Nat
    BY DEF SnapsInv
  <2>4. QED
    BY <2>2, <2>3, VersionsStay DEF SnapsGrow
<1>3. EdgesInv'
  BY <1>1 DEF EdgesInv, Leaves, Leads
<1>4. QED
  BY <1>1, <1>2, <1>3

LEMMA StartBuildKeeps ==
    ASSUME GraphInv, NEW c \in Commits, StartBuild(c)
    PROVE  GraphInv' /\ SnapsGrow
<1> DEFINE new == [commit |-> c, status |-> "running"]
           n == Len(snaps)
<1> USE DEF GraphInv
<1>1. snaps' = Append(snaps, new) /\ new \in Snapshots /\ n \in Nat
  BY DEF StartBuild, Snapshots, SnapsInv
<1> HIDE DEF new
<1>2. SnapsInv' /\ SnapsGrow /\ Len(snaps') = n + 1 /\ snaps'[n + 1] = new
  BY <1>1 DEF SnapsInv, SnapsGrow
<1>3. UNCHANGED <<files, edges>>
  BY DEF StartBuild
<1>4. FilesInv' /\ EdgesInv' /\ Stored' = Stored
  BY <1>2, <1>3, FilesStay
<1>5. BuildInv'
  <2> DEFINE supported == {p \in Paths : Tree[c][p] # Absent}
             reused == {p \in Trusted \cap supported : files[p].version = Tree[c][p]}
  <2>1. /\ build' = [phase |-> "storing", todo |-> supported \ reused, parsed |-> {},
                     reused |-> reused, vanished |-> Trusted \ supported]
    BY DEF StartBuild
  <2>2. Trusted \subseteq Paths
    BY DEF Trusted, Live, Stored
  <2>3. supported \in SUBSET Paths /\ reused \in SUBSET Paths /\ Trusted \ supported \in SUBSET Paths
    BY <2>2
  <2>4. \A p \in supported : Tree[c][p] \in Versions
    BY TreeAssumption
  <2> HIDE DEF supported, reused
  <2>5. \A p : VersionAt(p, Len(snaps))' = Tree[c][p]
    BY <1>2 DEF VersionAt, new
  <2>6. snaps' # <<>>
    BY <1>1, <1>2
  <2>7. QED
    BY <2>1, <2>3, <2>4, <2>5, <2>6 DEF BuildInv
<1>6. QED
  BY <1>2, <1>4, <1>5

(* A build that comes to its end only says so.                             *)
LEMMA Ends ==
    ASSUME SnapsInv, snaps # <<>>, NEW status \in {"ready", "ended"},
           snaps' = [snaps EXCEPT ![Len(snaps)].status = status]
    PROVE  SnapsInv' /\ SnapsGrow
<1> DEFINE n == Len(snaps)
<1>1. n \in Nat \ {0} /\ n \in DOMAIN snaps /\ snaps[n] \in Snapshots
  BY DEF SnapsInv
<1>2. snaps' = [snaps EXCEPT ![n] = [snaps[n] EXCEPT !.status = status]]
  OBVIOUS
<1>3. [snaps[n] EXCEPT !.status = status] \in Snapshots
  BY <1>1 DEF Snapshots
<1>4. [snaps[n] EXCEPT !.status = status].commit = snaps[n].commit
  BY <1>1 DEF Snapshots
<1> DEFINE new == [snaps[n] EXCEPT !.status = status]
<1> HIDE DEF new, n
<1>5. QED
  BY <1>1, <1>2, <1>3, <1>4 DEF SnapsInv, SnapsGrow, new

LEMMA EndBuildKeeps ==
    ASSUME GraphInv, EndBuild
    PROVE  GraphInv' /\ SnapsGrow
<1> USE DEF GraphInv
<1>1. SnapsInv' /\ SnapsGrow
  BY Ends DEF EndBuild, BuildInv
<1>2. FilesInv' /\ EdgesInv'
  BY <1>1, FilesStay DEF EndBuild
<1>3. BuildInv'
  BY DEF EndBuild, BuildInv, Idle
<1>4. QED
  BY <1>1, <1>2, <1>3

LEMMA MarkFilesKeeps ==
    ASSUME GraphInv, MarkFiles
    PROVE  GraphInv' /\ SnapsGrow
<1> USE DEF GraphInv
<1>1. UNCHANGED <<edges, snaps>>
  BY DEF MarkFiles
<1>2. SnapsInv' /\ SnapsGrow
  BY <1>1 DEF SnapsInv, SnapsGrow
<1>3. /\ DOMAIN files' = Paths
      /\ \A p \in Paths : \/ files'[p] = files[p]
                          \/ p \in Stored /\ \E seen, gone :
                                files'[p] = [files[p] EXCEPT !.seen = seen, !.deleted = gone]
  BY DEF MarkFiles
<1>4. \A p \in Paths : /\ files'[p].version = files[p].version
                       /\ files'[p].parse = files[p].parse
                       /\ files'[p].symbols = files[p].symbols
                       /\ files'[p].chunks = files[p].chunks
                       /\ files'[p].references = files[p].references
                       /\ DOMAIN files'[p] = FileFields
  BY <1>3 DEF FilesInv, FileFields
<1>5. Stored' = Stored /\ Stored \subseteq Paths
  BY <1>4 DEF Stored
<1>6. FilesInv'
  <2>1. ASSUME NEW p \in Stored
        PROVE  /\ files'[p].parse \in 1 .. Len(snaps')
               /\ files'[p].version = VersionAt(p, files[p].parse)' /\ files'[p].version \in Versions
               /\ files'[p].symbols = ParseOf[p][files'[p].version].symbols
               /\ files'[p].chunks = ParseOf[p][files'[p].version].chunks
               /\ files'[p].references = ParseOf[p][files'[p].version].references
    BY <1>1, <1>4, <1>5 DEF FilesInv, VersionAt
  <2>2. QED
    BY <1>3, <1>4, <1>5, <2>1 DEF FilesInv
<1>7. EdgesInv'
  BY <1>1, <1>4, <1>5 DEF EdgesInv, Leaves, Leads
<1>8. BuildInv'
  BY <1>1, <1>5 DEF MarkFiles, BuildInv
<1>9. QED
  BY <1>2, <1>6, <1>7, <1>8

(* The edges of the rows that go are taken with them or lose their target. *)
LEMMA StoreFileKeeps ==
    ASSUME GraphInv, NEW p \in Paths, StoreFile(p)
    PROVE  GraphInv' /\ SnapsGrow
<1> DEFINE version == Tree[snaps[Len(snaps)].commit][p]
           found == ParseOf[p][version]
           stored == [version |-> version, parse |-> Len(snaps), seen |-> Len(snaps),
                      deleted |-> FALSE, symbols |-> found.symbols, chunks |-> found.chunks,
                      references |-> found.references]
<1> USE DEF GraphInv
<1>1. /\ files' = [files EXCEPT ![p] = stored] /\ UNCHANGED snaps /\ edges' = WithoutSymbols(p)
      /\ build.phase = "storing" /\ p \in build.todo
      /\ build' = [build EXCEPT !.todo = @ \ {p}, !.parsed = @ \cup {p}]
  BY DEF StoreFile
<1>2. SnapsInv' /\ SnapsGrow
  BY <1>1 DEF SnapsInv, SnapsGrow
<1>3. version = VersionAt(p, Len(snaps)) /\ version \in Versions /\ Len(snaps) \in Nat \ {0}
  BY <1>1 DEF BuildInv, VersionAt, SnapsInv
<1>4. /\ stored.parse = Len(snaps) /\ stored.version = version /\ DOMAIN stored = FileFields
      /\ stored.symbols = found.symbols /\ stored.chunks = found.chunks
      /\ stored.references = found.references
  BY DEF FileFields
<1> HIDE DEF stored, version
<1>5. /\ DOMAIN files' = Paths /\ files'[p] = stored
      /\ \A q \in Paths \ {p} : files'[q] = files[q]
  BY <1>1 DEF FilesInv
<1>6. Stored' = Stored \cup {p} /\ Stored \subseteq Paths
  BY <1>3, <1>4, <1>5 DEF Stored
<1>7. FilesInv'
  <2>1. ASSUME NEW q \in Stored \ {p}
        PROVE  /\ files'[q].parse \in 1 .. Len(snaps')
               /\ files'[q].version = VersionAt(q, files[q].parse)' /\ files'[q].version \in Versions
               /\ files'[q].symbols = ParseOf[q][files'[q].version].symbols
               /\ files'[q].chunks = ParseOf[q][files'[q].version].chunks
               /\ files'[q].references = ParseOf[q][files'[q].version].references
    BY <1>1, <1>5, <1>6, <2>1 DEF FilesInv, VersionAt
  <2>2. /\ files'[p].parse \in 1 .. Len(snaps')
        /\ files'[p].version = VersionAt(p, files[p].parse)' /\ files'[p].version \in Versions
        /\ files'[p].symbols = ParseOf[p][files'[p].version].symbols
        /\ files'[p].chunks = ParseOf[p][files'[p].version].chunks
        /\ files'[p].references = ParseOf[p][files'[p].version].references
    BY <1>1, <1>3, <1>4, <1>5 DEF VersionAt
  <2>3. \A q \in Paths : DOMAIN files'[q] = FileFields
    BY <1>4, <1>5 DEF FilesInv
  <2>4. QED
    BY <1>5, <1>6, <2>1, <2>2, <2>3 DEF FilesInv
<1>8. EdgesInv'
  <2>1. SUFFICES ASSUME NEW d \in edges'
                 PROVE  DOMAIN d = EdgeFields /\ Leaves(d)' /\ Leads(d)'
    BY DEF EdgesInv
  <2>2. PICK e \in edges :
           /\ e.source[1] # p
           /\ d = [e EXCEPT !.target = IF @ # NoSymbol /\ @[1] = p THEN NoSymbol ELSE @]
    BY <1>1, <2>1 DEF WithoutSymbols
  <2>3. DOMAIN e = EdgeFields /\ Leaves(e) /\ Leads(e)
    BY DEF EdgesInv
  <2>4. /\ DOMAIN d = EdgeFields /\ d.source = e.source /\ d.kind = e.kind /\ d.name = e.name
        /\ d.target = IF e.target # NoSymbol /\ e.target[1] = p THEN NoSymbol ELSE e.target
    BY <2>2, <2>3 DEF EdgeFields
  <2>5. Leaves(d)'
    <3>1. PICK q \in Stored : \E ref \in files[q].references :
              /\ e.source = Id(q, files[q].parse, ref.source) /\ e.kind = ref.kind /\ e.name = ref.name
      BY <2>3 DEF Leaves
    <3>2. q # p
      BY <2>2, <3>1 DEF Id
    <3>3. q \in Stored' /\ files'[q] = files[q]
      BY <1>5, <1>6, <3>2
    <3>4. QED
      BY <2>4, <3>1, <3>3 DEF Leaves
  <2>6. Leads(d)'
    <3>1. SUFFICES ASSUME d.target # NoSymbol
                   PROVE  \E q \in Stored' : \E k \in DOMAIN files'[q].symbols :
                             /\ d.target = Id(q, files'[q].parse, k)
                             /\ LastOf(files'[q].symbols[k].name) = LastOf(d.name)
      BY DEF Leads
    <3>2. d.target = e.target /\ e.target # NoSymbol /\ e.target[1] # p
      BY <2>4, <3>1
    <3>3. PICK q \in Stored : \E k \in DOMAIN files[q].symbols :
             /\ e.target = Id(q, files[q].parse, k)
             /\ LastOf(files[q].symbols[k].name) = LastOf(e.name)
      BY <2>3, <3>2 DEF Leads
    <3>4. q # p
      BY <3>2, <3>3 DEF Id
    <3>5. q \in Stored' /\ files'[q] = files[q]
      BY <1>5, <1>6, <3>4
    <3>6. QED
      BY <2>4, <3>2, <3>3, <3>5
  <2>7. QED
    BY <2>4, <2>5, <2>6
<1>9. BuildInv'
  BY <1>1, <1>6 DEF BuildInv, VersionAt
<1>10. QED
  BY <1>2, <1>7, <1>8, <1>9

(* The edges of the files this build parsed are written anew.              *)
LEMMA WriteEdgesKeeps ==
    ASSUME GraphInv, WriteEdges
    PROVE  GraphInv' /\ SnapsGrow
<1> USE DEF GraphInv
<1>1. UNCHANGED <<files, snaps>>
  BY DEF WriteEdges
<1>2. SnapsInv' /\ SnapsGrow /\ FilesInv' /\ Stored' = Stored
  BY <1>1 DEF SnapsInv, SnapsGrow, FilesInv, Stored, VersionAt
<1>3. BuildInv'
  BY <1>1, <1>2 DEF WriteEdges, BuildInv
<1>4. ASSUME NEW p \in Stored, NEW e \in EdgesOf(p)
      PROVE  DOMAIN e = EdgeFields /\ Leaves(e) /\ Leads(e)
  <2>1. PICK ref \in files[p].references :
           /\ e.source = Id(p, files[p].parse, ref.source) /\ e.kind = ref.kind /\ e.name = ref.name
           /\ e.target = NoSymbol /\ DOMAIN e = EdgeFields
    BY DEF EdgesOf, EdgeFields
  <2>2. QED
    BY <2>1 DEF Leaves, Leads
<1>5. \A e \in edges' : DOMAIN e = EdgeFields /\ Leaves(e) /\ Leads(e)
  BY <1>4 DEF WriteEdges, BuildInv, EdgesInv
<1>6. EdgesInv'
  BY <1>1, <1>2, <1>5 DEF EdgesInv, Leaves, Leads
<1>7. QED
  BY <1>2, <1>3, <1>6

(* Symbols have the places and names that their parse gave them.           *)
LEMMA RowsAreNamed ==
    ASSUME FilesInv, NEW row \in SymbolRows
    PROVE  /\ row.first \in Nat
           /\ row.name \in Seq(Among(row.name))
<1>1. PICK p \in Stored : \E k \in DOMAIN files[p].symbols :
              row.name = files[p].symbols[k].name /\ row.first = files[p].symbols[k].first
  BY RowsAreParsed
<1>2. p \in Paths /\ files[p].version \in Versions
      /\ files[p].symbols = ParseOf[p][files[p].version].symbols
  BY <1>1 DEF FilesInv, Stored
<1>3. QED
  BY <1>1, <1>2, ParsesAssumption

(* What a name resolves to is a symbol whose name ends like it.            *)
EndsLike(id, name) ==
    \E p \in Stored : \E k \in DOMAIN files[p].symbols :
        id = Id(p, files[p].parse, k) /\ LastOf(files[p].symbols[k].name) = LastOf(name)

LEMMA RowsEndLike ==
    ASSUME FilesInv, NEW row \in SymbolRows, NEW name, LastOf(row.name) = LastOf(name)
    PROVE  EndsLike(row.id, name)
  BY RowsAreParsed DEF EndsLike

LEMMA FullNameEndsLike ==
    ASSUME FilesInv, NEW e, NEW id \in FullName(e)
    PROVE  EndsLike(id, e.name)
<1> DEFINE named == {row \in SymbolRows : row.name = e.name}
           top == CHOOSE row \in named : \A other \in named : row.first <= other.first
<1>1. Cardinality({row.path : row \in named}) = 1 /\ id = top.id
  BY DEF FullName
<1>2. named # {}
  <2>1. ASSUME named = {} PROVE FALSE
    <3>1. {row.path : row \in named} = {}
      BY <2>1
    <3> HIDE DEF named
    <3>2. QED
      BY <1>1, <3>1, FS_EmptySet
  <2>2. QED
    BY <2>1
<1>3. \E row \in named : \A other \in named : row.first <= other.first
  <2> DEFINE firsts == {row.first : row \in named}
  <2>1. firsts \subseteq Nat /\ firsts # {}
    BY <1>2, RowsAreNamed
  <2> HIDE DEF firsts
  <2>2. PICK n \in firsts : \A m \in firsts : n <= m
    BY <2>1, LeastIs
  <2>3. QED
    BY <2>2 DEF firsts
<1>4. top \in named
  <2> HIDE DEF named
  <2>1. QED
    BY <1>3
<1> HIDE DEF top
<1>5. QED
  BY <1>1, <1>4, RowsEndLike

LEMMA SuffixNameEndsLike ==
    ASSUME FilesInv, NEW e, NEW id \in SuffixName(e)
    PROVE  EndsLike(id, e.name)
<1>1. PICK row \in SymbolRows : LastOf(row.name) = LastOf(e.name) /\ id = row.id
  BY DEF SuffixName
<1>2. QED
  BY <1>1, RowsEndLike

LEMMA ResolvedLeads ==
    ASSUME FilesInv, NEW e, DOMAIN e = EdgeFields, Leaves(e), Leads(e)
    PROVE  DOMAIN Resolved(e) = EdgeFields /\ Leaves(Resolved(e)) /\ Leads(Resolved(e))
<1> DEFINE d == Resolved(e)
<1>1. d = e \/ (/\ DOMAIN d = EdgeFields
                /\ d.source = e.source /\ d.kind = e.kind /\ d.name = e.name
                /\ d.target \in FullName(e) \cup SuffixName(e))
  <2>1. CASE e.resolved
    BY <2>1 DEF Resolved
  <2>2. CASE ~e.resolved /\ FullName(e) # {}
    <3> DEFINE id == CHOOSE i \in FullName(e) : TRUE
    <3>1. d = [e EXCEPT !.target = id, !.resolved = TRUE]
      BY <2>2 DEF Resolved
    <3>2. id \in FullName(e)
      BY <2>2
    <3> HIDE DEF id, d
    <3>3. QED
      BY <3>1, <3>2 DEF EdgeFields
  <2>3. CASE ~e.resolved /\ FullName(e) = {} /\ SuffixName(e) # {}
    <3> DEFINE id == CHOOSE i \in SuffixName(e) : TRUE
    <3>1. d = [e EXCEPT !.target = id, !.resolved = TRUE, !.confidence = Suffix]
      BY <2>3 DEF Resolved
    <3>2. id \in SuffixName(e)
      BY <2>3
    <3> HIDE DEF id, d
    <3>3. QED
      BY <3>1, <3>2 DEF EdgeFields
  <2>4. CASE ~e.resolved /\ FullName(e) = {} /\ SuffixName(e) = {}
    BY <2>4 DEF Resolved
  <2>5. QED
    BY <2>1, <2>2, <2>3, <2>4
<1> HIDE DEF d
<1>2. CASE d = e
  BY <1>2 DEF d
<1>3. CASE d # e
  <2>1. EndsLike(d.target, e.name)
    BY <1>1, <1>3, FullNameEndsLike, SuffixNameEndsLike
  <2>2. Leads(d)
    BY <1>1, <1>3, <2>1 DEF Leads, EndsLike
  <2>3. Leaves(d)
    BY <1>1, <1>3 DEF Leaves
  <2>4. QED
    BY <1>1, <1>3, <2>2, <2>3 DEF d
<1>4. QED
  BY <1>2, <1>3

LEMMA ResolveEdgesKeeps ==
    ASSUME GraphInv, ResolveEdges
    PROVE  GraphInv' /\ SnapsGrow
<1> USE DEF GraphInv
<1>1. SnapsInv' /\ SnapsGrow
  BY Ends DEF ResolveEdges, BuildInv
<1>2. UNCHANGED files /\ edges' = {Resolved(e) : e \in edges} /\ build' = Idle
  BY DEF ResolveEdges
<1>3. Stored' = Stored /\ FilesInv'
  <2>1. Stored' = Stored
    BY <1>2 DEF Stored
  <2>2. ASSUME NEW p \in Stored
        PROVE  /\ files[p].parse \in 1 .. Len(snaps')
               /\ files[p].version = VersionAt(p, files[p].parse)'
    BY <1>1, <1>2, VersionsStay DEF FilesInv, SnapsInv, SnapsGrow
  <2>3. QED
    BY <1>2, <2>1, <2>2 DEF FilesInv
<1>4. \A e \in edges' : DOMAIN e = EdgeFields /\ Leaves(e) /\ Leads(e)
  BY <1>2, ResolvedLeads DEF EdgesInv
<1>5. EdgesInv'
  BY <1>2, <1>3, <1>4 DEF EdgesInv, Leaves, Leads
<1>6. BuildInv'
  BY <1>2 DEF BuildInv, Idle
<1>7. QED
  BY <1>1, <1>3, <1>5, <1>6

LEMMA GraphStepKeeps ==
    ASSUME GraphInv, GraphNext
    PROVE  GraphInv' /\ SnapsGrow
  BY StartBuildKeeps, StoreFileKeeps, MarkFilesKeeps, WriteEdgesKeeps, ResolveEdgesKeeps, EndBuildKeeps
     DEF GraphNext

-----------------------------------------------------------------------------
(* What a reader holds.                                                    *)

(* A row that was read is of what some build parsed, also when the file    *)
(* has been parsed again since.                                            *)
WasParsed(row) ==
    \E p \in Paths, s \in 1 .. Len(snaps) :
        /\ VersionAt(p, s) \in Versions
        /\ \E k \in DOMAIN ParseOf[p][VersionAt(p, s)].symbols :
              /\ row.id = Id(p, s, k) /\ row.path = p /\ row.of = VersionAt(p, s)
              /\ row.name = ParseOf[p][VersionAt(p, s)].symbols[k].name

Rising(s) == \A i \in 1 .. Len(s) - 1 : s[i] < s[i + 1]

(* The lines of a file rise: always, or if its chunks are in order.        *)
Exact(f) ==
    /\ f.text.of = f.of
    /\ f.role = "source" => Rising(f.text.lines)
Matched(f) ==
    /\ f.text.of = f.of
    /\ f.role = "source" /\ InOrder(ParseOf[f.path][f.of].chunks) => Rising(f.text.lines)
MatchedSeq(s) == \E A : s \in Seq(A) /\ \A f \in A : Matched(f)

Real(f, name) ==
    \E ref \in ParseOf[f.path][f.of].references :
        /\ EdgeRoles[ref.kind] = f.role
        /\ LastOf(ref.name) = LastOf(name)
        /\ ParseOf[f.path][f.of].symbols[ref.source].name = f.name

RoleTools == {"find_callers", "find_references"}
CallFields == {"step", "tool", "req", "path", "needles", "looked", "rows", "got",
               "queries", "stages", "hits"}

(* The course of a call, and what it has collected on its way.             *)
CallOk(c) ==
    /\ DOMAIN c = CallFields
    /\ c.req \in Requests
    /\ \A row \in c.rows : WasParsed(row)
    /\ c.step # "count" => MatchedSeq(c.got)
    /\ c.tool \in RoleTools => c.step \in {"names", "related", "others"}
    /\ c.step = "names" => c.got = <<>>
    /\ c.step = "related" => \A row \in c.rows : LastOf(row.name) = LastOf(c.req.name)
    /\ c.step = "others" => \A i \in DOMAIN c.got : Real(c.got[i], c.req.name)
    /\ c.step = "path" => c.tool \in {"read_file", "get_file_outline", "get_file_context"}
    /\ c.step = "cover" => c.tool \in {"get_file_context", "context"}

CallInv == call = NoCall \/ CallOk(call)

AnswerInv ==
    /\ reader = NoReader => answer = NoAnswer
    /\ reader.source = "git" => reader.head \in Commits /\ \A f \in answer.fragments : Exact(f)
    /\ \A f \in answer.fragments : Matched(f)
    /\ RolesAreReal

Inv == GraphInv /\ CallInv /\ AnswerInv

LEMMA WasParsedStays ==
    ASSUME SnapsInv, SnapsInv', SnapsGrow, NEW row, WasParsed(row)
    PROVE  WasParsed(row)'
<1>1. PICK p \in Paths, s \in 1 .. Len(snaps) :
        /\ VersionAt(p, s) \in Versions
        /\ \E k \in DOMAIN ParseOf[p][VersionAt(p, s)].symbols :
              /\ row.id = Id(p, s, k) /\ row.path = p /\ row.of = VersionAt(p, s)
              /\ row.name = ParseOf[p][VersionAt(p, s)].symbols[k].name
  BY DEF WasParsed
<1>2. VersionAt(p, s)' = VersionAt(p, s)
  BY VersionsStay
<1>3. s \in 1 .. Len(snaps')
  BY DEF SnapsGrow, SnapsInv
<1>4. QED
  BY <1>1, <1>2, <1>3 DEF WasParsed

LEMMA RowsWereParsed ==
    ASSUME GraphInv, NEW row \in SymbolRows
    PROVE  WasParsed(row)
<1>1. PICK p \in Stored : \E k \in DOMAIN files[p].symbols :
              /\ row.id = Id(p, files[p].parse, k) /\ row.path = p
              /\ row.of = files[p].version /\ row.name = files[p].symbols[k].name
  BY RowsAreParsed DEF GraphInv
<1>2. /\ p \in Paths /\ files[p].parse \in 1 .. Len(snaps)
      /\ files[p].version = VersionAt(p, files[p].parse) /\ files[p].version \in Versions
      /\ files[p].symbols = ParseOf[p][files[p].version].symbols
  BY DEF GraphInv, FilesInv, Stored
<1>3. QED
  BY <1>1, <1>2 DEF WasParsed

(* Fragments.                                                              *)
LEMMA ContractMatches == \A role, row : Matched(Contract(role, row))
  BY DEF Contract, Fragment, Matched, Rising

LEMMA MatchMatches == \A chunk : Matched(Match(chunk))
  BY DEF Match, Matched

LEMMA MatchedMap ==
    ASSUME NEW S, NEW s \in Seq(S), NEW f, f = [i \in DOMAIN s |-> f[i]],
           \A i \in DOMAIN s : Matched(f[i])
    PROVE  MatchedSeq(f)
<1> DEFINE A == {f[i] : i \in DOMAIN s}
<1>1. f \in Seq(A)
  <2>1. f \in [1 .. Len(s) -> A] /\ Len(s) \in Nat
    OBVIOUS
  <2> HIDE DEF A
  <2>2. QED
    BY <2>1
<1>2. \A x \in A : Matched(x)
  OBVIOUS
<1> HIDE DEF A
<1>3. QED
  BY <1>1, <1>2 DEF MatchedSeq

LEMMA MatchedElements ==
    ASSUME NEW s, MatchedSeq(s)
    PROVE  \A f \in ToSet(s) : Matched(f)
<1>1. PICK A : s \in Seq(A) /\ \A f \in A : Matched(f)
  BY DEF MatchedSeq
<1>2. QED
  BY <1>1 DEF ToSet

LEMMA MatchedJoin ==
    ASSUME NEW s, NEW t, MatchedSeq(s), MatchedSeq(t)
    PROVE  MatchedSeq(s \o t)
<1>1. PICK A : s \in Seq(A) /\ \A f \in A : Matched(f)
  BY DEF MatchedSeq
<1>2. PICK B : t \in Seq(B) /\ \A f \in B : Matched(f)
  BY DEF MatchedSeq
<1> DEFINE C == A \cup B
<1>3. s \in Seq(C) /\ t \in Seq(C)
  BY <1>1, <1>2
<1>4. \A f \in C : Matched(f)
  BY <1>1, <1>2
<1> HIDE DEF C
<1>5. s \o t \in Seq(C)
  BY <1>3
<1>6. QED
  BY <1>4, <1>5 DEF MatchedSeq

LEMMA MatchedLimited ==
    ASSUME NEW s, MatchedSeq(s), NEW n \in Nat
    PROVE  MatchedSeq(Limited(s, n))
<1>1. PICK A : s \in Seq(A) /\ \A f \in A : Matched(f)
  BY DEF MatchedSeq
<1>2. Len(s) > n => SubSeq(s, 1, n) \in Seq(A)
  BY <1>1
<1>3. Limited(s, n) \in Seq(A)
  BY <1>1, <1>2 DEF Limited
<1>4. QED
  BY <1>1, <1>3 DEF MatchedSeq

(* The text of a body is of the parse that the row is of: chunks that are  *)
(* linked to its symbol are rows of the same parse.                        *)
LEMMA BodyMatches ==
    ASSUME GraphInv, NEW row, WasParsed(row)
    PROVE  Matched(Body(row))
<1> DEFINE p == row.path
           chunks == IF p \in Stored THEN ChunksOf(p) ELSE <<>>
           own == {c \in Among(chunks) : c.symbol = row.id}
           linked == Only(chunks, own)
<1>1. CASE linked = <<>>
  <2>1. Body(row) = Contract("definition", row)
    BY <1>1 DEF Body
  <2>2. QED
    BY <2>1, ContractMatches
<1>2. CASE linked # <<>>
  <2>1. chunks \in Seq(Among(chunks))
    <3>1. CASE p \in Stored
      <4>1. files[p].chunks \in Seq(Among(files[p].chunks))
        BY <3>1, ParsesAssumption DEF GraphInv, FilesInv, Stored
      <4>2. chunks = [i \in DOMAIN files[p].chunks |-> ChunkRow(p, files[p], i)]
        BY <3>1 DEF ChunksOf
      <4> DEFINE n == Len(files[p].chunks)
      <4>3. n \in Nat /\ DOMAIN files[p].chunks = 1 .. n
        BY <4>1
      <4> HIDE DEF chunks, n
      <4>4. chunks \in [1 .. n -> Among(chunks)]
        BY <4>2, <4>3 DEF Among
      <4>5. QED
        BY <4>3, <4>4
    <3>2. CASE p \notin Stored
      BY <3>2
    <3>3. QED
      BY <3>1, <3>2
  <2>2. linked \in Seq(Among(chunks)) /\ Among(linked) = Among(chunks) \cap own
    <3> HIDE DEF chunks, own
    <3>1. QED
      BY <2>1, OnlyKeeps
  <2>3. linked[1] \in own
    <3> HIDE DEF chunks, own, linked
    <3>1. 1 \in DOMAIN linked
      BY <1>2, <2>2
    <3>2. QED
      BY <2>2, <3>1 DEF Among
  <2>4. Body(row) = Fragment("definition", row,
                     [of |-> linked[1].of,
                      lines |-> Merged([i \in DOMAIN linked |-> linked[i].text])])
    BY <1>2 DEF Body
  <2> HIDE DEF linked
  <2>5. linked[1] \in Among(chunks) /\ linked[1].symbol = row.id
    BY <2>3
  <2>6. p \in Stored /\ \E i : linked[1] = ChunkRow(p, files[p], i)
    <3>1. PICK i \in DOMAIN chunks : linked[1] = chunks[i]
      BY <2>5 DEF Among
    <3>2. p \in Stored
      BY <3>1
    <3>3. chunks = ChunksOf(p)
      BY <3>2
    <3> HIDE DEF chunks
    <3>4. QED
      BY <3>1, <3>2, <3>3 DEF ChunksOf
  <2>7. linked[1].of = files[p].version /\ \E k : row.id \in {NoSymbol, Id(p, files[p].parse, k)}
    BY <2>5, <2>6 DEF ChunkRow
  <2>8. PICK s \in 1 .. Len(snaps) : row.of = VersionAt(p, s) /\ \E k : row.id = Id(p, s, k)
    BY DEF WasParsed
  <2>9. s = files[p].parse
    BY <2>7, <2>8 DEF Id, NoSymbol
  <2>10. row.of = linked[1].of
    BY <2>6, <2>7, <2>8, <2>9 DEF GraphInv, FilesInv
  <2>11. QED
    BY <2>4, <2>10 DEF Fragment, Matched
<1>3. QED
  BY <1>1, <1>2

(* Whoever is found at the other end of an edge that leads to a row makes  *)
(* a reference to a name that ends like the row's.                         *)
LEMMA IncomingIsReal ==
    ASSUME GraphInv, NEW rows, \A row \in rows : WasParsed(row),
           NEW name, \A row \in rows : LastOf(row.name) = LastOf(name),
           NEW kinds, NEW near \in Incoming({row.id : row \in rows}, kinds)
    PROVE  Real(Contract(EdgeRoles[near.edge.kind], near.row), name)
<1> USE DEF GraphInv
<1>1. PICK e \in edges : e.target \in {row.id : row \in rows} /\ near = [edge |-> e, row |-> Row(e.source)]
  BY DEF Incoming
<1>2. PICK target \in rows : e.target = target.id
  BY <1>1
<1>3. PICK p \in Stored : \E ref \in files[p].references :
        /\ e.source = Id(p, files[p].parse, ref.source)
        /\ e.kind = ref.kind /\ e.name = ref.name
  BY DEF EdgesInv, Leaves
<1>4. PICK ref \in files[p].references :
        /\ e.source = Id(p, files[p].parse, ref.source)
        /\ e.kind = ref.kind /\ e.name = ref.name
  BY <1>3
<1>5. /\ p \in Paths /\ files[p].version \in Versions
      /\ files[p].symbols = ParseOf[p][files[p].version].symbols
      /\ files[p].references = ParseOf[p][files[p].version].references
  BY DEF FilesInv, Stored
<1>6. ref.source \in DOMAIN files[p].symbols
  BY <1>4, <1>5, ParsesAssumption
<1> DEFINE source == Row(e.source)
<1>7. source \in SymbolRows /\ source.id = e.source
  <2>1. SymbolRow(p, files[p], ref.source) \in SymbolRows
    BY <1>6 DEF SymbolRows, SymbolsOf
  <2>2. SymbolRow(p, files[p], ref.source).id = e.source
    BY <1>4 DEF SymbolRow
  <2>3. QED
    BY <2>1, <2>2 DEF Row
<1> HIDE DEF source
<1>8. /\ source.path = p /\ source.of = files[p].version
      /\ source.name = files[p].symbols[ref.source].name
  <2>1. PICK q \in Stored : \E k \in DOMAIN files[q].symbols :
              /\ source.id = Id(q, files[q].parse, k) /\ source.path = q
              /\ source.of = files[q].version /\ source.name = files[q].symbols[k].name
    BY <1>7, RowsAreParsed
  <2>2. q = p
    BY <1>4, <1>7, <2>1 DEF Id
  <2>3. QED
    BY <1>4, <1>7, <2>1, <2>2 DEF Id
<1>9. LastOf(ref.name) = LastOf(name)
  <2>1. PICK r \in Paths, s \in 1 .. Len(snaps) :
          \E k \in DOMAIN ParseOf[r][VersionAt(r, s)].symbols :
              /\ target.id = Id(r, s, k)
              /\ target.name = ParseOf[r][VersionAt(r, s)].symbols[k].name
    BY DEF WasParsed
  <2>2. e.target # NoSymbol
    BY <1>2, <2>1 DEF Id, NoSymbol
  <2>3. PICK q \in Stored : \E k \in DOMAIN files[q].symbols :
            /\ e.target = Id(q, files[q].parse, k)
            /\ LastOf(files[q].symbols[k].name) = LastOf(e.name)
    BY <2>2 DEF EdgesInv, Leads
  <2>4. files[q].symbols = ParseOf[q][VersionAt(q, files[q].parse)].symbols
    BY DEF FilesInv
  <2>5. q = r /\ s = files[q].parse
    BY <1>2, <2>1, <2>3 DEF Id
  <2>6. LastOf(target.name) = LastOf(e.name)
    BY <1>2, <2>1, <2>3, <2>4, <2>5 DEF Id
  <2>7. QED
    BY <1>4, <2>6
<1> DEFINE f == Contract(EdgeRoles[near.edge.kind], near.row)
<1>10. f.role = EdgeRoles[ref.kind] /\ f.path = p /\ f.of = files[p].version /\ f.name = source.name
  <2>1. near.row = source /\ near.edge = e
    BY <1>1 DEF source
  <2>2. f.role = EdgeRoles[ref.kind] /\ f.path = source.path /\ f.of = source.of /\ f.name = source.name
    BY <1>4, <2>1 DEF Contract, Fragment
  <2> HIDE DEF f
  <2>3. QED
    BY <1>8, <2>2
<1>11. Real(f, name)
  <2> HIDE DEF f
  <2>1. ref \in ParseOf[f.path][f.of].references
    BY <1>5, <1>10
  <2>2. ParseOf[f.path][f.of].symbols[ref.source].name = f.name
    BY <1>5, <1>8, <1>10
  <2>3. QED
    BY <1>9, <1>10, <2>1, <2>2 DEF Real
<1>12. QED
  BY <1>11

-----------------------------------------------------------------------------
(* What git says is cut out of the version that it names.                  *)

LEMMA GitHits ==
    ASSUME NEW tree, NEW req, NEW limit
    PROVE  /\ \E hits : GitDefinition(tree, req, limit)
                         = Answer("git", Windows(tree, "definition", hits, 1, DefinitionLines),
                                    "approximate", {})
           /\ \E hits : GitCallers(tree, req, limit)
                         = Answer("git", Windows(tree, "caller", hits, 1, 1), "approximate", {})
           /\ req.relation \in DOMAIN RelationRoles =>
                 \E hits, role : /\ role # "source"
                                 /\ GitReferences(tree, req, limit)
                                      = Answer("git", Windows(tree, role, hits, 1, 1), "approximate", {})
           /\ \E hits : GitSearch(tree, req, limit)
                         = Answer("git", Windows(tree, "match", hits, 2, 2), "approximate", {})
           /\ \E hits, note : GitDocs(tree, req, limit)
                         = Answer("git", Windows(tree, "match", hits, 2, 2), note, {})
<1>1. req.relation \in DOMAIN RelationRoles => RelationRoles[req.relation] # "source"
  BY DEF RelationRoles
<1>2. \E hits : GitReferences(tree, req, limit)
        = Answer("git", Windows(tree, RelationRoles[req.relation], hits, 1, 1), "approximate", {})
  BY DEF GitReferences
<1>3. QED
  BY <1>1, <1>2 DEF GitDefinition, GitCallers, GitSearch, GitDocs

LEMMA LinesRise ==
    ASSUME NEW a \in Int, NEW b \in Int
    PROVE  Rising(Lines(a, b))
  BY DEF Lines, Larger, Rising

LEMMA WindowMatches ==
    ASSUME NEW tree, NEW role, NEW p, NEW a, NEW b,
           role = "source" => {a, b, Content[tree[p]].last} \subseteq Int
    PROVE  Exact(Window(tree, role, p, a, b))
<1> DEFINE f == Window(tree, role, p, a, b)
           first == Larger(1, a)
           last == IF b < Content[tree[p]].last THEN b ELSE Content[tree[p]].last
<1>1. f.text.of = f.of /\ f.role = role /\ f.text.lines = Lines(first, last)
  BY DEF Window
<1>2. role = "source" => first \in Int /\ last \in Int
  BY DEF Larger
<1> HIDE DEF f, first, last
<1>3. Exact(f)
  BY <1>1, <1>2, LinesRise DEF Exact
<1>4. QED
  BY <1>3 DEF f

LEMMA WindowsMatch ==
    ASSUME NEW tree, NEW role, NEW hits, NEW before, NEW after, role # "source"
    PROVE  \A f \in Windows(tree, role, hits, before, after) : Exact(f)
  BY WindowMatches DEF Windows

Clean(a) == \A f \in a.fragments : Exact(f)

LEMMA AnswersAreClean ==
    /\ \A source, F, note, listed : (\A f \in F : Exact(f)) => Clean(Answer(source, F, note, listed))
    /\ \A tree, role, hits, before, after, note :
          role # "source" => Clean(Answer("git", Windows(tree, role, hits, before, after), note, {}))
  BY WindowsMatch DEF Answer, Clean

LEMMA GitLinesClean ==
    ASSUME NEW tree, NEW req, NEW role, NEW margin,
           role = "source" =>
               /\ {req.first - margin, req.last + margin} \subseteq Int
               /\ \A p \in TreePaths(tree) : Content[tree[p]].last \in Int
    PROVE  Clean(GitLines(tree, req, role, margin))
<1> DEFINE asked == {p \in TreePaths(tree) : PathOf[p] = req.path}
           F == {Window(tree, role, p, req.first - margin, req.last + margin) : p \in asked}
<1>1. \A f \in F : Exact(f)
  BY WindowMatches
<1>2. GitLines(tree, req, role, margin)
         = IF asked = {} THEN Answer("git", {}, "missing", {}) ELSE Answer("git", F, "none", {})
  BY DEF GitLines
<1> HIDE DEF F, asked
<1>3. QED
  BY <1>1, <1>2, AnswersAreClean

LEMMA GitSymbolsClean ==
    ASSUME NEW tree, NEW req, NEW limit
    PROVE  Clean(GitSymbols(tree, req, limit))
<1> DEFINE hits == Grep(tree, req.query, {"definition"}, limit)
           place(h) == [Window(tree, "name", h.path, h.line, h.line) EXCEPT !.role = "name"]
           F == {place(h) : h \in ToSet(hits)}
<1>1. \A f \in F : Exact(f)
  <2>1. \A h : Exact(place(h))
    BY DEF Window, Exact
  <2> HIDE DEF place
  <2>2. QED
    BY <2>1
<1>2. GitSymbols(tree, req, limit) = Answer("git", F, IF hits = <<>> THEN "nothing" ELSE "names", {})
  BY DEF GitSymbols
<1> HIDE DEF F
<1>3. QED
  BY <1>1, <1>2, AnswersAreClean

LEMMA GitListsClean ==
    ASSUME NEW tree, NEW req, NEW limit
    PROVE  Clean(GitOutline(tree, req)) /\ Clean(GitDigest(tree)) /\ Clean(GitFiles(tree, req, limit))
<1>1. \A note, listed : Clean(Answer("git", {}, note, listed))
  BY AnswersAreClean
<1>2. /\ \E note, listed : GitOutline(tree, req) = Answer("git", {}, note, listed)
      /\ \E note, listed : GitDigest(tree) = Answer("git", {}, note, listed)
      /\ \E note, listed : GitFiles(tree, req, limit) = Answer("git", {}, note, listed)
  BY DEF GitOutline, GitDigest, GitFiles
<1>3. QED
  BY <1>1, <1>2

LEMMA GitAnswerMatches ==
    ASSUME NEW tree, NEW req \in Requests, NEW limit, req.tool \in DOMAIN FirstStep \ {"context"},
           \A p \in TreePaths(tree) : Content[tree[p]].last \in Int
    PROVE  Clean(GitAnswer(tree, req, limit))
<1>1. /\ Clean(GitDefinition(tree, req, limit)) /\ Clean(GitCallers(tree, req, limit))
      /\ Clean(GitReferences(tree, req, limit)) /\ Clean(GitSearch(tree, req, limit))
      /\ Clean(GitDocs(tree, req, limit))
  <2>1. req.relation \in DOMAIN RelationRoles
    BY RequestsAssumption
  <2>2. QED
    BY <2>1, GitHits, AnswersAreClean
<1>2. /\ Clean(GitLines(tree, req, "definition", Margin)) /\ Clean(GitLines(tree, req, "source", 0))
      /\ Clean(GitSymbols(tree, req, limit)) /\ Clean(GitOutline(tree, req))
      /\ Clean(GitDigest(tree)) /\ Clean(GitFiles(tree, req, limit))
  <2>1. req.first - 0 \in Int /\ req.last + 0 \in Int
    BY RequestsAssumption
  <2>2. QED
    BY <2>1, GitLinesClean, GitSymbolsClean, GitListsClean
<1>3. req.tool \in {"get_definition", "find_callers", "find_references", "get_file_context",
                    "read_file", "get_file_outline", "find_symbol", "search_code",
                    "project_docs", "describe_repository", "list_files"}
  BY DEF FirstStep
<1>4. QED
  BY <1>1, <1>2, <1>3 DEF GitAnswer

-----------------------------------------------------------------------------
(* What every step of a reader does: the call goes on, or it ends with an  *)
(* answer.                                                                 *)

LEMMA GraphStays ==
    ASSUME GraphInv, UNCHANGED graph
    PROVE  GraphInv' /\ \A c : CallOk(c) => CallOk(c)'
<1>1. GraphInv'
  BY DEF GraphInv, SnapsInv, FilesInv, BuildInv, EdgesInv, Leaves, Leads, Stored, VersionAt, graph
<1>2. \A row : WasParsed(row) => WasParsed(row)'
  BY DEF WasParsed, VersionAt, graph
<1>3. \A c : CallOk(c) => CallOk(c)'
  BY <1>2 DEF CallOk
<1>4. QED
  BY <1>1, <1>3

LEMMA Continues ==
    ASSUME Inv, Reads, UNCHANGED answer, CallOk(call')
    PROVE  Inv'
<1>1. GraphInv' /\ CallOk(call)'
  BY GraphStays DEF Inv, Reads, CallOk
<1>2. AnswerInv'
  BY DEF Inv, Reads, AnswerInv, Matched, Exact, RolesAreReal
<1>3. QED
  BY <1>1, <1>2 DEF Inv, CallInv

LEMMA Answers ==
    ASSUME Inv, Reads, Reading, call' = NoCall,
           \A f \in answer'.fragments : Matched(f),
           answer'.tool \in RoleTools => \A f \in answer'.fragments : Real(f, answer'.name)
    PROVE  Inv'
<1>1. GraphInv'
  BY GraphStays DEF Inv, Reads
<1>2. (\A f \in answer.fragments : Matched(f))' /\ reader'.source # "git"
  BY DEF Matched, Reads, Reading
<1>3. RolesAreReal'
  BY DEF RolesAreReal, Real, RoleTools
<1>4. reader' # NoReader
  BY DEF Reads, Reading, NoReader
<1>5. QED
  BY <1>1, <1>2, <1>3, <1>4 DEF Inv, CallInv, AnswerInv

LEMMA Finishes ==
    ASSUME Inv, Reads, Reading, NEW F, NEW note, NEW listed,
           Finish(Answer("index", F, note, listed)),
           \A f \in F : Matched(f),
           call.tool \in RoleTools => \A f \in F : Real(f, call.req.name)
    PROVE  Inv'
<1>1. /\ call' = NoCall /\ answer'.fragments = F
      /\ answer'.tool = call.tool /\ answer'.name = call.req.name
  BY DEF Finish, Answer
<1>2. QED
  BY <1>1, Answers

LEMMA Fails ==
    ASSUME Inv, Reads, Reading, NEW why, Finish(Error("index", why))
    PROVE  Inv'
<1>1. call' = NoCall /\ answer'.fragments = {}
  BY DEF Finish, Error, Answer
<1>2. QED
  BY <1>1, Answers

(* A call that is under way is one that was begun.                         *)
LEMMA UnderWay ==
    ASSUME Inv, NEW step, step # "idle", At(step)
    PROVE  CallOk(call) /\ call.step = step /\ Reading
  BY DEF Inv, CallInv, At, NoCall

LEMMA DoneKeeps ==
    ASSUME Inv, Reads, Reading, CallOk(call), NEW note, Done(note),
           call.step # "count", call.step \notin {"related"}
    PROVE  Inv'
<1>1. \A f \in ToSet(call.got) : Matched(f)
  BY MatchedElements DEF CallOk
<1>2. call.tool \in RoleTools => \A f \in ToSet(call.got) : Real(f, call.req.name)
  <2>1. call.step = "names" => ToSet(call.got) = {}
    BY DEF CallOk, ToSet
  <2>2. call.step = "others" => \A f \in ToSet(call.got) : Real(f, call.req.name)
    BY DEF CallOk, ToSet
  <2>3. QED
    BY <2>1, <2>2 DEF CallOk
<1>3. QED
  BY <1>1, <1>2, Finishes DEF Done

-----------------------------------------------------------------------------
(* The steps of a reader of symbols.                                       *)

LEMMA TopIsOf ==
    ASSUME NEW S, NEW n, NEW rank(_), NEW s \in Top(S, n, rank)
    PROVE  s \in Seq(S)
<1>1. s \in UNION {[1 .. m -> S] : m \in 0 .. n}
  BY DEF Top
<1>2. QED
  BY <1>1

LEMMA ElementsOf ==
    ASSUME NEW S, NEW s \in Seq(S)
    PROVE  ToSet(s) \subseteq S /\ \A i \in DOMAIN s : s[i] \in S
  BY DEF ToSet

LEMMA FindNamesKeeps ==
    ASSUME Inv, FindNames
    PROVE  Inv'
<1>1. CallOk(call) /\ call.step = "names" /\ Reading /\ Reads
  BY UnderWay DEF FindNames
<1>2. PICK rows \in Top(ByName(call.req.name), Limit, LAMBDA r : IF r.name = call.req.name THEN 0 ELSE 1) :
          IF rows = <<>> THEN Done("none")
          ELSE /\ call' = [call EXCEPT !.rows = ToSet(rows),
                              !.step = IF call.tool = "get_definition" THEN "bodies" ELSE "related"]
               /\ UNCHANGED answer
  BY DEF FindNames
<1>3. CASE rows = <<>>
  BY <1>1, <1>2, <1>3, DoneKeeps
<1>4. CASE rows # <<>>
  <2>1. rows \in Seq(ByName(call.req.name))
    BY <1>2, TopIsOf
  <2>2. ToSet(rows) \subseteq ByName(call.req.name)
    BY <2>1, ElementsOf
  <2>3. ASSUME NEW row \in ByName(call.req.name)
        PROVE  WasParsed(row) /\ LastOf(row.name) = LastOf(call.req.name)
    <3>1. row \in SymbolRows /\ call.req.name # <<>> /\ IsSuffix(call.req.name, row.name)
      BY DEF ByName
    <3>2. call.req \in Requests
      BY <1>1 DEF CallOk
    <3>3. IsSequence(call.req.name)
      BY <3>2, RequestsAssumption DEF IsSequence
    <3>4. IsSequence(row.name)
      BY <3>1, RowsAreNamed DEF Inv, GraphInv, IsSequence
    <3>5. WasParsed(row)
      BY <3>1, RowsWereParsed DEF Inv
    <3>6. LastOf(call.req.name) = LastOf(row.name)
      BY <3>1, <3>3, <3>4, SuffixEnds
    <3>7. QED
      BY <3>5, <3>6
  <2> DEFINE step == IF call.tool = "get_definition" THEN "bodies" ELSE "related"
  <2>4. call' = [call EXCEPT !.rows = ToSet(rows), !.step = step] /\ UNCHANGED answer
    BY <1>2, <1>4
  <2>5. step \in {"bodies", "related"} /\ (call.tool \in RoleTools => step = "related")
    BY DEF RoleTools
  <2> HIDE DEF step
  <2>6. /\ DOMAIN call' = CallFields /\ call'.rows = ToSet(rows) /\ call'.step = step
        /\ call'.req = call.req /\ call'.tool = call.tool /\ call'.got = call.got
    BY <1>1, <2>4 DEF CallOk, CallFields
  <2>7. \A row \in call'.rows : WasParsed(row) /\ LastOf(row.name) = LastOf(call'.req.name)
    BY <2>2, <2>3, <2>6
  <2>8. call'.req \in Requests /\ MatchedSeq(call'.got)
    BY <1>1, <2>6 DEF CallOk
  <2>9. call'.tool \in RoleTools => call'.step = "related"
    BY <2>5, <2>6
  <2>10. CallOk(call')
    BY <2>5, <2>6, <2>7, <2>8, <2>9 DEF CallOk
  <2>11. QED
    BY <1>1, <2>4, <2>10, Continues
<1>5. QED
  BY <1>3, <1>4

LEMMA FindRelatedKeeps ==
    ASSUME Inv, FindRelated
    PROVE  Inv'
<1>1. CallOk(call) /\ call.step = "related" /\ Reading /\ Reads
  BY UnderWay DEF FindRelated
<1>2. PICK near \in Top(Incoming(Ids, KindsShown), Limit, Surest) :
          LET got == [i \in DOMAIN near |-> Contract(EdgeRoles[near[i].edge.kind], near[i].row)] IN
          IF KindsShown = {} THEN Finish(Answer("index", ToSet(got), Ambiguity, {}))
          ELSE call' = [call EXCEPT !.got = got, !.step = "others"] /\ UNCHANGED answer
  BY DEF FindRelated
<1> DEFINE S == Incoming(Ids, KindsShown)
           got == [i \in DOMAIN near |-> Contract(EdgeRoles[near[i].edge.kind], near[i].row)]
<1>3. near \in Seq(S)
  BY <1>2, TopIsOf
<1>4. \A i \in DOMAIN near : near[i] \in S
  BY <1>3
<1>5. \A row \in call.rows : WasParsed(row) /\ LastOf(row.name) = LastOf(call.req.name)
  BY <1>1 DEF CallOk
<1>6. \A n \in S : Real(Contract(EdgeRoles[n.edge.kind], n.row), call.req.name)
  <2>1. GraphInv /\ Ids = {row.id : row \in call.rows}
    BY DEF Inv, Ids
  <2>2. QED
    BY <1>5, <2>1, IncomingIsReal
<1>7. \A i \in DOMAIN got : Real(got[i], call.req.name) /\ Matched(got[i])
  BY <1>4, <1>6, ContractMatches
<1>8. MatchedSeq(got)
  <2>1. got = [i \in DOMAIN near |-> got[i]] /\ DOMAIN got = DOMAIN near
    OBVIOUS
  <2> HIDE DEF got, S
  <2>2. QED
    BY <1>3, <1>7, <2>1, MatchedMap
<1> HIDE DEF got, S
<1>9. CASE KindsShown = {}
  <2>1. Finish(Answer("index", ToSet(got), Ambiguity, {}))
    BY <1>2, <1>9 DEF got
  <2>2. \A f \in ToSet(got) : Matched(f) /\ Real(f, call.req.name)
    BY <1>7 DEF ToSet
  <2>3. QED
    BY <1>1, <2>1, <2>2, Finishes
<1>10. CASE KindsShown # {}
  <2>1. call' = [call EXCEPT !.got = got, !.step = "others"] /\ UNCHANGED answer
    BY <1>2, <1>10 DEF got
  <2>2. /\ DOMAIN call' = CallFields /\ call'.rows = call.rows /\ call'.step = "others"
        /\ call'.req = call.req /\ call'.tool = call.tool /\ call'.got = got
    BY <1>1, <2>1 DEF CallOk, CallFields
  <2>3. call'.req \in Requests
    BY <1>1, <2>2 DEF CallOk
  <2>4. CallOk(call')
    BY <1>5, <1>7, <1>8, <2>2, <2>3 DEF CallOk
  <2>5. QED
    BY <1>1, <2>1, <2>4, Continues
<1>11. QED
  BY <1>9, <1>10

LEMMA CountOthersKeeps ==
    ASSUME Inv, CountOthers
    PROVE  Inv'
<1>1. CallOk(call) /\ call.step = "others" /\ Reading /\ Reads
  BY UnderWay DEF CountOthers
<1>2. \E note : Done(note)
  BY DEF CountOthers
<1>3. QED
  BY <1>1, <1>2, DoneKeeps

(* Steps after those of the callers and references of a name ask of a call *)
(* only that the rows and fragments it keeps are right.                    *)
LEMMA MovesOn ==
    ASSUME Inv, Reads, CallOk(call), UNCHANGED answer,
           call.tool \notin RoleTools,
           call'.step \notin {"names", "related", "others", "path", "cover"},
           DOMAIN call' = CallFields, call'.req = call.req, call'.tool = call.tool,
           \A row \in call'.rows : WasParsed(row),
           call'.step # "count" => MatchedSeq(call'.got)
    PROVE  Inv'
<1>1. CallOk(call')
  BY DEF CallOk
<1>2. QED
  BY <1>1, Continues

LEMMA ReadBodiesKeeps ==
    ASSUME Inv, ReadBodies
    PROVE  Inv'
<1>1. CallOk(call) /\ call.step = "bodies" /\ Reading /\ Reads
  BY UnderWay DEF ReadBodies
<1>2. PICK bySize \in Top(call.rows, Cardinality(call.rows), LAMBDA r : r.last - r.first) :
          LET got == [i \in DOMAIN bySize |-> Body(bySize[i])] IN
          IF call.tool = "get_definition"
          THEN Finish(Answer("index", ToSet(got), Ambiguity, {}))
          ELSE call' = [call EXCEPT !.got = got, !.step = "callees"] /\ UNCHANGED answer
  BY DEF ReadBodies
<1> DEFINE got == [i \in DOMAIN bySize |-> Body(bySize[i])]
<1>3. bySize \in Seq(call.rows)
  BY <1>2, TopIsOf
<1>4. \A i \in DOMAIN bySize : WasParsed(bySize[i])
  <2>1. \A row \in call.rows : WasParsed(row)
    BY <1>1 DEF CallOk
  <2>2. \A i \in DOMAIN bySize : bySize[i] \in call.rows
    BY <1>3, ElementsOf
  <2>3. QED
    BY <2>1, <2>2
<1>5. \A i \in DOMAIN bySize : Matched(got[i])
  BY <1>4, BodyMatches DEF Inv
<1>6. MatchedSeq(got)
  <2>1. got = [i \in DOMAIN bySize |-> got[i]] /\ DOMAIN got = DOMAIN bySize
    OBVIOUS
  <2> HIDE DEF got
  <2>2. QED
    BY <1>3, <1>5, <2>1, MatchedMap
<1>7. call.tool \notin RoleTools
  BY <1>1 DEF CallOk
<1> HIDE DEF got
<1>8. CASE call.tool = "get_definition"
  <2>1. Finish(Answer("index", ToSet(got), Ambiguity, {}))
    BY <1>2, <1>8 DEF got
  <2>2. QED
    BY <1>1, <1>6, <1>7, <2>1, MatchedElements, Finishes
<1>9. CASE call.tool # "get_definition"
  <2>1. call' = [call EXCEPT !.got = got, !.step = "callees"] /\ UNCHANGED answer
    BY <1>2, <1>9 DEF got
  <2>2. /\ DOMAIN call' = CallFields /\ call'.rows = call.rows /\ call'.step = "callees"
        /\ call'.req = call.req /\ call'.tool = call.tool /\ call'.got = got
    BY <1>1, <2>1 DEF CallOk, CallFields
  <2>3. \A row \in call'.rows : WasParsed(row)
    BY <1>1, <2>2 DEF CallOk
  <2>4. QED
    BY <1>1, <1>6, <1>7, <2>1, <2>2, <2>3, MovesOn
<1>10. QED
  BY <1>8, <1>9

LEMMA CoverLinesKeeps ==
    ASSUME Inv, CoverLines
    PROVE  Inv'
<1> DEFINE all == IF call.path = 0 THEN {} ELSE Covering(call.path, call.req.first, call.req.last)
           rows == IF call.tool = "context" THEN {r \in all : r.kind # "module"} ELSE all
<1>1. CallOk(call) /\ call.step = "cover" /\ Reading /\ Reads
  BY UnderWay DEF CoverLines
<1>2. call.tool \notin RoleTools /\ call.tool \in {"get_file_context", "context"} /\ MatchedSeq(call.got)
  BY <1>1 DEF CallOk
<1>3. \/ call' = [call EXCEPT !.rows = rows, !.step = "bodies"] /\ UNCHANGED answer
      \/ call' = [call EXCEPT !.step = "words"] /\ UNCHANGED answer
      \/ call.tool # "context" /\ call' = [call EXCEPT !.step = "path"] /\ UNCHANGED answer
      \/ Done("no symbols")
  BY DEF CoverLines
<1>4. \A row \in rows : WasParsed(row)
  <2>1. rows \subseteq SymbolRows
    BY DEF Covering
  <2>2. QED
    BY <2>1, RowsWereParsed DEF Inv
<1>5. \A row \in call.rows : WasParsed(row)
  BY <1>1 DEF CallOk
<1> HIDE DEF rows
<1>6. CASE call' = [call EXCEPT !.rows = rows, !.step = "bodies"] /\ UNCHANGED answer
  <2>1. /\ DOMAIN call' = CallFields /\ call'.rows = rows /\ call'.step = "bodies"
        /\ call'.req = call.req /\ call'.tool = call.tool /\ call'.got = call.got
    BY <1>1, <1>6 DEF CallOk, CallFields
  <2>2. QED
    BY <1>1, <1>2, <1>4, <1>6, <2>1, MovesOn
<1>7. CASE call' = [call EXCEPT !.step = "words"] /\ UNCHANGED answer
  <2>1. /\ DOMAIN call' = CallFields /\ call'.rows = call.rows /\ call'.step = "words"
        /\ call'.req = call.req /\ call'.tool = call.tool /\ call'.got = call.got
    BY <1>1, <1>7 DEF CallOk, CallFields
  <2>2. QED
    BY <1>1, <1>2, <1>5, <1>7, <2>1, MovesOn
<1>8. CASE call.tool # "context" /\ call' = [call EXCEPT !.step = "path"] /\ UNCHANGED answer
  <2>1. /\ DOMAIN call' = CallFields /\ call'.rows = call.rows /\ call'.step = "path"
        /\ call'.req = call.req /\ call'.tool = call.tool /\ call'.got = call.got
    BY <1>1, <1>8 DEF CallOk, CallFields
  <2>2. call'.req \in Requests
    BY <1>1, <2>1 DEF CallOk
  <2>3. CallOk(call')
    BY <1>2, <1>5, <1>8, <2>1, <2>2 DEF CallOk
  <2>4. QED
    BY <1>1, <1>8, <2>3, Continues
<1>9. CASE Done("no symbols")
  BY <1>1, <1>9, DoneKeeps
<1>10. QED
  BY <1>3, <1>6, <1>7, <1>8, <1>9

(* Neighbours are added to what the call has collected.                    *)
LEMMA ContractsMatch ==
    ASSUME NEW S, NEW near \in Seq(S), NEW role
    PROVE  MatchedSeq([i \in DOMAIN near |-> Contract(role, near[i].row)])
<1> DEFINE got == [i \in DOMAIN near |-> Contract(role, near[i].row)]
<1>1. got = [i \in DOMAIN near |-> got[i]] /\ \A i \in DOMAIN near : Matched(got[i])
  BY ContractMatches
<1> HIDE DEF got
<1>2. MatchedSeq(got)
  BY <1>1, MatchedMap
<1>3. QED
  BY <1>2 DEF got

LEMMA FindCalleesKeeps ==
    ASSUME Inv, FindCallees
    PROVE  Inv'
<1>1. CallOk(call) /\ call.step = "callees" /\ Reading /\ Reads /\ UNCHANGED answer
  BY UnderWay DEF FindCallees
<1>2. PICK near \in Top(Outgoing(Ids, {"calls"}), Limit, Surest) :
          call' = [call EXCEPT !.got = @ \o [i \in DOMAIN near |-> Contract("callee", near[i].row)],
                               !.step = "callers"]
  BY DEF FindCallees
<1>3. near \in Seq(Outgoing(Ids, {"calls"}))
  BY <1>2, TopIsOf
<1> DEFINE found == [i \in DOMAIN near |-> Contract("callee", near[i].row)]
<1>4. MatchedSeq(found)
  BY <1>3, ContractsMatch
<1>5. call.tool \notin RoleTools /\ MatchedSeq(call.got)
  BY <1>1 DEF CallOk
<1>6. call' = [call EXCEPT !.got = call.got \o found, !.step = "callers"]
  BY <1>2
<1> HIDE DEF found
<1>7. MatchedSeq(call.got \o found)
  BY <1>4, <1>5, MatchedJoin
<1>8. /\ DOMAIN call' = CallFields /\ call'.rows = call.rows /\ call'.step = "callers"
      /\ call'.req = call.req /\ call'.tool = call.tool /\ call'.got = call.got \o found
  BY <1>1, <1>6 DEF CallOk, CallFields
<1>9. \A row \in call'.rows : WasParsed(row)
  BY <1>1, <1>8 DEF CallOk
<1>10. QED
  BY <1>1, <1>5, <1>7, <1>8, <1>9, MovesOn

LEMMA FindCallersOfLinesKeeps ==
    ASSUME Inv, FindCallersOfLines
    PROVE  Inv'
<1>1. CallOk(call) /\ call.step = "callers" /\ Reading /\ Reads
  BY UnderWay DEF FindCallersOfLines
<1>2. PICK near \in Top(Incoming(Ids, {"calls"}), Limit, Surest) :
          LET got == call.got \o [i \in DOMAIN near |-> Contract("caller", near[i].row)] IN
          IF call.tool = "context"
          THEN call' = [call EXCEPT !.got = got, !.step = "words"] /\ UNCHANGED answer
          ELSE Finish(Answer("index", ToSet(got), IF call.looked THEN "renamed" ELSE "none", {}))
  BY DEF FindCallersOfLines
<1>3. near \in Seq(Incoming(Ids, {"calls"}))
  BY <1>2, TopIsOf
<1> DEFINE found == [i \in DOMAIN near |-> Contract("caller", near[i].row)]
           got == call.got \o found
<1>4. MatchedSeq(found)
  BY <1>3, ContractsMatch
<1>5. call.tool \notin RoleTools /\ MatchedSeq(call.got)
  BY <1>1 DEF CallOk
<1>6. MatchedSeq(got)
  <2> HIDE DEF found
  <2>1. QED
    BY <1>4, <1>5, MatchedJoin
<1> HIDE DEF got
<1>7. CASE call.tool = "context"
  <2>1. call' = [call EXCEPT !.got = got, !.step = "words"] /\ UNCHANGED answer
    BY <1>2, <1>7 DEF got
  <2>2. /\ DOMAIN call' = CallFields /\ call'.rows = call.rows /\ call'.step = "words"
        /\ call'.req = call.req /\ call'.tool = call.tool /\ call'.got = got
    BY <1>1, <2>1 DEF CallOk, CallFields
  <2>3. \A row \in call'.rows : WasParsed(row)
    BY <1>1, <2>2 DEF CallOk
  <2>4. QED
    BY <1>1, <1>5, <1>6, <2>1, <2>2, <2>3, MovesOn
<1>8. CASE call.tool # "context"
  <2>1. \E note : Finish(Answer("index", ToSet(got), note, {}))
    BY <1>2, <1>8 DEF got
  <2>2. QED
    BY <1>1, <1>5, <1>6, <2>1, MatchedElements, Finishes
<1>9. QED
  BY <1>7, <1>8

-----------------------------------------------------------------------------
(* The steps of a reader of paths and files.                               *)

LEMMA ResolvePathKeeps ==
    ASSUME Inv, ResolvePath
    PROVE  Inv'
<1> DEFINE next == [read_file |-> "lines", get_file_outline |-> "outline", get_file_context |-> "cover"]
           unresolved == IF call.tool = "get_file_context" THEN "missing" ELSE next[call.tool]
<1>1. CallOk(call) /\ call.step = "path" /\ Reads /\ UNCHANGED answer
  BY UnderWay DEF ResolvePath
<1>2. \/ \E path : call' = [call EXCEPT !.path = path, !.looked = TRUE, !.step = next[call.tool]]
      \/ call' = [call EXCEPT !.needles = Tail(@)]
      \/ \E needles : call' = [call EXCEPT !.step = unresolved, !.needles = needles]
  BY DEF ResolvePath
<1>3. /\ call.tool \in {"read_file", "get_file_outline", "get_file_context"}
      /\ call.tool \notin RoleTools
      /\ call.req \in Requests /\ MatchedSeq(call.got) /\ \A row \in call.rows : WasParsed(row)
  BY <1>1 DEF CallOk, RoleTools
<1>4. /\ next[call.tool] \in {"lines", "outline", "cover"}
      /\ next[call.tool] = "cover" => call.tool = "get_file_context"
      /\ unresolved \in {"lines", "outline", "missing"}
  BY <1>3
<1> HIDE DEF next, unresolved
<1>5. /\ DOMAIN call' = CallFields /\ call'.rows = call.rows
      /\ call'.req = call.req /\ call'.tool = call.tool /\ call'.got = call.got
      /\ call'.step \in {next[call.tool], "path", unresolved}
  <2>1. DOMAIN call = CallFields /\ call.step = "path"
    BY <1>1 DEF CallOk
  <2>2. QED
    BY <1>2, <2>1 DEF CallFields
<1>6. /\ call'.step \in {"lines", "outline", "cover", "missing", "path"}
      /\ call'.step = "cover" => call'.tool = "get_file_context"
  BY <1>4, <1>5
<1>7. CallOk(call')
  BY <1>3, <1>5, <1>6 DEF CallOk
<1>8. QED
  BY <1>1, <1>7, Continues

LEMMA SuggestPathsKeeps ==
    ASSUME Inv, SuggestPaths
    PROVE  Inv'
<1>1. CallOk(call) /\ call.step = "missing" /\ Reading /\ Reads
  BY UnderWay DEF SuggestPaths
<1>2. \/ call' = [call EXCEPT !.needles = Tail(@)] /\ UNCHANGED answer
      \/ \E found : Finish(Answer("index", {}, "missing", found))
  BY DEF SuggestPaths
<1>3. /\ call.tool \notin RoleTools
      /\ MatchedSeq(call.got) /\ \A row \in call.rows : WasParsed(row)
  BY <1>1 DEF CallOk
<1>4. CASE call' = [call EXCEPT !.needles = Tail(@)] /\ UNCHANGED answer
  <2>1. /\ DOMAIN call' = CallFields /\ call'.rows = call.rows /\ call'.step = "missing"
        /\ call'.req = call.req /\ call'.tool = call.tool /\ call'.got = call.got
    BY <1>1, <1>4 DEF CallOk, CallFields
  <2>2. QED
    BY <1>1, <1>3, <1>4, <2>1, MovesOn
<1>5. CASE \E found : Finish(Answer("index", {}, "missing", found))
  BY <1>1, <1>5, Finishes
<1>6. QED
  BY <1>2, <1>4, <1>5

LEMMA LinesCount ==
    ASSUME NEW a \in Int, NEW b \in Int
    PROVE  /\ Lines(a, b) \in Seq(Int)
           /\ \A i, j \in DOMAIN Lines(a, b) : i < j => Lines(a, b)[i] < Lines(a, b)[j]
  BY DEF Lines, Larger

(* What is kept of numbers that rise rises.                                *)
LEMMA OnlyRises ==
    ASSUME NEW s \in Seq(Int), \A i, j \in DOMAIN s : i < j => s[i] < s[j], NEW S
    PROVE  Only(s, S) \in Seq(Int) /\ Rising(Only(s, S))
<1> DEFINE n == Len(s)
<1>1. n \in Nat /\ DOMAIN s = 1 .. n /\ \A i \in 1 .. n : s[i] \in Int
  OBVIOUS
<1>2. PICK f : Keeps(f, s, S) /\ Only(s, S) = f[n]
  BY OnlyIs
<1>3. \A i \in 0 .. n : KeptOf(f[i], s, i, S, Int)
  BY <1>2, KeepsElements
<1> DEFINE good == {i \in 0 .. n : Rising(f[i])}
<1>4. 0 \in good
  <2>1. f[0] = <<>>
    BY <1>2 DEF Keeps
  <2>2. QED
    BY <1>1, <2>1 DEF Rising
<1>5. ASSUME NEW i \in 0 .. (n - 1), i \in good
      PROVE  i + 1 \in good
  <2> DEFINE k == f[i]
             x == s[i + 1]
  <2>1. i \in 0 .. n /\ i + 1 \in 1 .. n /\ (i + 1) - 1 = i
    BY <1>1
  <2>2. f[i + 1] = IF x \in S THEN Append(k, x) ELSE k
    BY <1>2, <2>1 DEF Keeps
  <2>3. k \in Seq(Int) /\ Rising(k) /\ x \in Int
    BY <1>1, <1>3, <1>5, <2>1 DEF KeptOf
  <2>4. \A q \in DOMAIN k : k[q] < x
    <3>1. TAKE q \in DOMAIN k
    <3>2. k[q] \in Among(k)
      BY DEF Among
    <3>3. PICK j \in 1 .. i : k[q] = s[j]
      BY <1>3, <2>1, <3>2 DEF KeptOf
    <3>4. QED
      BY <1>1, <2>1, <3>3
  <2> HIDE DEF k, x
  <2>5. Rising(Append(k, x))
    BY <2>3, <2>4 DEF Rising
  <2>6. Rising(f[i + 1])
    BY <2>2, <2>3, <2>5
  <2>7. QED
    BY <2>1, <2>6
<1>6. \A i \in 0 .. n : i \in good
  <2> HIDE DEF good, n
  <2>1. QED
    BY <1>1, <1>4, <1>5, UpTo
<1>7. n \in 0 .. n
  BY <1>1
<1>8. QED
  BY <1>2, <1>3, <1>6, <1>7 DEF KeptOf

(* A line that is read is one that some chunk of the file gives.           *)
LEMMA ReadLinesGiven ==
    ASSUME NEW chunks, IsSequence(chunks), NEW a, NEW b, NEW n \in DOMAIN ReadLines(chunks, a, b)
    PROVE  \E c \in Among(chunks) : n \in Given(c) /\ ReadLines(chunks, a, b)[n] = LineAt(c, n)
<1> DEFINE asked == Only(chunks, {c \in Among(chunks) : c.first <= b /\ c.last >= a})
           numbers == {m \in a .. b : \E i \in DOMAIN asked : m \in Given(asked[i])}
           holding(m) == {i \in 1 .. Len(asked) : m \in Given(asked[i])}
           at(m) == IF holding(m) # {} THEN Min(holding(m)) ELSE 0
<1>1. ReadLines(chunks, a, b) = [m \in numbers |-> LineAt(asked[at(m)], m)]
  BY DEF ReadLines, SelectInSeq
<1>2. asked \in Seq(Among(chunks))
  BY OnlyKeeps DEF IsSequence
<1>3. n \in numbers
  BY <1>1
<1> HIDE DEF asked
<1>4. DOMAIN asked = 1 .. Len(asked) /\ Len(asked) \in Nat
  BY <1>2
<1>5. holding(n) # {} /\ holding(n) \subseteq Nat
  BY <1>3, <1>4
<1>6. at(n) \in holding(n)
  <2> HIDE DEF holding
  <2>1. \E i \in holding(n) : \A j \in holding(n) : i <= j
    BY <1>5, LeastIs
  <2>2. Min(holding(n)) \in holding(n)
    BY <2>1 DEF Min
  <2>3. QED
    BY <1>5, <2>2
<1> DEFINE c == asked[at(n)]
<1>7. c \in Among(chunks) /\ n \in Given(c)
  BY <1>2, <1>4, <1>6
<1>8. ReadLines(chunks, a, b)[n] = LineAt(c, n)
  BY <1>1, <1>3
<1> HIDE DEF c
<1>9. QED
  BY <1>7, <1>8

LEMMA ReadLinesRise ==
    ASSUME NEW chunks, IsSequence(chunks), InOrder(chunks), NEW a \in Int, NEW b \in Int
    PROVE  LET lines == ReadLines(chunks, a, b)
               order == Only(Lines(a, b), DOMAIN lines)
           IN  Rising([i \in 1 .. Len(order) |-> lines[order[i]]])
<1> DEFINE lines == ReadLines(chunks, a, b)
           range == Lines(a, b)
           order == Only(range, DOMAIN lines)
<1>1. range \in Seq(Int) /\ \A i, j \in DOMAIN range : i < j => range[i] < range[j]
  BY LinesCount
<1>2. \A n, m \in DOMAIN lines : n < m => lines[n] < lines[m]
  <2>1. \A n \in DOMAIN lines : \E c \in Among(chunks) : n \in Given(c) /\ lines[n] = LineAt(c, n)
    BY ReadLinesGiven
  <2> HIDE DEF lines
  <2>2. QED
    BY <2>1 DEF InOrder
<1> HIDE DEF lines, range
<1>3. order \in Seq(Int) /\ Rising(order)
  BY <1>1, OnlyRises
<1>4. Among(order) \subseteq DOMAIN lines
  BY <1>1, OnlyKeeps
<1> HIDE DEF order
<1>5. \A i \in 1 .. Len(order) : order[i] \in DOMAIN lines
  BY <1>3, <1>4 DEF Among
<1> DEFINE read == [i \in 1 .. Len(order) |-> lines[order[i]]]
<1>6. Len(order) \in Nat /\ Len(read) = Len(order)
  BY <1>3
<1>7. Rising(read)
  <2>1. SUFFICES ASSUME NEW i \in 1 .. Len(order) - 1
                 PROVE  lines[order[i]] < lines[order[i + 1]]
    BY <1>6 DEF Rising
  <2>2. i \in 1 .. Len(order) /\ i + 1 \in 1 .. Len(order)
    BY <1>6
  <2>3. order[i] < order[i + 1]
    BY <1>3 DEF Rising
  <2>4. QED
    BY <1>2, <1>5, <2>2, <2>3
<1>8. QED
  BY <1>7 DEF lines, range, order

(* The chunks of a stored file are those of its last parse.                *)
LEMMA StoredInOrder ==
    ASSUME GraphInv, NEW p \in Stored, InOrder(ParseOf[p][files[p].version].chunks)
    PROVE  IsSequence(ChunksOf(p)) /\ InOrder(ChunksOf(p))
<1> DEFINE found == files[p].chunks
           rows == ChunksOf(p)
<1>1. /\ p \in Paths /\ files[p].version \in Versions
      /\ found = ParseOf[p][files[p].version].chunks
  BY DEF GraphInv, FilesInv, Stored
<1>2. InOrder(found) /\ found \in Seq(Among(found))
  BY <1>1, ParsesAssumption
<1>3. /\ rows = [i \in DOMAIN found |-> ChunkRow(p, files[p], i)]
      /\ \A i \in DOMAIN found : /\ rows[i].first = found[i].first
                                 /\ rows[i].text = found[i].text
  BY DEF ChunksOf, ChunkRow
<1> HIDE DEF rows, found
<1>4. IsSequence(rows)
  <2>1. DOMAIN rows = 1 .. Len(found) /\ Len(found) \in Nat
    BY <1>2, <1>3
  <2>2. rows \in [1 .. Len(found) -> Among(rows)]
    BY <1>3, <2>1 DEF Among
  <2>3. QED
    BY <2>1, <2>2 DEF IsSequence
<1>5. InOrder(rows)
  <2>1. \A i \in DOMAIN found : /\ Given(rows[i]) = Given(found[i])
                               /\ \A n : LineAt(rows[i], n) = LineAt(found[i], n)
    BY <1>3 DEF Given, LineAt
  <2>2. \A c \in Among(rows) : \E d \in Among(found) :
           Given(c) = Given(d) /\ \A n : LineAt(c, n) = LineAt(d, n)
    BY <1>3, <2>1 DEF Among
  <2>3. QED
    BY <1>2, <2>2 DEF InOrder
<1>6. QED
  BY <1>4, <1>5 DEF rows

LEMMA ReadFileKeeps ==
    ASSUME Inv, ReadFile
    PROVE  Inv'
<1>1. CallOk(call) /\ call.step = "lines" /\ Reading /\ Reads
  BY UnderWay DEF ReadFile
<1>2. /\ call.tool \notin RoleTools
      /\ MatchedSeq(call.got) /\ \A row \in call.rows : WasParsed(row)
  BY <1>1 DEF CallOk
<1>3. \/ /\ \E needles : call' = [call EXCEPT !.step = "missing", !.needles = needles]
         /\ UNCHANGED answer
      \/ \E f, note : Matched(f) /\ Finish(Answer("index", {f}, note, {}))
  <2> DEFINE lines == IF call.path \in Live
                      THEN ReadLines(ChunksOf(call.path), call.req.first, call.req.last)
                      ELSE [n \in {} |-> 0]
             order == Only(Lines(call.req.first, call.req.last), DOMAIN lines)
             f == [role |-> "source", path |-> call.path, of |-> files[call.path].version,
                   name |-> <<>>, first |-> call.req.first, last |-> call.req.last,
                   text |-> [of |-> files[call.path].version,
                             lines |-> [i \in 1 .. Len(order) |-> lines[order[i]]]]]
  <2> DEFINE read == [i \in 1 .. Len(order) |-> lines[order[i]]]
  <2>0. call.req.first \in Int /\ call.req.last \in Int
    BY <1>1, RequestsAssumption DEF CallOk
  <2>1. Matched(f)
    <3> DEFINE found == ParseOf[call.path][files[call.path].version].chunks
    <3>1. f.text.of = f.of /\ f.text.lines = read /\ ParseOf[f.path][f.of].chunks = found
      OBVIOUS
    <3> HIDE DEF f
    <3>2. CASE InOrder(found) /\ call.path \in Live
      <4>1. IsSequence(ChunksOf(call.path)) /\ InOrder(ChunksOf(call.path))
        BY <3>2, StoredInOrder DEF Inv, Live
      <4>2. lines = ReadLines(ChunksOf(call.path), call.req.first, call.req.last)
        BY <3>2
      <4> HIDE DEF lines
      <4>3. Rising(read)
        BY <2>0, <4>1, <4>2, ReadLinesRise
      <4> HIDE DEF read
      <4>4. QED
        BY <3>1, <4>3 DEF Matched
    <3>3. CASE call.path \notin Live
      <4>1. DOMAIN lines = {}
        BY <3>3
      <4> DEFINE range == Lines(call.req.first, call.req.last)
      <4>2. range \in Seq(Int)
        BY <2>0, LinesCount
      <4>3. order = Only(range, {})
        BY <4>1
      <4> HIDE DEF lines, range, order
      <4>4. order \in Seq(Int) /\ Among(order) = {}
        BY <4>2, <4>3, OnlyKeeps
      <4>5. Len(order) = 0
        <5>1. \A i \in DOMAIN order : order[i] \in Among(order)
          BY DEF Among
        <5>2. DOMAIN order = 1 .. Len(order) /\ Len(order) \in Nat
          BY <4>4
        <5>3. QED
          BY <4>4, <5>1, <5>2
      <4>6. Rising(read)
        BY <4>5 DEF Rising
      <4> HIDE DEF read
      <4>7. QED
        BY <3>1, <4>6 DEF Matched
    <3>4. QED
      BY <3>1, <3>2, <3>3 DEF Matched
  <2>2. \/ /\ call' = [call EXCEPT !.step = "missing", !.needles = Needles(call.req.path)]
           /\ UNCHANGED answer
        \/ Finish(Answer("index", {f}, IF PathOf[call.path] = call.req.path THEN "none" ELSE "renamed", {}))
    BY DEF ReadFile
  <2> HIDE DEF f
  <2>3. QED
    BY <2>1, <2>2
<1>4. CASE /\ \E needles : call' = [call EXCEPT !.step = "missing", !.needles = needles]
           /\ UNCHANGED answer
  <2>1. /\ DOMAIN call' = CallFields /\ call'.rows = call.rows /\ call'.step = "missing"
        /\ call'.req = call.req /\ call'.tool = call.tool /\ call'.got = call.got
    BY <1>1, <1>4 DEF CallOk, CallFields
  <2>2. QED
    BY <1>1, <1>2, <1>4, <2>1, MovesOn
<1>5. CASE \E f, note : Matched(f) /\ Finish(Answer("index", {f}, note, {}))
  <2>1. PICK f, note : Matched(f) /\ Finish(Answer("index", {f}, note, {}))
    BY <1>5
  <2>2. \A g \in {f} : Matched(g)
    BY <2>1 DEF Matched
  <2>3. QED
    BY <1>1, <1>2, <2>1, <2>2, Finishes
<1>6. QED
  BY <1>3, <1>4, <1>5

LEMMA OutlineFileKeeps ==
    ASSUME Inv, OutlineFile
    PROVE  Inv'
<1>1. Reading /\ Reads
  BY UnderWay DEF OutlineFile
<1>2. \E note, listed : Finish(Answer("index", {}, note, listed))
  BY DEF OutlineFile
<1>3. QED
  BY <1>1, <1>2, Finishes

LEMMA ListFilesKeeps ==
    ASSUME Inv, ListFiles
    PROVE  Inv'
<1>1. Reading /\ Reads
  BY UnderWay DEF ListFiles
<1>2. \E note, listed : Finish(Answer("index", {}, note, listed))
  BY DEF ListFiles
<1>3. QED
  BY <1>1, <1>2, Finishes

LEMMA DescribeKeeps ==
    ASSUME Inv, Describe
    PROVE  Inv'
<1>1. CallOk(call) /\ call.step = "count" /\ Reading /\ Reads
  BY UnderWay DEF Describe
<1>2. \/ (\E hits, got : call' = [call EXCEPT !.hits = hits, !.got = got]) /\ UNCHANGED answer
      \/ \E note, listed : Finish(Answer("index", {}, note, listed))
  <2>1. CASE call.hits = {}
    BY <2>1 DEF Describe
  <2>2. CASE call.hits # {} /\ call.hits = {"kinds"}
    BY <2>2 DEF Describe
  <2>3. CASE call.hits # {} /\ call.hits # {"kinds"}
    BY <2>3 DEF Describe
  <2>4. QED
    BY <2>1, <2>2, <2>3
<1>3. call.tool \notin RoleTools /\ \A row \in call.rows : WasParsed(row)
  BY <1>1 DEF CallOk
<1>4. CASE (\E hits, got : call' = [call EXCEPT !.hits = hits, !.got = got]) /\ UNCHANGED answer
  <2>1. /\ DOMAIN call' = CallFields /\ call'.rows = call.rows /\ call'.step = "count"
        /\ call'.req = call.req /\ call'.tool = call.tool
    BY <1>1, <1>4 DEF CallOk, CallFields
  <2>2. QED
    BY <1>1, <1>3, <1>4, <2>1, MovesOn
<1>5. CASE \E note, listed : Finish(Answer("index", {}, note, listed))
  BY <1>1, <1>5, Finishes
<1>6. QED
  BY <1>2, <1>4, <1>5

-----------------------------------------------------------------------------
(* The steps of a search.                                                  *)

LEMMA SearchSymbolsKeeps ==
    ASSUME Inv, SearchSymbols
    PROVE  Inv'
<1>1. CallOk(call) /\ call.step = "words" /\ Reading /\ Reads
  BY UnderWay DEF SearchSymbols
<1>2. \/ call' = [call EXCEPT !.stages = Tail(@)] /\ UNCHANGED answer
      \/ \E rows : Finish(Answer("index", {Contract("name", r) : r \in rows}, "names", {}))
      \/ Done("nothing")
  BY DEF SearchSymbols
<1>3. /\ call.tool \notin RoleTools
      /\ MatchedSeq(call.got) /\ \A row \in call.rows : WasParsed(row)
  BY <1>1 DEF CallOk
<1>4. CASE call' = [call EXCEPT !.stages = Tail(@)] /\ UNCHANGED answer
  <2>1. /\ DOMAIN call' = CallFields /\ call'.rows = call.rows /\ call'.step = "words"
        /\ call'.req = call.req /\ call'.tool = call.tool /\ call'.got = call.got
    BY <1>1, <1>4 DEF CallOk, CallFields
  <2>2. QED
    BY <1>1, <1>3, <1>4, <2>1, MovesOn
<1>5. ASSUME NEW rows, Finish(Answer("index", {Contract("name", r) : r \in rows}, "names", {}))
      PROVE  Inv'
  <2> DEFINE F == {Contract("name", r) : r \in rows}
  <2>1. \A f \in F : Matched(f)
    BY ContractMatches
  <2> HIDE DEF F
  <2>2. Finish(Answer("index", F, "names", {}))
    BY <1>5 DEF F
  <2>3. QED
    BY <1>1, <1>3, <2>1, <2>2, Finishes
<1>6. CASE Done("nothing")
  BY <1>1, <1>6, DoneKeeps
<1>7. QED
  BY <1>2, <1>4, <1>5, <1>6

LEMMA SearchWordsKeeps ==
    ASSUME Inv, SearchWords
    PROVE  Inv'
<1>1. CallOk(call) /\ call.step = "words" /\ Reads /\ UNCHANGED answer
  BY UnderWay DEF SearchWords
<1>2. \/ call' = [call EXCEPT !.step = "meaning"]
      \/ call' = [call EXCEPT !.stages = Tail(@)]
      \/ \E hits : call' = [call EXCEPT !.hits = hits, !.step = "meaning"]
  BY DEF SearchWords
<1>3. /\ call.tool \notin RoleTools
      /\ MatchedSeq(call.got) /\ \A row \in call.rows : WasParsed(row)
  BY <1>1 DEF CallOk
<1>4. /\ DOMAIN call' = CallFields /\ call'.rows = call.rows /\ call'.step \in {"words", "meaning"}
      /\ call'.req = call.req /\ call'.tool = call.tool /\ call'.got = call.got
  <2>1. DOMAIN call = CallFields /\ call.step = "words"
    BY <1>1 DEF CallOk
  <2>2. QED
    BY <1>2, <2>1 DEF CallFields
<1>5. QED
  BY <1>1, <1>3, <1>4, MovesOn

LEMMA MatchesMatch ==
    ASSUME NEW S, NEW hits \in Seq(S)
    PROVE  MatchedSeq([i \in DOMAIN hits |-> Match(hits[i])])
<1> DEFINE got == [i \in DOMAIN hits |-> Match(hits[i])]
<1>1. got = [i \in DOMAIN hits |-> got[i]] /\ \A i \in DOMAIN hits : Matched(got[i])
  BY MatchMatches
<1> HIDE DEF got
<1>2. MatchedSeq(got)
  BY <1>1, MatchedMap
<1>3. QED
  BY <1>2 DEF got

LEMMA SimilarMatches ==
    ASSUME NEW S, NEW hits \in Seq(S)
    PROVE  MatchedSeq(Similar(hits))
<1> DEFINE elsewhere == {c \in Among(hits) : c.path # reader.file /\ c.symbol \notin Ids}
           all == Only(hits, elsewhere)
           places == Limited(all, SimilarLimit)
<1>1. Similar(hits) = [i \in DOMAIN places |-> Match(places[i])]
  BY DEF Similar
<1> HIDE DEF elsewhere
<1>2. all \in Seq(S)
  BY OnlyKeeps
<1> HIDE DEF all
<1>3. places \in Seq(S)
  BY <1>2, LimitsAssumption DEF Limited
<1> HIDE DEF places
<1>4. QED
  BY <1>1, <1>3, MatchesMatch

LEMMA CollectedMatches ==
    ASSUME NEW S, NEW hits \in Seq(S), MatchedSeq(call.got)
    PROVE  MatchedSeq(Collected(hits))
<1> DEFINE new == [i \in DOMAIN hits |-> Match(hits[i])]
           all == call.got \o new
           firsts == {i \in DOMAIN all : \A j \in 1 .. i - 1 : Place(all[j]) # Place(all[i])}
           indices == [i \in DOMAIN all |-> i]
           places == Only(indices, firsts)
           kept == [k \in DOMAIN places |-> all[places[k]]]
<1>1. Collected(hits) = Limited(kept, Limit)
  BY DEF Collected
<1>2. MatchedSeq(all)
  <2>1. MatchedSeq(new)
    BY MatchesMatch
  <2> HIDE DEF new
  <2>2. QED
    BY <2>1, MatchedJoin
<1> HIDE DEF all
<1>3. PICK A : all \in Seq(A) /\ \A f \in A : Matched(f)
  BY <1>2 DEF MatchedSeq
<1>4. indices \in Seq(DOMAIN all)
  <2>1. DOMAIN all = 1 .. Len(all) /\ Len(all) \in Nat
    BY <1>3
  <2>2. QED
    BY <2>1
<1> HIDE DEF indices, firsts
<1>5. places \in Seq(DOMAIN all)
  BY <1>4, OnlyKeeps
<1> HIDE DEF places
<1>6. \A k \in DOMAIN places : all[places[k]] \in A
  BY <1>3, <1>5
<1>7. MatchedSeq(kept)
  <2>1. kept = [k \in DOMAIN places |-> kept[k]] /\ \A k \in DOMAIN places : Matched(kept[k])
    BY <1>3, <1>6
  <2> HIDE DEF kept
  <2>2. QED
    BY <1>5, <2>1, MatchedMap
<1> HIDE DEF kept
<1>8. QED
  BY <1>1, <1>7, MatchedLimited, LimitsAssumption

LEMMA PackedMatches ==
    ASSUME NEW pieces, MatchedSeq(pieces)
    PROVE  \A f \in Packed(pieces) : Matched(f)
<1> DEFINE size(i) == Len(pieces[i].text.lines)
           taken[i \in DOMAIN pieces] ==
               LET before == {j \in 1 .. i - 1 : taken[j]} IN
               /\ size(i) # 0
               /\ \A j \in before : Place(pieces[j]) # Place(pieces[i])
               /\ MapThenSumSet(size, before) + size(i) <= Budget
<1>1. Packed(pieces) = {pieces[i] : i \in {j \in DOMAIN pieces : taken[j]}}
  BY DEF Packed
<1> HIDE DEF taken
<1>2. Packed(pieces) \subseteq ToSet(pieces)
  BY <1>1 DEF ToSet
<1>3. QED
  BY <1>2, MatchedElements

LEMMA SearchMeaningKeeps ==
    ASSUME Inv, SearchMeaning
    PROVE  Inv'
<1>1. CallOk(call) /\ call.step = "meaning" /\ Reading /\ Reads
  BY UnderWay DEF SearchMeaning
<1>2. /\ call.tool \notin RoleTools
      /\ MatchedSeq(call.got) /\ \A row \in call.rows : WasParsed(row)
  BY <1>1 DEF CallOk
<1>3. PICK hits : (\E S : hits \in Seq(S)) /\
         IF call.tool = "context"
         THEN Finish(Answer("index", Packed(call.got \o Similar(hits)), "context", {}))
         ELSE LET got == Collected(hits) IN
              IF Len(call.queries) > 1 /\ Len(got) < Limit
              THEN /\ call' = [call EXCEPT !.got = got, !.queries = Tail(@), !.step = "words",
                                  !.stages = Stages(call.queries[2], FALSE), !.hits = {}]
                   /\ UNCHANGED answer
              ELSE Finish(Answer("index", ToSet(got),
                                 IF call.tool = "project_docs" /\ got = <<>> THEN "nothing"
                                 ELSE "none", {}))
  <2>1. PICK near \in {{}} \cup AnyOf(SearchedChunks, Candidates) :
        \E hits \in Top(call.hits \cup near, Candidates, LAMBDA c : Fused(call.hits, near, c)) :
             IF call.tool = "context"
             THEN Finish(Answer("index", Packed(call.got \o Similar(hits)), "context", {}))
             ELSE LET got == Collected(hits) IN
                  IF Len(call.queries) > 1 /\ Len(got) < Limit
                  THEN /\ call' = [call EXCEPT !.got = got, !.queries = Tail(@), !.step = "words",
                                      !.stages = Stages(call.queries[2], FALSE), !.hits = {}]
                       /\ UNCHANGED answer
                  ELSE Finish(Answer("index", ToSet(got),
                                     IF call.tool = "project_docs" /\ got = <<>> THEN "nothing"
                                     ELSE "none", {}))
    BY DEF SearchMeaning
  <2>2. PICK hits \in Top(call.hits \cup near, Candidates, LAMBDA c : Fused(call.hits, near, c)) :
             IF call.tool = "context"
             THEN Finish(Answer("index", Packed(call.got \o Similar(hits)), "context", {}))
             ELSE LET got == Collected(hits) IN
                  IF Len(call.queries) > 1 /\ Len(got) < Limit
                  THEN /\ call' = [call EXCEPT !.got = got, !.queries = Tail(@), !.step = "words",
                                      !.stages = Stages(call.queries[2], FALSE), !.hits = {}]
                       /\ UNCHANGED answer
                  ELSE Finish(Answer("index", ToSet(got),
                                     IF call.tool = "project_docs" /\ got = <<>> THEN "nothing"
                                     ELSE "none", {}))
    BY <2>1
  <2>3. hits \in Seq(call.hits \cup near)
    BY <2>2, TopIsOf
  <2>4. QED
    BY <2>2, <2>3
<1>4. PICK S : hits \in Seq(S)
  BY <1>3
<1> DEFINE got == Collected(hits)
<1>5. MatchedSeq(got)
  BY <1>2, <1>4, CollectedMatches
<1>6. CASE call.tool = "context"
  <2> DEFINE pieces == call.got \o Similar(hits)
  <2>1. MatchedSeq(pieces)
    BY <1>2, <1>4, SimilarMatches, MatchedJoin
  <2>2. Finish(Answer("index", Packed(pieces), "context", {}))
    BY <1>3, <1>6
  <2> HIDE DEF pieces
  <2>3. QED
    BY <1>1, <1>2, <2>1, <2>2, PackedMatches, Finishes
<1>7. CASE call.tool # "context"
  <2>1. \/ /\ \E queries, stages :
                 call' = [call EXCEPT !.got = got, !.queries = queries, !.step = "words",
                             !.stages = stages, !.hits = {}]
           /\ UNCHANGED answer
        \/ \E note : Finish(Answer("index", ToSet(got), note, {}))
    BY <1>3, <1>7
  <2> HIDE DEF got
  <2>2. CASE /\ \E queries, stages :
                  call' = [call EXCEPT !.got = got, !.queries = queries, !.step = "words",
                              !.stages = stages, !.hits = {}]
             /\ UNCHANGED answer
    <3>1. /\ DOMAIN call' = CallFields /\ call'.rows = call.rows /\ call'.step = "words"
          /\ call'.req = call.req /\ call'.tool = call.tool /\ call'.got = got
      BY <1>1, <2>2 DEF CallOk, CallFields
    <3>2. QED
      BY <1>1, <1>2, <1>5, <2>2, <3>1, MovesOn
  <2>3. CASE \E note : Finish(Answer("index", ToSet(got), note, {}))
    BY <1>1, <1>2, <1>5, <2>3, MatchedElements, Finishes
  <2>4. QED
    BY <2>1, <2>2, <2>3
<1>8. QED
  BY <1>6, <1>7

LEMMA TimeOutKeeps ==
    ASSUME Inv, TimeOut
    PROVE  Inv'
<1>1. CallOk(call) /\ call.step \in {"words", "meaning"} /\ Reading /\ Reads
  BY UnderWay DEF TimeOut
<1>2. call.tool \notin RoleTools /\ MatchedSeq(call.got)
  BY <1>1 DEF CallOk
<1>3. \/ \E why : Finish(Error("index", why))
      \/ Finish(Answer("index", Packed(call.got), "context", {}))
  BY DEF TimeOut
<1>4. CASE \E why : Finish(Error("index", why))
  BY <1>1, <1>4, Fails
<1>5. CASE Finish(Answer("index", Packed(call.got), "context", {}))
  BY <1>1, <1>2, <1>5, PackedMatches, Finishes
<1>6. QED
  BY <1>3, <1>4, <1>5

-----------------------------------------------------------------------------
(* The steps outside of a call of the index.                               *)

LEMMA OutsideOfCalls ==
    ASSUME Inv, UNCHANGED <<graph, reader, call>>, reader # NoReader,
           \A f \in answer'.fragments : Exact(f),
           answer'.tool \notin RoleTools \/ reader.source # "index"
    PROVE  Inv'
<1>1. GraphInv' /\ CallInv'
  BY GraphStays DEF Inv, CallInv, CallOk
<1>2. /\ (\A f \in answer.fragments : Matched(f))'
      /\ (reader.source = "git" => reader.head \in Commits /\ \A f \in answer.fragments : Exact(f))'
  BY DEF Inv, AnswerInv, Exact, Matched
<1>3. RolesAreReal'
  BY DEF RolesAreReal, RoleTools
<1>4. QED
  BY <1>1, <1>2, <1>3 DEF Inv, AnswerInv

LEMMA RefuseCallKeeps ==
    ASSUME Inv, NEW tool, NEW why, RefuseCall(tool, why)
    PROVE  Inv'
<1>1. /\ UNCHANGED <<graph, reader, call>> /\ reader.source # "none"
      /\ answer' = Error(reader.source, why)
  BY Zenon DEF RefuseCall
<1>2. answer'.fragments = {} /\ answer'.tool = "none"
  BY <1>1 DEF Error, Answer
<1>3. reader # NoReader
  BY <1>1 DEF NoReader
<1>4. QED
  BY <1>1, <1>2, <1>3, OutsideOfCalls DEF RoleTools

LEMMA PatchMatches == \A head, p, req : Exact(Patch(head, p, req))
<1>1. TAKE head, p, req
<1>2. CASE Tree[head][p] # Absent
  BY <1>2, WindowMatches DEF Patch
<1>3. CASE Tree[head][p] = Absent
  BY <1>3 DEF Patch, Exact
<1>4. QED
  BY <1>2, <1>3

LEMMA ReadChangeKeeps ==
    ASSUME Inv, NEW req, ReadChange(req)
    PROVE  Inv'
<1>1. UNCHANGED <<graph, reader, call>> /\ reader # NoReader
  <2>1. UNCHANGED <<graph, reader, call>> /\ reader.source # "none"
    BY Zenon DEF ReadChange
  <2>2. QED
    BY <2>1 DEF NoReader
<1>2. \/ \E why : answer' = Error(reader.source, why)
      \/ \E others : answer' = Answer(reader.source, {}, "changes", others)
      \/ \E asked : answer' = Answer(reader.source, {Patch(reader.head, p, req) : p \in asked}, "patch", {})
  BY DEF ReadChange
<1>3. answer'.tool = "none" /\ \A f \in answer'.fragments : Exact(f)
  <2>1. CASE \E why : answer' = Error(reader.source, why)
    BY <2>1 DEF Error, Answer
  <2>2. CASE \E others : answer' = Answer(reader.source, {}, "changes", others)
    BY <2>2 DEF Answer
  <2>3. ASSUME NEW asked,
               answer' = Answer(reader.source, {Patch(reader.head, p, req) : p \in asked}, "patch", {})
        PROVE  answer'.tool = "none" /\ \A f \in answer'.fragments : Exact(f)
    <3>1. answer'.tool = "none" /\ answer'.fragments = {Patch(reader.head, p, req) : p \in asked}
      BY <2>3 DEF Answer
    <3>2. QED
      BY <3>1, PatchMatches
  <2>4. QED
    BY <1>2, <2>1, <2>2, <2>3
<1>4. QED
  BY <1>1, <1>3, OutsideOfCalls DEF RoleTools

LEMMA AskGitKeeps ==
    ASSUME Inv, NEW req \in Requests, AskGit(req)
    PROVE  Inv'
<1>1. UNCHANGED <<graph, reader, call>> /\ reader # NoReader /\ reader.source = "git"
  BY DEF AskGit, NoReader
<1>2. answer' = GitAnswer(Tree[reader.head], req, Limit)
      /\ req.tool \in DOMAIN FirstStep \ {"context"}
  BY RequestsAssumption DEF AskGit
<1>3. \A f \in answer'.fragments : Exact(f)
  <2>1. Tree[reader.head] \in [Paths -> Versions \cup {Absent}]
    BY <1>1, TreeAssumption DEF Inv, AnswerInv
  <2>2. \A p \in TreePaths(Tree[reader.head]) : Content[Tree[reader.head][p]].last \in Int
    BY <2>1, ContentAssumption DEF TreePaths
  <2>3. QED
    BY <1>2, <2>2, GitAnswerMatches DEF Clean
<1>4. QED
  BY <1>1, <1>3, OutsideOfCalls

LEMMA OpeningKeeps ==
    ASSUME Inv, UNCHANGED <<graph, call, answer>>, reader = NoReader,
           reader'.source = "git" => reader'.head \in Commits
    PROVE  reader' # NoReader => Inv'
<1>1. GraphInv' /\ CallInv'
  BY GraphStays DEF Inv, CallInv, CallOk
<1>2. answer'.fragments = {}
  BY DEF Inv, AnswerInv, NoAnswer, Answer
<1>3. QED
  BY <1>1, <1>2 DEF Inv, AnswerInv, RolesAreReal

LEMMA CloseKeeps ==
    ASSUME Inv, Close
    PROVE  Inv'
<1>1. UNCHANGED <<graph, call>> /\ answer' = NoAnswer /\ reader' = NoReader
  BY DEF Close
<1>2. GraphInv' /\ CallInv'
  BY <1>1, GraphStays DEF Inv, CallInv, CallOk
<1>3. answer'.fragments = {}
  BY <1>1 DEF NoAnswer, Answer
<1>4. reader'.source # "git"
  BY <1>1 DEF NoReader
<1>5. QED
  BY <1>1, <1>2, <1>3, <1>4 DEF Inv, AnswerInv, RolesAreReal

LEMMA NothingMatches == MatchedSeq(<<>>)
<1> DEFINE A == {f \in {} : Matched(f)}
<1>1. <<>> \in Seq(A) /\ \A f \in A : Matched(f)
  OBVIOUS
<1> HIDE DEF A
<1>2. QED
  BY <1>1 DEF MatchedSeq

LEMMA AskIndexKeeps ==
    ASSUME Inv, NEW req \in Requests, AskIndex(req)
    PROVE  Inv'
<1>1. PICK queries : Ask(req, queries)
  BY DEF AskIndex
<1> DEFINE first == FirstStep[req.tool]
           known == {p \in Paths : PathOf[p] = req.path}
<1>2. /\ call' = [step |-> FirstStep[req.tool], tool |-> req.tool, req |-> req,
                  path |-> IF known = {} THEN 0 ELSE CHOOSE p \in known : TRUE,
                  needles |-> Needles(req.path), looked |-> FALSE, rows |-> {}, got |-> <<>>,
                  queries |-> queries, stages |-> Stages(Head(queries), req.tool = "find_symbol"),
                  hits |-> {}]
      /\ answer' = NoAnswer /\ Reads /\ Reading /\ req.tool \in DOMAIN FirstStep
  BY <1>1 DEF Ask
<1>3. /\ req.tool \in RoleTools => first = "names"
      /\ first \notin {"path", "related", "others"} \/ req.tool \in {"read_file", "get_file_outline"}
      /\ first = "path" => req.tool \in {"read_file", "get_file_outline"}
      /\ first = "cover" => req.tool \in {"get_file_context", "context"}
      /\ first \notin {"related", "others"}
  BY <1>2 DEF FirstStep, RoleTools
<1>4. /\ DOMAIN call' = CallFields /\ call'.rows = {} /\ call'.step = first
      /\ call'.req = req /\ call'.tool = req.tool /\ call'.got = <<>>
  BY <1>2 DEF CallFields
<1>5. MatchedSeq(<<>>)
  BY NothingMatches
<1> HIDE DEF first
<1>6. CallOk(call')
  BY <1>3, <1>4, <1>5 DEF CallOk
<1>7. GraphInv' /\ CallOk(call)'
  BY <1>2, <1>6, GraphStays DEF Inv, Reads, CallOk
<1>8. answer'.fragments = {} /\ reader' = reader /\ reader # NoReader
  BY <1>2 DEF NoAnswer, Answer, Reads, Reading, NoReader
<1>9. QED
  BY <1>7, <1>8 DEF Inv, CallInv, AnswerInv, RolesAreReal

-----------------------------------------------------------------------------
(* The theorems.                                                           *)

LEMMA InitInv == Init => Inv
<1>1. SUFFICES ASSUME Init PROVE Inv
  OBVIOUS
<1>2. GraphInv
  BY <1>1, GraphInitInv DEF Init
<1>3. answer = NoAnswer /\ answer.fragments = {} /\ call = NoCall
  BY <1>1 DEF Init, NoAnswer, Answer
<1>4. reader.source # "git"
  BY <1>1 DEF Init, NoReader
<1>5. QED
  BY <1>2, <1>3, <1>4 DEF Inv, CallInv, AnswerInv, RolesAreReal

LEMMA GraphNextKeeps ==
    ASSUME Inv, GraphNext, UNCHANGED <<reader, call, answer>>
    PROVE  Inv'
<1>1. GraphInv' /\ SnapsGrow
  BY GraphStepKeeps DEF Inv
<1>2. \A row : WasParsed(row) => WasParsed(row)'
  BY <1>1, WasParsedStays DEF Inv, GraphInv
<1>3. CallInv'
  BY <1>2 DEF Inv, CallInv, CallOk
<1>4. AnswerInv'
  BY DEF Inv, AnswerInv, Matched, Exact, RolesAreReal
<1>5. QED
  BY <1>1, <1>3, <1>4 DEF Inv

LEMMA IndexStepKeeps ==
    ASSUME Inv, IndexStep
    PROVE  Inv'
  BY FindNamesKeeps, FindRelatedKeeps, CountOthersKeeps, ReadBodiesKeeps, CoverLinesKeeps,
     FindCalleesKeeps, FindCallersOfLinesKeeps, ResolvePathKeeps, SuggestPathsKeeps, ReadFileKeeps,
     OutlineFileKeeps, DescribeKeeps, ListFilesKeeps, SearchSymbolsKeeps, SearchWordsKeeps,
     SearchMeaningKeeps, TimeOutKeeps
     DEF IndexStep

LEMMA NextKeeps ==
    ASSUME Inv, [Next]_vars
    PROVE  Inv'
<1>1. CASE UNCHANGED vars
  BY <1>1, GraphStays DEF Inv, CallInv, AnswerInv, Matched, Exact, RolesAreReal, CallOk, vars
<1>2. CASE GraphNext /\ UNCHANGED <<reader, call, answer>>
  BY <1>2, GraphNextKeeps
<1>3. ASSUME NEW head \in Commits, NEW p \in Paths, OpenReview(head, p)
      PROVE  Inv'
  BY <1>3, OpeningKeeps DEF OpenReview, NoReader
<1>4. CASE OpenIndex
  BY <1>4, OpeningKeeps DEF OpenIndex, NoReader
<1>5. CASE Close
  BY <1>5, CloseKeeps
<1>6. CASE \E tool \in {"find_callers", "describe_repository", "unknown"},
              why \in {"not JSON", "no such tool", "bad arguments"} : RefuseCall(tool, why)
  BY <1>6, RefuseCallKeeps
<1>7. CASE \E req \in Requests : ReadChange(req) \/ AskGit(req) \/ AskIndex(req)
  BY <1>7, ReadChangeKeeps, AskGitKeeps, AskIndexKeeps
<1>8. CASE IndexStep
  BY <1>8, IndexStepKeeps
<1>9. QED
  BY <1>1, <1>2, <1>3, <1>4, <1>5, <1>6, <1>7, <1>8 DEF Next

LEMMA ReadingIsSound == Spec => []Inv
<1>1. Init => Inv
  BY InitInv
<1>2. Inv /\ [Next]_vars => Inv'
  BY NextKeeps
<1>3. QED
  BY <1>1, <1>2, PTL DEF Spec

(* Whatever builds do between two statements of an answer, a text that is  *)
(* shown under a place is of the version that the place is of: a body of   *)
(* several chunks, a contract, a file's lines or what git cuts out.        *)
THEOREM TextsStayAtTheirPlace == Spec => []TextMatchesItsPlace
<1>1. Inv => TextMatchesItsPlace
  BY DEF Inv, AnswerInv, Matched, TextMatchesItsPlace
<1>2. QED
  BY <1>1, ReadingIsSound, PTL

(* A neighbour that the index names makes, in the version that is shown,   *)
(* the reference it is named for, although the edge and the row at its end *)
(* may have been written by different builds.                              *)
THEOREM NeighboursHaveTheirRoles == Spec => []RolesAreReal
<1>1. Inv => RolesAreReal
  BY DEF Inv, AnswerInv
<1>2. QED
  BY <1>1, ReadingIsSound, PTL

(* Whoever reads a file whose chunks are in order gets its lines in order  *)
(* and none twice, also from chunks that overlap and while a build stores  *)
(* the file anew; and so does, of any file, who reads it from git.         *)
THEOREM FilesAreReadInOrder == Spec => []ReadingFollowsChunks
<1>1. Inv => ReadingFollowsChunks
  BY DEF Inv, AnswerInv, Matched, Exact, Rising, ReadingFollowsChunks
<1>2. QED
  BY <1>1, ReadingIsSound, PTL

-----------------------------------------------------------------------------
(* What is cut apart by lines and read again.                              *)

Fragments == [first : Int, last : Int, text : Seq(Int), symbol : Nat,
              owner : Seq(STRING), module : BOOLEAN]

LEMMA Quotient ==
    ASSUME NEW x \in Nat, NEW d \in Nat \ {0}
    PROVE  /\ x \div d \in Nat
           /\ (x \div d) * d <= x
           /\ x < (x \div d) * d + d
  OBVIOUS

LEMMA TokensCount ==
    ASSUME NEW long, NEW f \in Fragments
    PROVE  Tokens(long, f) \in Nat
<1> DEFINE heavy == {i \in DOMAIN f.text : f.text[i] \in long}
<1>1. f.text \in Seq(Int)
  BY DEF Fragments
<1>2. Len(f.text) \in Nat /\ DOMAIN f.text = 1 .. Len(f.text)
  BY <1>1
<1>3. IsFiniteSet(1 .. Len(f.text)) /\ heavy \subseteq 1 .. Len(f.text)
  BY <1>2, FS_Interval
<1> HIDE DEF heavy
<1>4. Cardinality(heavy) \in Nat
  BY <1>3, FS_Subset, FS_CardinalityType
<1>5. Tokens(long, f) = Len(f.text) + Cardinality(heavy)
  BY DEF Tokens, Weight, heavy
<1>6. QED
  BY <1>2, <1>4, <1>5

(* The lengths a text is cut into: step lines each, and every piece begins *)
(* stride lines after the one before it.                                   *)
Step(long, f) == Larger(1, (Len(f.text) * MaxTokens) \div Larger(Tokens(long, f), 1))
Stride(long, f) == Larger(Step(long, f) - Overlap, 1)
PieceCount(n, step, stride) == IF n <= step THEN 1 ELSE 1 + (n - step + stride - 1) \div stride

LEMMA StepsAreNumbers ==
    ASSUME NEW long, NEW f \in Fragments
    PROVE  /\ Step(long, f) \in Nat \ {0}
           /\ Stride(long, f) \in Nat \ {0} /\ Stride(long, f) <= Step(long, f)
<1> DEFINE weight == Larger(Tokens(long, f), 1)
           budget == Len(f.text) * MaxTokens
<1>1. weight \in Nat \ {0}
  BY TokensCount DEF Larger
<1>2. budget \in Nat
  <2>1. Len(f.text) \in Nat /\ MaxTokens \in Nat
    BY SizesAssumption DEF Fragments
  <2>2. QED
    BY <2>1
<1> HIDE DEF weight, budget
<1>3. budget \div weight \in Nat
  BY <1>1, <1>2, Quotient
<1>4. Step(long, f) = Larger(1, budget \div weight)
  BY DEF Step, weight, budget
<1>5. Step(long, f) \in Nat \ {0}
  BY <1>3, <1>4 DEF Larger
<1>6. Overlap \in Nat
  BY SizesAssumption
<1>7. QED
  BY <1>5, <1>6 DEF Stride, Larger

(* No piece begins after the end, and every line is in a piece.            *)
LEMMA PiecesCover ==
    ASSUME NEW n \in Nat \ {0}, NEW step \in Nat \ {0}, NEW stride \in Nat \ {0}, stride <= step
    PROVE  /\ PieceCount(n, step, stride) \in Nat \ {0}
           /\ \A j \in 1 .. PieceCount(n, step, stride) :
                 (j - 1) * stride \in Nat /\ (j - 1) * stride < n
           /\ \A i \in 1 .. n : \E j \in 1 .. PieceCount(n, step, stride) :
                 (j - 1) * stride < i /\ i <= (j - 1) * stride + step
<1>1. CASE n <= step
  <2>1. PieceCount(n, step, stride) = 1
    BY <1>1 DEF PieceCount
  <2>2. QED
    BY <1>1, <2>1
<1>2. CASE n > step
  <2> DEFINE whole == n - step + stride - 1
             q == whole \div stride
  <2>1. whole \in Nat /\ PieceCount(n, step, stride) = 1 + q
    BY <1>2 DEF PieceCount
  <2> HIDE DEF whole
  <2>2. q \in Nat /\ q * stride <= whole /\ whole < q * stride + stride
    BY <2>1, Quotient
  <2> HIDE DEF q
  <2>3. ASSUME NEW j \in 1 .. 1 + q
        PROVE  (j - 1) * stride \in Nat /\ (j - 1) * stride < n
    <3>1. j - 1 \in Nat /\ j - 1 <= q
      BY <2>2, <2>3
    <3>2. (j - 1) * stride \in Nat /\ (j - 1) * stride <= q * stride
      BY <2>2, <3>1
    <3>3. q * stride \in Nat /\ q * stride < n
      BY <2>2 DEF whole
    <3>4. QED
      BY <3>2, <3>3
  <2>4. ASSUME NEW i \in 1 .. n
        PROVE  \E j \in 1 .. 1 + q : (j - 1) * stride < i /\ i <= (j - 1) * stride + step
    <3>1. CASE i <= step
      <4>1. (1 - 1) * stride = 0
        OBVIOUS
      <4>2. QED
        BY <2>2, <3>1, <4>1
    <3>2. CASE i > step
      <4> DEFINE part == i - step + stride - 1
                 k == part \div stride
      <4>1. part \in Nat /\ part <= whole
        BY <3>2 DEF whole
      <4>2. part = i - step + stride - 1
        OBVIOUS
      <4> HIDE DEF part
      <4>3. k \in Nat /\ k * stride <= part /\ part < k * stride + stride
        BY <4>1, Quotient
      <4> HIDE DEF k
      <4>4. k <= q
        <5>1. SUFFICES ASSUME q + 1 <= k PROVE FALSE
          BY <2>2, <4>3
        <5>2. (q + 1) * stride <= k * stride
          BY <2>2, <4>3, <5>1
        <5>3. (q + 1) * stride = q * stride + stride
          BY <2>2
        <5>4. q * stride \in Nat /\ k * stride \in Nat
          BY <2>2, <4>3
        <5>5. QED
          BY <2>1, <2>2, <4>1, <4>3, <5>2, <5>3, <5>4
      <4> DEFINE j == k + 1
      <4>5. j \in 1 .. 1 + q /\ j - 1 = k
        BY <2>2, <4>3, <4>4
      <4>6. k * stride \in Nat /\ k * stride < i /\ i <= k * stride + step
        BY <4>2, <4>3
      <4>7. QED
        BY <4>5, <4>6
    <3>3. QED
      BY <3>1, <3>2
  <2>5. QED
    BY <2>1, <2>2, <2>3, <2>4
<1>3. QED
  BY <1>1, <1>2

(* Every piece gives lines of the fragment under the numbers that they     *)
(* have in it, and together the pieces give them all.                      *)
LEMMA PiecesGive ==
    ASSUME NEW long, NEW f \in Fragments
    PROVE  LET pieces == SplitByLines(long, f) IN
           /\ IsSequence(pieces)
           /\ \A c \in Among(pieces) :
                 /\ c.first \in Int /\ c.last = c.first + Len(c.text) - 1
                 /\ \A n \in Given(c) : n \in Given(f) /\ LineAt(c, n) = LineAt(f, n)
                 /\ Given(c) = c.first .. c.last
           /\ \A n \in Given(f) : \E c \in Among(pieces) : n \in Given(c)
<1> DEFINE count == Len(f.text)
           step == Step(long, f)
           stride == Stride(long, f)
           total == PieceCount(count, step, stride)
           start(j) == (j - 1) * stride
           end(j) == IF start(j) + step < count THEN start(j) + step ELSE count
           piece(j) == [f EXCEPT !.first = f.first + start(j),
                                 !.last = f.first + end(j) - 1,
                                 !.text = SubSeq(f.text, start(j) + 1, end(j)),
                                 !.symbol = IF start(j) = 0 THEN f.symbol ELSE 0]
<1>1. SplitByLines(long, f) = IF count = 0 THEN <<>> ELSE [j \in 1 .. total |-> piece(j)]
  BY DEF SplitByLines, Step, Stride, PieceCount
<1>2. f.text \in Seq(Int) /\ f.first \in Int /\ count \in Nat
  BY DEF Fragments
<1>3. CASE count = 0
  <2>1. SplitByLines(long, f) = <<>> /\ Given(f) = {}
    BY <1>1, <1>2, <1>3 DEF Given
  <2>2. Among(<<>>) = {}
    BY DEF Among
  <2>3. IsSequence(<<>>)
    BY DEF IsSequence
  <2>4. QED
    BY <2>1, <2>2, <2>3
<1>4. CASE count # 0
  <2> DEFINE pieces == [j \in 1 .. total |-> piece(j)]
  <2>1. step \in Nat \ {0} /\ stride \in Nat \ {0} /\ stride <= step
    BY StepsAreNumbers
  <2>2. count \in Nat \ {0}
    BY <1>2, <1>4
  <2> HIDE DEF step, stride
  <2>3. /\ total \in Nat \ {0}
        /\ \A j \in 1 .. total : start(j) \in Nat /\ start(j) < count
        /\ \A i \in 1 .. count : \E j \in 1 .. total : start(j) < i /\ i <= start(j) + step
    <3> HIDE DEF count
    <3>1. QED
      BY <2>1, <2>2, PiecesCover
  <2>4. \A j : /\ piece(j).first = f.first + start(j)
               /\ piece(j).last = f.first + end(j) - 1
               /\ piece(j).text = SubSeq(f.text, start(j) + 1, end(j))
    BY DEF Fragments
  <2> HIDE DEF total, start, piece
  <2>5. ASSUME NEW j \in 1 .. total
        PROVE  /\ piece(j).first \in Int
               /\ piece(j).last = piece(j).first + Len(piece(j).text) - 1
               /\ Given(piece(j)) = piece(j).first .. piece(j).last
               /\ \A n \in Given(piece(j)) : n \in Given(f) /\ LineAt(piece(j), n) = LineAt(f, n)
               /\ Given(piece(j)) = f.first + start(j) .. f.first + end(j) - 1
    <3>1. start(j) \in Nat /\ start(j) < end(j) /\ end(j) <= count /\ end(j) \in Nat
      BY <2>1, <2>2, <2>3
    <3>2. start(j) + 1 \in 1 .. count + 1 /\ end(j) \in 0 .. count
      BY <2>2, <3>1
    <3> DEFINE text == SubSeq(f.text, start(j) + 1, end(j))
    <3> HIDE DEF end
    <3>3. /\ Len(text) = end(j) - start(j)
          /\ \A i \in 1 .. end(j) - start(j) : text[i] = f.text[start(j) + i]
      <4>1. start(j) + 1 \in 1 .. Len(f.text) /\ end(j) \in 1 .. Len(f.text)
        BY <2>2, <3>1
      <4>2. end(j) - (start(j) + 1) + 1 = end(j) - start(j) /\ start(j) + 1 <= end(j)
        BY <3>1
      <4> HIDE DEF count
      <4>3. /\ Len(text) = end(j) - (start(j) + 1) + 1
            /\ \A i \in 1 .. end(j) - (start(j) + 1) + 1 : text[i] = f.text[start(j) + 1 + i - 1]
        BY <1>2, <4>1, <4>2, SubSeqProperties
      <4> HIDE DEF text
      <4>4. ASSUME NEW i \in 1 .. end(j) - start(j)
            PROVE  text[i] = f.text[start(j) + i]
        <5>1. start(j) + 1 + i - 1 = start(j) + i
          BY <3>1
        <5>2. text[i] = f.text[start(j) + 1 + i - 1]
          BY <4>2, <4>3
        <5>3. QED
          BY <5>1, <5>2
      <4>5. QED
        BY <4>2, <4>3, <4>4
    <3>4. piece(j).text = text /\ piece(j).first = f.first + start(j) /\ piece(j).last = f.first + end(j) - 1
      BY <2>4
    <3> HIDE DEF text
    <3>5. /\ piece(j).first \in Int /\ piece(j).last = piece(j).first + Len(piece(j).text) - 1
          /\ Given(piece(j)) = f.first + start(j) .. f.first + end(j) - 1
          /\ Given(piece(j)) = piece(j).first .. piece(j).last
      <4>1. piece(j).first \in Int /\ Len(piece(j).text) = end(j) - start(j)
        BY <1>2, <3>1, <3>3, <3>4
      <4>2. /\ piece(j).first + (end(j) - start(j)) - 1 = f.first + end(j) - 1
            /\ piece(j).first = f.first + start(j)
        BY <1>2, <3>1, <3>4
      <4>3. Given(piece(j)) = piece(j).first .. piece(j).first + (end(j) - start(j)) - 1
        BY <4>1 DEF Given
      <4>4. QED
        BY <3>4, <4>1, <4>2, <4>3
    <3>6. ASSUME NEW n \in Given(piece(j))
          PROVE  n \in Given(f) /\ LineAt(piece(j), n) = LineAt(f, n)
      <4>1. n \in f.first + start(j) .. f.first + end(j) - 1
        BY <3>5
      <4>2. n \in Given(f)
        BY <1>2, <3>1, <4>1 DEF Given
      <4>3. n - (f.first + start(j)) + 1 \in 1 .. end(j) - start(j)
        BY <1>2, <3>1, <4>1
      <4>4. start(j) + (n - (f.first + start(j)) + 1) = n - f.first + 1
        BY <1>2, <3>1, <4>1
      <4>5. LineAt(piece(j), n) = text[n - (f.first + start(j)) + 1] /\ LineAt(f, n) = f.text[n - f.first + 1]
        BY <3>4 DEF LineAt
      <4>6. QED
        BY <3>3, <4>2, <4>3, <4>4, <4>5
    <3>7. QED
      BY <3>5, <3>6
  <2>6. pieces = [j \in 1 .. total |-> pieces[j]] /\ \A j \in 1 .. total : pieces[j] = piece(j)
    OBVIOUS
  <2> HIDE DEF pieces
  <2>7. DOMAIN pieces = 1 .. total /\ Among(pieces) = {piece(j) : j \in 1 .. total}
    BY <2>6 DEF Among
  <2>8. IsSequence(pieces)
    <3>1. pieces \in [1 .. total -> Among(pieces)]
      BY <2>6 DEF Among
    <3>2. QED
      BY <2>3, <3>1 DEF IsSequence
  <2>9. ASSUME NEW n \in Given(f)
        PROVE  \E c \in Among(pieces) : n \in Given(c)
    <3>1. n \in Int /\ n - f.first + 1 \in 1 .. count
      BY <1>2 DEF Given
    <3>2. PICK j \in 1 .. total : start(j) < n - f.first + 1 /\ n - f.first + 1 <= start(j) + step
      BY <2>3, <3>1
    <3>3. start(j) \in Nat
      BY <2>3
    <3>4. n \in f.first + start(j) .. f.first + end(j) - 1
      BY <1>2, <2>1, <3>1, <3>2, <3>3
    <3>5. n \in Given(piece(j)) /\ piece(j) \in Among(pieces)
      BY <2>5, <2>7, <3>4
    <3>6. QED
      BY <3>5
  <2>10. SplitByLines(long, f) = pieces
    BY <1>1, <1>4 DEF pieces
  <2>11. QED
    BY <2>5, <2>7, <2>8, <2>9, <2>10
<1>5. QED
  BY <1>3, <1>4

(* What is too long for a chunk and has no parts is read from its pieces   *)
(* as if it had never been cut: every line of it that is asked for is      *)
(* given under its own number, for any budget and any overlap, and if its  *)
(* lines are in order then so are its pieces.                              *)
THEOREM SplitIsReadWhole ==
    ASSUME NEW long, NEW f \in Fragments, NEW a \in Int, NEW b \in Int
    PROVE  LET pieces == SplitByLines(long, f) IN
           /\ DOMAIN ReadLines(pieces, a, b) = a .. b \cap Given(f)
           /\ \A n \in a .. b \cap Given(f) : ReadLines(pieces, a, b)[n] = LineAt(f, n)
           /\ InOrder(<<f>>) => InOrder(pieces)
<1> DEFINE pieces == SplitByLines(long, f)
           near == {c \in Among(pieces) : c.first <= b /\ c.last >= a}
           asked == Only(pieces, near)
           numbers == {n \in a .. b : \E i \in DOMAIN asked : n \in Given(asked[i])}
<1>1. /\ IsSequence(pieces)
      /\ \A c \in Among(pieces) :
            /\ c.first \in Int /\ c.last = c.first + Len(c.text) - 1
            /\ \A n \in Given(c) : n \in Given(f) /\ LineAt(c, n) = LineAt(f, n)
            /\ Given(c) = c.first .. c.last
      /\ \A n \in Given(f) : \E c \in Among(pieces) : n \in Given(c)
  BY PiecesGive
<1>2. DOMAIN ReadLines(pieces, a, b) = numbers
  BY DEF ReadLines
<1> HIDE DEF pieces
<1>3. asked \in Seq(Among(pieces)) /\ Among(asked) = near
  <2>1. near \subseteq Among(pieces)
    OBVIOUS
  <2> HIDE DEF near
  <2>2. pieces \in Seq(Among(pieces))
    BY <1>1 DEF IsSequence
  <2>3. asked \in Seq(Among(pieces)) /\ Among(asked) = Among(pieces) \cap near
    BY <2>2, OnlyKeeps
  <2>4. QED
    BY <2>1, <2>3
<1>4. \A c : c \in near <=> \E i \in DOMAIN asked : asked[i] = c
  <2> HIDE DEF near, asked
  <2>1. QED
    BY <1>3 DEF Among
<1>5. numbers = a .. b \cap Given(f)
  <2> HIDE DEF asked
  <2>1. ASSUME NEW n \in a .. b \cap Given(f)
        PROVE  n \in numbers
    <3>1. PICK c \in Among(pieces) : n \in Given(c)
      BY <1>1
    <3>2. n \in Int /\ c.first \in Int /\ c.last = c.first + Len(c.text) - 1 /\ n \in c.first .. c.last
      BY <1>1, <3>1
    <3>3. c.first <= n /\ n <= c.last
      BY <3>2
    <3>4. c \in near
      <4>1. c.first <= b /\ c.last >= a
        BY <3>2
      <4>2. QED
        BY <4>1
    <3>5. QED
      BY <1>4, <3>1, <3>4
  <2>2. ASSUME NEW n \in numbers
        PROVE  n \in Given(f)
    BY <1>1, <1>4
  <2>3. QED
    BY <2>1, <2>2
<1>6. ASSUME NEW n \in a .. b \cap Given(f)
      PROVE  ReadLines(pieces, a, b)[n] = LineAt(f, n)
  <2>1. n \in DOMAIN ReadLines(pieces, a, b)
    BY <1>2, <1>5
  <2>2. PICK c \in Among(pieces) : n \in Given(c) /\ ReadLines(pieces, a, b)[n] = LineAt(c, n)
    BY <1>1, <2>1, ReadLinesGiven
  <2>3. QED
    BY <1>1, <2>2
<1>7. InOrder(<<f>>) => InOrder(pieces)
  <2>1. f \in Among(<<f>>)
    BY DEF Among
  <2>2. QED
    BY <1>1, <2>1 DEF InOrder
<1>8. QED
  BY <1>2, <1>5, <1>6, <1>7 DEF pieces
=============================================================================
