-------------------------- MODULE IndexBuildProofs --------------------------
(***************************************************************************)
(* Proofs about IndexBuild, for every set of paths, commits and requests   *)
(* and every bound.                                                        *)
(***************************************************************************)
EXTENDS IndexBuild, TLAPS

(* A number names a snapshot exactly when a snapshot was created with it,  *)
(* and everything that carries a number carries such a one.                *)
Numbered ==
    /\ \A s \in Ids : snaps[s].status = "none" <=> s > created
    /\ \A r \in Requests : reqs[r].step = "created" => reqs[r].snap \in 1 .. created
    /\ \A job \in queue : job.snap <= created
    /\ pc # "idle" => build.job.snap <= created
    /\ pc \in Building \cup {"starting", "marking", "ready", "embedding"} => build.snap \in Ids
    /\ pc = "starting" => build.snap = build.job.snap

(* A file was seen by a snapshot that somebody has begun to build.         *)
SeenByBegun ==
    \A p \in Paths : files[p].present =>
        /\ files[p].seen \in Ids
        /\ snaps[files[p].seen].status \notin {"pending"} \cup Missing

(* The snapshot being built is running unless somebody stopped it, and     *)
(* when it went with the whole index there is not a file left.             *)
Begun ==
    pc \in Building =>
        /\ snaps[build.snap].status \in {"running", "cancelled", "removed"}
        /\ snaps[build.snap].status = "removed" => \A p \in Paths : ~files[p].present

(* A transaction that is about to give the snapshot another status found   *)
(* it unfinished.                                                          *)
ReadUnfinished == pc \in {"starting", "resolving", "marking"} => build.read \in Unfinished

(* The hashes loaded at the beginning are still true of the files that the *)
(* build will not read, as long as the index has not been deleted.         *)
KnownIsTrue ==
    /\ pc \in {"loaded", "starting"} /\ snaps[build.job.snap].status \notin Missing =>
          \A p \in Paths : build.known[p] # Absent =>
              Live(p) /\ files[p].blob = build.known[p] /\ files[p].linked
    /\ pc \in Building /\ snaps[build.snap].status # "removed" =>
          \A p \in Unchanged :
              Live(p) /\ files[p].blob = build.known[p] /\ files[p].linked

(* What the build itself has put into the table so far.                    *)
Progress ==
    /\ build.left \subseteq Parsed
    /\ pc \in {"starting", "parsing"} =>
          \A p \in Paths : files[p].present => files[p].seen # build.snap
    /\ pc \in {"storing", "linking", "edges"} =>
          \A p \in Paths : Live(p) /\ files[p].seen = build.snap =>
              p \in Parsed \/ (pc # "storing" /\ files[p].linked)
    /\ pc \in {"closing", "resolving"} =>
          \A p \in Paths : Live(p) /\ files[p].seen = build.snap => files[p].linked
    /\ pc \in Building \ {"parsing"} /\ snaps[build.snap].status # "removed" =>
          \A p \in Parsed \ build.left :
              /\ Live(p) /\ files[p].blob = Tree[build.job.commit][p]
              /\ pc \in {"closing", "resolving"} => files[p].linked

IInv ==
    /\ TypeOK
    /\ Numbered
    /\ SeenByBegun
    /\ Begun
    /\ ReadUnfinished
    /\ KnownIsTrue
    /\ Progress
    /\ FilesOfReadySnapshotsAreLinked

-----------------------------------------------------------------------------
(* Types.                                                                  *)

LEMMA Constants ==
    /\ AnyCommit \in Commits
    /\ 1 \in Ids
    /\ \A c \in Commits : \A p \in Paths : Tree[c][p] \in Blobs
    /\ Absent \in Blobs
    /\ NoSnapshot \in Snapshots
    /\ NoRequest \in Asked
    /\ NoFile \in FileRows
    /\ NoBuild \in Builds
<1>1. AnyCommit \in Commits
  BY CommitsAssumption DEF AnyCommit
<1>2. 1 \in Ids /\ 0 \in 0 .. MaxSnapshots
  BY BoundsAssumption DEF Ids
<1>3. Absent \in Blobs /\ \A c \in Commits : \A p \in Paths : Tree[c][p] \in Blobs
  BY DEF Blobs
<1>4. NoSnapshot \in Snapshots
  BY <1>1 DEF NoSnapshot, Snapshots, Statuses, Missing
<1>5. NoRequest \in Asked
  BY <1>1, <1>2 DEF NoRequest, Asked
<1>6. NoFile \in FileRows
  BY <1>2, <1>3 DEF NoFile, FileRows
<1>7. NoBuild \in Builds
  BY <1>1, <1>2, <1>3 DEF NoBuild, Builds, Jobs, Statuses, Missing
<1> QED
  BY <1>1, <1>2, <1>3, <1>4, <1>5, <1>6, <1>7

(* Opening a snapshot, and changing a field of one.                        *)
LEMMA NewSnapshotType ==
    ASSUME snaps \in [Ids -> Snapshots], created \in 0 .. MaxSnapshots,
           NEW c \in Commits, NEW status \in {"pending", "running"},
           NewSnapshot(c, status)
    PROVE  /\ snaps' \in [Ids -> Snapshots]
           /\ created' = created + 1 /\ created' \in Ids
           /\ snaps'[created + 1].status = status
           /\ snaps'[created + 1].stopped = FALSE
           /\ \A s \in Ids \ {created + 1} : snaps'[s] = snaps[s]
<1>1. created + 1 \in Ids /\ created' = created + 1
  BY BoundsAssumption DEF NewSnapshot, Ids
<1>2. [NoSnapshot EXCEPT !.status = status, !.commit = c] \in Snapshots
  BY Constants DEF NoSnapshot, Snapshots, Statuses, Unfinished
<1>3. snaps' = [snaps EXCEPT ![created + 1] =
                   [NoSnapshot EXCEPT !.status = status, !.commit = c]]
  BY DEF NewSnapshot
<1>4. [NoSnapshot EXCEPT !.status = status, !.commit = c].status = status
      /\ [NoSnapshot EXCEPT !.status = status, !.commit = c].stopped = FALSE
  BY DEF NoSnapshot
<1> QED
  BY <1>1, <1>2, <1>3, <1>4

LEMMA StatusType ==
    ASSUME snaps \in [Ids -> Snapshots], NEW s \in Ids,
           NEW status \in Statuses
    PROVE  [snaps EXCEPT ![s].status = status] \in [Ids -> Snapshots]
BY DEF Snapshots

LEMMA LatestIsCreated ==
    ASSUME created \in 0 .. MaxSnapshots, Latest # 0
    PROVE  Latest = created /\ Latest \in Ids
BY BoundsAssumption DEF Latest, Ids

(* Files a build writes are rows.                                          *)
LEMMA StoredType ==
    ASSUME TypeOK, NEW batch \in SUBSET build.left, StoreBatch(batch)
    PROVE  files' \in [Paths -> FileRows]
<1>1. build.job.commit \in Commits /\ build.snap \in 0 .. MaxSnapshots
  BY DEF TypeOK, Builds, Jobs
<1>2. \A p \in Paths :
         [present |-> TRUE, blob |-> Tree[build.job.commit][p],
          seen |-> build.snap, deleted |-> FALSE, linked |-> FALSE] \in FileRows
  BY <1>1, Constants DEF FileRows
<1>3. \A p \in Paths : files[p] \in FileRows
  BY DEF TypeOK
<1> QED
  BY <1>2, <1>3 DEF StoreBatch

LEMMA MarkedType ==
    ASSUME TypeOK, MarkSeen
    PROVE  files' \in [Paths -> FileRows]
<1>1. build.snap \in 0 .. MaxSnapshots
  BY DEF TypeOK, Builds
<1>2. \A p \in Paths : /\ files[p] \in FileRows
                       /\ [files[p] EXCEPT !.seen = build.snap] \in FileRows
                       /\ [files[p] EXCEPT !.seen = build.snap, !.deleted = TRUE] \in FileRows
  BY <1>1 DEF TypeOK, FileRows
<1> QED
  BY <1>2 DEF MarkSeen

LEMMA LinkedType ==
    ASSUME TypeOK, WriteEdges
    PROVE  files' \in [Paths -> FileRows]
<1>1. \A p \in Paths : files[p] \in FileRows /\ [files[p] EXCEPT !.linked = TRUE] \in FileRows
  BY DEF TypeOK, FileRows
<1> QED
  BY <1>1 DEF WriteEdges

(* Every step keeps the state well typed.                                  *)
LEMMA TypeStep ==
    ASSUME TypeOK, Numbered, [Next]_vars
    PROVE  TypeOK'
<1> USE DEF index
<1>1. ASSUME NEW r \in Requests, NEW c \in Commits, Ask(r, c) PROVE TypeOK'
  <2>1. [step |-> "checked", commit |-> c, snap |-> 0] \in Asked
    BY BoundsAssumption DEF Asked
  <2> QED
    BY <1>1, <2>1 DEF Ask, TypeOK
<1>2. ASSUME NEW r \in Requests, Create(r) PROVE TypeOK'
  <2>1. reqs[r].commit \in Commits
    BY DEF TypeOK, Asked
  <2>2. snaps' \in [Ids -> Snapshots] /\ created' = created + 1 /\ created' \in Ids
    BY <1>2, <2>1, NewSnapshotType DEF Create, TypeOK
  <2>3. created' \in 0 .. MaxSnapshots
    BY <2>2 DEF Ids
  <2>4. [reqs[r] EXCEPT !.step = "created", !.snap = created + 1] \in Asked
    BY <2>2, <2>3 DEF TypeOK, Asked
  <2>5. reqs' = [reqs EXCEPT ![r] = [reqs[r] EXCEPT !.step = "created", !.snap = created + 1]]
    BY <1>2 DEF Create, TypeOK
  <2> QED
    BY <1>2, <2>2, <2>3, <2>4, <2>5 DEF Create, TypeOK
<1>3. ASSUME NEW r \in Requests, Post(r) PROVE TypeOK'
  <2>1. [snap |-> reqs[r].snap, commit |-> reqs[r].commit] \in Jobs
    BY <1>3, BoundsAssumption DEF Post, Numbered, TypeOK, Asked, Jobs, Ids
  <2> QED
    BY <1>3, <2>1, Constants DEF Post, TypeOK
<1>4. ASSUME NEW r \in Requests, Abandon(r) PROVE TypeOK'
  BY <1>4, Constants DEF Abandon, TypeOK
<1>5. ASSUME AskCancel \/ Cancel \/ StopEmbedding PROVE TypeOK'
  <2>1. CASE AskCancel
    <3>1. Latest \in Ids
      BY <2>1, LatestIsCreated DEF AskCancel, LatestUnfinished, TypeOK
    <3> QED
      BY <2>1, <3>1 DEF AskCancel, TypeOK, Ids
  <2>2. CASE Cancel
    <3>1. cancelling \in Ids /\ 0 \in 0 .. MaxSnapshots
      BY <2>2, BoundsAssumption DEF Cancel, TypeOK, Ids
    <3>2. "cancelled" \in Statuses /\ snaps[cancelling].status \in Statuses
      BY <3>1 DEF TypeOK, Snapshots, Statuses, Finished
    <3>3. snaps' \in [Ids -> Snapshots]
      BY <2>2, <3>1, <3>2, StatusType DEF Cancel, TypeOK
    <3> QED
      BY <2>2, <3>1, <3>3 DEF Cancel, TypeOK
  <2>3. CASE StopEmbedding
    <3>1. Latest \in Ids
      BY <2>3, LatestIsCreated DEF StopEmbedding, TypeOK
    <3>2. [snaps[Latest] EXCEPT !.stopped = TRUE] \in Snapshots
      BY <3>1 DEF TypeOK, Snapshots
    <3>3. snaps' \in [Ids -> Snapshots]
      BY <2>3, <3>1, <3>2 DEF StopEmbedding, TypeOK
    <3> QED
      BY <2>3, <3>3 DEF StopEmbedding, TypeOK
  <2> QED
    BY <1>5, <2>1, <2>2, <2>3
<1>6. ASSUME DeleteIndex PROVE TypeOK'
  <2>1. \A s \in Ids : [snaps[s] EXCEPT !.status = "removed"] \in Snapshots
    BY DEF TypeOK, Snapshots, Statuses, Missing
  <2>2. snaps' \in [Ids -> Snapshots]
    BY <1>6, <2>1 DEF DeleteIndex, TypeOK
  <2>3. files' \in [Paths -> FileRows]
    BY <1>6, Constants DEF DeleteIndex
  <2> QED
    BY <1>6, <2>2, <2>3 DEF DeleteIndex, TypeOK
<1>7. ASSUME NEW job \in queue, Take(job) PROVE TypeOK'
  <2>1. Known \in [Paths -> Blobs]
    <3>1. \A p \in Paths : files[p].blob \in Blobs
      BY DEF TypeOK, FileRows
    <3> QED
      BY <3>1, Constants DEF Known
  <2>2. job \in Jobs
    BY DEF TypeOK
  <2>3. [NoBuild EXCEPT !.job = job, !.known = Known] \in Builds
    BY <2>1, <2>2, Constants DEF Builds
  <2>4. [NoBuild EXCEPT !.job = job, !.known = Known].left = {}
    BY DEF NoBuild
  <2> QED
    BY <1>7, <2>3, <2>4 DEF Take, TypeOK, PCs
<1>8. ASSUME Leave, UNCHANGED <<index, reqs, cancelling>>, queue' \in SUBSET Jobs, kills' \in Nat
      PROVE  TypeOK'
  BY <1>8, Constants DEF Leave, TypeOK, PCs, NoBuild
<1>9. ASSUME Start PROVE TypeOK'
  <2> DEFINE s == build.job.snap
  <2>1. s \in Ids /\ build.job.commit \in Commits
    BY DEF TypeOK, Builds, Jobs
  <2>2. CASE Leave /\ UNCHANGED <<snaps, created>>
    BY <1>9, <2>2, <1>8 DEF Start, TypeOK
  <2>3. CASE /\ build' = [build EXCEPT !.snap = s, !.read = "pending"]
             /\ pc' = "starting"
             /\ UNCHANGED <<snaps, created>>
    <3>1. "pending" \in Statuses
      BY DEF Statuses, Unfinished
    <3>2. s \in 0 .. MaxSnapshots /\ build.left = {}
      BY <1>9, <2>1 DEF Start, TypeOK, Ids
    <3>3. build' \in Builds /\ build'.left = {}
      BY <2>3, <3>1, <3>2 DEF TypeOK, Builds
    <3> QED
      BY <1>9, <2>3, <3>3 DEF Start, TypeOK, PCs
  <2>4. CASE /\ snaps[s].status \in {"running", "ready", "failed"}
             /\ NewSnapshot(build.job.commit, "running")
             /\ build' = [build EXCEPT !.snap = created + 1]
             /\ pc' = "parsing"
    <3>1. snaps' \in [Ids -> Snapshots] /\ created' = created + 1 /\ created' \in Ids
      BY <2>1, <2>4, NewSnapshotType DEF TypeOK
    <3>2. created' \in 0 .. MaxSnapshots
      BY <3>1 DEF Ids
    <3>3. build' \in Builds /\ build'.left = {}
      BY <1>9, <2>4, <3>1, <3>2 DEF Start, TypeOK, Builds
    <3> QED
      BY <1>9, <2>4, <3>1, <3>2, <3>3 DEF Start, TypeOK, PCs, Building
  <2> QED
    BY <1>9, <2>2, <2>3, <2>4 DEF Start
<1>10. ASSUME NoticeStop PROVE TypeOK'
  BY <1>10, <1>8 DEF NoticeStop, TypeOK
<1>11. ASSUME Parse PROVE TypeOK'
  <2>1. PICK unread \in SUBSET (Supported \ Unchanged) :
           build' = [build EXCEPT !.unread = unread, !.left = (Supported \ Unchanged) \ unread]
    BY <1>11 DEF Parse
  <2>2. Supported \subseteq Paths
    BY DEF Supported
  <2>3. build' \in Builds
    BY <2>1, <2>2 DEF TypeOK, Builds
  <2> QED
    BY <1>11, <2>3 DEF Parse, TypeOK, PCs, Building
<1>12. ASSUME NEW batch \in SUBSET build.left, StoreBatch(batch) PROVE TypeOK'
  <2>1. build' \in Builds
    BY <1>12 DEF StoreBatch, TypeOK, Builds
  <2> QED
    BY <1>12, <2>1, StoredType DEF StoreBatch, TypeOK
<1>13. ASSUME MarkSeen PROVE TypeOK'
  BY <1>13, MarkedType DEF MarkSeen, TypeOK, PCs, Building
<1>14. ASSUME EnterLinking PROVE TypeOK'
  BY <1>14 DEF EnterLinking, TypeOK, PCs, Building
<1>15. ASSUME WriteEdges PROVE TypeOK'
  BY <1>15, LinkedType DEF WriteEdges, TypeOK, PCs, Building
<1>16. ASSUME Finish PROVE TypeOK'
  <2>1. build.snap \in Ids
    BY <1>16 DEF Finish, Numbered, Building
  <2>2. snaps[build.snap].status \in Statuses
    BY <2>1 DEF TypeOK, Snapshots
  <2>3. build' \in Builds /\ build'.left = {}
    BY <1>16, <2>2 DEF Finish, TypeOK, Builds
  <2> QED
    BY <1>16, <2>3 DEF Finish, TypeOK, PCs, Building
<1>17. ASSUME EnterEmbedding PROVE TypeOK'
  <2>1. build.snap \in Ids
    BY <1>17 DEF EnterEmbedding, Numbered
  <2>2. CASE Leave /\ UNCHANGED snaps
    BY <1>17, <2>2, <1>8 DEF EnterEmbedding, TypeOK
  <2>3. CASE /\ snaps' = [snaps EXCEPT ![build.snap].stage = "embedding"]
             /\ pc' = "embedding" /\ UNCHANGED build
    <3>1. snaps' \in [Ids -> Snapshots]
      BY <2>1, <2>3 DEF TypeOK, Snapshots
    <3> QED
      BY <1>17, <2>3, <3>1 DEF EnterEmbedding, TypeOK, PCs
  <2> QED
    BY <1>17, <2>2, <2>3 DEF EnterEmbedding
<1>18. ASSUME Embed PROVE TypeOK'
  <2>1. build.snap \in Ids
    BY <1>18 DEF Embed, Numbered
  <2>2. snaps' \in [Ids -> Snapshots]
    BY <1>18, <2>1 DEF Embed, TypeOK, Snapshots
  <2> QED
    BY <1>18, <2>2, Constants DEF Embed, Leave, TypeOK, PCs, NoBuild
<1>19. ASSUME Fail PROVE TypeOK'
  <2>1. build.snap \in Ids
    BY <1>19 DEF Fail, Numbered
  <2>2. CASE Leave
    BY <1>19, <2>2, <1>8 DEF Fail, TypeOK
  <2>3. CASE /\ build' = [build EXCEPT !.read = snaps[build.snap].status, !.left = {}]
             /\ pc' = "marking"
    <3>1. snaps[build.snap].status \in Statuses
      BY <2>1 DEF TypeOK, Snapshots
    <3>2. build' \in Builds /\ build'.left = {}
      BY <2>3, <3>1 DEF TypeOK, Builds
    <3> QED
      BY <1>19, <2>3, <3>2 DEF Fail, TypeOK, PCs
  <2> QED
    BY <1>19, <2>2, <2>3 DEF Fail
<1>20. ASSUME LeaveUnmarked PROVE TypeOK'
  BY <1>20, <1>8 DEF LeaveUnmarked, TypeOK
<1>21. ASSUME Kill PROVE TypeOK'
  <2>1. queue' \in SUBSET Jobs /\ kills' \in Nat
    BY <1>21 DEF Kill, TypeOK, Builds
  <2> QED
    BY <1>21, <2>1, <1>8 DEF Kill
<1>22. CASE UNCHANGED vars
  BY <1>22 DEF vars, TypeOK
<1>23. ASSUME TakeUp \/ MarkReady \/ MarkFailed PROVE TypeOK'
  <2>1. build.snap \in Ids
    BY <1>23 DEF TakeUp, MarkReady, MarkFailed, Numbered, Building
  <2>2. /\ snaps[build.snap].status \in Statuses
        /\ {"none", "running", "ready", "failed"} \subseteq Statuses
    BY <2>1 DEF TypeOK, Snapshots, Statuses, Unfinished, Finished, Missing
  <2>3. CASE Leave /\ UNCHANGED <<index, reqs, cancelling, queue, kills>>
    BY <2>3, <1>8 DEF TypeOK
  <2>4. CASE MarkFailed
    <3>1. snaps' \in [Ids -> Snapshots]
      BY <2>1, <2>2, <2>4, StatusType DEF MarkFailed, TypeOK
    <3> QED
      BY <2>4, <3>1, Constants DEF MarkFailed, Leave, TypeOK, PCs, NoBuild
  <2>5. ASSUME NEW status \in Statuses, snaps' = [snaps EXCEPT ![build.snap].status = status],
               build' = [build EXCEPT !.read = "none"], pc' \in {"parsing", "ready"}, pc # "storing",
               UNCHANGED <<created, files, reqs, cancelling, queue, kills>>
        PROVE  TypeOK'
    <3>1. snaps' \in [Ids -> Snapshots]
      BY <2>1, <2>5, StatusType DEF TypeOK
    <3>2. build' \in Builds /\ build'.left = {}
      BY <2>2, <2>5 DEF TypeOK, Builds
    <3> QED
      BY <2>5, <3>1, <3>2 DEF TypeOK, PCs, Building
  <2>6. CASE TakeUp
    BY <2>2, <2>3, <2>5, <2>6 DEF TakeUp
  <2>7. CASE MarkReady
    BY <2>2, <2>5, <2>7 DEF MarkReady
  <2> QED
    BY <1>23, <2>4, <2>6, <2>7
<1> QED
  BY <1>1, <1>2, <1>3, <1>4, <1>5, <1>6, <1>7, <1>9, <1>10, <1>11, <1>12, <1>13, <1>14, <1>15,
     <1>16, <1>17, <1>18, <1>19, <1>20, <1>21, <1>22, <1>23 DEF Next, Work

-----------------------------------------------------------------------------
(* What a step does to the snapshots, and to the numbers.                  *)


StatusMoves ==
    \A s \in Ids :
        \/ snaps'[s].status = snaps[s].status /\ (s = created + 1 => created' = created)
        \/ s = created + 1 /\ created' = s /\ snaps'[s].status \in Unfinished
        \/ s <= created /\ snaps'[s].status = "removed" /\ files' = [p \in Paths |-> NoFile]
        \/ /\ snaps[s].status \notin Missing
           /\ \/ s = cancelling /\ snaps'[s].status = "cancelled"
              \/ s = build.snap /\ pc = "starting" /\ snaps'[s].status = "running"
              \/ s = build.snap /\ pc = "resolving" /\ snaps'[s].status = "ready" /\ pc' = "ready"
              \/ s = build.snap /\ pc = "marking" /\ snaps'[s].status = "failed"

LEMMA StatusStep ==
    ASSUME TypeOK, Numbered, [Next]_vars
    PROVE  StatusMoves /\ created' \in {created, created + 1}
<1> USE DEF index
<1>0. snaps \in [Ids -> Snapshots] /\ created \in 0 .. MaxSnapshots
  BY DEF TypeOK
<1>1. ASSUME UNCHANGED <<snaps, created>> PROVE StatusMoves /\ created' = created
  BY <1>0, <1>1 DEF StatusMoves
<1>2. ASSUME NEW c \in Commits, NEW status \in {"pending", "running"}, NewSnapshot(c, status)
      PROVE  StatusMoves /\ created' = created + 1
  <2>1. /\ created' = created + 1 /\ created' \in Ids
        /\ snaps'[created + 1].status = status
        /\ \A s \in Ids \ {created + 1} : snaps'[s] = snaps[s]
    BY <1>0, <1>2, NewSnapshotType
  <2> QED
    BY <2>1 DEF StatusMoves, Unfinished
<1>3. ASSUME NEW r \in Requests, Create(r) PROVE StatusMoves /\ created' = created + 1
  <2>1. reqs[r].commit \in Commits
    BY DEF TypeOK, Asked
  <2> QED
    BY <1>2, <1>3, <2>1 DEF Create
<1>4. ASSUME Cancel \/ StopEmbedding PROVE StatusMoves /\ created' = created
  <2>1. CASE Cancel
    <3>1. cancelling \in Ids
      BY <2>1 DEF Cancel, TypeOK, Ids
    <3>2. \A s \in Ids : s # cancelling => snaps'[s] = snaps[s]
      BY <1>0, <2>1 DEF Cancel
    <3>3. snaps'[cancelling].status = IF snaps[cancelling].status \in Missing
                                      THEN snaps[cancelling].status ELSE "cancelled"
      BY <1>0, <2>1, <3>1 DEF Cancel, Snapshots
    <3> QED
      BY <2>1, <3>2, <3>3 DEF Cancel, StatusMoves
  <2>2. CASE StopEmbedding
    <3>1. Latest \in Ids
      BY <1>0, <2>2, LatestIsCreated DEF StopEmbedding
    <3>2. \A s \in Ids : snaps'[s].status = snaps[s].status
      BY <1>0, <2>2, <3>1 DEF StopEmbedding, Snapshots
    <3> QED
      BY <2>2, <3>2 DEF StopEmbedding, StatusMoves
  <2> QED
    BY <1>4, <2>1, <2>2
<1>5. ASSUME DeleteIndex PROVE StatusMoves /\ created' = created
  <2>1. \A s \in Ids : snaps'[s] = IF s <= created THEN [snaps[s] EXCEPT !.status = "removed"]
                                                    ELSE snaps[s]
    BY <1>5 DEF DeleteIndex
  <2>2. \A s \in Ids : s <= created => snaps'[s].status = "removed"
    BY <1>0, <2>1 DEF Snapshots
  <2> QED
    BY <1>5, <2>1, <2>2 DEF DeleteIndex, StatusMoves
<1>6. ASSUME Start PROVE StatusMoves /\ created' \in {created, created + 1}
  <2> DEFINE s == build.job.snap
  <2>1. s \in Ids /\ build.job.commit \in Commits
    BY DEF TypeOK, Builds, Jobs
  <2>2. CASE UNCHANGED <<snaps, created>>
    BY <1>1, <2>2
  <2>4. CASE NewSnapshot(build.job.commit, "running")
    BY <1>2, <2>1, <2>4
  <2> QED
    BY <1>6, <2>2, <2>4 DEF Start
<1>7. ASSUME TakeUp \/ MarkReady PROVE StatusMoves /\ created' = created
  <2>1. build.snap \in Ids
    BY <1>7 DEF TakeUp, MarkReady, Numbered, Building
  <2>2. CASE UNCHANGED <<snaps, created>>
    BY <1>1, <2>2
  <2>3. CASE /\ pc = "starting" /\ snaps[build.snap].status \notin Missing
             /\ snaps' = [snaps EXCEPT ![build.snap].status = "running"] /\ created' = created
    BY <1>0, <2>1, <2>3 DEF StatusMoves, Snapshots
  <2>4. CASE MarkReady
    BY <1>0, <2>1, <2>4 DEF MarkReady, StatusMoves, Snapshots
  <2> QED
    BY <1>7, <2>2, <2>3, <2>4 DEF TakeUp
<1>8. ASSUME EnterEmbedding \/ Embed PROVE StatusMoves /\ created' = created
  <2>1. build.snap \in Ids
    BY <1>8 DEF EnterEmbedding, Embed, Numbered
  <2>2. \A s \in Ids : snaps'[s].status = snaps[s].status
    BY <1>0, <1>8, <2>1 DEF EnterEmbedding, Embed, Snapshots
  <2> QED
    BY <1>8, <2>2 DEF EnterEmbedding, Embed, StatusMoves
<1>9. ASSUME MarkFailed PROVE StatusMoves /\ created' = created
  <2>1. build.snap \in Ids
    BY <1>9 DEF MarkFailed, Numbered
  <2>2. \A s \in Ids : s # build.snap => snaps'[s] = snaps[s]
    BY <1>0, <1>9 DEF MarkFailed
  <2>3. snaps'[build.snap].status = IF snaps[build.snap].status \in Missing
                                    THEN snaps[build.snap].status ELSE "failed"
    BY <1>0, <1>9, <2>1 DEF MarkFailed, Snapshots
  <2> QED
    BY <1>9, <2>2, <2>3 DEF MarkFailed, StatusMoves
<1>10. ASSUME UNCHANGED index
       PROVE  StatusMoves /\ created' = created
  BY <1>1, <1>10
<1>11. CASE \E r \in Requests : (\E c \in Commits : Ask(r, c)) \/ Post(r) \/ Abandon(r)
  BY <1>10, <1>11 DEF Ask, Post, Abandon
<1>12. CASE (\E job \in queue : Take(job)) \/ NoticeStop \/ Parse \/ EnterLinking \/ Finish
            \/ Fail \/ AskCancel \/ LeaveUnmarked \/ Kill \/ UNCHANGED vars
  BY <1>10, <1>12 DEF Take, NoticeStop, Parse, EnterLinking, Finish, Fail, AskCancel, LeaveUnmarked,
     Kill, vars
<1>13. CASE (\E batch \in SUBSET build.left \ {{}} : StoreBatch(batch)) \/ MarkSeen \/ WriteEdges
  BY <1>1, <1>13 DEF StoreBatch, MarkSeen, WriteEdges
<1> QED
  BY <1>3, <1>4, <1>5, <1>6, <1>7, <1>8, <1>9, <1>11, <1>12, <1>13 DEF Next, Work

LEMMA NumberedStep ==
    ASSUME TypeOK, Numbered, [Next]_vars
    PROVE  Numbered'
<1> USE DEF index
<1>0. created \in 0 .. MaxSnapshots /\ MaxSnapshots \in Nat
  BY BoundsAssumption DEF TypeOK
<1>1. StatusMoves /\ created' \in {created, created + 1}
  BY StatusStep
<1>2. \A s \in Ids : snaps'[s].status = "none" <=> s > created'
  BY <1>0, <1>1 DEF StatusMoves, Numbered, Unfinished, Ids, Missing
<1>3. \A r \in Requests : reqs'[r].step = "created" => reqs'[r].snap \in 1 .. created'
  <2> SUFFICES ASSUME NEW r \in Requests, reqs'[r].step = "created"
               PROVE  reqs'[r].snap \in 1 .. created'
    OBVIOUS
  <2>1. CASE reqs'[r] = reqs[r]
    BY <1>0, <1>1, <2>1 DEF Numbered
  <2>2. CASE Create(r)
    BY <1>0, <2>2 DEF Create, NewSnapshot, TypeOK, Asked
  <2>3. CASE reqs'[r].step # "created"
    BY <2>3
  <2>4. ASSUME NEW q \in Requests, (\E c \in Commits : Ask(q, c)) \/ Create(q) \/ Post(q) \/ Abandon(q)
        PROVE  reqs'[r] = reqs[r] \/ Create(r) \/ reqs'[r].step # "created"
    BY <2>4 DEF Ask, Create, Post, Abandon, NoRequest, TypeOK
  <2>5. CASE UNCHANGED reqs
    BY <2>1, <2>5
  <2> QED
    BY <2>1, <2>2, <2>3, <2>4, <2>5 DEF Next, Work, AskCancel, Cancel, StopEmbedding, DeleteIndex, Take, Start, TakeUp, NoticeStop, Parse,
       StoreBatch, MarkSeen, EnterLinking, WriteEdges, Finish, EnterEmbedding, Embed, Fail,
       MarkReady, MarkFailed, LeaveUnmarked, Kill, vars
<1>4. \A job \in queue' : job.snap <= created'
  <2> SUFFICES ASSUME NEW job \in queue' PROVE job.snap <= created'
    OBVIOUS
  <2>1. CASE job \in queue
    <3>1. job.snap \in Nat
      BY <2>1 DEF TypeOK, Jobs, Ids
    <3> QED
      BY <1>0, <1>1, <2>1, <3>1 DEF Numbered
  <2>2. ASSUME NEW r \in Requests, Post(r), job \notin queue PROVE job.snap <= created'
    <3>1. job = [snap |-> reqs[r].snap, commit |-> reqs[r].commit] /\ created' = created
      BY <2>2 DEF Post
    <3> QED
      BY <1>0, <2>2, <3>1 DEF Post, Numbered
  <2>3. CASE Kill /\ job = build.job
    BY <2>3 DEF Kill, Numbered
  <2>4. \/ job \in queue \/ (Kill /\ job = build.job)
        \/ \E r \in Requests : Post(r) /\ job \notin queue
    BY DEF Next, Work, Ask, Create, Post, Abandon, AskCancel, Cancel, StopEmbedding, DeleteIndex, Take, Start, TakeUp, NoticeStop, Parse,
       StoreBatch, MarkSeen, EnterLinking, WriteEdges, Finish, EnterEmbedding, Embed, Fail,
       MarkReady, MarkFailed, LeaveUnmarked, Kill, vars
  <2> QED
    BY <2>1, <2>2, <2>3, <2>4
<1>5. pc' # "idle" => build'.job.snap <= created'
  <2>1. build.job \in Jobs
    BY DEF TypeOK, Builds
  <2>2. CASE pc # "idle" /\ build'.job = build.job
    BY <1>0, <1>1, <2>1, <2>2 DEF Numbered, Jobs, Ids
  <2>3. ASSUME NEW job \in queue, Take(job), pc' # "idle" PROVE build'.job.snap <= created'
    <3>1. build' = [NoBuild EXCEPT !.job = job, !.known = Known] /\ created' = created
      BY <2>3 DEF Take
    <3>2. build'.job = job
      BY <3>1 DEF NoBuild
    <3> QED
      BY <3>1, <3>2 DEF Numbered
  <2>4. CASE UNCHANGED <<pc, build>>
    BY <1>0, <1>1, <2>1, <2>4 DEF Numbered, Jobs, Ids
  <2>5. CASE Start \/ TakeUp \/ Parse \/ \E batch \in SUBSET build.left : StoreBatch(batch)
    BY <2>2, <2>5 DEF Start, TakeUp, Parse, StoreBatch, Leave, TypeOK, Builds
  <2>6. CASE MarkSeen \/ EnterLinking \/ WriteEdges \/ EnterEmbedding
    BY <2>2, <2>6 DEF MarkSeen, EnterLinking, WriteEdges, EnterEmbedding, Leave
  <2>8. CASE Finish \/ MarkReady \/ Fail
    BY <2>2, <2>8 DEF Finish, MarkReady, Fail, Leave, Building, TypeOK, Builds
  <2>7. CASE pc' = "idle"
    BY <2>7
  <2> QED
    BY <2>3, <2>4, <2>5, <2>6, <2>7, <2>8 DEF Next, Work, Ask, Create, Post, Abandon, AskCancel,
       Cancel, StopEmbedding, DeleteIndex, NoticeStop, Embed, MarkFailed, LeaveUnmarked, Kill, Leave, vars
<1>6. /\ pc' \in Building \cup {"starting", "marking", "ready", "embedding"} => build'.snap \in Ids
      /\ pc' = "starting" => build'.snap = build'.job.snap
  <2> USE DEF Building
  <2>1. CASE Start
    <3>1. build.job.snap \in Ids /\ build.job.commit \in Commits
      BY DEF TypeOK, Builds, Jobs
    <3>2. created < MaxSnapshots => created + 1 \in Ids
      BY <1>0 DEF Ids
    <3> QED
      BY <2>1, <3>1, <3>2 DEF Start, NewSnapshot, Leave, TypeOK, Builds
  <2>2. CASE Parse \/ \E batch \in SUBSET build.left : StoreBatch(batch)
    BY <2>2 DEF Parse, StoreBatch, Numbered, TypeOK, Builds
  <2>3. CASE MarkSeen \/ EnterLinking \/ WriteEdges \/ EnterEmbedding
    BY <2>3 DEF MarkSeen, EnterLinking, WriteEdges, EnterEmbedding, Leave, Numbered
  <2>6. CASE TakeUp \/ Finish \/ MarkReady \/ Fail
    BY <2>6 DEF TakeUp, Finish, MarkReady, Fail, Leave, Numbered, TypeOK, Builds
  <2>4. CASE UNCHANGED <<pc, build>>
    BY <2>4 DEF Numbered
  <2>5. CASE pc' \in {"idle", "loaded"}
    BY <2>5
  <2> QED
    BY <2>1, <2>2, <2>3, <2>4, <2>5, <2>6 DEF Next, Work, Ask, Create, Post, Abandon, AskCancel, Cancel,
       StopEmbedding, DeleteIndex, Take, NoticeStop, Embed, MarkFailed, LeaveUnmarked, Kill, Leave, vars
<1> QED
  BY <1>2, <1>3, <1>4, <1>5, <1>6 DEF Numbered

-----------------------------------------------------------------------------
(* What a step does to the files.                                          *)

LEMMA FilesStep ==
    ASSUME [Next]_vars
    PROVE  \/ UNCHANGED files
           \/ files' = [p \in Paths |-> NoFile] /\ DeleteIndex
           \/ \E batch \in SUBSET build.left : StoreBatch(batch)
           \/ MarkSeen
           \/ WriteEdges
BY DEF Next, Work, Ask, Create, Post, Abandon, AskCancel, Cancel, StopEmbedding, DeleteIndex, Take, Start, TakeUp, NoticeStop, Parse,
       MarkSeen, EnterLinking, WriteEdges, Finish, EnterEmbedding, Embed, Fail, MarkReady,
       MarkFailed, LeaveUnmarked, Kill, index, vars

-----------------------------------------------------------------------------
(* What a step can be while a build goes on.  The others touch neither the *)
(* files nor what the worker remembers.                                    *)

Elsewhere == UNCHANGED <<files, pc, build>>

(* What begins a build: taking the queued snapshot up, or opening another. *)
Begins == Start \/ TakeUp

LEMMA BuildStep ==
    ASSUME [Next]_vars, pc' \in Building
    PROVE  \/ Begins
           \/ Elsewhere
           \/ DeleteIndex
           \/ Parse
           \/ \E batch \in SUBSET build.left : StoreBatch(batch)
           \/ MarkSeen
           \/ EnterLinking
           \/ WriteEdges
           \/ Finish
BY DEF Begins, Building, Elsewhere, Next, Work, Ask, Create, Post, Abandon, AskCancel, Cancel,
       StopEmbedding, Take, NoticeStop, EnterEmbedding, Embed, Fail, MarkReady, MarkFailed,
       LeaveUnmarked, Kill, Leave, index, vars

(* Until a build is over its job, its hashes and its snapshot stay.        *)
LEMMA BuildKeeps ==
    ASSUME TypeOK, Numbered, [Next]_vars, pc' \in Building, ~Begins
    PROVE  /\ pc \in Building
           /\ build.snap \in Ids
           /\ build'.snap = build.snap
           /\ build'.job = build.job
           /\ build'.known = build.known
           /\ ~Parse => build'.unread = build.unread
           /\ Supported' = Supported /\ Unchanged' = Unchanged
           /\ ~Parse => Parsed' = Parsed
<1>1. pc \in Building
  BY BuildStep DEF Building, Elsewhere, DeleteIndex, Parse, StoreBatch, MarkSeen, EnterLinking, WriteEdges,
     Finish
<1>2. /\ build'.snap = build.snap /\ build'.job = build.job /\ build'.known = build.known
      /\ ~Parse => build'.unread = build.unread
  BY BuildStep DEF Elsewhere, DeleteIndex, Parse, StoreBatch, MarkSeen, EnterLinking, WriteEdges,
     Finish, TypeOK, Builds
<1>3. build.snap \in Ids
  BY <1>1 DEF Numbered
<1>5. Supported' = Supported
  BY <1>2 DEF Supported
<1>6. Unchanged' = Unchanged
  BY <1>2, <1>5 DEF Unchanged
<1>7. ~Parse => Parsed' = Parsed
  BY <1>2, <1>5, <1>6 DEF Parsed
<1> QED
  BY <1>1, <1>2, <1>3, <1>5, <1>6, <1>7

(* A queued snapshot that is being taken up is known to no file, and what  *)
(* was loaded stays.                                                       *)
LEMMA StartEffect ==
    ASSUME TypeOK, SeenByBegun, Start, pc' = "starting"
    PROVE  /\ pc = "loaded"
           /\ build'.snap = build.job.snap
           /\ build'.job = build.job /\ build'.known = build.known
           /\ build'.left = {} /\ files' = files /\ snaps' = snaps
           /\ \A p \in Paths : files[p].present => files[p].seen # build'.snap
<1>1. /\ pc = "loaded" /\ snaps[build.job.snap].status = "pending" /\ files' = files /\ snaps' = snaps
      /\ build' = [build EXCEPT !.snap = build.job.snap, !.read = "pending"]
  BY DEF Start, Leave
<1>2. /\ build'.snap = build.job.snap /\ build'.job = build.job /\ build'.known = build.known
      /\ build'.left = {}
  BY <1>1 DEF TypeOK, Builds
<1> QED
  BY <1>1, <1>2 DEF SeenByBegun

(* A build begins with a running snapshot that no file knows yet.          *)
LEMMA BeginEffect ==
    ASSUME TypeOK, Numbered, SeenByBegun, Progress, Begins, pc' \in Building
    PROVE  /\ pc \in {"loaded", "starting"} /\ pc' = "parsing"
           /\ build'.snap \in Ids /\ snaps'[build'.snap].status = "running"
           /\ build'.job = build.job /\ build'.known = build.known
           /\ build'.left = {} /\ files' = files
           /\ \A p \in Paths : files[p].present => files[p].seen # build'.snap
           /\ snaps[build.job.snap].status \notin Missing
<1> DEFINE s == build.job.snap
<1>1. s \in Ids /\ build.job.commit \in Commits /\ created \in 0 .. MaxSnapshots
  BY DEF TypeOK, Builds, Jobs
<1>2. pc' \notin {"idle", "starting"}
  BY DEF Building
<1>3. CASE Start
  <2>1. /\ pc = "loaded" /\ pc' = "parsing" /\ files' = files /\ build.left = {}
        /\ snaps[s].status \in {"running", "ready", "failed"}
        /\ NewSnapshot(build.job.commit, "running")
        /\ build' = [build EXCEPT !.snap = created + 1]
    BY <1>2, <1>3 DEF Start, Leave, TypeOK
  <2>2. created + 1 \in Ids /\ snaps'[created + 1].status = "running"
    BY <1>1, <2>1, NewSnapshotType DEF TypeOK
  <2>3. snaps[created + 1].status = "none"
    BY <1>1, <2>2 DEF Numbered
  <2>4. \A p \in Paths : files[p].present => files[p].seen # created + 1
    BY <2>3 DEF SeenByBegun, Missing
  <2>5. /\ build'.snap = created + 1 /\ build'.job = build.job /\ build'.known = build.known
        /\ build'.left = {}
    BY <2>1 DEF TypeOK, Builds
  <2> QED
    BY <2>1, <2>2, <2>4, <2>5 DEF Missing
<1>4. CASE TakeUp
  <2>1. /\ pc = "starting" /\ pc' = "parsing" /\ files' = files /\ build.left = {}
        /\ snaps[build.snap].status \notin Missing
        /\ snaps' = [snaps EXCEPT ![build.snap].status = "running"]
        /\ build' = [build EXCEPT !.read = "none"]
    BY <1>2, <1>4 DEF TakeUp, Leave, TypeOK
  <2>2. build.snap = s /\ \A p \in Paths : files[p].present => files[p].seen # build.snap
    BY <2>1 DEF Numbered, Progress
  <2>3. snaps'[build.snap].status = "running"
    BY <1>1, <2>1, <2>2 DEF TypeOK, Snapshots
  <2>4. /\ build'.snap = build.snap /\ build'.job = build.job /\ build'.known = build.known
        /\ build'.left = {}
    BY <2>1 DEF TypeOK, Builds
  <2> QED
    BY <1>1, <2>1, <2>2, <2>3, <2>4
<1> QED
  BY <1>3, <1>4 DEF Begins

LEMMA BegunStep ==
    ASSUME TypeOK, Numbered, SeenByBegun, Begun, Progress, [Next]_vars
    PROVE  Begun'
<1> SUFFICES ASSUME pc' \in Building PROVE Begun'
  BY DEF Begun
<1> DEFINE b == build'.snap
<1>1. CASE Begins
  <2>1. snaps'[b].status = "running"
    BY <1>1, BeginEffect
  <2> QED
    BY <2>1 DEF Begun
<1>2. CASE ~Begins
  <2>1. pc \in Building /\ b = build.snap /\ b \in Ids
    BY <1>2, BuildKeeps
  <2>2. snaps[b].status \in {"running", "cancelled", "removed"}
    BY <2>1 DEF Begun
  <2>3. StatusMoves /\ b <= created
    BY <2>1, <2>2, StatusStep DEF Numbered, TypeOK, Ids
  <2>4. \/ snaps'[b].status = snaps[b].status
        \/ snaps'[b].status = "cancelled"
        \/ snaps'[b].status = "removed" /\ files' = [p \in Paths |-> NoFile]
    <3>1. b # created + 1
      BY <2>1, <2>3 DEF TypeOK, Ids
    <3> QED
      BY <2>1, <2>2, <2>3, <3>1 DEF StatusMoves, Building
  <2>5. ASSUME snaps'[b].status = "removed" PROVE \A p \in Paths : ~files'[p].present
    <3>1. CASE files' = [p \in Paths |-> NoFile]
      BY <3>1 DEF NoFile
    <3>2. CASE snaps[b].status = "removed"
      <4>1. \A p \in Paths : ~files[p].present /\ files[p] \in FileRows
        BY <2>1, <3>2 DEF Begun, TypeOK
      <4>2. Stopped
        BY <2>1, <3>2 DEF Stopped, Missing
      <4>3. CASE MarkSeen \/ WriteEdges
        BY <4>1, <4>3 DEF MarkSeen, WriteEdges, FileRows
      <4>4. CASE UNCHANGED files
        BY <4>1, <4>4
      <4> QED
        BY <3>1, <4>2, <4>3, <4>4, FilesStep DEF StoreBatch
    <3> QED
      BY <2>4, <2>5, <3>1, <3>2
  <2> QED
    BY <2>2, <2>4, <2>5 DEF Begun
<1> QED
  BY <1>1, <1>2

LEMMA SeenByBegunStep ==
    ASSUME TypeOK, Numbered, SeenByBegun, Begun, [Next]_vars
    PROVE  SeenByBegun'
<1> SUFFICES ASSUME NEW p \in Paths, files'[p].present
             PROVE  /\ files'[p].seen \in Ids
                    /\ snaps'[files'[p].seen].status \notin {"pending"} \cup Missing
  BY DEF SeenByBegun
<1>0. files[p] \in FileRows /\ created \in 0 .. MaxSnapshots
  BY DEF TypeOK
<1>1. CASE files[p].present /\ files'[p].seen = files[p].seen
  <2> DEFINE s == files[p].seen
  <2>1. s \in Ids /\ snaps[s].status \notin {"pending"} \cup Missing
    BY <1>1 DEF SeenByBegun
  <2>2. StatusMoves /\ s # created + 1
    BY <1>0, <2>1, StatusStep DEF Numbered, Missing, Ids
  <2>3. files' # [q \in Paths |-> NoFile]
    BY DEF NoFile
  <2> QED
    BY <1>1, <2>1, <2>2, <2>3 DEF StatusMoves, Missing, Unfinished
<1>2. CASE pc = "storing" /\ files'[p].seen = build.snap /\ snaps' = snaps
           /\ snaps[build.snap].status # "removed"
  BY <1>2 DEF Begun, Building, Missing, Numbered
<1>3. ASSUME NEW batch \in SUBSET build.left, StoreBatch(batch)
      PROVE  /\ files'[p].seen \in Ids
             /\ snaps'[files'[p].seen].status \notin {"pending"} \cup Missing
  <2>1. snaps[build.snap].status # "removed"
    BY <1>3 DEF StoreBatch, Stopped, Missing
  <2>2. p \in batch => files'[p].seen = build.snap
    BY <1>3 DEF StoreBatch
  <2>3. p \notin batch => files'[p] = files[p]
    BY <1>3 DEF StoreBatch
  <2> QED
    BY <1>1, <1>2, <1>3, <2>1, <2>2, <2>3 DEF StoreBatch
<1>4. CASE MarkSeen
  <2>1. files[p].present /\ files'[p].seen \in {files[p].seen, build.snap}
    BY <1>0, <1>4 DEF MarkSeen, FileRows
  <2>2. snaps[build.snap].status # "removed"
    BY <1>4, <2>1 DEF MarkSeen, Begun, Building
  <2> QED
    BY <1>1, <1>2, <1>4, <2>1, <2>2 DEF MarkSeen
<1>5. CASE WriteEdges
  <2>1. files[p].present /\ files'[p].seen = files[p].seen
    BY <1>0, <1>5 DEF WriteEdges, FileRows
  <2> QED
    BY <1>1, <2>1
<1>6. files' # [q \in Paths |-> NoFile]
  BY DEF NoFile
<1> QED
  BY <1>1, <1>3, <1>4, <1>5, <1>6, FilesStep

(* Whatever happens to the index elsewhere, a snapshot that is still there *)
(* was there before, and so were its files.                                *)
LEMMA StillThere ==
    ASSUME TypeOK, Numbered, [Next]_vars, NEW s \in Ids,
           s <= created, snaps'[s].status \notin Missing
    PROVE  snaps[s].status \notin Missing /\ ~DeleteIndex
<1>1. snaps \in [Ids -> Snapshots] /\ created \in 0 .. MaxSnapshots
  BY DEF TypeOK
<1>2. StatusMoves /\ snaps[s].status # "none" /\ s # created + 1
  BY <1>1, StatusStep DEF Numbered, Ids
<1>3. ~DeleteIndex
  BY <1>1 DEF DeleteIndex, Snapshots, Missing
<1>4. snaps[s].status # "removed"
  BY <1>2 DEF StatusMoves, Missing, Unfinished
<1> QED
  BY <1>2, <1>3, <1>4 DEF Missing

(* What was read before a build begins stays as it was.                    *)
LEMMA LoadedKeeps ==
    ASSUME TypeOK, SeenByBegun, [Next]_vars, pc' \in {"loaded", "starting"}
    PROVE  \/ \E job \in queue : Take(job)
           \/ /\ pc \in {"loaded", "starting"}
              /\ build'.job = build.job /\ build'.known = build.known
              /\ UNCHANGED files \/ DeleteIndex
<1>1. CASE Start
  <2>1. pc' = "starting"
    BY <1>1 DEF Start, Leave
  <2> QED
    BY <1>1, <2>1, StartEffect
<1>2. \/ \E job \in queue : Take(job)
      \/ Start
      \/ pc' = pc /\ build' = build /\ (UNCHANGED files \/ DeleteIndex)
  BY DEF Next, Work, Ask, Create, Post, Abandon, AskCancel, Cancel, StopEmbedding, DeleteIndex, Take,
     TakeUp, NoticeStop, Parse, StoreBatch, MarkSeen, EnterLinking, WriteEdges, Finish, MarkReady,
     EnterEmbedding, Embed, Fail, MarkFailed, LeaveUnmarked, Kill, Leave, index, vars
<1> QED
  BY <1>1, <1>2

LEMMA ReadUnfinishedStep ==
    ASSUME TypeOK, Begun, ReadUnfinished, [Next]_vars
    PROVE  ReadUnfinished'
<1> SUFFICES ASSUME pc' \in {"starting", "resolving", "marking"} PROVE build'.read \in Unfinished
  BY DEF ReadUnfinished
<1>1. CASE Start
  BY <1>1 DEF Start, Leave, TypeOK, Builds, Unfinished
<1>2. CASE Finish
  <2>1. snaps[build.snap].status = "running"
    BY <1>2 DEF Finish, Stopped, Begun, Building, Missing
  <2> QED
    BY <1>2, <2>1 DEF Finish, TypeOK, Builds, Unfinished
<1>3. CASE Fail
  BY <1>3 DEF Fail, Leave, TypeOK, Builds
<1>4. CASE UNCHANGED <<pc, build>>
  BY <1>4 DEF ReadUnfinished
<1> QED
  BY <1>1, <1>2, <1>3, <1>4 DEF Next, Work, Ask, Create, Post, Abandon, AskCancel, Cancel, StopEmbedding,
     DeleteIndex, Take, TakeUp, NoticeStop, Parse, StoreBatch, MarkSeen, EnterLinking, WriteEdges,
     MarkReady, EnterEmbedding, Embed, MarkFailed, LeaveUnmarked, Kill, Leave, index, vars

LEMMA KnownIsTrueStep ==
    ASSUME TypeOK, Numbered, SeenByBegun, Begun, KnownIsTrue, Progress,
           FilesOfReadySnapshotsAreLinked, [Next]_vars
    PROVE  KnownIsTrue'
<1>1. ASSUME pc' \in {"loaded", "starting"}, snaps'[build'.job.snap].status \notin Missing,
             NEW p \in Paths, build'.known[p] # Absent
      PROVE  (Live(p) /\ files[p].blob = build.known[p] /\ files[p].linked)'
  <2>2. ASSUME NEW job \in queue, Take(job)
        PROVE  (Live(p) /\ files[p].blob = build.known[p] /\ files[p].linked)'
    <3>1. build' = [NoBuild EXCEPT !.job = job, !.known = Known] /\ files' = files
      BY <1>1, <2>2 DEF Take, index
    <3>2. build'.known[p] = Known[p]
      BY <3>1 DEF NoBuild
    <3>3. Live(p) /\ snaps[files[p].seen].status = "ready" /\ Known[p] = files[p].blob
      BY <1>1, <3>2 DEF Known
    <3>4. files[p].linked
      BY <3>3 DEF FilesOfReadySnapshotsAreLinked
    <3> QED
      BY <3>1, <3>2, <3>3, <3>4 DEF Live
  <2>3. CASE /\ pc \in {"loaded", "starting"}
             /\ build'.job = build.job /\ build'.known = build.known
             /\ UNCHANGED files \/ DeleteIndex
    <3>1. build.job.snap \in Ids /\ build.job.snap <= created
      BY <2>3 DEF TypeOK, Builds, Jobs, Numbered
    <3>2. snaps[build.job.snap].status \notin Missing /\ UNCHANGED files
      BY <1>1, <2>3, <3>1, StillThere
    <3> QED
      BY <1>1, <2>3, <3>2 DEF KnownIsTrue, Live
  <2> QED
    BY <1>1, <2>2, <2>3, LoadedKeeps
<1>2. ASSUME pc' \in Building, snaps'[build'.snap].status # "removed", NEW p \in Unchanged'
      PROVE  (Live(p) /\ files[p].blob = build.known[p] /\ files[p].linked)'
  <2>0. p \in Paths /\ files[p] \in FileRows
    BY DEF Unchanged, Supported, TypeOK
  <2>1. CASE Begins
    <3>1. /\ pc \in {"loaded", "starting"} /\ snaps[build.job.snap].status \notin Missing
          /\ build'.job = build.job /\ build'.known = build.known /\ files' = files
      BY <1>2, <2>1, BeginEffect
    <3>2. build.known[p] # Absent
      BY <3>1 DEF Unchanged, Supported
    <3> QED
      BY <2>0, <3>1, <3>2 DEF KnownIsTrue, Live
  <2>2. CASE ~Begins
    <3>1. /\ pc \in Building /\ build.snap \in Ids /\ build'.snap = build.snap
          /\ build'.known = build.known /\ p \in Unchanged
      BY <1>2, <2>2, BuildKeeps
    <3>2. build.snap <= created /\ snaps'[build.snap].status # "none"
      <4>1. snaps[build.snap].status # "none"
        BY <3>1 DEF Begun
      <4>2. build.snap <= created
        BY <3>1, <4>1 DEF Numbered, TypeOK, Ids
      <4>3. created' \in {created, created + 1} /\ created \in Nat /\ build.snap \in Nat
        BY <3>1, StatusStep DEF TypeOK, Ids
      <4>4. ~(build.snap > created')
        BY <4>2, <4>3
      <4>5. Numbered'
        BY NumberedStep
      <4> QED
        BY <3>1, <4>2, <4>4, <4>5 DEF Numbered
    <3>3. snaps[build.snap].status # "removed" /\ ~DeleteIndex
      BY <1>2, <3>1, <3>2, StillThere DEF Missing
    <3>4. Live(p) /\ files[p].blob = build.known[p] /\ files[p].linked
      BY <3>1, <3>3 DEF KnownIsTrue
    <3>5. p \notin Parsed
      BY <3>1 DEF Parsed
    <3>6. /\ files'[p].present = files[p].present /\ files'[p].deleted = files[p].deleted
          /\ files'[p].blob = files[p].blob /\ files'[p].linked = files[p].linked
      <4>1. ASSUME NEW batch \in SUBSET build.left, StoreBatch(batch) PROVE files'[p] = files[p]
        BY <2>0, <3>5, <4>1 DEF StoreBatch, Progress
      <4>2. CASE MarkSeen
        BY <2>0, <3>1, <4>2 DEF MarkSeen, FileRows
      <4>3. CASE WriteEdges
        BY <2>0, <3>5, <4>3 DEF WriteEdges
      <4> QED
        BY <3>3, <4>1, <4>2, <4>3, FilesStep
    <3> QED
      BY <3>1, <3>4, <3>6 DEF Live
  <2> QED
    BY <2>1, <2>2
<1> QED
  BY <1>1, <1>2 DEF KnownIsTrue

LEMMA ProgressStep ==
    ASSUME IInv, [Next]_vars, TypeOK'
    PROVE  Progress'
<1> USE DEF Live
<1>0. TypeOK /\ Numbered /\ SeenByBegun /\ Begun /\ KnownIsTrue /\ Progress
  BY DEF IInv
<1>1. CASE pc' \notin Building
  <2>1. build'.left = {}
    BY <1>1 DEF TypeOK, Building
  <2>2. ASSUME pc' = "starting" PROVE \A p \in Paths : files'[p].present => files'[p].seen # build'.snap
    <3>1. CASE Start
      BY <1>0, <2>2, <3>1, StartEffect
    <3>2. CASE ~Start
      <4>1. pc = "starting" /\ build' = build /\ (UNCHANGED files \/ DeleteIndex)
        BY <2>2, <3>2 DEF Next, Work, Ask, Create, Post, Abandon, AskCancel, Cancel, StopEmbedding,
           DeleteIndex, Take, TakeUp, NoticeStop, Parse, StoreBatch, MarkSeen, EnterLinking, WriteEdges,
           Finish, MarkReady, EnterEmbedding, Embed, Fail, MarkFailed, LeaveUnmarked, Kill, Leave, index,
           vars
      <4> QED
        BY <1>0, <4>1 DEF Progress, DeleteIndex, NoFile
    <3> QED
      BY <3>1, <3>2
  <2> QED
    BY <1>1, <2>1, <2>2 DEF Progress, Building
<1>2. CASE pc' \in Building /\ Begins
  <2>1. /\ pc' = "parsing" /\ build'.left = {} /\ files' = files
        /\ \A p \in Paths : files[p].present => files[p].seen # build'.snap
    BY <1>0, <1>2, BeginEffect
  <2> QED
    BY <2>1 DEF Progress, Building
<1>3. CASE pc' \in Building /\ ~Begins
  <2>1. /\ pc \in Building /\ build.snap \in Ids /\ build'.snap = build.snap
        /\ build'.job = build.job /\ build'.known = build.known
        /\ Supported' = Supported /\ Unchanged' = Unchanged
        /\ ~Parse => Parsed' = Parsed
    BY <1>0, <1>3, BuildKeeps
  <2>2. \A p \in Paths : files[p] \in FileRows
    BY <1>0 DEF TypeOK
  <2>3. snaps'[build.snap].status # "removed" => snaps[build.snap].status # "removed" /\ ~DeleteIndex
    <3>1. snaps[build.snap].status \in {"running", "cancelled", "removed"}
      BY <1>0, <2>1 DEF Begun
    <3>2. build.snap <= created /\ build.snap \in Nat /\ created \in Nat
      BY <1>0, <2>1, <3>1 DEF Numbered, TypeOK, Ids
    <3>3. created' \in {created, created + 1} /\ Numbered'
      BY <1>0, StatusStep, NumberedStep
    <3>4. snaps'[build.snap].status # "none"
      BY <2>1, <3>2, <3>3 DEF Numbered
    <3> QED
      BY <1>0, <2>1, <3>2, <3>4, StillThere DEF Missing
  <2>4. CASE Elsewhere
    <3>1. pc' = pc /\ build' = build /\ files' = files /\ Parsed' = Parsed
      <4>1. pc' = pc /\ build' = build /\ files' = files
        BY <2>4 DEF Elsewhere
      <4> QED
        BY <4>1, <2>1 DEF Parsed
    <3> QED
      BY <1>0, <2>1, <2>3, <3>1 DEF Progress
  <2>5. CASE DeleteIndex
    <3>1. /\ pc' = pc /\ build' = build
          /\ \A p \in Paths : ~files'[p].present
      BY <2>5 DEF DeleteIndex, NoFile
    <3>2. Parsed' = Parsed
      BY <2>1, <3>1 DEF Parsed
    <3> QED
      BY <1>0, <2>1, <2>3, <2>5, <3>1, <3>2 DEF Progress
  <2>6. CASE Parse
    <3>1. PICK unread \in SUBSET (Supported \ Unchanged) :
             build' = [build EXCEPT !.unread = unread, !.left = (Supported \ Unchanged) \ unread]
      BY <2>6 DEF Parse
    <3>2. build'.unread = unread /\ build'.left = (Supported \ Unchanged) \ unread
      BY <1>0, <3>1 DEF TypeOK, Builds
    <3>3. Parsed' = build'.left
      BY <2>1, <3>2 DEF Parsed
    <3>4. pc = "parsing" /\ pc' = "storing" /\ files' = files
      BY <2>6 DEF Parse, index
    <3> QED
      BY <1>0, <2>1, <3>3, <3>4 DEF Progress
  <2>7. ASSUME NEW batch \in SUBSET build.left, StoreBatch(batch) PROVE Progress'
    <3>1. /\ pc = "storing" /\ pc' = "storing" /\ snaps' = snaps
          /\ build' = [build EXCEPT !.left = @ \ batch]
      BY <2>7 DEF StoreBatch
    <3>2. build'.left = build.left \ batch /\ Parsed' = Parsed
      BY <1>0, <2>1, <3>1 DEF TypeOK, Builds, Parse
    <3>3. batch \subseteq Parsed /\ Parsed \subseteq Paths
      BY <1>0 DEF Progress, Parsed, Supported
    <3>4. \A p \in Paths :
             files'[p] = IF p \in batch
                         THEN [present |-> TRUE, blob |-> Tree[build.job.commit][p],
                               seen |-> build.snap, deleted |-> FALSE, linked |-> FALSE]
                         ELSE files[p]
      BY <2>7 DEF StoreBatch
    <3>5. \A p \in Paths : Live(p)' /\ files'[p].seen = build.snap => p \in Parsed
      BY <1>0, <3>1, <3>3, <3>4 DEF Progress
    <3>6. ASSUME snaps[build.snap].status # "removed", NEW p \in Parsed \ (build.left \ batch)
          PROVE  Live(p)' /\ files'[p].blob = Tree[build.job.commit][p]
      <4>1. CASE p \in batch
        <5>1. p \in Paths
          BY <3>3, <4>1
        <5>2. files'[p] = [present |-> TRUE, blob |-> Tree[build.job.commit][p],
                           seen |-> build.snap, deleted |-> FALSE, linked |-> FALSE]
          BY <3>4, <4>1, <5>1
        <5> QED
          BY <5>2
      <4>2. CASE p \notin batch
        <5>1. pc \in Building \ {"parsing"} /\ p \in Parsed \ build.left
          BY <3>1, <3>6, <4>2 DEF Building
        <5>2. Live(p) /\ files[p].blob = Tree[build.job.commit][p]
          BY <1>0, <3>6, <5>1 DEF Progress
        <5> QED
          BY <3>3, <3>4, <4>2, <5>2
      <4> QED
        BY <4>1, <4>2
    <3>7. build'.left \subseteq Parsed'
      BY <1>0, <3>2 DEF Progress
    <3> QED
      BY <2>1, <3>1, <3>2, <3>5, <3>6, <3>7 DEF Progress
  <2>8. CASE MarkSeen
    <3>1. pc = "storing" /\ pc' = "linking" /\ build.left = {} /\ build' = build /\ snaps' = snaps
      BY <2>8 DEF MarkSeen
    <3>2. Parsed' = Parsed /\ Parsed \subseteq Supported /\ Parsed \cap Unchanged = {}
      BY <2>1, <3>1 DEF Parsed, Parse
    <3>3. ASSUME NEW p \in Paths, Live(p)', files'[p].seen = build.snap
          PROVE  p \in Parsed \/ files'[p].linked
      <4>1. CASE p \in Unchanged
        <5>1. files[p].present
          BY <2>2, <2>8, <3>3 DEF MarkSeen, FileRows
        <5>2. snaps[build.snap].status # "removed"
          BY <1>0, <2>1, <5>1 DEF Begun
        <5>3. files[p].linked
          BY <1>0, <2>1, <4>1, <5>2 DEF KnownIsTrue
        <5> QED
          BY <2>2, <2>8, <5>3 DEF MarkSeen, FileRows
      <4>2. CASE p \notin Unchanged
        <5>1. files'[p] = files[p]
          BY <2>2, <2>8, <3>3, <4>2 DEF MarkSeen, FileRows
        <5> QED
          BY <1>0, <3>1, <3>3, <5>1 DEF Progress
      <4> QED
        BY <4>1, <4>2
    <3>4. \A p \in Parsed : files'[p] = files[p]
      BY <2>2, <2>8, <3>2 DEF MarkSeen, Vanished, Supported
    <3> QED
      BY <1>0, <2>1, <3>1, <3>2, <3>3, <3>4 DEF Progress
  <2>9. CASE EnterLinking
    <3>1. pc = "linking" /\ pc' = "edges" /\ build' = build /\ files' = files /\ snaps' = snaps
      BY <2>9 DEF EnterLinking, index
    <3>2. Parsed' = Parsed
      BY <2>1, <3>1 DEF Parse
    <3> QED
      BY <1>0, <2>1, <3>1, <3>2 DEF Progress
  <2>10. CASE WriteEdges
    <3>1. pc = "edges" /\ pc' = "closing" /\ build' = build /\ snaps' = snaps
      BY <2>10 DEF WriteEdges
    <3>2. Parsed' = Parsed /\ Parsed \subseteq Paths
      BY <2>1, <3>1 DEF Parsed, Supported, Parse
    <3>3. \A p \in Paths : /\ files'[p].present = files[p].present
                           /\ files'[p].deleted = files[p].deleted
                           /\ files'[p].seen = files[p].seen
                           /\ files'[p].blob = files[p].blob
                           /\ files'[p].linked = (files[p].linked \/ p \in Parsed)
      BY <2>2, <2>10 DEF WriteEdges, FileRows
    <3>4. build.left \subseteq Parsed
      BY <1>0 DEF Progress
    <3>5. \A p \in Paths : Live(p)' = Live(p)
      BY <3>3
    <3>6. \A p \in Paths : Live(p)' /\ files'[p].seen = build'.snap => files'[p].linked
      <4>1. \A p \in Paths : Live(p) /\ files[p].seen = build.snap =>
                                 p \in Parsed \/ files[p].linked
        BY <1>0, <3>1 DEF Progress
      <4> QED
        BY <3>1, <3>3, <3>5, <4>1
    <3>7. snaps[build.snap].status # "removed" =>
             \A p \in Parsed \ build.left : Live(p) /\ files[p].blob = Tree[build.job.commit][p]
      BY <1>0, <3>1 DEF Progress, Building
    <3>8. pc' \notin {"parsing", "storing", "linking", "edges"}
      BY <3>1
    <3>9. snaps'[build'.snap].status # "removed" =>
             \A p \in Parsed' \ build'.left :
                /\ Live(p)' /\ files'[p].blob = Tree[build'.job.commit][p]
                /\ files'[p].linked
      BY <3>1, <3>2, <3>3, <3>5, <3>7
    <3> QED
      BY <3>1, <3>2, <3>4, <3>6, <3>8, <3>9 DEF Progress
  <2>11. CASE Finish
    <3>1. /\ pc = "closing" /\ pc' = "resolving" /\ files' = files /\ snaps' = snaps
          /\ build'.left = build.left
      BY <1>0, <2>11 DEF Finish, index, TypeOK, Builds
    <3>2. Parsed' = Parsed
      BY <2>1, <3>1 DEF Parse
    <3>3. /\ build.left \subseteq Parsed
          /\ \A p \in Paths : Live(p) /\ files[p].seen = build.snap => files[p].linked
          /\ snaps[build.snap].status # "removed" =>
                \A p \in Parsed \ build.left :
                   Live(p) /\ files[p].blob = Tree[build.job.commit][p] /\ files[p].linked
      BY <1>0, <3>1 DEF Progress, Building
    <3> QED
      BY <2>1, <3>1, <3>2, <3>3 DEF Progress
  <2> QED
    BY <1>3, <2>4, <2>5, <2>6, <2>7, <2>8, <2>9, <2>10, <2>11, BuildStep
<1> QED
  BY <1>1, <1>2, <1>3

LEMMA LinkedStep ==
    ASSUME IInv, [Next]_vars
    PROVE  FilesOfReadySnapshotsAreLinked'
<1> SUFFICES ASSUME NEW p \in Paths, Live(p)', snaps'[files'[p].seen].status = "ready"
             PROVE  files'[p].linked
  BY DEF FilesOfReadySnapshotsAreLinked
<1>0. TypeOK /\ Numbered /\ SeenByBegun /\ Begun /\ KnownIsTrue /\ Progress
      /\ FilesOfReadySnapshotsAreLinked
  BY DEF IInv
<1>1. files[p] \in FileRows
  BY <1>0 DEF TypeOK
<1>2. CASE UNCHANGED files
  <2> DEFINE s == files[p].seen
  <2>1. Live(p) /\ s \in Ids /\ snaps[s].status \notin {"pending"} \cup Missing
    BY <1>0, <1>2 DEF Live, SeenByBegun
  <2>2. \/ snaps[s].status = "ready"
        \/ s = build.snap /\ pc = "resolving"
    BY <1>0, <1>2, <2>1, StatusStep DEF StatusMoves, Unfinished, Numbered, TypeOK
  <2>3. files[p].linked
    BY <1>0, <2>1, <2>2 DEF FilesOfReadySnapshotsAreLinked, Progress
  <2> QED
    BY <1>2, <2>3
<1>3. files' # [q \in Paths |-> NoFile]
  BY DEF Live, NoFile
<1>4. CASE files'[p].seen = files[p].seen /\ snaps' = snaps /\ Live(p)
           /\ (files[p].linked => files'[p].linked)
  BY <1>0, <1>4 DEF FilesOfReadySnapshotsAreLinked
<1>5. CASE pc \in Building /\ snaps' = snaps /\ files'[p].seen = build.snap
  BY <1>0, <1>5 DEF Begun
<1>6. ASSUME NEW batch \in SUBSET build.left, StoreBatch(batch) PROVE files'[p].linked
  <2>1. pc \in Building /\ snaps' = snaps
    BY <1>6 DEF StoreBatch, Building
  <2>2. p \in batch => files'[p].seen = build.snap
    BY <1>6 DEF StoreBatch
  <2>3. p \notin batch => files'[p] = files[p]
    BY <1>6 DEF StoreBatch
  <2> QED
    BY <1>4, <1>5, <2>1, <2>2, <2>3 DEF Live
<1>7. CASE MarkSeen
  <2>1. pc \in Building /\ snaps' = snaps
    BY <1>7 DEF MarkSeen, Building
  <2>2. files'[p].seen = build.snap \/ files'[p] = files[p]
    BY <1>1, <1>7 DEF MarkSeen, FileRows
  <2> QED
    BY <1>4, <1>5, <2>1, <2>2 DEF Live
<1>8. CASE WriteEdges
  <2>1. /\ files'[p].seen = files[p].seen /\ files'[p].present = files[p].present
        /\ files'[p].deleted = files[p].deleted
        /\ files[p].linked => files'[p].linked
        /\ snaps' = snaps
    BY <1>1, <1>8 DEF WriteEdges, FileRows
  <2> QED
    BY <1>4, <2>1 DEF Live
<1> QED
  BY <1>2, <1>3, <1>6, <1>7, <1>8, FilesStep

-----------------------------------------------------------------------------
(* The theorems.                                                           *)

LEMMA InitIInv == Init => IInv
<1> SUFFICES ASSUME Init PROVE IInv
  OBVIOUS
<1> USE Constants, BoundsAssumption DEF Init
<1>1. TypeOK
  BY DEF TypeOK, PCs, NoBuild
<1>2. Numbered
  BY DEF Numbered, NoSnapshot, NoRequest, Building, Ids
<1>3. SeenByBegun /\ FilesOfReadySnapshotsAreLinked
  BY DEF SeenByBegun, FilesOfReadySnapshotsAreLinked, Live, NoFile
<1>4. Begun /\ KnownIsTrue /\ ReadUnfinished
  BY DEF Begun, KnownIsTrue, ReadUnfinished, Building
<1>5. Progress
  BY DEF Progress, Building, NoBuild
<1> QED
  BY <1>1, <1>2, <1>3, <1>4, <1>5 DEF IInv

LEMMA IInvStep == IInv /\ [Next]_vars => IInv'
<1> SUFFICES ASSUME IInv, [Next]_vars PROVE IInv'
  OBVIOUS
<1>1. TypeOK'
  BY TypeStep DEF IInv
<1>2. Progress' /\ FilesOfReadySnapshotsAreLinked'
  BY <1>1, ProgressStep, LinkedStep
<1>3. Numbered' /\ SeenByBegun' /\ Begun' /\ ReadUnfinished' /\ KnownIsTrue'
  BY NumberedStep, SeenByBegunStep, BegunStep, ReadUnfinishedStep, KnownIsTrueStep DEF IInv
<1> QED
  BY <1>1, <1>2, <1>3 DEF IInv

LEMMA InvariantHolds == Spec => []IInv
BY InitIInv, IInvStep, PTL DEF Spec

(* The index and everything that works on it is well typed; in particular  *)
(* an idle worker remembers nothing of its last build.                     *)
THEOREM TypeCorrect == Spec => []TypeOK
<1>1. IInv => TypeOK
  BY DEF IInv
<1> QED
  BY <1>1, InvariantHolds, PTL

(* The files an incremental build trusts (list_paths) are completely       *)
(* indexed, whatever builds were interrupted, stopped, killed or deleted.  *)
THEOREM TrustedFilesAreLinked == Spec => []FilesOfReadySnapshotsAreLinked
<1>1. IInv => FilesOfReadySnapshotsAreLinked
  BY DEF IInv
<1> QED
  BY <1>1, InvariantHolds, PTL

(* A build that becomes ready covers every file of its commit that git     *)
(* gave, with the right content and its references.                        *)
THEOREM ReadyBuildsAreComplete == Spec => ReadyBuildCoversItsTree
<1>1. ASSUME IInv, [Next]_vars, pc = "resolving", pc' = "ready", NEW p \in Supported \ build.unread
      PROVE  Live(p) /\ files[p].blob = Tree[build.job.commit][p] /\ files[p].linked
  <2>1. snaps[build.snap].status \notin Missing /\ pc \in Building
    BY <1>1 DEF Building, Next, Work, Ask, Create, Post, Abandon, AskCancel, Cancel, StopEmbedding,
       DeleteIndex, Take, Start, TakeUp, NoticeStop, Parse, StoreBatch, MarkSeen, EnterLinking,
       WriteEdges, Finish, MarkReady, EnterEmbedding, Embed, Fail, MarkFailed, LeaveUnmarked, Kill,
       Leave, index, vars
  <2>2. snaps[build.snap].status # "removed" /\ build.left = {}
    BY <1>1, <2>1 DEF Missing, IInv, TypeOK
  <2>3. CASE p \in Unchanged
    BY <1>1, <2>1, <2>2, <2>3 DEF IInv, KnownIsTrue, Unchanged
  <2>4. CASE p \in Parsed
    BY <1>1, <2>1, <2>2, <2>4 DEF IInv, Progress, Building
  <2> QED
    BY <2>3, <2>4 DEF Parsed
<1>2. IInv /\ [Next]_vars =>
         (pc = "resolving" /\ pc' = "ready" =>
            \A p \in Supported \ build.unread :
               Live(p) /\ files[p].blob = Tree[build.job.commit][p] /\ files[p].linked)
  BY <1>1
<1> QED
  BY <1>2, InvariantHolds, PTL DEF Spec, ReadyBuildCoversItsTree

(* What a snapshot ended as is rewritten by overtaken transactions alone:  *)
(* by a cancellation or a build that had read it unfinished.  Neither a    *)
(* second delivery of the job nor a failure after the end touches it.      *)
THEOREM EndsAreRewrittenOnlyWhenOvertaken == Spec => OnlyOvertakenRewriteTheEnd
<1>1. ASSUME IInv, [Next]_vars, NEW s \in Ids, snaps[s].status \in Finished,
             snaps'[s].status \notin {snaps[s].status, "removed"}
      PROVE  IF snaps'[s].status = "cancelled" THEN cancelling = s
             ELSE build.snap = s /\ build.read \in Unfinished
  <2>1. StatusMoves /\ s # created + 1
    BY <1>1, StatusStep DEF IInv, Numbered, TypeOK, Ids, Finished
  <2>2. \/ s = cancelling /\ snaps'[s].status = "cancelled"
        \/ s = build.snap /\ pc = "starting" /\ snaps'[s].status = "running"
        \/ s = build.snap /\ pc = "resolving" /\ snaps'[s].status = "ready"
        \/ s = build.snap /\ pc = "marking" /\ snaps'[s].status = "failed"
    BY <1>1, <2>1 DEF StatusMoves
  <2> QED
    BY <1>1, <2>2 DEF IInv, ReadUnfinished
<1>2. IInv /\ [Next]_vars =>
         \A s \in Ids :
            snaps[s].status \in Finished /\ snaps'[s].status \notin {snaps[s].status, "removed"}
            => IF snaps'[s].status = "cancelled" THEN cancelling = s
               ELSE build.snap = s /\ build.read \in Unfinished
  BY <1>1
<1> QED
  BY <1>2, InvariantHolds, PTL DEF Spec, OnlyOvertakenRewriteTheEnd
=============================================================================
