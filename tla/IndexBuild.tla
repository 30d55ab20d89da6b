----------------------------- MODULE IndexBuild -----------------------------
(***************************************************************************)
(* The code index of one repository: the snapshots that requests queue,    *)
(* cancel and delete, and the indexer worker that builds them one at a     *)
(* time (INDEX_MAX_JOBS is 1).  There is one table of parsed files: a      *)
(* snapshot owns no files, a file only names the snapshot that saw it      *)
(* last, and an incremental build trusts the files seen by a ready one.    *)
(*                                                                         *)
(* A transaction that settles what becomes of a snapshot, the start and    *)
(* the end of its build, the mark of a failure and a cancellation, reads   *)
(* its status in one step and writes another in a later one: nothing locks *)
(* the row or compares versions between the two.  Any other transaction is *)
(* one step.  DeleteIndex may thus not overtake a request between its own  *)
(* check and its statements, which would only add deletions under a build  *)
(* that is already running, and two requests at once give those as well.   *)
(* Symbols, chunks and edges of a file are one flag: whether the           *)
(* references of its current parse are in the graph.                       *)
(***************************************************************************)
EXTENDS Naturals, FiniteSets

CONSTANTS
    Paths,         \* paths the parser supports
    Commits,       \* commits of the repository
    Tree,          \* the blob each commit holds at each path
    Absent,        \* the blob of a path that a commit does not have
    Requests,      \* concurrent requests for a build
    MaxSnapshots,  \* bound: snapshots ever created
    MaxKills       \* bound: workers that die with a build in their hands

Blobs == {Tree[c][p] : c \in Commits, p \in Paths} \cup {Absent}

ASSUME TreeAssumption == Tree \in [Commits -> [Paths -> Blobs]]
ASSUME CommitsAssumption == Commits # {}
ASSUME BoundsAssumption == MaxSnapshots \in Nat \ {0} /\ MaxKills \in Nat

VARIABLES
    snaps,      \* the snapshots, numbered in the order of their creation
    created,    \* how many there have been
    files,      \* the row of each path
    reqs,       \* the requests for a build that are under way
    cancelling, \* the unfinished snapshot an open cancellation has read, or 0
    queue,      \* the jobs arq holds
    pc,         \* where the worker is in its job
    build,      \* what the worker remembers of its job
    kills       \* workers killed so far

vars == <<snaps, created, files, reqs, cancelling, queue, pc, build, kills>>
index == <<snaps, created, files>>

Ids == 1 .. MaxSnapshots
Unfinished == {"pending", "running"}
Finished == {"ready", "failed", "cancelled"}
Missing == {"none", "removed"}
Statuses == Unfinished \cup Finished \cup Missing

Snapshots == [status  : Statuses,
              commit  : Commits,
              stage   : {"building", "embedding", "complete"},
              stopped : BOOLEAN]

FileRows == [present : BOOLEAN,
             blob    : Blobs,
             seen    : 0 .. MaxSnapshots,
             deleted : BOOLEAN,
             linked  : BOOLEAN]
NoFile == [present |-> FALSE, blob |-> Absent, seen |-> 0, deleted |-> FALSE, linked |-> FALSE]

Live(p) == files[p].present /\ ~files[p].deleted

Jobs == [snap : Ids, commit : Commits]
Building == {"parsing", "storing", "linking", "edges", "closing", "resolving"}
PCs == {"idle", "loaded", "starting", "marking", "ready", "embedding"} \cup Building

(* known: the blobs a new build need not read again.  unread: the files    *)
(* git did not give.  left: the parsed files that are not stored yet.      *)
(* read: the status that the open transaction read and is about to change. *)
Builds == [job    : Jobs,
           snap   : 0 .. MaxSnapshots,
           read   : Statuses,
           known  : [Paths -> Blobs],
           unread : SUBSET Paths,
           left   : SUBSET Paths]

Asked == [step : {"idle", "checked", "created"}, commit : Commits, snap : 0 .. MaxSnapshots]

AnyCommit == CHOOSE c \in Commits : TRUE
NoSnapshot == [status |-> "none", commit |-> AnyCommit, stage |-> "building", stopped |-> FALSE]
NoRequest == [step |-> "idle", commit |-> AnyCommit, snap |-> 0]
NoBuild == [job    |-> [snap |-> 1, commit |-> AnyCommit],
            snap   |-> 0,
            read   |-> "none",
            known  |-> [p \in Paths |-> Absent],
            unread |-> {},
            left   |-> {}]

TypeOK ==
    /\ snaps \in [Ids -> Snapshots]
    /\ created \in 0 .. MaxSnapshots
    /\ files \in [Paths -> FileRows]
    /\ reqs \in [Requests -> Asked]
    /\ cancelling \in 0 .. MaxSnapshots
    /\ queue \in SUBSET Jobs
    /\ pc \in PCs
    /\ build \in Builds
    /\ pc = "idle" => build = NoBuild
    /\ build.left # {} => pc = "storing"
    /\ kills \in Nat

Init ==
    /\ snaps = [s \in Ids |-> NoSnapshot]
    /\ created = 0
    /\ files = [p \in Paths |-> NoFile]
    /\ reqs = [r \in Requests |-> NoRequest]
    /\ cancelling = 0
    /\ queue = {}
    /\ pc = "idle"
    /\ build = NoBuild
    /\ kills = 0

Latest == IF created = 0 \/ snaps[created].status = "removed" THEN 0 ELSE created
LatestUnfinished == Latest # 0 /\ snaps[Latest].status \in Unfinished

NewSnapshot(commit, status) ==
    /\ created < MaxSnapshots
    /\ created' = created + 1
    /\ snaps' = [snaps EXCEPT ![created + 1] =
                    [NoSnapshot EXCEPT !.status = status, !.commit = commit]]

-----------------------------------------------------------------------------
(* The API.  Asking for a build takes two transactions, because git is     *)
(* asked for the commit between them, and the job is enqueued after the    *)
(* second; the request can end in any of the gaps.                         *)

Ask(r, c) ==
    /\ reqs[r].step = "idle"
    /\ ~LatestUnfinished
    /\ reqs' = [reqs EXCEPT ![r] = [step |-> "checked", commit |-> c, snap |-> 0]]
    /\ UNCHANGED <<index, cancelling, queue, pc, build, kills>>

Create(r) ==
    /\ reqs[r].step = "checked"
    /\ NewSnapshot(reqs[r].commit, "pending")
    /\ reqs' = [reqs EXCEPT ![r].step = "created", ![r].snap = created + 1]
    /\ UNCHANGED <<files, cancelling, queue, pc, build, kills>>

Post(r) ==
    /\ reqs[r].step = "created"
    /\ queue' = queue \cup {[snap |-> reqs[r].snap, commit |-> reqs[r].commit]}
    /\ reqs' = [reqs EXCEPT ![r] = NoRequest]
    /\ UNCHANGED <<index, cancelling, pc, build, kills>>

Abandon(r) ==
    /\ reqs[r].step # "idle"
    /\ reqs' = [reqs EXCEPT ![r] = NoRequest]
    /\ UNCHANGED <<index, cancelling, queue, pc, build, kills>>

(* CancelIndexing, and the part of CancelReviewRun that cancels the build  *)
(* for the run's commit.  Of a ready snapshot only the embedding stops.    *)
AskCancel ==
    /\ cancelling = 0
    /\ LatestUnfinished
    /\ cancelling' = Latest
    /\ UNCHANGED <<index, reqs, queue, pc, build, kills>>

(* The cancellation is written whatever the snapshot has become since it   *)
(* was read; of one that is gone there is no row to write.                 *)
Cancel ==
    /\ cancelling # 0
    /\ snaps' = [snaps EXCEPT ![cancelling].status = IF @ \in Missing THEN @ ELSE "cancelled"]
    /\ cancelling' = 0
    /\ UNCHANGED <<created, files, reqs, queue, pc, build, kills>>

StopEmbedding ==
    /\ Latest # 0 /\ ~LatestUnfinished
    /\ snaps[Latest].stage = "embedding" /\ ~snaps[Latest].stopped
    /\ snaps' = [snaps EXCEPT ![Latest].stopped = TRUE]
    /\ UNCHANGED <<created, files, reqs, cancelling, queue, pc, build, kills>>

DeleteIndex ==
    /\ Latest # 0 /\ ~LatestUnfinished
    /\ snaps' = [s \in Ids |-> IF s <= created THEN [snaps[s] EXCEPT !.status = "removed"]
                                               ELSE snaps[s]]
    /\ files' = [p \in Paths |-> NoFile]
    /\ UNCHANGED <<created, reqs, cancelling, queue, pc, build, kills>>

-----------------------------------------------------------------------------
(* The worker.                                                             *)

\* mutant: files of unfinished builds count as parsed
KnownToAny == [p \in Paths |-> IF Live(p) THEN files[p].blob ELSE Absent]

(* list_paths: only files last seen by a ready snapshot count as parsed.   *)
Known == [p \in Paths |->
            IF Live(p) /\ snaps[files[p].seen].status = "ready" THEN files[p].blob ELSE Absent]

Supported == {p \in Paths : Tree[build.job.commit][p] # Absent}
Unchanged == {p \in Supported : build.known[p] = Tree[build.job.commit][p]}
Parsed == (Supported \ Unchanged) \ build.unread
Vanished == {p \in Paths : build.known[p] # Absent /\ p \notin Supported}

Leave == pc' = "idle" /\ build' = NoBuild

(* The build's snapshot was cancelled, or removed with the whole index.    *)
Stopped == snaps[build.snap].status \in {"cancelled"} \cup Missing

Take(job) ==
    /\ pc = "idle"
    /\ job \in queue
    /\ queue' = queue \ {job}
    /\ IF snaps[job.snap].status \in {"cancelled"} \cup Missing
       THEN UNCHANGED <<pc, build>>
       ELSE /\ pc' = "loaded"
            /\ build' = [NoBuild EXCEPT !.job = job, !.known = Known]
    /\ UNCHANGED <<index, reqs, cancelling, kills>>

(* The queued snapshot is taken up; a job delivered again finds it running *)
(* or finished and opens another.                                          *)
Start ==
    /\ pc = "loaded"
    /\ LET s == build.job.snap IN
       \/ /\ snaps[s].status \in {"cancelled"} \cup Missing
          /\ Leave
          /\ UNCHANGED <<snaps, created>>
       \/ /\ snaps[s].status = "pending"
          /\ build' = [build EXCEPT !.snap = s, !.read = "pending"]
          /\ pc' = "starting"
          /\ UNCHANGED <<snaps, created>>
       \/ /\ snaps[s].status \in {"running", "ready", "failed"}
          /\ NewSnapshot(build.job.commit, "running")
          /\ build' = [build EXCEPT !.snap = created + 1]
          /\ pc' = "parsing"
    /\ UNCHANGED <<files, reqs, cancelling, queue, kills>>

(* Running is written over whatever came in between; when the row is gone  *)
(* the update fails, outside the part of the build that marks failures.    *)
TakeUp ==
    /\ pc = "starting"
    /\ IF snaps[build.snap].status \in Missing
       THEN Leave /\ UNCHANGED snaps
       ELSE /\ snaps' = [snaps EXCEPT ![build.snap].status = "running"]
            /\ build' = [build EXCEPT !.read = "none"]
            /\ pc' = "parsing"
    /\ UNCHANGED <<created, files, reqs, cancelling, queue, kills>>

\* mutant: a cancelled build waits to be resumed
AwaitResumption ==
    /\ pc \in {"parsing", "storing", "linking", "closing"}
    /\ Stopped
    /\ UNCHANGED vars

(* Progress is saved while parsing and when a stage begins, and there the  *)
(* build notices that it was stopped.                                      *)
NoticeStop ==
    /\ pc \in {"parsing", "storing", "linking", "closing"}
    /\ Stopped
    /\ Leave
    /\ UNCHANGED <<index, reqs, cancelling, queue, kills>>

Parse ==
    /\ pc = "parsing"
    /\ ~Stopped
    /\ \E unread \in SUBSET (Supported \ Unchanged) :
          build' = [build EXCEPT !.unread = unread,
                                 !.left = (Supported \ Unchanged) \ unread]
    /\ pc' = "storing"
    /\ UNCHANGED <<index, reqs, cancelling, queue, kills>>

(* New symbols replace the old ones, whose edges go with them.             *)
StoreBatch(batch) ==
    /\ pc = "storing"
    /\ ~Stopped
    /\ files' = [p \in Paths |->
                    IF p \in batch
                    THEN [present |-> TRUE, blob |-> Tree[build.job.commit][p],
                          seen |-> build.snap, deleted |-> FALSE, linked |-> FALSE]
                    ELSE files[p]]
    /\ build' = [build EXCEPT !.left = @ \ batch]
    /\ UNCHANGED <<snaps, created, reqs, cancelling, queue, pc, kills>>

\* mutant: the rows are marked as soon as a batch is stored
MarkSeenEarly ==
    /\ pc = "storing"
    /\ files' = [p \in Paths |->
                    IF ~files[p].present THEN files[p]
                    ELSE IF p \in Unchanged THEN [files[p] EXCEPT !.seen = build.snap]
                    ELSE IF p \in Vanished
                         THEN [files[p] EXCEPT !.seen = build.snap, !.deleted = TRUE]
                    ELSE files[p]]
    /\ pc' = "linking"
    /\ UNCHANGED <<snaps, created, reqs, cancelling, queue, build, kills>>

MarkSeen ==
    /\ pc = "storing"
    /\ build.left = {}
    /\ files' = [p \in Paths |->
                    IF ~files[p].present THEN files[p]
                    ELSE IF p \in Unchanged THEN [files[p] EXCEPT !.seen = build.snap]
                    ELSE IF p \in Vanished
                         THEN [files[p] EXCEPT !.seen = build.snap, !.deleted = TRUE]
                    ELSE files[p]]
    /\ pc' = "linking"
    /\ UNCHANGED <<snaps, created, reqs, cancelling, queue, build, kills>>

EnterLinking ==
    /\ pc = "linking"
    /\ ~Stopped
    /\ pc' = "edges"
    /\ UNCHANGED <<index, reqs, cancelling, queue, build, kills>>

(* The edges refer to symbols of the build's files: when those are gone    *)
(* the database refuses them.                                              *)
WriteEdges ==
    /\ pc = "edges"
    /\ \A p \in Parsed : files[p].present
    /\ files' = [p \in Paths |->
                    IF p \in Parsed THEN [files[p] EXCEPT !.linked = TRUE] ELSE files[p]]
    /\ pc' = "closing"
    /\ UNCHANGED <<snaps, created, reqs, cancelling, queue, build, kills>>

\* mutant: the last transaction does not look at the snapshot's status
FinishAnyway ==
    /\ pc = "closing"
    /\ build' = [build EXCEPT !.read = snaps[build.snap].status]
    /\ pc' = "resolving"
    /\ UNCHANGED <<index, reqs, cancelling, queue, kills>>

(* The last transaction looks at the status, and resolves the edges of the *)
(* whole repository before it writes another.                              *)
Finish ==
    /\ pc = "closing"
    /\ ~Stopped
    /\ build' = [build EXCEPT !.read = snaps[build.snap].status]
    /\ pc' = "resolving"
    /\ UNCHANGED <<index, reqs, cancelling, queue, kills>>

(* When the row is gone the update fails, and so does the build.           *)
MarkReady ==
    /\ pc = "resolving"
    /\ snaps[build.snap].status \notin Missing
    /\ snaps' = [snaps EXCEPT ![build.snap].status = "ready"]
    /\ build' = [build EXCEPT !.read = "none"]
    /\ pc' = "ready"
    /\ UNCHANGED <<created, files, reqs, cancelling, queue, kills>>

EnterEmbedding ==
    /\ pc = "ready"
    /\ IF snaps[build.snap].status \in Missing
       THEN Leave /\ UNCHANGED snaps
       ELSE /\ snaps' = [snaps EXCEPT ![build.snap].stage = "embedding"]
            /\ pc' = "embedding"
            /\ UNCHANGED build
    /\ UNCHANGED <<created, files, reqs, cancelling, queue, kills>>

(* The vectors are all there, or the model did not answer, or somebody     *)
(* stopped the embedding; only the first closes the snapshot.              *)
Embed ==
    /\ pc = "embedding"
    /\ \/ snaps' = [snaps EXCEPT ![build.snap].stage =
                        IF snaps[build.snap].stopped THEN @ ELSE "complete"]
       \/ UNCHANGED snaps
    /\ Leave
    /\ UNCHANGED <<created, files, reqs, cancelling, queue, kills>>

(* An exception inside the build: the snapshot is marked failed, unless it *)
(* is found finished or gone.                                              *)
Fail ==
    /\ pc \in Building
    /\ IF snaps[build.snap].status \in Unfinished
       THEN /\ build' = [build EXCEPT !.read = snaps[build.snap].status, !.left = {}]
            /\ pc' = "marking"
       ELSE Leave
    /\ UNCHANGED <<index, reqs, cancelling, queue, kills>>

MarkFailed ==
    /\ pc = "marking"
    /\ snaps' = [snaps EXCEPT ![build.snap].status = IF @ \in Missing THEN @ ELSE "failed"]
    /\ Leave
    /\ UNCHANGED <<created, files, reqs, cancelling, queue, kills>>

(* Nothing is marked when the job's time limit cancels it, for a           *)
(* cancellation is no Exception, when it fails outside the build, and when *)
(* the mark itself cannot be saved.                                        *)
LeaveUnmarked ==
    /\ pc # "idle"
    /\ Leave
    /\ UNCHANGED <<index, reqs, cancelling, queue, kills>>

(* The worker dies, and arq delivers the job again.                        *)
Kill ==
    /\ pc # "idle"
    /\ kills < MaxKills
    /\ kills' = kills + 1
    /\ queue' = queue \cup {build.job}
    /\ Leave
    /\ UNCHANGED <<index, reqs, cancelling>>

Work ==
    \/ \E job \in queue : Take(job)
    \/ Start \/ TakeUp \/ NoticeStop \/ Parse
    \/ \E batch \in SUBSET build.left \ {{}} : StoreBatch(batch)
    \/ MarkSeen \/ EnterLinking \/ WriteEdges \/ Finish \/ MarkReady
    \/ EnterEmbedding \/ Embed \/ MarkFailed

Next ==
    \/ \E r \in Requests : (\E c \in Commits : Ask(r, c)) \/ Create(r) \/ Post(r) \/ Abandon(r)
    \/ AskCancel \/ Cancel \/ StopEmbedding \/ DeleteIndex
    \/ Work \/ Fail \/ LeaveUnmarked \/ Kill

Spec == Init /\ [][Next]_vars

(* The worker goes on with the job it has, and takes the next one.  No     *)
(* exception is owed to anybody but the ones the database raises when it   *)
(* refuses the edges, or the update of a snapshot that is gone.            *)
Fairness == WF_vars(Work \/ (pc \in {"edges", "resolving"} /\ Fail))
FairSpec == Spec /\ Fairness

-----------------------------------------------------------------------------
(* Properties.                                                             *)

(* What a ready snapshot vouches for is complete: a file last seen by one  *)
(* has the references of its parse in the graph, however many builds were  *)
(* interrupted after they had stored it (list_paths).                      *)
FilesOfReadySnapshotsAreLinked ==
    \A p \in Paths :
        Live(p) /\ snaps[files[p].seen].status = "ready" => files[p].linked

(* A build that declares itself ready has every file of its commit that    *)
(* git gave: live, of the right blob, and with its references in place,    *)
(* although it read only what its predecessors had not.                    *)
ReadyBuildCoversItsTree ==
    [][pc = "resolving" /\ pc' = "ready" =>
          \A p \in Supported \ build.unread :
             Live(p) /\ files[p].blob = Tree[build.job.commit][p] /\ files[p].linked]_vars

(* The end of a snapshot is final but for transactions that were overtaken *)
(* (_change_status refuses to leave a finished status): a finished one     *)
(* becomes cancelled, or anything else, only by a cancellation or a build  *)
(* that read it unfinished and then wrote.  A job delivered again, a build *)
(* in a later stage and a failure afterwards leave it as they find it.     *)
(* More is not so: the last check of a build and its READY are apart, and  *)
(* a cancellation committed between them is lost.                          *)
OnlyOvertakenRewriteTheEnd ==
    [][\A s \in Ids :
          snaps[s].status \in Finished /\ snaps'[s].status \notin {snaps[s].status, "removed"}
          => IF snaps'[s].status = "cancelled"
             THEN cancelling = s
             ELSE build.snap = s /\ build.read \in Unfinished]_vars

(* A cancelled build lets the worker go: a snapshot that was cancelled is  *)
(* not being built for ever, and the next build gets its turn.             *)
CancelledBuildEnds ==
    \A s \in Ids :
        (build.snap = s /\ snaps[s].status = "cancelled") ~> (build.snap # s)

=============================================================================
