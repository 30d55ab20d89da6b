# Review Ducktective: verification

TLA+ models of the parts of `src/` that keep state and act concurrently, and of
the algorithms whose results others rely on; their model checks with TLC, and
proofs with TLAPS. The models are translated from the Python source; each
definition's lines are in `PROJECT.json` under `map`.

The system reviews merge requests with language models. A user asks the API for a
review; a job queue hands the run to a *reviewer* worker; the worker reads every
changed file with one or more reviewers, keeps its progress in checkpoints, checks
what the models quoted against the code, and stores the findings. A second worker,
the *indexer*, parses the repository into a table of files, symbols, chunks and
references, through which reviewers, a chat and MCP clients find their way.
Organizations own all of it: their members, invitations, and connections to the
providers of models.

## 1. Inventory

Paths are below `src/packages/*/src/ducktective/` or `src/apps/*/src/ducktective/`.

| Component | State | Operations | Talks to |
|---|---|---|---|
| Review run: `core/review/entities.py`, `application/review/*` | row of a run: status, attempt number, clock, duration, findings, degradations | request, claim, conclude, fail, cancel, resume, restart, delete | API, reviewer worker, run lock, checkpoints, index |
| Reviewer worker: `reviewer/worker.py` | the job and the attempt number it took | `run_review_task`, `forget_checkpoint_task`, failure handler, deferral behind the index | arq, run lock, review graph, unit of work |
| Run lock: `storage/locks.py` | a key in Redis with a token and a time to live | acquire with a wait, refresh, conditional release | reviewer worker |
| Unit of work: `storage/unit_of_work.py`, repositories | open session, collected events | load, commit, roll back | every use case |
| Review graph: `review_graph/graph.py`, `nodes/*` | checkpoint: plan, result of each pair "file x reviewer" | context, review a pair, aggregate, verify, resume | reviewers, checkpoints in PostgreSQL |
| Reviewers: `llm/agentic_reviewer.py`, `llm/reviewer.py` | messages, tool results, step count | tool loop, fallback to a single pass, stop | LLM client, tools |
| LLM client, router, cache: `llm/client.py`, `router.py`, `cache.py` | models that rest after a refusal, cached answers | complete with retries, stream with replacements | providers |
| Findings: `nodes/aggregation.py`, `nodes/verification.py` | survivors, displaced drafts, counters | merge, verify, store | review graph, run aggregate |
| Course of an investigation: `storage/investigation.py`, `events/step_broadcaster.py`, `routers/investigation_stream.py` | table of steps, Redis channel, sockets, cursors of clients | record, announce, subscribe, read, follow | reviewers, web page, API |
| Index build: `application/indexing/*`, `indexer/worker.py` | snapshots, table of files, references | request, cancel, delete, build, embed | arq, git, parser, embeddings |
| Parsers and chunking: `indexing/*` | none | symbols, references and chunks of a syntax tree | index build |
| Code graph: `storage/repositories/indexing.py` | rows of files, symbols, chunks, edges | store, mark, resolve, delete | index build, retrieval |
| Retrieval, git navigation, tools: `retrieval/*`, `vcs/navigation.py`, `llm/tools.py`, `review_tools.py` | none; one answer takes several statements | find, read, describe, search, list | code graph, git, reviewers, chat, MCP |
| Chat: `application/chat/*`, `llm/chat_agent.py`, `routers/chat.py` | conversations, messages, sockets, the stream in progress | start, attach, ask, stream, record, delete | LLM client, tools |
| Tenancy and sign-in: `core/tenancy`, `application/tenancy`, `api/dependencies.py` | accounts, organizations, invitations | sign in, create, invite, accept, revoke, change a role, remove | API |
| Provider connections: `application/models`, `routers/models.py` | connections with their catalogues | add, edit, refresh, delete, resolve | LLM router |
| Repositories: `application/code_repository` | a row | register, delete | index, reviews |
| Embeddings, diff parser, MCP rendering, CLI, schemas, web, evaluation, configuration | none, or outside the parts that meet | see section 6 | |

The parts meet in five places: the database rows that overlapping transactions of the
API and the workers read and write; the arq queue, which enqueues after the commit and
delivers a job again when its worker dies; the Redis lock, which lets one job of a run
in; the table of files, which the indexer writes and everybody reads; and the channel
of a run, which pages listen to.

Hard behaviours, and what correctness means there (`PROJECT.json`, `hazards`, has them
line by line):

* *Review run and worker.* Cancel, resume, restart and delete race with jobs that
  are queued, waiting for the lock, reading, or failing, and the lock itself may lapse under
  its holder. One attempt should work at a time, and at most one refreshes the lock; an attempt number is started once; a completed run accounts for every pair;
  an attempt's time is counted once; an ended run leaves its end only under a new
  attempt number; a delivered job is served; a stale attempt leaves; a running run ends.
* *Transactions.* There is no version column and no row lock, except where the flush
  takes one; transactions on one row overlap. What the aggregate forbids happens only when one transaction overtakes another.
* *Index build.* One table of files serves all snapshots, and an incremental build
  trusts what ready builds left. Interrupted builds must not poison it; a ready build
  covers its commit; a cancelled one lets the worker go, and the end of a snapshot should be final.
* *Findings.* Drafts come in any order and displace one another by key; nothing true
  and severe is lost, and every draft is counted once and under its own reason.
* *Reading a file.* Truncated answers, repeated and failing calls, a full window, a
  refusal, a stop request. No request goes to a model the repository does not trust,
  every call in a dialogue has its answer, what confirms a quotation was shown to the
  model that quotes, and a reading ends.
* *Chat.* Two pages speak in one conversation, a page closes in the middle of an answer,
  the conversation is deleted, models refuse and rest. An answer that was shown is
  recorded, events are recorded once and whole, a question is refused only after every
  model was asked.
* *Organizations.* Requests overlap statement by statement. Nobody joins without an invitation that was in force, roles
  change only by owners, a refresh does not undo an edit, an organization loses its last
  owner only by two requests at once.
* *Walking through the code.* Builds rewrite the rows between two statements of one answer.
  A text stands at its own place, a neighbour has its true role, lines keep their order.
* *Following a run.* Steps are recorded and announced while sockets open and close. What a
  page or a client misses is bounded, and readings are shown in their order.

## 2. Modules

| Module | Models | State to code |
|---|---|---|
| `RunAggregate` | class `ReviewRun` of `core/review/entities.py` | a row is `status`, `attempt`, `clock` (`started_at` is set), `spent` (attempts whose time `duration_ms` holds), `findings` (pairs whose findings are stored), `degraded` (pairs marked unread) |
| `RunLifecycle` | abstract: what the aggregate promises from outside | `status`, `attempt`, `findings` |
| `ReviewRun` | API endpoints, `RunReview`, `run_review_task`, the lock, checkpoints, arq | `row`; `pc`, `resume`, `att` of each job; `flow[j]` (what the job's graph has in memory: the pair it reads, its results, whose plan it follows, whether its checkpoint is the newest); `lock` (holder of the Redis key) and `keeper[j]` (the task that refreshes it); `saved` and `planned` (the newest checkpoint); `forget` (task that deletes it) |
| `RunTransactions` | `SqlAlchemyUnitOfWork`, the run's mapping | `row`; `tx[c]`: what each open transaction loaded and what it decided; `working` (the worker has claimed the run) |
| `IndexBuild` | `EnqueueIndexing`, `CancelIndexing`, `DeleteIndex`, `BuildIndex`, `build_index_task` | `snaps`; `files` (one row a path: last snapshot that saw it, deletion mark, whether its references are in the graph); `build` (what the worker remembers, and in `read` the status its open transaction has read); `cancelling` (the snapshot an open cancellation has read) |
| `Findings` | nodes `aggregate` and `verify`, `ReviewRun.add_finding` | the drafts, survivors and displaced ones; each counter is the set it counts |
| `Selection` | the list comprehensions of router and client that keep what fits, in its order | no state; `Only(s, S)` and the set `Among(s)` |
| `ModelRouter` | `ModelRouter`, `ModelChoice` | no state; a registry is what each model is trusted with and can do |
| `ReviewDialogue` | `AgenticCodeReviewer`, `LlmCodeReviewer`, `LiteLlmClient.complete`, the cache | the dialogue, the call that is in flight, what the tools have shown, the stop request, cached answers |
| `Conversation` | `core/chat` | no state; messages of a conversation |
| `Transcript` | abstract: what a reader of the conversations may rely on | `opened`, `gone`, `log` (messages of each conversation), `asked`, `happened`, `shown` |
| `Chat` | `AskQuestion`, chat agents, `LiteLlmClient.stream`, `routers/chat.py` | `conversations` (rows); `page[p]` (page, socket and the task behind it); `happened` (what the agent did), `shown` (whose final answer a person saw, and where) |
| `Tenancy` | `core/tenancy`, `core/llm/provider_connection.py` | no state; rules of accounts, invitations, connections |
| `Workspace` | every request that changes an organization, its transactions | the five tables; `request[r]`: the step it is at and what its session has read |
| `SourceLines` | names; the reader of stored lines | no state; the end of a name, `read_lines`, what it is for chunks to be in order |
| `Chunking` | `chunking.py`, but for the syntax tree | no state; a fragment has the numbers of its lines, of which long ones are two tokens |
| `SourceText` | parsers, chunking, what a line of code looks like to `git grep` | no state; a function of a path and its syntax tree |
| `CodeGraph` | `SqlAlchemyCodeIndexRepository` | `files` with what each last parse found, `edges`, the running build and ready snapshots; what a parse finds is the constant `ParseOf` |
| `Revision` | `vcs/navigation.py` | no state; answers of git about one commit; what stands on a line is the constant `MarksOf` |
| `Navigation` | `retrieval/*`, `llm/tools.py`, `review_tools.py` | `reader` (who reads, and what answers), `call` (the statement an answer is at), `answer` |
| `InvestigationFeed` | `RecordingInvestigationSink`, the log, the broadcaster, `stream_investigation`, `ReadInvestigation` | `log` and `cursor` (the table and its last id); `sink[r]` (a call of `record`); `sent`; `page[w]` (socket: queue of the subscription, history left to send, what was shown); `client[f]` (cursor, what it was given) |
| `*Proofs` | proofs about the module they are named after | |
| `MC*` | instances for TLC | |

How they are put together. `RunAggregate` (what the methods do to a row) is shared by `ReviewRun`, which composes the row
with jobs, lock and checkpoint and takes a transaction as one step, and by
`RunTransactions`, which opens the transactions and leaves the rest out; `ReviewRun`
implements `RunLifecycle` (`LifecycleHolds`). `ModelRouter` is shared by `ReviewDialogue` and
`Chat`, which also has `Conversation`; both choose by `Selection`. `Chat` implements `Transcript`
(`TranscriptHolds`): the conversations that are there or were deleted, their messages, what happened and what was
shown are the image of its state; pages, models, streams and documents are not part of it. `Workspace` runs the rules of `Tenancy` inside
overlapping transactions. `CodeGraph` (how builds store what a parse finds) is extended by
`Revision` (what git says of the same commits) and that by `Navigation`, in which builds and
readers interleave. None of the three knows how a file is parsed: `ParseOf` and `MarksOf` are
constants, of which `ParsesAssumption` says little. `SourceText` computes them, with `Chunking`, and
`MCNavigation` puts the two together, so that the runs use what the parsers and the chunking of the
code find and the proofs hold for any other.

### Actions of `ReviewRun`

`RequestRun`, `Restart`, `Resume`, `Cancel`, `Delete` are the endpoints; the ones that
enqueue leave the job at `posting`, and `Enqueue` hands it to arq or loses it. `Take`
and `Drop` are the start of `run_review_task` (deferral behind the index is staying
queued). `Acquire`, `GiveUp`, `Release`, `RefreshFails`, `Expire` are `RedisRunLock`: the task that refreshes
the key has no handler, so one call that raises ends it (`dead`), one that hangs outlives the key (`late`), and
the holder works on in both cases; the error of a dead one comes up at the release, which is then skipped. `Claim`, `Begin`,
`Conclude`, `ForgetProgress` are `RunReview.execute`; `StartPair`, `FinishPair`,
`FailPair`, `StopInsidePair`, `StopBetweenPairs`, `MissReviewer` are the node that
reads one pair. `Crash` and `MarkRunFailed` are the `except` branches of the worker,
`Redeliver` a worker shut down, `Kill` a worker that dies.

### Actions of `IndexBuild`

`Ask`, `Create`, `Post` are the steps of `EnqueueIndexing` and its endpoint (git is
asked between two transactions), `Abandon` a request that ends in a gap. `Take`,
`Start`, `Parse`, `StoreBatch`, `MarkSeen`, `EnterLinking`, `WriteEdges` are
transactions of `BuildIndex.execute`, `NoticeStop` its checks for a stop,
`EnterEmbedding` and `Embed` the stage that follows READY,
`LeaveUnmarked` what no handler sees. The transactions that read a status and then write another
are two steps each: `Start` and `TakeUp`, `Finish` (the last check) and `MarkReady` (behind the resolution of
all edges), `Fail` and `MarkFailed`, and in the API `AskCancel` and `Cancel`.

### Actions of `ReviewDialogue`

`Begin` chooses the loop or the single pass. `Ask`, `Respond`, `Retry`, `Refuse`, `Overflow`,
`Interrupt` are one request through `complete`; `Interrupt` is the stop check before it.
`RefuseCalls`, `RunTools`, `Nudge`, `FinishInLoop`, `GiveUpLoop` are what the loop does with
an answer, `AnswerClosing` the forced conclusion, `AnswerSinglePass` the fallback.
`RequestStop` is the user's cancellation, `ReadAgain` a second reading of the same file,
whose requests may be answered by the cache.

### Actions of `Chat`

`FindEmpty`, `StartConversation`, `OpenListed`, `AttachDocument`, `DetachDocument`,
`DeleteConversation` are HTTP requests; `Connect`, `Leave`, `Disconnect`, `Ask` the socket;
`Shutdown` ends every task. `NextStep`, `Unread`, `Replace`, `GiveUp`, `BreakOff`, `Overflow`
are `stream` and who reads it; `Answer`, `AskToLookUp`, `CallTools`, `Expand`, `Result`,
`NextCall` the agent; `RecordFinal`, `ShowFinal`, `Finally` the order in which
`AskQuestion._converse` records, yields and cleans up.

### Actions of `Workspace`

`Send` is a request; `SignIn` and `SaveSeen` are the account that every request reads and writes;
`ReadActor`, then one or two reads of the use case (`ReadRole`, `ReadInvite`, ...), then a
commit of its own (`CommitRole`, `CommitInvite`, ...), or `Abort`. A read sees what was committed
when it runs; the commit writes what was decided from the reads, subject to unique keys,
foreign keys and cascades. `Expire` lets an invitation run out. `Probe` is the call of a
provider between the two transactions of adding or refreshing a connection.

### Actions of `CodeGraph` and `Navigation`

`StartBuild`, `StoreFile`, `MarkFiles`, `WriteEdges`, `ResolveEdges`, `EndBuild` are the transactions
of a build. A reader opens a review (`OpenReview`: the index when it is ready on the commit, else git),
the index (`OpenIndex`: chat, MCP) and calls a tool. `AskGit` and `ReadChange` answer in one step, for a commit does
not change; an answer of the index goes through its statements one at a time (`FindNames`,
`FindRelated`, `CountOthers`, `ReadBodies`, `CoverLines`, `ReadFile`, `SearchWords`, ...), and a build may
act between any two.

### Actions of `InvestigationFeed`

`Insert` takes an id, `CommitStep` makes the row visible, `Announce` puts it on the channel;
`NotSaved` and `NotAnnounced` are the logged failures. `EndRun`, `ReturnRun`, `DeleteRun` are the run.
`Subscribe`, `ReadHistory`, `Send`, `Close` are a socket in the order of `stream_investigation`. `Ask` is
a client's next page after its cursor.

### Assumptions

* A transaction is one step in `ReviewRun`; what overlapping
  transactions do to a run's row is `RunTransactions`' question, and to the tables of an
  organization `Workspace`'s. In `IndexBuild` the transactions that settle a snapshot's status are two steps, the others one.
* PostgreSQL runs READ COMMITTED: a statement sees what was committed before it, an object
  loaded once is not loaded again in a session. A flush writes the columns that changed.
* The lock's key expires only when nobody refreshes it in time: the holder's refresh task has ended by an
  error, hangs in its call, or died with its worker. While it is well it refreshes every 20 s against a life of
  60 s. Redis itself loses no key. A waiter may give up whenever the key is there.
* One indexer job at a time (`INDEX_MAX_JOBS` is 1), one pair at a time
  (`DEFAULT_MAX_CONCURRENT_REVIEWS` is 1); one dialogue is a sequential program.
* arq delivers queued jobs in any order and each of them at least once. Redelivery after a
  killed or stopped worker is bounded by `MaxKills`; deferrals are not counted.
* Redis pub/sub delivers to who is subscribed, in the order of publication, and keeps nothing.
* Token counts, texts, language and the cost of calls are left out; a text is whose it is and which
  lines it has, a model's answer is what the caller asks of it. In `IndexBuild` the symbols, chunks
  and references of a file are one flag; `CodeGraph` has them.
* A parsed file has references, so its edges cannot be written when it is gone
  (`IndexBuild!WriteEdges`).
* Drafts reach `aggregate` in any order, which includes every order LangGraph produces.
* The rank that PostgreSQL's text search and pgvector give a row is open: `Navigation` takes any.
* An id of the sequence is given at the insert; ids are given in order, commits come in any.

## 3. Runs

All runs set `CHECK_DEADLOCK FALSE`: jobs, requests, snapshots, attempts, questions and
steps are used up, and a finished run, a closed page or an index nobody asks for really stops.

| Run | Instance | Shows |
|---|---|---|
| `review_race` | 2 pairs (one read by the agentic loop), 3 jobs, 2 attempts, no kill, 1 refresh that fails | `OneRefreshedInside`, `CompletedAccountsForEveryPair`, `TimeCountedOnce`, `LifecycleHolds` hold while three jobs race with the user and a second attempt may work beside the first |
| `review_live` | 1 pair, single-pass reviewers, 2 jobs, 2 attempts, one fault (a kill or a failed refresh), fair | `TypeOK`, `AttemptStartedOnce`, `QueuedJobIsServed`, `StaleAttemptLeaves`, `RunningRunEnds` hold although a worker or a refresh dies |
| `transactions_overlap` | 2 users and the worker, 2 pairs, 2 attempts | `OnlyOvertakenBreakTheRules` holds while statuses are lost |
| `index_builds` | 2 concurrent requests, 2 paths, 2 commits (one file added, one changed), 2 snapshots, 1 kill, fair | `TypeOK`, `FilesOfReadySnapshotsAreLinked`, `ReadyBuildCoversItsTree`, `OnlyOvertakenRewriteTheEnd`, `CancelledBuildEnds` hold although both requests may queue a build and a job is delivered twice |
| `findings_merge` | 3 drafts, 2 keys, 2 severities | `TypeOK`, `EveryDraftEndsOnce`, `BestDraftIsStored` |
| `dialogue_reading` | a local and a remote model, two policies, with and without a preference; 2 steps, call lists of at most 2, windows 0, 8 and 64; 2 attempts of a request; a second reading that the cache may answer; fair | `TypeOK`, `CodeStaysWithinPolicy`, `EveryCallIsAnswered`, `EvidenceWasShown`, `ReadingEnds` |
| `chat_pages` | 2 pages, 1 conversation, a local and a remote model, 2 questions with the agents' steps, 2 calls, 1 shutdown, fair | `TranscriptHolds`, `StreamStaysWithinPolicy`, `ShownAnswersAreRecorded`, `EventsAreRecordedOnce`, `RefusedOnlyWhenAllWereAsked`, `QuestionEnds` |
| `workspace_overlap` | 2 requests; an organization of two and a guest; 2 names, 2 servers, 4 accounts, 4 rows of a table | `OwnersFallOnlyTogether`, `JoinsAreInvited`, `RolesChangeByOwners`, `EditsSurviveRefresh` hold for every pair of requests, statement by statement |
| `code_navigation` | 2 builds, 2 commits, 4 files (a class, its importer, prose, a script), every tool, answers of at most 2 rows; chunks of 4 tokens, one long line | `TextMatchesItsPlace`, `RolesAreReal`, `ReadingFollowsChunks`; the assumption `InstanceChunks` says which files have chunks in order, and one has not |
| `feed_follow` | 2 readings, 1 page, 1 client, 4 steps, a page of 2 | `MissedOnlyBeyondThePage`, `ReadingsAreShownInOrder`, `FollowersLoseOnlyOvertaken` |
| `review_working`, `graph_dangling` | the instances of the component's other runs, reduced | refute one statement each, see section 5 |

Why the bounds are enough to meet the hard cases. Three jobs are a stale attempt, its
successor and a duplicate; two attempts are a cancel and a resumption or a restart; two
pairs are one that was read and one that was not, of the two kinds of reviewer. One
kill suffices for a holder that dies with the lock and a job that is delivered again; one failed refresh for a
holder that works on without the lock, whose two jobs and a third meet at the key.
Two snapshots are an interrupted or ready one and the one that must cope with it, and two
concurrent requests are enough for both to find no unfinished snapshot. Three drafts let a
key change hands twice, and of three drafts over two keys at least two share one. A
dialogue of two steps has an answer after a tool's result, a repeated call and a
conclusion that is forced; the windows, like the sizes they are compared with, are scaled down together: one
is unknown, one is too small, one is enough. Two pages in one
conversation interleave two questions, and while one model rests the other is asked. Every
hazard of an organization is between two requests; a third person is the guest who is
invited. Two builds are one that ends and the one that rewrites what it stored. Four steps
are two of each reading and two more than a page holds.

What a bound could hide is left to the proofs of section 4, which hold for every bound.
The liveness properties have none to lean on.

Symmetry is over jobs (`review_race`), users (`transactions_overlap`), drafts
(`findings_merge`), requests, names and servers (`workspace_overlap`) and readings
(`feed_follow`), which the specifications compare only for equality; runs with liveness
properties use none.

### Fairness

`ReviewRun`: weak fairness of each job's own steps, for a worker that is alive executes
its coroutine and arq delivers what it holds, and of the key's expiry, which Redis
does by itself. The user, a crash, a kill and the API's second step are owed to nobody.
Weak fairness of a job's steps together does not favour its success: a job may end by
`Crash` or `GiveUp` every time. `IndexBuild`: weak fairness of the worker's steps
together; an exception is owed only where PostgreSQL raises it, at edges to rows that are
gone and at the update of a snapshot that is gone. `ReviewDialogue`: weak fairness of the reader's work, which is one coroutine whose
calls of a provider have a time limit; what a model answers is not favoured, nor is the stop request.
`Chat`: weak fairness of the task behind each page, for the same reason; people, and the server's end, are
owed to nobody. The other modules state no liveness.

## 4. Proofs

Each theorem holds for every value of the constants that satisfies the assumptions of
the module (`Agentic` is a set of pairs, `Free` no job, the bounds are numbers;
`Severities` are numbers and `Nobody` no draft; there is a commit, its tree gives every
path a blob, and there may be a snapshot; every page has a number of steps, and so on, each
with a name in the module that declares the constants). Nothing is assumed about the sizes of the sets.

* `ReviewRunProofs!TypeCorrect`: every reachable state is well typed.
* `MutualExclusion`: at most one job inside refreshes the key. The property is not inductive: it says
  nothing of the key. `KeeperHoldsLock` says that a job whose task refreshes has its token in the
  key; then two such jobs have one token. `Expire` keeps it because a refreshed key does not lapse, `Release`
  because it compares the token: a holder that lost the key does not remove the next one's.
* `PromiseKeptWhileRefreshed`: until a refresh fails, no two attempts work at once (`OneAttemptAtWork`, which
  the code breaks afterwards, section 5). `InsideKeepsLock` adds that a job inside has lost its task only to a failed refresh:
  crashes, kills and skipped releases leave a key without a holder, never a holder without a key.
* `ClaimsAreUnique`: an attempt number is started once. It rests on `ClaimedInv`:
  started numbers do not exceed the row's, and are smaller while the run is queued.
* `NoPairIsLost`: a completed run accounts for every pair. Inductive because of what
  `Conclude` requires (no pair pending) and because no other transaction writes
  findings or marks of a completed run.
* `DurationCountsAttempts`: `TimeInv` relates the duration to the started attempts, with one
  to spare while the clock runs. It uses that claimed numbers are a finite set, and
  that a return to the queue stops the clock.
* `RunImplementsLifecycle`: refinement of `RunLifecycle`. The lemma `StepIsRowEvent` classifies every step by
  what it does to the row, so that `LifecycleStep` has six cases instead of thirty.
* Of `RunTransactions`, an instance in `ReviewRunProofs`: `RulesBreakOnlyByLostUpdates`. The invariant
  `DecisionsAreLegal` says that what an open transaction has decided is a legal move from the row it loaded, which each
  use case owes to its own checks and the aggregate's (`MovesOfTheAggregate`); `CommitKept` that a flush over the same
  status makes that move in the row. What is left are the transactions that another commit overtook.
* `FindingsProofs`: `TypeCorrect`, `DraftsAreConserved`, `MergingLosesNothing`. The invariant has
  two parts: `MergeInv` (every draft that was merged is the survivor of its key or displaced,
  and no displaced draft outranks the survivor) and `VerdictInv` (what was verified is in exactly one
  set, and in the one its attributes demand). `OutranksTransitive` carries the ranking
  over a change of hands, and `NotOutrankedPasses` turns it into the property.
* `IndexBuildProofs`: `TypeCorrect`, `TrustedFilesAreLinked`, `ReadyBuildsAreComplete`,
  `EndsAreRewrittenOnlyWhenOvertaken`, all from one invariant `IInv`. That files of ready snapshots are
  linked is not inductive: a snapshot becomes ready long after its files were
  marked as seen by it. `Progress` therefore says what the build has put into the table at
  each stage, up to the point where everything it has seen is linked; `KnownIsTrue` says
  that the hashes loaded at the beginning stay true of the files the build will not
  read, unless the index is deleted; `Begun` and `SeenByBegun` tie files to
  snapshots that were started, so that a deletion leaves no file to be wrong about;
  `Numbered` says that a redelivered job opens a snapshot no file has seen.
  `StatusMoves` lists what a step can do to a snapshot's status, and `ReadUnfinished` says that the build is about to
  write one only over a status it has read unfinished: a finished snapshot that moves was overtaken.
* `ReviewDialogueProofs`: `PolicyIsKept`, `ReadingIsTyped`, `DialogueIsAnswered`, `EvidenceIsInTheDialogue`. A request is sent to a member of what the router gives, in the
  loop, at a retry, in the conclusion and in the fallback. `SelectedIsFit`: whatever the needs and
  whoever a person prefers, it gives a model that satisfies them, the policy among them, or the installation's
  own, whose trust is the least; `PolicyInv` says that neither that nor the policy changes while a file is read.
  The other three need one invariant. That a request's calls are answered says nothing of the dialogue between requests, so
  `DialogueInv` says it of the dialogue itself, with what the tools have shown: both are kept by anything that is a whole
  round (`Round`, `Turn`), and `RefusedIsRound`, `RunIsRound`, `TwoRounds` show that each branch of the loop adds one.
  `AnswersInv` says that without tools there are no calls, which is why the forced conclusion and the single pass add a
  message that owes nothing, and that the cache, whose key has the tools, keeps this. `StagesInv` bounds the steps,
  and says that a call is skipped as repeated only when its result is in the dialogue: a skipped call shows nothing new.
* `WorkspaceProofs`: `TypesKept`, `NobodyJoinsUninvited`, `OwnersChangeRoles`, `RefreshesKeepEdits`,
  `OneRequestKeepsAnOwner`. What a request has read is not what the table holds when it commits.
  `Monotone` says what any other request may do to a row in between (an account keeps its
  organization, an invitation its organization, address and role, ids are not given again), and `SoundStays` that what a request
  concluded from its reads, in the part that its commit relies on, survives it. The owners' invariant says
  that an owner a request has read is an owner still or was demoted by a committed request (`ActorsOwned`), and
  that who demotes itself has read another owner (`OthersOwn`): with no owner left there are two
  committed demotions, of two accounts (`Together`).
* `ChatProofs`: `ShownAnswersStay`, `ChatIsTyped`, `StreamKeepsPolicy`, `RefusalMeansAllWereAsked`,
  `AnswersAreRecordedOnce`. That what is shown is recorded is not inductive: the invariant adds that a
  task about to show has its question's end in its row (or the row was deleted), and that one about to record
  holds events that end in a final one (`Tame`). `Grown` says what any step of any page may do to a row: open it, add messages
  behind the ones it has, delete it for good; `HoldsStays` that what a row holds survives each of these.
  `PagesSound` has what is true of a page alone. `Trusted`: the trust computed when the question came is the one the
  policy and the document demand now, and everyone left in the queue is within it. `Tireless`: who may answer was tried or is
  in the queue, which no replacement changes, and a refusal comes with an empty queue; `LiveFirstAsksAll` says
  that putting the rested models behind loses none. `Paced` separates the last step, in which no tool runs, and
  bounds the type. `EventsInv` has what is true of the pages together: a question belongs to one page (`Numbered`); before
  it is recorded a row has nothing of it but the question itself (`Keeping`, `Unasked`), and the page holds what the agent did; between two answers a page keeps nothing (`Standing`);
  recording puts the one behind the other and empties the page. `OnlyJoins`, `AboutMore`, `AboutRecorded` say
  what the messages of one question are after messages of this or of another question are added. Types are only
  proved here, and no run repeats them.
* `ChatImplementsTranscript`, in the same module: refinement of `Transcript`. Each step of a page opens a row, deletes it,
  adds a question or a whole answer to it (`LogOpens`, `LogGoes`, `LogGrows`), does something on a question, shows an end,
  or changes nothing that `Transcript` has (`NothingShown`). The invariants above give the guards: that an answer is recorded under its
  question and once comes from `Keeping`, that a shown end can be read from the part of `Inv` about what is about to be shown. One is
  new: while the loop goes on it has ended nothing (`Ongoing`), for which `TaskWorks` sorts the steps of stream and loop
  into those that go on in silence and those that do one thing more.
* `InvestigationFeedProofs`: `OnlyOvertakenStepsAreLost`, `PagesMissOnlyTheRest`, `PagesShowReadingsInOrder`.
  `Numbered` (ids are different, none is above the sequence) is under all three. A client's cursor is the id
  of a step it was given (`GivenUpTo`), so what it jumped over was committed later with a smaller id. A
  page that is subscribed has every announced step shown, in its queue, in what is left of its history, or behind
  the first page (`Awaited`). `InSequence` and `NoneSkipped` carry the order of one reading over the
  history, the queue and the ids that are skipped because they were in both. `NextSteps` says what a page
  of the record holds, `Ranks` that the rank of a step is a number.
* `NavigationProofs`: `TextsStayAtTheirPlace`, `NeighboursHaveTheirRoles`. An answer is put together by several
  statements, and neither property says anything between two of them. `GraphInv` is what any transaction of a build
  leaves behind: a stored file is what its build parsed of its commit (`FilesInv`), an edge leaves a symbol that makes this
  reference in the parse stored now (`Leaves`), and a target, where there is one, is a stored symbol whose name ends like the
  edge's (`Leads`). `StoreFile` keeps the last because the keys' cascades take what the replaced symbols were ends of, and
  `ResolveEdges` because of what a resolved name is (`ResolvedLeads`). A call holds rows that were read some statements ago and may be gone:
  `CallOk` says of them only that some build parsed them (`WasParsed`), which no later build can undo
  (`SnapsGrow`, `WasParsedStays`), and, while neighbours are looked up, that their name ends like the one asked for.
  An identifier has its path and build, so a row of today with the identifier of an old one is the same symbol: each statement
  is then judged alone, with what it finds today (`IncomingIsReal`, `BodyMatches`). That a qualified name ends like its suffix
  is `SuffixEnds`. `ParsesAssumption` says that a reference leaves a symbol of the same parse and that
  names are sequences, `RequestsAssumption` that a tool and a relation exist, a name is a sequence and lines have numbers,
  `ContentAssumption` that a file has a last line, `LimitsAssumption` that limits are numbers.
* Of the lines a reader gets, in the same module: `FilesAreReadInOrder` and `SplitIsReadWhole`. The first carries
  the order of the chunks of one parse (`InOrder`) over what is stored (`StoredInOrder`), what a statement selects (`OnlyRises`) and how
  the lines of overlapping chunks are put together (`ReadLinesGiven`, `ReadLinesRise`); what git cuts out is `Exact` without any condition.
  Its condition is one that cutting does not always meet (section 5). The second says when it is met: what is
  only cut by lines, and joined with nothing, is read as if it had never been cut. It rests on `PiecesCover`: with the length of a piece and the number of
  pieces both rounded, no line falls between two pieces and none of them begins after the end, whatever the overlap.

Only model-checked: liveness (`QueuedJobIsServed`, `StaleAttemptLeaves`, `RunningRunEnds`,
`CancelledBuildEnds`, `ReadingEnds`, `QuestionEnds`), which the installed provers do not
reach. What `SourceText` makes of a whole syntax tree is recursive, and no prover accepts a module
with recursive operators: which chunks are in order is known of pieces, and of the instance's files.
Out of reach in general: `ENABLED`, and induction over data. Where a proof needs what a recursive function
computes for every sequence (`OnlyIs`), it takes a least counterexample, of which the well-founded order of the
numbers gives one (`LeastIs`).

Some properties hold by a unique key or a foreign key of the database (one account for an
identity in an organization, one name of a connection): they are guards in the model, and not stated.

## 5. Disagreements

Two are runs that TLC must find violated, quoted under `findings`.

1. `graph_dangling`: resolution "closes the dangling edges". Storing a file again empties the
   targets of edges from files that did not change, and both passes skip edges that were resolved once.
2. `review_working`: "a new attempt does not begin its work until the previous one has let the run go", and a missed
   refresh does not cost the lock (`locks.py:10`, `locks.py:45`). The refresh task has no handler (`locks.py:143`): the first error ends
   it unseen, the key lapses, and a resumed run is worked on by two jobs with one checkpoint.

The models reach the following as well. Where a comment promises otherwise it is quoted; the rest is what
the code does and a reader may not expect. No property states the opposite.

*Reviews.* `cancel_run.py` says the result of a cancelled attempt is not saved: an attempt that was
past its last pair completes the run when the user resumed it in the meantime, for the closing transaction
compares no attempt number. `exceptions.py` says a stopped node must not count as finished: an
agentic pair that was stopped is kept as a degradation and the resumed run skips it. The worker takes
every `DomainError` for one already written to the run: `UnknownReviewerError` was not, and a run
resumed with the plan of other models stays running. A job of an earlier request that is delivered
late decides whether the attempt starts from scratch (`worker.py:285`). A healthy run is marked failed by a job that
waited for its lock. When a refresh of the lock has raised, the release is skipped and the worker takes a job that did its work for one that crashed
(`locks.py:117`). A checkpoint written after the deletion of its run stays (`worker.py:381`). The later of two overlapping
transactions overwrites the status of the earlier: of a cancelled run "what was found is not saved" (`entities.py:468`), but a
cancellation that read the run before its closing transaction committed overwrites `completed`, and the findings stay. A displaced draft whose quotation is confirmed but whose claim
about outside code is not is counted as without evidence.

*Index.* The next build starts "from a clean sheet" (`cancel.py:21`), but files that only an unfinished build
has seen are not among the ones that vanished (`build_index.py:237`) and stay live in a ready index of a commit without them. The time
limit ends a build by a cancellation that `except Exception` does not catch, so its snapshot stays
running (`build_index.py:167`). A cancelled snapshot is seen at the next check and left (`cancel.py:19`), and a finished status
is not left (`entities.py:387`): but the build's last check and its READY are apart, with the resolution of all edges between
them (`build_index.py:386`, 402), and a cancellation committed in between is lost, `cancelled` becoming `ready`. In the same way
the start of a build overwrites it with `running`, the handler with `failed`, and a cancellation may overwrite `ready`;
`OnlyOvertakenRewriteTheEnd` says that these are all. Two requests queue two builds, and cancelling sees the younger.

*Reading and chat.* An answer from the cache has lost its context window (`cache.py:88`), so a repeated reading may
take another course than the one it repeats. Tools are offered to a local model that
cannot call them. Two requests that both find no empty conversation start two.

*Organizations.* "An organization does not stay without an owner" (`membership.py:17`): two owners who demote each
other at once leave none (`members.py:67`). Two overlapping requests invite one address twice. An invitation that was
revoked cannot be accepted, nor an accepted one revoked (`tenancy/entities.py:241`, 260); accepting and revoking at once do both
(`invitations.py:132`): the person is a member, and the row says what was written last.

*Walking through the code.* A review takes the index because it was built on its commit (`navigators.py:18`) and
reads files that another build has stored since (`build_index.py:429`); rows and their texts come by two statements. Symbols of deleted
files count toward ambiguity, and `symbols_covering`, neighbours and the description of an index do not
leave them out. A resolved edge stays when its name becomes ambiguous. `read_file` in a hole of a file says that the file is
missing and suggests its own path. Line numbers "stay exact" because groups are cut between nodes (`chunking.py:223`), but a chunk that is joined of several
nodes or small fragments has lost the blank lines between them, so the lines that are read lag behind the file's. Overlapping chunks are
read by number "and not glued together" (`symbols.py:253`), which is to give each line once: when a short definition, a blank line and a long one
follow each other, and the first piece of the long one still fits beside the short one, the joined chunk counts its last lines one too
low for every blank line that is lost, the next piece gives the overlap under the right numbers, and `read_file` shows them twice. In `MCNavigation` this is `user.py`,
whose line 7 comes as 6 and as 7. The
part of a large definition after an inner one is in no chunk; a chunk without a symbol whose file has one takes
its code. Listing a directory gives nothing in the index, although the tool says it does (`tools.py:261`). A
call without a required argument is told that the tool does not exist (`tools.py:391`). A
timeout of the vector search is not the error its caller expects (`nodes/context.py:160`). MCP signs an answer with the state of the
index read before it. The strict order of the fused search holds for few candidates.

*Following a run.* "Neither losing nor doubling steps" (`step_broadcaster.py:36`): a page that opens
on a run with more than 200 steps is shown the first 200 and what is announced from then on
(`investigation_stream.py:86`), and one that opens a settled run the first 200. A client with a cursor loses a step whose id was given
before, and committed after, one it was given (`models/review.py:256`).

## 6. Not modelled

* Version control and diff parsing: the patch of a commit, its files and hunks are inputs. What git answers to
  a reader is `Revision`.
* Embeddings: `IndexBuild` has their stage and its end, not the batches; vectors are an open rank in `Navigation`.
* Domain events: nobody subscribes, and Redis keeps nothing. The code does not keep the promise to publish them "after the
  commit" (`application/base.py:10`): it collects them (line 19) before the commit absorbs them from the aggregates
  (`unit_of_work.py:191`), so the list is empty.
* API, schemas, CLI: translation; the handlers with a state of their own are in the modules of their components.
* Web interface: a client in another language that asks the API; its socket and its cursor are in `InvestigationFeed` and `Chat`.
* Evaluation harness, configuration, observability: sequential scripts and settings.
* In part: the review graph (its context stage and the ranking of files are single steps), repositories (policies are
  inputs), tools (searching an attached document and past findings, the rendering of MCP).

Prompts, texts of models, grammars of languages and wire formats are left out of every module.

## 7. Plan

Done, in this order, because everything a user sees depends on the first: the run and its jobs; the
index; findings; the reading of a file; chat; organizations; the code graph and its readers; the
course of an investigation. Left:

1. `RunLock`: the intervals of refresh, life and wait of the key as clocks, to bound how long a lapse may last.
2. `Embedding`: batches, stop and failure, composed with `IndexBuild`'s snapshot.
3. `ReviewOverIndex`: a review that waits for the build of its commit.
4. `code_navigation` with a third build and the languages whose references the parsers treat apart.
