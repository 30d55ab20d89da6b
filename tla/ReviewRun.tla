------------------------------ MODULE ReviewRun ------------------------------
(***************************************************************************)
(* One review run and everything that works on it: the API's operations on *)
(* its row, the arq jobs they enqueue, the reviewer workers that execute   *)
(* the jobs, the Redis lock that lets one of them in, and the progress the *)
(* checkpointer keeps between attempts.                                    *)
(*                                                                         *)
(* A transaction is one step: it reads the row and commits against the row *)
(* it read (RunTransactions lets them overlap).  Redis calls, checkpoint    *)
(* writes and model calls are steps of their own, so every other actor can *)
(* act between them.                                                       *)
(***************************************************************************)
EXTENDS RunAggregate

CONSTANTS
    Jobs,        \* identities of the jobs enqueued for the run, used once each
    Agentic,     \* the pairs read by the agentic loop, the others in one pass
    MaxAttempt,  \* bound: attempts after which nobody returns the run to the queue
    MaxKills,    \* bound: faults after which no worker is killed or shut down
    MaxLapses,   \* bound: faults after which no refresh of the lock fails
    Free         \* the lock is not set

ASSUME AgenticAssumption == Agentic \subseteq Pairs
ASSUME BoundsAssumption == MaxAttempt \in Nat /\ MaxKills \in Nat /\ MaxLapses \in Nat
ASSUME FreeAssumption == Free \notin Jobs

VARIABLES
    row,      \* the run's row in the database
    pc,       \* where each job is
    resume,   \* the argument each job was enqueued with
    att,      \* the attempt number a job remembers, 0 before it claims one
    flow,     \* what the graph of a job at work has in memory
    lock,     \* the job whose token is in the lock's key, or Free
    keeper,   \* the task that refreshes the key a job took
    saved,    \* the newest checkpoint: what is kept for each pair
    planned,  \* there is a checkpoint, and with it a plan of pairs and reviewers
    forget,   \* the task that removes a deleted run's checkpoint
    kills,    \* workers killed or shut down so far
    lapses,   \* refresh tasks ended early so far
    claimed   \* history: attempt numbers some job has started

progress == <<saved, planned, flow>>
lease == <<lock, keeper, lapses>>
vars == <<row, pc, resume, att, lease, progress, forget, kills, claimed>>

-----------------------------------------------------------------------------
(* Program counters of a job.  Inside are those between the acquisition of *)
(* the lock and its release.                                               *)

Inside == {"locked", "claimed", "between", "reading", "saved", "leaving", "failing"}
Failing == {"busy", "marking"}
Over == {"done", "dropped", "unsaved"}
PCs == {"unused", "posting", "queued", "waiting"} \cup Inside \cup Failing \cup Over

(* What is kept for a pair: nothing, the reviewer's answer, a degradation  *)
(* because the reviewer failed, or one because it was told to stop.        *)
Kept == {"unread", "read", "failed", "stopped"}
NoProgress == [p \in Pairs |-> "unread"]

(* The graph of one attempt: the pair it is reading, the results it holds, *)
(* whether its plan is an earlier attempt's, and whether the checkpoint it *)
(* started from, to which its results are attached, is the newest one.     *)
Flows == [at      : Pairs \cup {"none"},
          done    : [Pairs -> Kept],
          earlier : BOOLEAN,
          current : BOOLEAN]
Idle == [at |-> "none", done |-> NoProgress, earlier |-> FALSE, current |-> FALSE]

Pending(j) == {p \in Pairs : flow[j].done[p] = "unread"}
\* mutant: the outcome is read back from the checkpoint
ReadPairsSaved(j) == {p \in Pairs : saved[p] = "read"}
ReadPairs(j) == {p \in Pairs : flow[j].done[p] = "read"}
LostPairs(j) == {p \in Pairs : flow[j].done[p] \in {"failed", "stopped"}}

(* The refresh task: at work; hanging in a call that does not return in    *)
(* time; or ended by an error that nobody looks at until the release.      *)
Keepers == {"none", "alive", "late", "dead"}

TypeOK ==
    /\ row \in Rows
    /\ pc \in [Jobs -> PCs]
    /\ resume \in [Jobs -> BOOLEAN]
    /\ att \in [Jobs -> Nat]
    /\ flow \in [Jobs -> Flows]
    /\ lock \in Jobs \cup {Free}
    /\ keeper \in [Jobs -> Keepers]
    /\ saved \in [Pairs -> Kept]
    /\ planned \in BOOLEAN
    /\ forget \in {"none", "due", "done"}
    /\ kills \in Nat
    /\ lapses \in Nat
    /\ claimed \subseteq Nat

Init ==
    /\ row = NewRow
    /\ pc = [j \in Jobs |-> "unused"]
    /\ resume = [j \in Jobs |-> FALSE]
    /\ att = [j \in Jobs |-> 0]
    /\ flow = [j \in Jobs |-> Idle]
    /\ lock = Free
    /\ keeper = [j \in Jobs |-> "none"]
    /\ saved = NoProgress
    /\ planned = FALSE
    /\ forget = "none"
    /\ kills = 0
    /\ lapses = 0
    /\ claimed = {}

Goto(j, label) == pc' = [pc EXCEPT ![j] = label]
StopWork(j) == flow' = [flow EXCEPT ![j] = Idle]
StopKeeping(j) == keeper' = [keeper EXCEPT ![j] = "none"]

faults == kills + lapses

-----------------------------------------------------------------------------
(* The API.  The status change commits before the job is enqueued, and the *)
(* request can end in between.                                             *)

Post(j, flag) ==
    /\ pc[j] = "unused"
    /\ Goto(j, "posting")
    /\ resume' = [resume EXCEPT ![j] = flag]
    /\ UNCHANGED <<att, lease, progress, forget, kills, claimed>>

RequestRun(j) ==
    /\ row.status = "queued"
    /\ Post(j, FALSE)
    /\ UNCHANGED row

Restart(j) ==
    /\ IsRestartable(row)
    /\ row.attempt < MaxAttempt
    /\ row' = RestartRow(row)
    /\ Post(j, FALSE)

Resume(j) ==
    /\ IsRestartable(row)
    /\ row.attempt < MaxAttempt
    /\ row' = ResumeRow(row)
    /\ Post(j, TRUE)

Enqueue(j) ==
    /\ pc[j] = "posting"
    /\ \/ Goto(j, "queued")
       \/ Goto(j, "dropped")
    /\ UNCHANGED <<row, resume, att, lease, progress, forget, kills, claimed>>

Cancel ==
    /\ row.status \in Unfinished
    /\ row' = CancelRow(row)
    /\ UNCHANGED <<pc, resume, att, lease, progress, forget, kills, claimed>>

Delete ==
    /\ row.status # Gone
    /\ row' = [row EXCEPT !.status = Gone]
    /\ forget' = "due"
    /\ UNCHANGED <<pc, resume, att, lease, progress, kills, claimed>>

-----------------------------------------------------------------------------
(* The job before it holds the lock.  While the repository's index is      *)
(* being built the job stays queued; it is dropped when the index is not   *)
(* ready after the last try, or when the pipeline cannot be assembled.     *)

Take(j) ==
    /\ pc[j] = "queued"
    /\ Goto(j, IF row.status = Gone THEN "done" ELSE "waiting")
    /\ UNCHANGED <<row, resume, att, lease, progress, forget, kills, claimed>>

Drop(j) ==
    /\ pc[j] = "queued"
    /\ row.status # Gone
    /\ Goto(j, "dropped")
    /\ UNCHANGED <<row, resume, att, lease, progress, forget, kills, claimed>>

Acquire(j) ==
    /\ pc[j] = "waiting"
    /\ lock = Free
    /\ lock' = j
    /\ keeper' = [keeper EXCEPT ![j] = "alive"]
    /\ Goto(j, "locked")
    /\ UNCHANGED <<row, resume, att, lapses, progress, forget, kills, claimed>>

\* mutant: the busy lock is not reported as a failure of the run
GiveUpQuietly(j) ==
    /\ pc[j] = "waiting"
    /\ lock # Free
    /\ Goto(j, "done")
    /\ UNCHANGED <<row, resume, att, lease, progress, forget, kills, claimed>>

(* The wait ends while the key is there: its holder works, or it has died  *)
(* so late in the wait that the key outlives it.                           *)
GiveUp(j) ==
    /\ pc[j] = "waiting"
    /\ lock # Free
    /\ Goto(j, "busy")
    /\ UNCHANGED <<row, resume, att, lease, progress, forget, kills, claimed>>

-----------------------------------------------------------------------------
(* The job inside the lock.                                                *)

\* mutant: a run that is already running is accepted again
ClaimUnfinished(j) ==
    /\ pc[j] = "locked"
    /\ row.status \in Unfinished
    /\ row' = MarkRunning(row)
    /\ att' = [att EXCEPT ![j] = row.attempt]
    /\ claimed' = claimed \cup {row.attempt}
    /\ Goto(j, "claimed")
    /\ UNCHANGED <<resume, lease, progress, forget, kills>>

Claim(j) ==
    /\ pc[j] = "locked"
    /\ IF row.status = "queued"
       THEN /\ row' = MarkRunning(row)
            /\ att' = [att EXCEPT ![j] = row.attempt]
            /\ claimed' = claimed \cup {row.attempt}
            /\ Goto(j, "claimed")
       ELSE /\ Goto(j, "leaving")
            /\ UNCHANGED <<row, att, claimed>>
    /\ UNCHANGED <<resume, lease, progress, forget, kills>>

(* The graph of every other attempt is attached to an older checkpoint.    *)
Outdated(flows) == [k \in Jobs |-> [flows[k] EXCEPT !.current = FALSE]]

(* A start from scratch forgets the progress and plans the reading anew; a *)
(* resumed one goes on from the progress and its plan, or from the         *)
(* beginning when there is none.                                           *)
Begin(j) ==
    LET goesOn == resume[j] /\ planned
        from == IF goesOn THEN saved ELSE NoProgress
        others == IF goesOn THEN flow ELSE Outdated(flow)
    IN  /\ pc[j] = "claimed"
        /\ saved' = from
        /\ planned' = TRUE
        /\ flow' = [others EXCEPT ![j] = [at |-> "none", done |-> from,
                                          earlier |-> goesOn, current |-> TRUE]]
        /\ Goto(j, "between")
        /\ UNCHANGED <<row, resume, att, lease, forget, kills, claimed>>

StopRequested(j) == row.status = "cancelled" \/ row.attempt # att[j]

StartPair(j, p) ==
    /\ pc[j] = "between"
    /\ p \in Pending(j)
    /\ row.status # Gone
    /\ ~StopRequested(j)
    /\ flow' = [flow EXCEPT ![j].at = p]
    /\ Goto(j, "reading")
    /\ UNCHANGED <<row, resume, att, lease, saved, planned, forget, kills, claimed>>

(* ReviewInterruptedError, or EntityNotFoundError when the row is gone:    *)
(* either way the job ends without writing to the run.                     *)
StopBetweenPairs(j) ==
    /\ pc[j] = "between"
    /\ Pending(j) # {}
    /\ row.status = Gone \/ StopRequested(j)
    /\ StopWork(j)
    /\ Goto(j, "leaving")
    /\ UNCHANGED <<row, resume, att, lease, saved, planned, forget, kills, claimed>>

(* The tenant's models decide whether there is an agentic reviewer: an     *)
(* earlier plan may name one that this job's pipeline does not have.  The  *)
(* error is a DomainError, which the worker takes for one that the use     *)
(* case has already written to the run.                                    *)
MissReviewer(j) ==
    /\ pc[j] = "between"
    /\ flow[j].earlier
    /\ Pending(j) \cap Agentic # {}
    /\ row.status # Gone
    /\ ~StopRequested(j)
    /\ StopWork(j)
    /\ Goto(j, "leaving")
    /\ UNCHANGED <<row, resume, att, lease, saved, planned, forget, kills, claimed>>

(* The result joins the checkpoint the attempt started from, where the     *)
(* first one kept for a pair stays; the last result ends the stage, which  *)
(* writes a new checkpoint with everything this attempt holds.             *)
Keep(j, value) ==
    LET p == flow[j].at
        done == [flow[j].done EXCEPT ![p] = value]
        mine == [flow EXCEPT ![j].at = "none", ![j].done = done]
        whole == \A q \in Pairs : done[q] # "unread"
        joins == flow[j].current /\ saved[p] = "unread"
    IN  /\ pc[j] = "reading"
        /\ flow' = IF whole THEN Outdated(mine) ELSE mine
        /\ saved' = IF whole THEN done ELSE IF joins THEN [saved EXCEPT ![p] = value] ELSE saved
        /\ planned' = (planned \/ whole)
        /\ Goto(j, "between")
        /\ UNCHANGED <<row, resume, att, lease, forget, kills, claimed>>

FinishPair(j) == Keep(j, "read")
FailPair(j) == Keep(j, "failed")

(* The agentic loop asks between model calls and raises; the node treats   *)
(* that DomainError as a reviewer that failed, and its result is kept.     *)
StopInsidePair(j) ==
    /\ flow[j].at \in Agentic
    /\ row.status = Gone \/ StopRequested(j)
    /\ Keep(j, "stopped")

\* mutant: the outcome of a stopped pipeline is not told from a complete one
ConcludeStopped(j) ==
    /\ pc[j] = "between"
    /\ Pending(j) = {} \/ StopRequested(j)
    /\ row.status \in Unfinished
    /\ row' = ConcludeRow(row, ReadPairs(j), LostPairs(j))
    /\ StopWork(j)
    /\ Goto(j, IF row'.status = "completed" THEN "saved" ELSE "leaving")
    /\ UNCHANGED <<resume, att, lease, saved, planned, forget, kills, claimed>>

(* Nothing is asked after the last pair: merging, checking and the closing *)
(* transaction follow.  On a finished run the aggregate raises, on a       *)
(* deleted one the repository does.                                        *)
Conclude(j) ==
    /\ pc[j] = "between"
    /\ Pending(j) = {}
    /\ IF row.status \in Unfinished
       THEN /\ row' = ConcludeRow(row, ReadPairs(j), LostPairs(j))
            /\ Goto(j, IF row'.status = "completed" THEN "saved" ELSE "leaving")
       ELSE /\ Goto(j, "leaving")
            /\ UNCHANGED row
    /\ StopWork(j)
    /\ UNCHANGED <<resume, att, lease, saved, planned, forget, kills, claimed>>

(* Deleting the thread leaves an attempt at work what it has in memory.    *)
DropCheckpoint ==
    /\ saved' = NoProgress
    /\ planned' = FALSE
    /\ flow' = Outdated(flow)

ForgetProgress(j) ==
    /\ pc[j] = "saved"
    /\ DropCheckpoint
    /\ Goto(j, "leaving")
    /\ UNCHANGED <<row, resume, att, lease, forget, kills, claimed>>

-----------------------------------------------------------------------------
(* The key.  A task of the holder refreshes it three times as often as it  *)
(* needs, but has no handler of its own: one refresh that raises ends the  *)
(* task, one that hangs outlives the key, and the holder works on.         *)

RefreshFails(j) ==
    /\ keeper[j] = "alive"
    /\ faults < MaxLapses
    /\ lapses' = lapses + 1
    /\ \E how \in {"late", "dead"} : keeper' = [keeper EXCEPT ![j] = how]
    /\ UNCHANGED <<row, pc, resume, att, lock, progress, forget, kills, claimed>>

\* mutant: the key is set without a time to live
NeverExpire == FALSE /\ UNCHANGED vars

(* The key's time to live runs out when nobody refreshes it.               *)
Expire ==
    /\ lock # Free
    /\ keeper[lock] # "alive"
    /\ lock' = Free
    /\ UNCHANGED <<row, pc, resume, att, keeper, lapses, progress, forget, kills, claimed>>

\* mutant: DEL without comparing the token
ReleaseAnyKey(j) ==
    /\ pc[j] \in {"leaving", "failing"}
    /\ IF keeper[j] = "dead"
       THEN Goto(j, "marking") /\ UNCHANGED lock
       ELSE /\ lock' = Free
            /\ Goto(j, IF pc[j] = "leaving" THEN "done" ELSE "marking")
    /\ StopKeeping(j)
    /\ UNCHANGED <<row, resume, att, lapses, progress, forget, kills, claimed>>

(* The error that ended the refresh task comes up when the holder waits    *)
(* for it, before the key is removed: the release is skipped, and the      *)
(* worker treats a job that did its work as one that crashed.              *)
Release(j) ==
    /\ pc[j] \in {"leaving", "failing"}
    /\ IF keeper[j] = "dead"
       THEN Goto(j, "marking") /\ UNCHANGED lock
       ELSE /\ lock' = IF lock = j THEN Free ELSE lock
            /\ Goto(j, IF pc[j] = "leaving" THEN "done" ELSE "marking")
    /\ StopKeeping(j)
    /\ UNCHANGED <<row, resume, att, lapses, progress, forget, kills, claimed>>

-----------------------------------------------------------------------------
(* Failure.  An unforeseen exception, or the job's time limit, ends the    *)
(* job at any point; the handler that marks the run failed runs after the  *)
(* lock was released and may itself fail to save.                          *)

\* mutant: the worker swallows the exception without marking the run
CrashSilently(j) ==
    /\ pc[j] \in Inside \ {"leaving", "failing"}
    /\ Goto(j, "leaving")
    /\ StopWork(j)
    /\ UNCHANGED <<row, resume, att, lease, saved, planned, forget, kills, claimed>>

Crash(j) ==
    /\ \/ /\ pc[j] \in Inside \ {"leaving", "failing"}
          /\ Goto(j, "failing")
          /\ UNCHANGED keeper
       \/ /\ pc[j] \in {"waiting", "leaving", "failing"}
          /\ Goto(j, "marking")
          /\ StopKeeping(j)
    /\ StopWork(j)
    /\ UNCHANGED <<row, resume, att, lock, lapses, saved, planned, forget, kills, claimed>>

\* mutant: the handler does not look whether the run is finished
MarkAnyRunFailed(j) ==
    /\ pc[j] \in Failing
    /\ row' = IF row.status = Gone THEN row ELSE MarkFailed(row)
    /\ Goto(j, "done")
    /\ UNCHANGED <<resume, att, lease, progress, forget, kills, claimed>>

MarkRunFailed(j) ==
    /\ pc[j] \in Failing
    /\ \/ /\ row' = IF row.status \in Unfinished THEN MarkFailed(row) ELSE row
          /\ Goto(j, "done")
       \/ /\ Goto(j, "unsaved")
          /\ UNCHANGED row
    /\ UNCHANGED <<resume, att, lease, progress, forget, kills, claimed>>

(* A worker that is shut down cancels its jobs: the handler runs, and arq  *)
(* delivers the job again.                                                 *)
Redeliver(j) ==
    /\ pc[j] = "marking"
    /\ faults < MaxKills
    /\ kills' = kills + 1
    /\ row' = IF row.status \in Unfinished THEN MarkFailed(row) ELSE row
    /\ Goto(j, "queued")
    /\ UNCHANGED <<resume, att, lease, progress, forget, claimed>>

(* A worker that is killed runs no handler; arq delivers its job again.    *)
Kill(j) ==
    /\ pc[j] \in {"waiting"} \cup Inside \cup Failing
    /\ faults < MaxKills
    /\ kills' = kills + 1
    /\ StopWork(j)
    /\ StopKeeping(j)
    /\ Goto(j, "queued")
    /\ UNCHANGED <<row, resume, att, lock, lapses, saved, planned, forget, claimed>>

(* forget_checkpoint_task of a deleted run; its own failure is swallowed.  *)
ForgetDeleted ==
    /\ forget = "due"
    /\ forget' = "done"
    /\ DropCheckpoint
    /\ UNCHANGED <<row, pc, resume, att, lease, kills, claimed>>

-----------------------------------------------------------------------------
User == Cancel \/ Delete \/ \E j \in Jobs : RequestRun(j) \/ Restart(j) \/ Resume(j)

PairStep(j) ==
    \/ \E p \in Pairs : StartPair(j, p)
    \/ StopBetweenPairs(j) \/ MissReviewer(j) \/ FinishPair(j) \/ FailPair(j) \/ StopInsidePair(j)

JobStep(j) ==
    \/ Take(j) \/ Drop(j) \/ Acquire(j) \/ GiveUp(j)
    \/ Claim(j) \/ Begin(j) \/ PairStep(j) \/ Conclude(j) \/ ForgetProgress(j)
    \/ Release(j) \/ Crash(j) \/ MarkRunFailed(j)

Next ==
    \/ User
    \/ \E j \in Jobs : Enqueue(j) \/ JobStep(j) \/ RefreshFails(j) \/ Redeliver(j) \/ Kill(j)
    \/ Expire
    \/ ForgetDeleted

Spec == Init /\ [][Next]_vars

(* A running worker keeps executing its job and arq keeps delivering; the  *)
(* user, the failures and the API's second step are not owed to anybody.   *)
Fairness ==
    /\ \A j \in Jobs : WF_vars(JobStep(j))
    /\ WF_vars(Expire)

FairSpec == Spec /\ Fairness

-----------------------------------------------------------------------------
(* Properties.                                                             *)

(* Of the jobs inside the lock at most one still refreshes the key: a      *)
(* second attempt gets in only past a holder whose refreshes ended early,  *)
(* and that holder, when it leaves, does not let a third one in by         *)
(* removing the key of the second (locks.py).                              *)
OneRefreshedInside ==
    \A j, k \in Jobs :
        keeper[j] = "alive" /\ keeper[k] = "alive" /\ pc[j] \in Inside /\ pc[k] \in Inside
            => j = k

(* Two attempts do not work on the run at the same time: "a new attempt    *)
(* does not begin its work until the previous one has let the run go"      *)
(* (locks.py).  The code does not keep this promise.                       *)
AtWork == {"claimed", "between", "reading", "saved"}
OneAttemptAtWork ==
    \A j, k \in Jobs : pc[j] \in AtWork /\ pc[k] \in AtWork => j = k

(* An attempt number is started by one job only, whatever duplicates the   *)
(* queue holds, whatever is delivered twice after a worker was killed.     *)
AttemptStartedOnce ==
    [][\A j \in Jobs :
          pc[j] = "locked" /\ pc'[j] = "claimed" => row.attempt \notin claimed]_vars

(* A completed run accounts for every pair of the diff: its findings are   *)
(* there or it carries a mark that the pair was not read.  No stop, crash, *)
(* kill or resumption makes a pair disappear from the result.              *)
CompletedAccountsForEveryPair ==
    row.status = "completed" => row.findings \cup row.degraded = Pairs

(* The duration counts an attempt's time once and never the time a run     *)
(* spent waiting in the queue: at most one interval for a started attempt. *)
TimeCountedOnce == row.spent <= Cardinality(claimed)

(* Seen from outside the run is the one RunLifecycle promises, although    *)
(* stale jobs, duplicates and late handlers all write to its row.          *)
Lifecycle == INSTANCE RunLifecycle
    WITH status <- row.status, attempt <- row.attempt, findings <- row.findings
LifecycleHolds == Lifecycle!Spec

(* A job that arq holds is served: the run leaves the queue, unless the    *)
(* job was dropped (index never ready, pipeline not assembled) or its      *)
(* handler could not save the failure.  A busy lock does not starve it.    *)
QueuedJobIsServed ==
    \A j \in Jobs :
        (row.status = "queued" /\ pc[j] = "queued")
            ~> (row.status # "queued" \/ pc[j] \in {"dropped", "unsaved"})

(* An attempt whose run was cancelled, or returned to the queue under a    *)
(* new number, loses the lock, even when its worker dies or its release    *)
(* does not reach Redis: the run is never dead for the next attempt.       *)
StaleAttemptLeaves ==
    \A j \in Jobs : (lock = j /\ StopRequested(j)) ~> lock # j

(* A run does not stay "running" for ever: only a killed worker, or a      *)
(* failure that could not be saved, leaves it so.  Without an agentic      *)
(* reviewer in the plan that holds; with one it does not, although the     *)
(* worker's comment says that a DomainError has been written to the run.   *)
RunningRunEnds ==
    row.status = "running"
        ~> (row.status # "running" \/ kills > 0 \/ \E j \in Jobs : pc[j] = "unsaved")
=============================================================================
