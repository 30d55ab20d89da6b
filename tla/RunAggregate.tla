---------------------------- MODULE RunAggregate ----------------------------
(***************************************************************************)
(* The review run as the aggregate ReviewRun keeps it and the review_runs  *)
(* table stores it.  Every operator takes the row a transaction has loaded *)
(* and returns the row that its commit writes; a method that raises is an  *)
(* operator whose guard is false.  Diff, language, token counts and texts  *)
(* are left out: tokens are written by the transaction that writes the     *)
(* findings and by no other.                                               *)
(***************************************************************************)
EXTENDS Integers, FiniteSets

CONSTANT
    Pairs       \* the planned pairs "file x reviewer" of the diff

Unfinished == {"queued", "running"}
Finished == {"completed", "failed", "cancelled"}
Restartable == {"failed", "cancelled"}
Gone == "gone"                      \* the row has been deleted

Statuses == Unfinished \cup Finished \cup {Gone}

(* clock: started_at is set.  spent: how many attempts' running time the   *)
(* duration holds.  findings: the pairs whose findings are stored.         *)
(* degraded: the pairs marked as not read.                                 *)
Rows == [status   : Statuses,
         attempt  : Nat \ {0},
         clock    : BOOLEAN,
         spent    : Nat,
         findings : SUBSET Pairs,
         degraded : SUBSET Pairs]

NewRow == [status   |-> "queued",
           attempt  |-> 1,
           clock    |-> FALSE,
           spent    |-> 0,
           findings |-> {},
           degraded |-> {}]

IsFinished(r) == r.status \in Finished
IsRestartable(r) == r.status \in Restartable

\* mutant: the interval is taken with its ends swapped
StopClockBackwards(r) == [r EXCEPT !.spent = IF r.clock THEN @ - 1 ELSE @]

(* _stop_clock: an attempt that never started adds no time.                *)
StopClock(r) == [r EXCEPT !.spent = IF r.clock THEN @ + 1 ELSE @]

MarkRunning(r) == [r EXCEPT !.status = "running", !.clock = TRUE]
MarkCompleted(r) == StopClock([r EXCEPT !.status = "completed"])
MarkFailed(r) == StopClock([r EXCEPT !.status = "failed"])
CancelRow(r) == StopClock([r EXCEPT !.status = "cancelled"])

\* mutant: started_at survives the return to the queue
ReturnWithClock(r) == [r EXCEPT !.status = "queued",
                                !.attempt = @ + 1,
                                !.degraded = {}]

ReturnToQueue(r) == [r EXCEPT !.status = "queued",
                              !.attempt = @ + 1,
                              !.clock = FALSE,
                              !.degraded = {}]
ResumeRow(r) == ReturnToQueue(r)
RestartRow(r) == [ReturnToQueue(r) EXCEPT !.spent = 0]

(* The closing transaction of RunReview.execute on a run that is not       *)
(* finished: the findings of the pairs that were read, marks for the pairs *)
(* that were not, and failure only when nothing was read at all.           *)
ConcludeRow(r, read, unread) ==
    LET filled == [r EXCEPT !.findings = @ \cup read, !.degraded = @ \cup unread]
    IN  IF unread # {} /\ read = {} THEN MarkFailed(filled) ELSE MarkCompleted(filled)
=============================================================================
