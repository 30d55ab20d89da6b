--------------------------- MODULE ReviewRunProofs ---------------------------
(***************************************************************************)
(* Proofs about ReviewRun, for every set of jobs and of pairs and every    *)
(* bound, and about RunTransactions, whose clients have the same row.      *)
(***************************************************************************)
EXTENDS ReviewRun, TLAPS, FiniteSetTheorems

-----------------------------------------------------------------------------
(* The aggregate's methods return rows, and say nothing about the fields   *)
(* they do not mention.                                                    *)

LEMMA AggregateTypes ==
    ASSUME NEW r \in Rows
    PROVE  /\ MarkRunning(r) \in Rows
           /\ MarkFailed(r) \in Rows
           /\ CancelRow(r) \in Rows
           /\ RestartRow(r) \in Rows
           /\ ResumeRow(r) \in Rows
           /\ [r EXCEPT !.status = Gone] \in Rows
           /\ \A read, unread \in SUBSET Pairs : ConcludeRow(r, read, unread) \in Rows
<1>1. MarkRunning(r) \in Rows
  BY DEF MarkRunning, Rows, Statuses, Unfinished
<1>2. \A s \in Rows : StopClock(s) \in Rows
  BY DEF StopClock, Rows
<1>3. \A read, unread \in SUBSET Pairs :
         [r EXCEPT !.findings = @ \cup read, !.degraded = @ \cup unread] \in Rows
  BY DEF Rows
<1>4. ASSUME NEW s \in Rows
      PROVE  /\ [s EXCEPT !.status = "completed"] \in Rows
             /\ [s EXCEPT !.status = "failed"] \in Rows
             /\ [s EXCEPT !.status = "cancelled"] \in Rows
             /\ [s EXCEPT !.status = Gone] \in Rows
  <2>1. {"completed", "failed", "cancelled", Gone} \subseteq Statuses
    BY DEF Statuses, Finished
  <2>2. \A x \in {"completed", "failed", "cancelled", Gone} : [s EXCEPT !.status = x] \in Rows
    BY <2>1 DEF Rows
  <2>3. QED
    BY <2>2
<1>5. ReturnToQueue(r) \in Rows
  <2>1. "queued" \in Statuses
    BY DEF Statuses, Unfinished
  <2>2. r.attempt + 1 \in Nat \ {0}
    BY DEF Rows
  <2>3. QED
    BY <2>1, <2>2 DEF ReturnToQueue, Rows
<1>6. \A s \in Rows : [s EXCEPT !.spent = 0] \in Rows
  BY DEF Rows
<1>7. \A s \in Rows : MarkFailed(s) \in Rows /\ MarkCompleted(s) \in Rows
  BY <1>2, <1>4 DEF MarkFailed, MarkCompleted
<1>8. QED
  BY <1>1, <1>2, <1>3, <1>4, <1>5, <1>6, <1>7 DEF CancelRow, RestartRow, ResumeRow, ConcludeRow

(* What the checkpoint's operations do to the memory of the attempts.      *)
LEMMA OutdatedTypes ==
    ASSUME NEW flows \in [Jobs -> Flows]
    PROVE  Outdated(flows) \in [Jobs -> Flows]
<1>1. ASSUME NEW k \in Jobs PROVE [flows[k] EXCEPT !.current = FALSE] \in Flows
  <2>1. flows[k] \in Flows
    OBVIOUS
  <2>2. QED
    BY <2>1 DEF Flows
<1>2. QED
  BY <1>1 DEF Outdated

LEMMA KeepTypes ==
    ASSUME TypeOK, NEW j \in Jobs, NEW value \in Kept, Keep(j, value)
    PROVE  flow' \in [Jobs -> Flows] /\ saved' \in [Pairs -> Kept] /\ planned' \in BOOLEAN
<1> DEFINE p == flow[j].at
           done == [flow[j].done EXCEPT ![p] = value]
           mine == [flow EXCEPT ![j].at = "none", ![j].done = done]
<1>1. flow \in [Jobs -> Flows] /\ saved \in [Pairs -> Kept] /\ planned \in BOOLEAN
  BY DEF TypeOK
<1>2. flow[j].done \in [Pairs -> Kept]
  BY <1>1 DEF Flows
<1>3. done \in [Pairs -> Kept] /\ [saved EXCEPT ![p] = value] \in [Pairs -> Kept]
  BY <1>1, <1>2
<1>4. mine \in [Jobs -> Flows]
  <2>1. mine = [flow EXCEPT ![j] = [flow[j] EXCEPT !.at = "none", !.done = done]]
    BY <1>1
  <2>2. [flow[j] EXCEPT !.at = "none", !.done = done] \in Flows
    <3> HIDE DEF done
    <3>1. QED
      BY <1>1, <1>3 DEF Flows
  <2>3. QED
    BY <1>1, <2>1, <2>2
<1>5. /\ flow' \in {Outdated(mine), mine}
      /\ saved' \in {done, [saved EXCEPT ![p] = value], saved}
      /\ planned' \in BOOLEAN
  BY <1>1 DEF Keep
<1> HIDE DEF done, mine
<1>6. QED
  BY <1>1, <1>3, <1>4, <1>5, OutdatedTypes

(* The state of the run and of everything that works on it is well typed:  *)
(* in particular no sequence of operations puts the row in a status the    *)
(* aggregate does not know or makes its duration negative.                 *)
THEOREM TypeCorrect == Spec => []TypeOK
<1>1. Init => TypeOK
  <2>1. NewRow \in Rows
    BY DEF NewRow, Rows, Statuses, Unfinished
  <2>2. NoProgress \in [Pairs -> Kept]
    BY DEF NoProgress, Kept
  <2>3. Idle \in Flows
    BY <2>2 DEF Idle, Flows
  <2>4. [j \in Jobs |-> Idle] \in [Jobs -> Flows]
    BY <2>3
  <2>5. "unused" \in PCs /\ "none" \in Keepers
    BY DEF PCs, Keepers
  <2>6. Init => /\ row \in Rows
                /\ pc \in [Jobs -> PCs] /\ resume \in [Jobs -> BOOLEAN] /\ att \in [Jobs -> Nat]
    BY <2>1, <2>5 DEF Init
  <2>7. Init => flow \in [Jobs -> Flows] /\ keeper \in [Jobs -> Keepers] /\ saved \in [Pairs -> Kept]
    BY <2>2, <2>4, <2>5 DEF Init
  <2>8. Init => /\ lock \in Jobs \cup {Free} /\ forget \in {"none", "due", "done"}
                /\ kills \in Nat /\ lapses \in Nat /\ claimed \subseteq Nat
    BY DEF Init
  <2>9. Init => planned \in BOOLEAN
    BY DEF Init
  <2>10. QED
    BY <2>6, <2>7, <2>8, <2>9 DEF TypeOK
<1>2. TypeOK /\ [Next]_vars => TypeOK'
  <2> SUFFICES ASSUME TypeOK, [Next]_vars PROVE TypeOK'
    OBVIOUS
  <2>0. Idle \in Flows /\ \A j \in Jobs : flow[j] \in Flows
    BY DEF TypeOK, Idle, Flows, NoProgress, Kept
  <2> USE <2>0 DEF TypeOK, PCs, Inside, Failing, Over, Goto, lease, progress, Keepers
  <2>1. CASE User
    <3>1. CASE Cancel
      BY <3>1, AggregateTypes DEF Cancel
    <3>2. CASE Delete
      BY <3>2, AggregateTypes DEF Delete
    <3>3. ASSUME NEW j \in Jobs, RequestRun(j) PROVE TypeOK'
      BY <3>3 DEF RequestRun, Post
    <3>4. ASSUME NEW j \in Jobs, Restart(j) PROVE TypeOK'
      BY <3>4, AggregateTypes DEF Restart, Post
    <3>5. ASSUME NEW j \in Jobs, Resume(j) PROVE TypeOK'
      BY <3>5, AggregateTypes DEF Resume, Post
    <3>6. QED
      BY <2>1, <3>1, <3>2, <3>3, <3>4, <3>5 DEF User
  <2>2. ASSUME NEW j \in Jobs, Enqueue(j) PROVE TypeOK'
    BY <2>2 DEF Enqueue
  <2>3. ASSUME NEW j \in Jobs, JobStep(j) PROVE TypeOK'
    <3>1. CASE Take(j)
      BY <3>1 DEF Take
    <3>2. CASE Drop(j)
      BY <3>2 DEF Drop
    <3>3. CASE Acquire(j)
      BY <3>3 DEF Acquire
    <3>4. CASE GiveUp(j)
      BY <3>4 DEF GiveUp
    <3>5. CASE Claim(j)
      <4>1. row.attempt \in Nat
        BY DEF Rows
      <4>2. QED
        BY <3>5, <4>1, AggregateTypes DEF Claim
    <3>6. CASE Begin(j)
      <4>1. PICK from \in [Pairs -> Kept], others \in [Jobs -> Flows] :
               /\ saved' = from
               /\ flow' = [others EXCEPT ![j] = [at |-> "none", done |-> from,
                                                 earlier |-> resume[j] /\ planned, current |-> TRUE]]
        BY <3>6, OutdatedTypes DEF Begin, NoProgress, Kept
      <4>2. flow' \in [Jobs -> Flows]
        BY <4>1 DEF Flows
      <4>3. QED
        BY <3>6, <4>1, <4>2 DEF Begin
    <3>7. CASE PairStep(j)
      <4>1. ASSUME NEW p \in Pairs, StartPair(j, p) PROVE TypeOK'
        <5>1. [flow[j] EXCEPT !.at = p] \in Flows
          BY DEF Flows
        <5>2. flow' = [flow EXCEPT ![j] = [flow[j] EXCEPT !.at = p]]
          BY <4>1 DEF StartPair
        <5>3. QED
          BY <4>1, <5>1, <5>2 DEF StartPair
      <4>2. CASE StopBetweenPairs(j) \/ MissReviewer(j)
        BY <4>2 DEF StopBetweenPairs, MissReviewer, StopWork
      <4>3. ASSUME NEW value \in Kept, Keep(j, value) PROVE TypeOK'
        BY <4>3, KeepTypes DEF Keep
      <4>4. QED
        BY <3>7, <4>1, <4>2, <4>3 DEF PairStep, FinishPair, FailPair, StopInsidePair, Kept
    <3>8. CASE Conclude(j)
      <4>1. ReadPairs(j) \in SUBSET Pairs /\ LostPairs(j) \in SUBSET Pairs
        BY DEF ReadPairs, LostPairs
      <4>2. ConcludeRow(row, ReadPairs(j), LostPairs(j)) \in Rows
        BY <4>1, AggregateTypes
      <4>3. QED
        BY <3>8, <4>2 DEF Conclude, StopWork
    <3>9. CASE ForgetProgress(j)
      BY <3>9, OutdatedTypes DEF ForgetProgress, DropCheckpoint, NoProgress, Kept
    <3>10. CASE Release(j)
      BY <3>10 DEF Release, StopKeeping
    <3>11. CASE Crash(j)
      BY <3>11 DEF Crash, StopWork, StopKeeping
    <3>12. CASE MarkRunFailed(j)
      BY <3>12, AggregateTypes DEF MarkRunFailed
    <3>13. QED
      BY <2>3, <3>1, <3>2, <3>3, <3>4, <3>5, <3>6, <3>7, <3>8, <3>9, <3>10, <3>11,
         <3>12 DEF JobStep
  <2>4. ASSUME NEW j \in Jobs, Kill(j) \/ Redeliver(j) \/ RefreshFails(j) PROVE TypeOK'
    <3>1. CASE Kill(j)
      BY <3>1 DEF Kill, StopWork, StopKeeping
    <3>2. CASE Redeliver(j)
      <4>1. row' \in Rows
        BY <3>2, AggregateTypes DEF Redeliver
      <4>2. kills' \in Nat
        BY <3>2 DEF Redeliver
      <4>3. QED
        BY <3>2, <4>1, <4>2 DEF Redeliver
    <3>3. CASE RefreshFails(j)
      BY <3>3 DEF RefreshFails
    <3>4. QED
      BY <2>4, <3>1, <3>2, <3>3
  <2>5. CASE Expire
    BY <2>5 DEF Expire
  <2>6. CASE ForgetDeleted
    BY <2>6, OutdatedTypes DEF ForgetDeleted, DropCheckpoint, NoProgress, Kept
  <2>7. CASE UNCHANGED vars
    BY <2>7 DEF vars
  <2>8. QED
    BY <2>1, <2>2, <2>3, <2>4, <2>5, <2>6, <2>7 DEF Next
<1>3. QED
  BY <1>1, <1>2, PTL DEF Spec

-----------------------------------------------------------------------------
(* Mutual exclusion.  A refresh task at work belongs to a job inside the   *)
(* lock, and the key names that job: acquisition asks for a free key,      *)
(* release compares the token, and a refreshed key does not expire.  A job *)
(* is inside without such a task only when a refresh has failed.           *)

KeeperHoldsLock == \A j \in Jobs : keeper[j] = "alive" => pc[j] \in Inside /\ lock = j
InsideKeepsLock == \A j \in Jobs : pc[j] \in Inside => keeper[j] = "alive" \/ lapses > 0
LockInv == KeeperHoldsLock /\ InsideKeepsLock

LEMMA LockInvariant == Spec => []LockInv
<1>1. Init => LockInv
  BY DEF Init, LockInv, KeeperHoldsLock, InsideKeepsLock, Inside
<1>2. TypeOK /\ LockInv /\ [Next]_vars => LockInv'
  <2> SUFFICES ASSUME TypeOK, LockInv, [Next]_vars PROVE LockInv'
    OBVIOUS
  <2>1. /\ pc \in [Jobs -> PCs] /\ keeper \in [Jobs -> Keepers]
        /\ lapses \in Nat /\ kills \in Nat
    BY DEF TypeOK
  <2> USE <2>1 DEF LockInv, KeeperHoldsLock, InsideKeepsLock, Inside, Failing, Goto,
                   StopKeeping, lease
  <2>2. CASE User
    BY <2>2 DEF User, Cancel, Delete, RequestRun, Restart, Resume, Post
  <2>3. ASSUME NEW j \in Jobs, Enqueue(j) \/ Take(j) \/ Drop(j) \/ GiveUp(j) \/ Kill(j)
        PROVE  LockInv'
    BY <2>3 DEF Enqueue, Take, Drop, GiveUp, Kill
  <2>4. ASSUME NEW j \in Jobs, Acquire(j) PROVE LockInv'
    <3>1. \A k \in Jobs : keeper[k] # "alive"
      BY <2>4, FreeAssumption DEF Acquire
    <3>2. QED
      BY <2>4, <3>1 DEF Acquire
  <2>5. ASSUME NEW j \in Jobs, Claim(j) \/ Begin(j) \/ Conclude(j) \/ ForgetProgress(j)
        PROVE  LockInv'
    BY <2>5 DEF Claim, Begin, Conclude, ForgetProgress
  <2>6. ASSUME NEW j \in Jobs, PairStep(j) PROVE LockInv'
    BY <2>6 DEF PairStep, StartPair, StopBetweenPairs, MissReviewer, FinishPair, FailPair, StopInsidePair, Keep
  <2>7. ASSUME NEW j \in Jobs, Release(j) PROVE LockInv'
    BY <2>7 DEF Release
  <2>8. ASSUME NEW j \in Jobs, Crash(j) \/ MarkRunFailed(j) \/ Redeliver(j)
        PROVE  LockInv'
    BY <2>8 DEF Crash, MarkRunFailed, Redeliver
  <2>9. ASSUME NEW j \in Jobs, RefreshFails(j) PROVE LockInv'
    BY <2>9 DEF RefreshFails
  <2>10. CASE Expire
    BY <2>10 DEF Expire
  <2>11. CASE ForgetDeleted
    BY <2>11 DEF ForgetDeleted
  <2>12. CASE UNCHANGED vars
    BY <2>12 DEF vars
  <2>13. QED
    BY <2>2, <2>3, <2>4, <2>5, <2>6, <2>7, <2>8, <2>9, <2>10, <2>11, <2>12 DEF Next, JobStep
<1>3. QED
  BY <1>1, <1>2, TypeCorrect, PTL DEF Spec

(* Of the jobs inside, at most one refreshes the key, whatever the queue   *)
(* duplicates, whatever refreshes fail and whoever releases late: the key  *)
(* of locks.py is taken only when free and removed only by its holder.     *)
THEOREM MutualExclusion == Spec => []OneRefreshedInside
<1>1. LockInv => OneRefreshedInside
  BY DEF LockInv, KeeperHoldsLock, OneRefreshedInside
<1>2. QED
  BY <1>1, LockInvariant, PTL

(* The promise of locks.py is kept as long as every refresh comes in time: *)
(* two attempts work on the run only after one that failed.                *)
THEOREM PromiseKeptWhileRefreshed == Spec => [](lapses = 0 => OneAttemptAtWork)
<1>1. LockInv => (lapses = 0 => OneAttemptAtWork)
  BY DEF LockInv, KeeperHoldsLock, InsideKeepsLock, OneAttemptAtWork, AtWork, Inside
<1>2. QED
  BY <1>1, LockInvariant, PTL

-----------------------------------------------------------------------------
(* Everything that ever happens to the row.  The invariants about the row  *)
(* follow from these six cases, whoever the actor is.                      *)

RowUntouched == row' = row /\ claimed' = claimed
RowClaimed ==
    row.status = "queued" /\ row' = MarkRunning(row) /\ claimed' = claimed \cup {row.attempt}
RowStopped ==
    row.status \in Unfinished /\ row' \in {CancelRow(row), MarkFailed(row)} /\ claimed' = claimed
RowConcluded(j) ==
    /\ row.status \in Unfinished
    /\ Pending(j) = {}
    /\ row' = ConcludeRow(row, ReadPairs(j), LostPairs(j))
    /\ claimed' = claimed
RowReturned ==
    IsRestartable(row) /\ row' \in {RestartRow(row), ResumeRow(row)} /\ claimed' = claimed
RowDeleted ==
    row.status # Gone /\ row' = [row EXCEPT !.status = Gone] /\ claimed' = claimed

RowEvent ==
    \/ RowUntouched \/ RowClaimed \/ RowStopped \/ RowReturned \/ RowDeleted
    \/ \E j \in Jobs : RowConcluded(j)

LEMMA StepIsRowEvent ==
    ASSUME [Next]_vars
    PROVE  RowEvent
<1> USE DEF RowEvent
<1>1. CASE User
  BY <1>1 DEF User, Cancel, Delete, RequestRun, Restart, Resume, Post,
              RowStopped, RowDeleted, RowReturned, RowUntouched
<1>2. ASSUME NEW j \in Jobs, Claim(j) PROVE RowEvent
  BY <1>2 DEF Claim, RowClaimed, RowUntouched
<1>3. ASSUME NEW j \in Jobs, Conclude(j) PROVE RowEvent
  BY <1>3 DEF Conclude, RowConcluded, RowUntouched
<1>4. ASSUME NEW j \in Jobs, MarkRunFailed(j) \/ Redeliver(j) PROVE RowEvent
  BY <1>4 DEF MarkRunFailed, Redeliver, RowStopped, RowUntouched
<1>5. ASSUME NEW j \in Jobs,
             \/ Enqueue(j) \/ Take(j) \/ Drop(j) \/ Acquire(j) \/ GiveUp(j) \/ Begin(j)
             \/ PairStep(j) \/ ForgetProgress(j) \/ Release(j) \/ RefreshFails(j)
             \/ Crash(j) \/ Kill(j)
      PROVE  RowUntouched
  BY <1>5 DEF Enqueue, Take, Drop, Acquire, GiveUp, Begin, PairStep, StartPair,
              StopBetweenPairs, MissReviewer, FinishPair, FailPair, StopInsidePair, Keep, ForgetProgress,
              Release, RefreshFails, Crash, Kill, RowUntouched
<1>6. CASE Expire \/ ForgetDeleted \/ UNCHANGED vars
  BY <1>6 DEF Expire, ForgetDeleted, vars, RowUntouched
<1>7. QED
  BY <1>1, <1>2, <1>3, <1>4, <1>5, <1>6 DEF Next, JobStep

(* What the aggregate's methods do to the fields the invariants read.      *)
LEMMA StopEffect ==
    ASSUME NEW r \in Rows, NEW s \in {CancelRow(r), MarkFailed(r)}
    PROVE  /\ s.status \in {"cancelled", "failed"}
           /\ s.attempt = r.attempt
           /\ s.findings = r.findings
           /\ s.spent = IF r.clock THEN r.spent + 1 ELSE r.spent
BY DEF CancelRow, MarkFailed, StopClock, Rows

LEMMA ClaimEffect ==
    ASSUME NEW r \in Rows
    PROVE  /\ MarkRunning(r).status = "running"
           /\ MarkRunning(r).attempt = r.attempt
           /\ MarkRunning(r).findings = r.findings
           /\ MarkRunning(r).spent = r.spent
BY DEF MarkRunning, Rows

LEMMA ReturnEffect ==
    ASSUME NEW r \in Rows, NEW s \in {RestartRow(r), ResumeRow(r)}
    PROVE  /\ s.status = "queued"
           /\ s.attempt = r.attempt + 1
           /\ s.findings = r.findings
           /\ s.clock = FALSE
           /\ s.spent \in {0, r.spent}
BY DEF RestartRow, ResumeRow, ReturnToQueue, Rows

LEMMA DeleteEffect ==
    ASSUME NEW r \in Rows
    PROVE  /\ [r EXCEPT !.status = Gone].status = Gone
           /\ [r EXCEPT !.status = Gone].attempt = r.attempt
           /\ [r EXCEPT !.status = Gone].findings = r.findings
           /\ [r EXCEPT !.status = Gone].spent = r.spent
BY DEF Rows

LEMMA ConcludeEffect ==
    ASSUME TypeOK, NEW j \in Jobs, RowConcluded(j)
    PROVE  /\ row'.attempt = row.attempt
           /\ row'.spent = IF row.clock THEN row.spent + 1 ELSE row.spent
           /\ row'.findings = row.findings \cup ReadPairs(j)
           /\ row'.degraded = row.degraded \cup LostPairs(j)
           /\ row'.status = IF LostPairs(j) # {} /\ ReadPairs(j) = {} THEN "failed" ELSE "completed"
<1> DEFINE filled == [row EXCEPT !.findings = @ \cup ReadPairs(j), !.degraded = @ \cup LostPairs(j)]
<1>0. row \in Rows /\ ReadPairs(j) \in SUBSET Pairs /\ LostPairs(j) \in SUBSET Pairs
  BY DEF TypeOK, ReadPairs, LostPairs
<1>1. /\ filled.attempt = row.attempt /\ filled.spent = row.spent /\ filled.clock = row.clock
      /\ filled.findings = row.findings \cup ReadPairs(j)
      /\ filled.degraded = row.degraded \cup LostPairs(j)
      /\ filled \in Rows
  BY <1>0 DEF Rows
<1>2. \A x \in Rows : /\ MarkFailed(x).attempt = x.attempt
                      /\ MarkFailed(x).status = "failed"
                      /\ MarkFailed(x).spent = IF x.clock THEN x.spent + 1 ELSE x.spent
                      /\ MarkFailed(x).findings = x.findings
                      /\ MarkFailed(x).degraded = x.degraded
  BY DEF MarkFailed, StopClock, Rows
<1>3. \A x \in Rows : /\ MarkCompleted(x).attempt = x.attempt
                      /\ MarkCompleted(x).status = "completed"
                      /\ MarkCompleted(x).spent = IF x.clock THEN x.spent + 1 ELSE x.spent
                      /\ MarkCompleted(x).findings = x.findings
                      /\ MarkCompleted(x).degraded = x.degraded
  BY DEF MarkCompleted, StopClock, Rows
<1>4. row' = IF LostPairs(j) # {} /\ ReadPairs(j) = {} THEN MarkFailed(filled) ELSE MarkCompleted(filled)
  BY DEF RowConcluded, ConcludeRow
<1> HIDE DEF filled
<1>5. CASE LostPairs(j) # {} /\ ReadPairs(j) = {}
  BY <1>1, <1>2, <1>4, <1>5
<1>6. CASE ~(LostPairs(j) # {} /\ ReadPairs(j) = {})
  BY <1>1, <1>3, <1>4, <1>6
<1>7. QED
  BY <1>5, <1>6

-----------------------------------------------------------------------------
(* An attempt number waiting in the queue has not been started: numbers    *)
(* only grow, and the job that starts one moves the run off "queued" in    *)
(* the same transaction.                                                   *)
ClaimedInv ==
    /\ \A n \in claimed : n <= row.attempt
    /\ row.status = "queued" => row.attempt \notin claimed

LEMMA ClaimedInvariant == Spec => []ClaimedInv
<1>1. Init => ClaimedInv
  BY DEF Init, ClaimedInv
<1>2. TypeOK /\ ClaimedInv /\ [Next]_vars => ClaimedInv'
  <2> SUFFICES ASSUME TypeOK, ClaimedInv, [Next]_vars PROVE ClaimedInv'
    OBVIOUS
  <2>1. row \in Rows /\ row.attempt \in Nat /\ claimed \subseteq Nat
    BY DEF TypeOK, Rows
  <2>2. RowEvent
    BY StepIsRowEvent
  <2> USE DEF ClaimedInv
  <2>3. CASE RowUntouched
    BY <2>3 DEF RowUntouched
  <2>4. CASE RowClaimed
    BY <2>1, <2>4, ClaimEffect DEF RowClaimed
  <2>5. CASE RowStopped
    BY <2>1, <2>5, StopEffect DEF RowStopped
  <2>6. ASSUME NEW j \in Jobs, RowConcluded(j) PROVE ClaimedInv'
    <3>1. row'.attempt = row.attempt /\ row'.status \in {"failed", "completed"}
      BY <2>6, ConcludeEffect
    <3>2. QED
      BY <2>6, <3>1 DEF RowConcluded
  <2>7. CASE RowReturned
    <3>1. row'.attempt = row.attempt + 1 /\ claimed' = claimed
      BY <2>1, <2>7, ReturnEffect DEF RowReturned
    <3>2. \A n \in claimed : n \in Nat /\ n <= row.attempt
      BY <2>1
    <3>3. QED
      BY <2>1, <3>1, <3>2
  <2>8. CASE RowDeleted
    BY <2>1, <2>8, DeleteEffect DEF RowDeleted, Gone
  <2>9. QED
    BY <2>2, <2>3, <2>4, <2>5, <2>6, <2>7, <2>8 DEF RowEvent
<1>3. QED
  BY <1>1, <1>2, TypeCorrect, PTL DEF Spec

(* No attempt number is started by two jobs, whatever duplicates the queue *)
(* holds and whatever is delivered again: a job claims a queued run only   *)
(* (run_review.py), and the number in the queue is a new one.              *)
THEOREM ClaimsAreUnique == Spec => AttemptStartedOnce
<1> DEFINE Once == \A j \in Jobs :
             pc[j] = "locked" /\ pc'[j] = "claimed" => row.attempt \notin claimed
<1>1. TypeOK /\ ClaimedInv /\ [Next]_vars => [Once]_vars
  <2> SUFFICES ASSUME TypeOK, ClaimedInv, Next,
                      NEW j \in Jobs, pc[j] = "locked", pc'[j] = "claimed"
               PROVE  row.attempt \notin claimed
    OBVIOUS
  <2> USE DEF Goto
  <2>1. pc \in [Jobs -> PCs]
    BY DEF TypeOK
  <2>2. CASE Claim(j)
    BY <2>1, <2>2 DEF Claim, ClaimedInv
  <2>3. \A k \in Jobs : Claim(k) => k = j
    BY <2>1 DEF Claim
  <2>4. ~ User
    BY <2>1 DEF User, Cancel, Delete, RequestRun, Restart, Resume, Post
  <2>5. ASSUME NEW k \in Jobs,
               Enqueue(k) \/ Take(k) \/ Drop(k) \/ Acquire(k) \/ GiveUp(k) \/ Begin(k)
        PROVE  FALSE
    BY <2>1, <2>5 DEF Enqueue, Take, Drop, Acquire, GiveUp, Begin
  <2>6. ASSUME NEW k \in Jobs,
               \/ PairStep(k) \/ Conclude(k) \/ ForgetProgress(k) \/ Release(k)
               \/ RefreshFails(k)
        PROVE  FALSE
    BY <2>1, <2>6 DEF PairStep, StartPair, StopBetweenPairs, MissReviewer, FinishPair, FailPair,
                      StopInsidePair, Keep, Conclude, ForgetProgress, Release, RefreshFails
  <2>7. ASSUME NEW k \in Jobs, Crash(k) \/ MarkRunFailed(k) \/ Redeliver(k) \/ Kill(k)
        PROVE  FALSE
    BY <2>1, <2>7 DEF Crash, MarkRunFailed, Redeliver, Kill
  <2>8. ~ (Expire \/ ForgetDeleted)
    BY DEF Expire, ForgetDeleted
  <2>9. QED
    BY <2>2, <2>3, <2>4, <2>5, <2>6, <2>7, <2>8 DEF Next, JobStep
<1>2. QED
  BY <1>1, TypeCorrect, ClaimedInvariant, PTL DEF Spec, AttemptStartedOnce

-----------------------------------------------------------------------------
(* A completed run accounts for every pair of its diff: the closing        *)
(* transaction runs when the checkpoint holds an answer or a degradation   *)
(* for each, and only a return to the queue takes marks away.              *)
THEOREM NoPairIsLost == Spec => []CompletedAccountsForEveryPair
<1>1. Init => CompletedAccountsForEveryPair
  BY DEF Init, CompletedAccountsForEveryPair, NewRow
<1>2. TypeOK /\ CompletedAccountsForEveryPair /\ [Next]_vars => CompletedAccountsForEveryPair'
  <2> SUFFICES ASSUME TypeOK, CompletedAccountsForEveryPair, [Next]_vars
               PROVE  CompletedAccountsForEveryPair'
    OBVIOUS
  <2>1. row \in Rows
    BY DEF TypeOK
  <2>2. RowEvent
    BY StepIsRowEvent
  <2> USE DEF CompletedAccountsForEveryPair
  <2>3. CASE RowUntouched
    BY <2>3 DEF RowUntouched
  <2>4. CASE RowClaimed
    BY <2>1, <2>4, ClaimEffect DEF RowClaimed
  <2>5. CASE RowStopped
    BY <2>1, <2>5, StopEffect DEF RowStopped
  <2>6. ASSUME NEW j \in Jobs, RowConcluded(j) PROVE CompletedAccountsForEveryPair'
    <3>1. ReadPairs(j) \in SUBSET Pairs /\ LostPairs(j) \in SUBSET Pairs
      BY DEF ReadPairs, LostPairs
    <3>2. flow[j].done \in [Pairs -> Kept]
      BY DEF TypeOK, Flows
    <3>3. ReadPairs(j) \cup LostPairs(j) = Pairs
      BY <2>6, <3>1, <3>2 DEF RowConcluded, Pending, ReadPairs, LostPairs, Kept
    <3>4. /\ row'.findings = row.findings \cup ReadPairs(j)
          /\ row'.degraded = row.degraded \cup LostPairs(j)
      BY <2>6, ConcludeEffect
    <3>5. row.findings \subseteq Pairs /\ row.degraded \subseteq Pairs
      BY <2>1 DEF Rows
    <3>6. QED
      BY <3>3, <3>4, <3>5
  <2>7. CASE RowReturned
    BY <2>1, <2>7, ReturnEffect DEF RowReturned
  <2>8. CASE RowDeleted
    BY <2>1, <2>8, DeleteEffect DEF RowDeleted, Gone
  <2>9. QED
    BY <2>2, <2>3, <2>4, <2>5, <2>6, <2>7, <2>8 DEF RowEvent
<1>3. QED
  BY <1>1, <1>2, TypeCorrect, PTL DEF Spec

-----------------------------------------------------------------------------
(* The duration.  An attempt that is under way has been claimed and its    *)
(* interval is not in the duration yet, so there is room for it.           *)
TimeInv ==
    /\ IsFiniteSet(claimed)
    /\ row.spent <= Cardinality(claimed)
    /\ row.status \in Unfinished /\ row.clock => row.spent + 1 <= Cardinality(claimed)

(* The time of an attempt is added to the duration at most once, and the   *)
(* time in the queue never: started_at is cleared on the way back to the   *)
(* queue, so an attempt cancelled before it starts adds nothing.           *)
THEOREM DurationCountsAttempts == Spec => []TimeCountedOnce
<1>1. Init => TimeInv
  <2>1. IsFiniteSet({}) /\ Cardinality({}) = 0
    BY FS_EmptySet
  <2>2. QED
    BY <2>1 DEF Init, TimeInv, NewRow
<1>2. TypeOK /\ ClaimedInv /\ TimeInv /\ [Next]_vars => TimeInv'
  <2> SUFFICES ASSUME TypeOK, ClaimedInv, TimeInv, [Next]_vars PROVE TimeInv'
    OBVIOUS
  <2>1. row \in Rows /\ row.spent \in Nat /\ row.clock \in BOOLEAN
    BY DEF TypeOK, Rows
  <2>2. RowEvent
    BY StepIsRowEvent
  <2>3. IsFiniteSet(claimed) /\ Cardinality(claimed) \in Nat
    BY FS_CardinalityType DEF TimeInv
  <2>4. CASE RowUntouched
    BY <2>4 DEF RowUntouched, TimeInv
  <2>5. CASE RowClaimed
    <3>1. /\ IsFiniteSet(claimed')
          /\ Cardinality(claimed') = Cardinality(claimed) + 1
      BY <2>3, <2>5, FS_AddElement DEF RowClaimed, ClaimedInv
    <3>2. row'.spent = row.spent
      BY <2>1, <2>5, ClaimEffect DEF RowClaimed
    <3>3. QED
      BY <2>1, <2>3, <3>1, <3>2 DEF TimeInv
  <2>6. CASE RowStopped
    <3>1. row'.status \notin Unfinished /\ claimed' = claimed
      BY <2>1, <2>6, StopEffect DEF RowStopped, Unfinished
    <3>2. row'.spent = IF row.clock THEN row.spent + 1 ELSE row.spent
      BY <2>1, <2>6, StopEffect DEF RowStopped
    <3>3. QED
      BY <2>1, <2>3, <2>6, <3>1, <3>2 DEF RowStopped, TimeInv
  <2>7. ASSUME NEW j \in Jobs, RowConcluded(j) PROVE TimeInv'
    <3>1. row'.status \notin Unfinished /\ claimed' = claimed
      BY <2>7, ConcludeEffect DEF RowConcluded, Unfinished
    <3>2. row'.spent = IF row.clock THEN row.spent + 1 ELSE row.spent
      BY <2>7, ConcludeEffect
    <3>3. QED
      BY <2>1, <2>3, <2>7, <3>1, <3>2 DEF RowConcluded, TimeInv
  <2>8. CASE RowReturned
    <3>1. row'.clock = FALSE /\ row'.spent \in {0, row.spent} /\ claimed' = claimed
      BY <2>1, <2>8, ReturnEffect DEF RowReturned
    <3>2. QED
      BY <2>1, <2>3, <3>1 DEF TimeInv
  <2>9. CASE RowDeleted
    <3>1. row'.status \notin Unfinished /\ row'.spent = row.spent /\ claimed' = claimed
      BY <2>1, <2>9, DeleteEffect DEF RowDeleted, Unfinished, Gone
    <3>2. QED
      BY <3>1 DEF TimeInv
  <2>10. QED
    BY <2>2, <2>4, <2>5, <2>6, <2>7, <2>8, <2>9 DEF RowEvent
<1>3. TimeInv => TimeCountedOnce
  BY DEF TimeInv, TimeCountedOnce
<1>4. QED
  BY <1>1, <1>2, <1>3, TypeCorrect, ClaimedInvariant, PTL DEF Spec

-----------------------------------------------------------------------------
(* Refinement.  Every row event is a step of RunLifecycle or a stutter: a  *)
(* closing transaction that fails the run has read nothing, so it adds no  *)
(* findings.                                                               *)

LEMMA LifecycleStep ==
    ASSUME TypeOK, [Next]_vars
    PROVE  [Lifecycle!Next]_(Lifecycle!vars)
<1>1. row \in Rows /\ row.findings \in SUBSET Pairs
  BY DEF TypeOK, Rows
<1>2. RowEvent
  BY StepIsRowEvent
<1> USE DEF Lifecycle!Next, Lifecycle!vars
<1>3. CASE RowUntouched
  BY <1>3 DEF RowUntouched
<1>4. CASE RowClaimed
  <2>1. Lifecycle!Start
    BY <1>1, <1>4, ClaimEffect DEF RowClaimed, Lifecycle!Start
  <2>2. QED
    BY <2>1
<1>5. CASE RowStopped
  <2>1. Lifecycle!Stop
    BY <1>1, <1>5, StopEffect DEF RowStopped, Unfinished, Lifecycle!Stop
  <2>2. QED
    BY <2>1
<1>6. ASSUME NEW j \in Jobs, RowConcluded(j)
      PROVE  [Lifecycle!Next]_(Lifecycle!vars)
  <2>1. row.status \in {"queued", "running"} /\ row'.attempt = row.attempt
    BY <1>6, ConcludeEffect DEF RowConcluded, Unfinished
  <2>2. CASE LostPairs(j) # {} /\ ReadPairs(j) = {}
    <3>1. row'.status = "failed" /\ row'.findings = row.findings
      BY <1>6, <2>2, ConcludeEffect
    <3>2. Lifecycle!Stop
      BY <2>1, <3>1 DEF Lifecycle!Stop
    <3>3. QED
      BY <3>2
  <2>3. CASE ~(LostPairs(j) # {} /\ ReadPairs(j) = {})
    <3>1. row'.status = "completed" /\ row'.findings = row.findings \cup ReadPairs(j)
      BY <1>6, <2>3, ConcludeEffect
    <3>2. row'.findings \in SUBSET Pairs
      BY <1>1, <3>1 DEF ReadPairs
    <3>3. Lifecycle!Complete
      BY <2>1, <3>1, <3>2 DEF Lifecycle!Complete
    <3>4. QED
      BY <3>3
  <2>4. QED
    BY <2>2, <2>3
<1>7. CASE RowReturned
  <2>1. Lifecycle!ReturnToQueue
    BY <1>1, <1>7, ReturnEffect
       DEF RowReturned, IsRestartable, Restartable, Lifecycle!ReturnToQueue
  <2>2. QED
    BY <2>1
<1>8. CASE RowDeleted
  <2>1. Lifecycle!Delete
    BY <1>1, <1>8, DeleteEffect DEF RowDeleted, Gone, Lifecycle!Delete
  <2>2. QED
    BY <2>1
<1>9. QED
  BY <1>2, <1>3, <1>4, <1>5, <1>6, <1>7, <1>8 DEF RowEvent

(* The run implements the lifecycle its users see, whatever stale jobs,    *)
(* duplicates, late failure handlers and redelivered jobs write to it.     *)
THEOREM RunImplementsLifecycle == Spec => LifecycleHolds
<1>1. Init => Lifecycle!Init
  BY DEF Init, NewRow, Lifecycle!Init
<1>2. TypeOK /\ [Next]_vars => [Lifecycle!Next]_(Lifecycle!vars)
  BY LifecycleStep
<1>3. QED
  BY <1>1, <1>2, TypeCorrect, PTL DEF Spec, LifecycleHolds, Lifecycle!Spec

-----------------------------------------------------------------------------
(* The transactions on the same row, for any number of users and of        *)
(* attempts.                                                               *)

CONSTANTS Users, Worker, Closed
VARIABLES tx, working

Overlap == INSTANCE RunTransactions

(* A decision is a legal move from the row its transaction loaded.         *)
DecisionsAreLegal ==
    /\ "status" \in DOMAIN row /\ row.status \in Overlap!Statuses
    /\ DOMAIN tx = Overlap!Clients
    /\ \A c \in Overlap!Clients : tx[c] # Closed =>
          /\ tx[c].loaded.status \in Overlap!Statuses
          /\ Overlap!LegalMove(tx[c].loaded.status, tx[c].decided.status)

LEMMA MovesStayAmongStatuses ==
    ASSUME NEW from \in Overlap!Statuses, NEW to, Overlap!LegalMove(from, to)
    PROVE  to \in Overlap!Statuses
  BY DEF Overlap!LegalMove, Overlap!Statuses, Overlap!Unfinished, Overlap!Finished

LEMMA MovesOfTheAggregate ==
    ASSUME NEW r, "status" \in DOMAIN r
    PROVE  /\ Overlap!MarkRunning(r).status = "running"
           /\ Overlap!CancelRow(r).status = "cancelled"
           /\ Overlap!MarkFailed(r).status = "failed"
           /\ Overlap!RestartRow(r).status = "queued"
           /\ Overlap!ResumeRow(r).status = "queued"
           /\ [r EXCEPT !.status = Overlap!Gone].status = Overlap!Gone
           /\ \A read, unread : Overlap!ConcludeRow(r, read, unread).status \in {"completed", "failed"}
<1>1. /\ Overlap!MarkRunning(r).status = "running" /\ Overlap!CancelRow(r).status = "cancelled"
      /\ Overlap!RestartRow(r).status = "queued" /\ Overlap!ResumeRow(r).status = "queued"
      /\ [r EXCEPT !.status = Overlap!Gone].status = Overlap!Gone
  BY DEF Overlap!MarkRunning, Overlap!CancelRow, Overlap!StopClock, Overlap!RestartRow, Overlap!ResumeRow, Overlap!ReturnToQueue
<1>2. \A s : "status" \in DOMAIN s =>
         Overlap!MarkFailed(s).status = "failed" /\ Overlap!MarkCompleted(s).status = "completed"
  BY DEF Overlap!MarkFailed, Overlap!MarkCompleted, Overlap!StopClock
<1>3. \A read, unread :
         "status" \in DOMAIN [r EXCEPT !.findings = @ \cup read, !.degraded = @ \cup unread]
  OBVIOUS
<1>4. QED
  BY <1>1, <1>2, <1>3 DEF Overlap!ConcludeRow

LEMMA NotFinished ==
    ASSUME DecisionsAreLegal, row.status \notin Overlap!Finished, row.status # Overlap!Gone
    PROVE  row.status \in Overlap!Unfinished
  BY DEF DecisionsAreLegal, Overlap!Statuses

LEMMA DecisionKept ==
    ASSUME DecisionsAreLegal, NEW c \in Overlap!Clients, NEW next, Overlap!Decide(c, next),
           Overlap!LegalMove(row.status, next.status)
    PROVE  DecisionsAreLegal' /\ row' = row
<1>1. row' = row /\ tx' = [tx EXCEPT ![c] = [loaded |-> row, decided |-> next]]
  BY DEF Overlap!Decide
<1>2. tx'[c].loaded.status = row.status /\ tx'[c].decided.status = next.status
  BY <1>1 DEF DecisionsAreLegal
<1>3. \A d \in Overlap!Clients : d # c => tx'[d] = tx[d]
  BY <1>1 DEF DecisionsAreLegal
<1>4. DOMAIN tx' = Overlap!Clients
  BY <1>1 DEF DecisionsAreLegal
<1>5. QED
  BY <1>1, <1>2, <1>3, <1>4 DEF DecisionsAreLegal

LEMMA CommitKept ==
    ASSUME DecisionsAreLegal, NEW c \in Overlap!Clients, Overlap!Commit(c)
    PROVE  /\ DecisionsAreLegal'
           /\ \/ Overlap!LegalMove(row.status, row'.status)
              \/ Overlap!Overtaken(c) /\ tx'[c] = Closed
<1>1. /\ tx[c] # Closed
      /\ row' = IF row.status = Overlap!Gone THEN row ELSE Overlap!Flush(row, tx[c])
      /\ tx' = [tx EXCEPT ![c] = Closed]
  BY DEF Overlap!Commit
<1>2. DOMAIN tx' = Overlap!Clients /\ tx'[c] = Closed
      /\ \A d \in Overlap!Clients : d # c => tx'[d] = tx[d]
  BY <1>1 DEF DecisionsAreLegal
<1>3. /\ "status" \in DOMAIN Overlap!Flush(row, tx[c])
      /\ Overlap!Flush(row, tx[c]).status
            = IF tx[c].decided.status # tx[c].loaded.status THEN tx[c].decided.status ELSE row.status
  BY DEF DecisionsAreLegal, Overlap!Flush
<1>4. DecisionsAreLegal'
  <2>1. row'.status \in Overlap!Statuses
    <3>1. tx[c].decided.status \in Overlap!Statuses
      BY <1>1, MovesStayAmongStatuses DEF DecisionsAreLegal
    <3>2. QED
      BY <1>1, <1>3, <3>1 DEF DecisionsAreLegal
  <2>2. QED
    BY <1>1, <1>2, <1>3, <2>1 DEF DecisionsAreLegal
<1>5. Overlap!LegalMove(row.status, row.status)
  BY DEF Overlap!LegalMove
<1>6. CASE tx[c].loaded.status # row.status
  BY <1>1, <1>2, <1>4, <1>6 DEF Overlap!Overtaken
<1>7. CASE tx[c].loaded.status = row.status
  <2>1. Overlap!LegalMove(tx[c].loaded.status, tx[c].decided.status)
    BY <1>1 DEF DecisionsAreLegal
  <2>2. row'.status \in {row.status, tx[c].decided.status}
    BY <1>1, <1>3
  <2>3. QED
    BY <1>4, <1>5, <1>7, <2>1, <2>2
<1>8. QED
  BY <1>6, <1>7

LEMMA StepOfOverlap ==
    ASSUME DecisionsAreLegal, [Overlap!Next]_(Overlap!vars)
    PROVE  /\ DecisionsAreLegal'
           /\ \/ Overlap!LegalMove(row.status, row'.status)
              \/ \E c \in Overlap!Clients : Overlap!Overtaken(c) /\ tx'[c] = Closed
<1>0. Overlap!LegalMove(row.status, row.status)
  BY DEF Overlap!LegalMove
<1> DEFINE Stands == DecisionsAreLegal' /\ row' = row
<1>1. CASE UNCHANGED Overlap!vars
  BY <1>0, <1>1 DEF Overlap!vars, DecisionsAreLegal
<1>2. ASSUME NEW c \in Overlap!Clients, Overlap!Commit(c)
      PROVE  /\ DecisionsAreLegal'
             /\ \/ Overlap!LegalMove(row.status, row'.status)
                \/ \E d \in Overlap!Clients : Overlap!Overtaken(d) /\ tx'[d] = Closed
  BY <1>2, CommitKept
<1>3. ASSUME NEW u \in Users,
             Overlap!DecideCancel(u) \/ Overlap!DecideReturn(u) \/ Overlap!DecideDelete(u)
      PROVE  Stands
  <2>0. u \in Overlap!Clients
    BY DEF Overlap!Clients
  <2>1. CASE Overlap!DecideCancel(u)
    <3>1. Overlap!Decide(u, Overlap!CancelRow(row)) /\ row.status \in Overlap!Unfinished
      BY <2>1, NotFinished DEF Overlap!DecideCancel, Overlap!IsFinished, Overlap!Decide
    <3>2. Overlap!LegalMove(row.status, Overlap!CancelRow(row).status)
      BY <3>1, MovesOfTheAggregate DEF Overlap!LegalMove, Overlap!Finished, DecisionsAreLegal
    <3>3. QED
      BY <2>0, <3>1, <3>2, DecisionKept
  <2>2. CASE Overlap!DecideReturn(u)
    <3>1. /\ row.status \in Overlap!Restartable
          /\ Overlap!Decide(u, Overlap!ResumeRow(row)) \/ Overlap!Decide(u, Overlap!RestartRow(row))
      BY <2>2 DEF Overlap!DecideReturn, Overlap!IsRestartable
    <3>2. /\ Overlap!LegalMove(row.status, Overlap!ResumeRow(row).status)
          /\ Overlap!LegalMove(row.status, Overlap!RestartRow(row).status)
      BY <3>1, MovesOfTheAggregate DEF Overlap!LegalMove, DecisionsAreLegal
    <3>3. QED
      BY <2>0, <3>1, <3>2, DecisionKept
  <2>3. CASE Overlap!DecideDelete(u)
    <3>1. Overlap!Decide(u, [row EXCEPT !.status = Overlap!Gone])
      BY <2>3 DEF Overlap!DecideDelete
    <3>2. Overlap!LegalMove(row.status, [row EXCEPT !.status = Overlap!Gone].status)
      BY MovesOfTheAggregate DEF Overlap!LegalMove, DecisionsAreLegal
    <3>3. QED
      BY <2>0, <3>1, <3>2, DecisionKept
  <2>4. QED
    BY <1>3, <2>1, <2>2, <2>3
<1>4. ASSUME Overlap!DecideClaim \/ Overlap!DecideConclude \/ Overlap!DecideFail
      PROVE  Stands
  <2>0. Worker \in Overlap!Clients
    BY DEF Overlap!Clients
  <2>1. CASE Overlap!DecideClaim
    <3>1. Overlap!Decide(Worker, Overlap!MarkRunning(row)) /\ row.status = "queued"
      BY <2>1 DEF Overlap!DecideClaim
    <3>2. Overlap!LegalMove(row.status, Overlap!MarkRunning(row).status)
      BY <3>1, MovesOfTheAggregate DEF Overlap!LegalMove, DecisionsAreLegal
    <3>3. QED
      BY <2>0, <3>1, <3>2, DecisionKept
  <2>2. CASE Overlap!DecideConclude
    <3>1. PICK read \in SUBSET Pairs :
             Overlap!Decide(Worker, Overlap!ConcludeRow(row, read, Pairs \ read))
      BY <2>2 DEF Overlap!DecideConclude
    <3>2. row.status \in Overlap!Unfinished
      BY <2>2, NotFinished DEF Overlap!DecideConclude, Overlap!IsFinished, Overlap!Decide
    <3>3. Overlap!LegalMove(row.status, Overlap!ConcludeRow(row, read, Pairs \ read).status)
      BY <3>2, MovesOfTheAggregate DEF Overlap!LegalMove, Overlap!Finished, DecisionsAreLegal
    <3>4. QED
      BY <2>0, <3>1, <3>3, DecisionKept
  <2>3. CASE Overlap!DecideFail
    <3>1. Overlap!Decide(Worker, Overlap!MarkFailed(row)) /\ row.status \in Overlap!Unfinished
      BY <2>3, NotFinished DEF Overlap!DecideFail, Overlap!IsFinished, Overlap!Decide
    <3>2. Overlap!LegalMove(row.status, Overlap!MarkFailed(row).status)
      BY <3>1, MovesOfTheAggregate DEF Overlap!LegalMove, Overlap!Finished, DecisionsAreLegal
    <3>3. QED
      BY <2>0, <3>1, <3>2, DecisionKept
  <2>4. QED
    BY <1>4, <2>1, <2>2, <2>3
<1>5. CASE Overlap!Refuse
  BY <1>0, <1>5 DEF Overlap!Refuse, DecisionsAreLegal
<1>6. QED
  BY <1>0, <1>1, <1>2, <1>3, <1>4, <1>5 DEF Overlap!Next

(* However many users and attempts have transactions open on a run, its    *)
(* status is changed against the aggregate's rules only by one that had    *)
(* read it before another committed: there is no version column, and no    *)
(* rule is broken without such a lost update.                              *)
THEOREM RulesBreakOnlyByLostUpdates == Overlap!Spec => Overlap!OnlyOvertakenBreakTheRules
<1>1. Overlap!Init => DecisionsAreLegal
  BY DEF Overlap!Init, DecisionsAreLegal, Overlap!NewRow, Overlap!Statuses, Overlap!Unfinished
<1>2. DecisionsAreLegal /\ [Overlap!Next]_(Overlap!vars) => DecisionsAreLegal'
  BY StepOfOverlap
<1>3. DecisionsAreLegal /\ [Overlap!Next]_(Overlap!vars)
         => [\/ Overlap!LegalMove(row.status, row'.status)
             \/ \E c \in Overlap!Clients : Overlap!Overtaken(c) /\ tx'[c] = Closed]_(Overlap!vars)
  BY StepOfOverlap
<1>4. QED
  BY <1>1, <1>2, <1>3, PTL DEF Overlap!Spec, Overlap!OnlyOvertakenBreakTheRules
=============================================================================
