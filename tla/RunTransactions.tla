-------------------------- MODULE RunTransactions --------------------------
(***************************************************************************)
(* The transactions on a review run's row as PostgreSQL executes them at   *)
(* READ COMMITTED: a session loads the row without locking it, the         *)
(* aggregate decides on what was loaded, and the flush writes the columns  *)
(* that differ from it.  There is no version column and no SELECT FOR      *)
(* UPDATE, so two transactions may overlap.                                *)
(***************************************************************************)
EXTENDS RunAggregate

CONSTANTS
    Users,       \* concurrent requests of the API
    Worker,      \* the job that holds the run's lock, and its failure handler
    MaxAttempt,  \* bound: attempts after which nobody returns the run to the queue
    Closed       \* a client without an open transaction

ASSUME WorkerAssumption == Worker \notin Users
ASSUME MaxAttemptAssumption == MaxAttempt \in Nat

Clients == Users \cup {Worker}

VARIABLES
    row,    \* the run's row in the database
    tx,     \* each client's open transaction: what it loaded, what it decided
    working \* the worker has claimed the run and has not concluded

vars == <<row, tx, working>>

Transactions == [loaded : Rows, decided : Rows]

TypeOK ==
    /\ row \in Rows
    /\ tx \in [Clients -> {Closed} \cup Transactions]
    /\ working \in BOOLEAN

Init ==
    /\ row = NewRow
    /\ tx = [c \in Clients |-> Closed]
    /\ working = FALSE

(* A use case up to its commit: the row is loaded and the aggregate's      *)
(* method is applied to it in memory.                                      *)
Decide(c, next) ==
    /\ tx[c] = Closed
    /\ row.status # Gone
    /\ tx' = [tx EXCEPT ![c] = [loaded |-> row, decided |-> next]]
    /\ UNCHANGED row

DecideCancel(u) ==
    /\ ~IsFinished(row)
    /\ Decide(u, CancelRow(row))
    /\ UNCHANGED working

DecideReturn(u) ==
    /\ IsRestartable(row)
    /\ row.attempt < MaxAttempt
    /\ \/ Decide(u, ResumeRow(row))
       \/ Decide(u, RestartRow(row))
    /\ UNCHANGED working

DecideDelete(u) ==
    /\ Decide(u, [row EXCEPT !.status = Gone])
    /\ UNCHANGED working

DecideClaim ==
    /\ ~working
    /\ row.status = "queued"
    /\ Decide(Worker, MarkRunning(row))
    /\ working' = TRUE

\* mutant: the closing transaction does not look whether the run is finished
DecideConcludeAnyRun ==
    /\ working
    /\ \E read \in SUBSET Pairs : Decide(Worker, ConcludeRow(row, read, Pairs \ read))
    /\ working' = FALSE

(* The closing transaction; what the attempt read is any set of pairs.     *)
DecideConclude ==
    /\ working
    /\ ~IsFinished(row)
    /\ \E read \in SUBSET Pairs : Decide(Worker, ConcludeRow(row, read, Pairs \ read))
    /\ working' = FALSE

(* The aggregate or the repository refuses: nothing is written.            *)
Refuse ==
    /\ working
    /\ tx[Worker] = Closed
    /\ IsFinished(row) \/ row.status = Gone
    /\ working' = FALSE
    /\ UNCHANGED <<row, tx>>

DecideFail ==
    /\ working
    /\ ~IsFinished(row)
    /\ Decide(Worker, MarkFailed(row))
    /\ working' = FALSE

(* Only columns that differ from the loaded ones are written, and new      *)
(* findings are inserted.                                                  *)
Flush(current, t) ==
    [f \in DOMAIN current |->
        CASE f = "findings" -> current[f] \cup (t.decided[f] \ t.loaded[f])
          [] f # "findings" /\ t.decided[f] # t.loaded[f] -> t.decided[f]
          [] OTHER -> current[f]]

(* An update or a deletion of a row that is no longer there matches no     *)
(* row, and the session raises instead of committing.                      *)
Commit(c) ==
    /\ tx[c] # Closed
    /\ row' = IF row.status = Gone THEN row ELSE Flush(row, tx[c])
    /\ tx' = [tx EXCEPT ![c] = Closed]
    /\ UNCHANGED working

Next ==
    \/ \E u \in Users : DecideCancel(u) \/ DecideReturn(u) \/ DecideDelete(u)
    \/ DecideClaim \/ DecideConclude \/ Refuse \/ DecideFail
    \/ \E c \in Clients : Commit(c)

Spec == Init /\ [][Next]_vars

-----------------------------------------------------------------------------
(* Properties.                                                             *)

(* The moves of the status that the aggregate, the use cases' checks and   *)
(* the repository leave to a transaction that nobody overtakes.            *)
LegalMove(from, to) ==
    \/ to \in {from, Gone}
    \/ from = "queued" /\ to = "running"
    \/ from \in Unfinished /\ to \in Finished
    \/ from \in Restartable /\ to = "queued"

Overtaken(c) == tx[c] # Closed /\ tx[c].loaded.status # row.status

(* A result, a cancellation or a failure that was committed is changed     *)
(* against the aggregate's rules by nothing but a transaction that read    *)
(* the run before another one committed: no operation of the user, of the  *)
(* attempt or of its failure handler breaks them by itself.  One that is   *)
(* overtaken does: a cancellation that read the run before its closing     *)
(* transaction committed leaves it cancelled with findings.                *)
OnlyOvertakenBreakTheRules ==
    [][\/ LegalMove(row.status, row'.status)
       \/ \E c \in Clients : Overtaken(c) /\ tx'[c] = Closed]_vars
=============================================================================
