------------------------- MODULE InvestigationFeed -------------------------
(***************************************************************************)
(* The course of an investigation as people follow it.  Several files are  *)
(* read at once; each reading, and each stage of the pipeline, records a   *)
(* step in a short transaction of its own and then announces it on the     *)
(* channel of the run.  A page with a socket subscribes to the channel and *)
(* then reads what is already recorded; a client of the API asks again and *)
(* again for what follows its cursor.                                      *)
(*                                                                         *)
(* What a step says is left out.  A failure to save or to announce a step  *)
(* is logged and stops nothing; a worker that dies between the two is such *)
(* a failure.                                                              *)
(***************************************************************************)
EXTENDS Integers, SequencesExt

CONSTANTS
    Readings,   \* of files, and of stages of the pipeline, that go on at once
    Watchers,   \* pages with a socket
    Followers,  \* clients that ask with a cursor
    Page,       \* DEFAULT_PAGE: steps in one answer
    MaxSteps    \* bound: steps ever inserted

ASSUME FeedAssumption == Page \in Nat \ {0} /\ MaxSteps \in Nat

VARIABLES
    cursor,  \* the last id that the table gave out
    log,     \* investigation_step of this run, in the order of the commits
    sink,    \* each reading's call of record
    sent,    \* cursors of the steps that were announced
    run,     \* "live", "ended" or "deleted"
    page,    \* each watcher's page and socket
    client   \* each follower's cursor and what it was given

vars == <<cursor, log, sink, sent, run, page, client>>

StepOf(c, r) == [cursor |-> c, by |-> r]
Idle == [at |-> "idle", step |-> 0]

(* The table and the channel.                                              *)

Earlier(s, t) == s.cursor < t.cursor

(* How many of some steps have a smaller id.                               *)
Rank(s, steps) == Cardinality({t \in steps : Earlier(t, s)})

(* list_for_run: the next steps after a cursor, by id.                     *)
ListAfter(c) ==
    LET rows == {s \in ToSet(log) : s.cursor > c}
        size == Cardinality(rows)
    IN  [i \in 1..(IF size < Page THEN size ELSE Page) |->
            CHOOSE s \in rows : Rank(s, rows) = i - 1]

\* mutant: the channel is listened to once the history has been sent
ReceiversLate == {w \in Watchers : page[w].at = "streaming" /\ page[w].left = <<>>}

Receivers == {w \in Watchers : page[w].at \in {"subscribed", "streaming"}}

(***************************************************************************)
(* Recording a step.                                                       *)

(* The insert takes the next id and shows nothing yet.  The row refers to  *)
(* the run's row, which cannot be deleted until this transaction ends.     *)
Insert(r) ==
    /\ run = "live"
    /\ sink[r] = Idle
    /\ cursor < MaxSteps
    /\ cursor' = cursor + 1
    /\ sink' = [sink EXCEPT ![r] = [at |-> "writing", step |-> cursor + 1]]
    /\ UNCHANGED <<log, sent, run, page, client>>

CommitStep(r) ==
    /\ sink[r].at = "writing"
    /\ log' = Append(log, StepOf(sink[r].step, r))
    /\ sink' = [sink EXCEPT ![r].at = "written"]
    /\ UNCHANGED <<cursor, sent, run, page, client>>

(* investigation.step_not_saved                                            *)
NotSaved(r) ==
    /\ sink[r].at = "writing"
    /\ sink' = [sink EXCEPT ![r] = Idle]
    /\ UNCHANGED <<cursor, log, sent, run, page, client>>

Announce(r) ==
    /\ sink[r].at = "written"
    /\ sent' = sent \cup {sink[r].step}
    /\ page' = [w \in Watchers |->
                   IF w \in Receivers
                   THEN [page[w] EXCEPT !.queue = Append(@, StepOf(sink[r].step, r))]
                   ELSE page[w]]
    /\ sink' = [sink EXCEPT ![r] = Idle]
    /\ UNCHANGED <<cursor, log, run, client>>

(* investigation.step_not_broadcast                                        *)
NotAnnounced(r) ==
    /\ sink[r].at = "written"
    /\ sink' = [sink EXCEPT ![r] = Idle]
    /\ UNCHANGED <<cursor, log, sent, run, page, client>>

(* The readings have returned, or have died, before the run ends.          *)
EndRun ==
    /\ run = "live"
    /\ \A r \in Readings : sink[r] = Idle
    /\ run' = "ended"
    /\ UNCHANGED <<cursor, log, sink, sent, page, client>>

(* Resumed or restarted, the run keeps its steps.                          *)
ReturnRun ==
    /\ run = "ended"
    /\ run' = "live"
    /\ UNCHANGED <<cursor, log, sink, sent, page, client>>

(* The steps go with the run.                                              *)
DeleteRun ==
    /\ run # "deleted"
    /\ \A r \in Readings : sink[r].at # "writing"
    /\ run' = "deleted"
    /\ log' = <<>>
    /\ UNCHANGED <<cursor, sink, sent, page, client>>

(***************************************************************************)
(* Watching.                                                               *)

Away == [at |-> "away", queue |-> <<>>, left |-> <<>>, shown |-> <<>>]

(* The page opens a socket while the run is live, and again when it is     *)
(* mounted again; what it has shown stays.                                 *)
Subscribe(w) ==
    /\ page[w].at \in {"away", "closed"}
    /\ run = "live"
    /\ page' = [page EXCEPT ![w].at = "subscribed", ![w].queue = <<>>, ![w].left = <<>>]
    /\ UNCHANGED <<cursor, log, sink, sent, run, client>>

(* The run is looked for, then its first page is read; a run deleted       *)
(* before is refused, one deleted in between has no steps.                 *)
ReadHistory(w) ==
    /\ page[w].at = "subscribed"
    /\ \/ page' = [page EXCEPT ![w].at = "streaming", ![w].left = ListAfter(0)]
       \/ run = "deleted" /\ page' = [page EXCEPT ![w].at = "closed"]
    /\ UNCHANGED <<cursor, log, sink, sent, run, client>>

(* The page drops a step whose cursor it has seen.                         *)
Shown(w, s) == IF s \in ToSet(page[w].shown) THEN page[w].shown ELSE Append(page[w].shown, s)

\* mutant: what is announced is not held back until the history is sent
SendLiveFirst(w) ==
    /\ page[w].at = "streaming"
    /\ \/ /\ page[w].left # <<>> /\ page[w].queue = <<>>
          /\ page' = [page EXCEPT ![w].left = Tail(@), ![w].shown = Shown(w, Head(page[w].left))]
       \/ /\ page[w].queue # <<>>
          /\ page' = [page EXCEPT ![w].queue = Tail(@), ![w].shown = Shown(w, Head(page[w].queue))]
    /\ UNCHANGED <<cursor, log, sink, sent, run, client>>

(* First the history, then the messages of the subscription.               *)
Send(w) ==
    /\ page[w].at = "streaming"
    /\ \/ /\ page[w].left # <<>>
          /\ page' = [page EXCEPT ![w].left = Tail(@), ![w].shown = Shown(w, Head(page[w].left))]
       \/ /\ page[w].left = <<>> /\ page[w].queue # <<>>
          /\ page' = [page EXCEPT ![w].queue = Tail(@), ![w].shown = Shown(w, Head(page[w].queue))]
    /\ UNCHANGED <<cursor, log, sink, sent, run, client>>

(* The page is left, the run ends or the connection breaks: nothing is     *)
(* sent any more.                                                          *)
Close(w) ==
    /\ page[w].at \in {"subscribed", "streaming"}
    /\ page' = [page EXCEPT ![w].at = "closed", ![w].queue = <<>>, ![w].left = <<>>]
    /\ UNCHANGED <<cursor, log, sink, sent, run, client>>

(***************************************************************************)
(* Following.                                                              *)

Unasked == [after |-> 0, given |-> {}]

\* mutant: the next question starts after the last step there is
AskToTheEnd(f) ==
    /\ run # "deleted"
    /\ ListAfter(client[f].after) # <<>>
    /\ client' = [client EXCEPT ![f] = [after |-> cursor,
                                        given |-> @.given \cup ToSet(ListAfter(@.after))]]
    /\ UNCHANGED <<cursor, log, sink, sent, run, page>>

(* next_cursor is the id of the last step given, or the one asked with.    *)
Ask(f) ==
    /\ run # "deleted"
    /\ LET steps == ListAfter(client[f].after) IN
       /\ steps # <<>>
       /\ client' = [client EXCEPT ![f] = [after |-> Last(steps).cursor,
                                           given |-> @.given \cup ToSet(steps)]]
    /\ UNCHANGED <<cursor, log, sink, sent, run, page>>

-----------------------------------------------------------------------------
Init ==
    /\ cursor = 0 /\ log = <<>> /\ sent = {} /\ run = "live"
    /\ sink = [r \in Readings |-> Idle]
    /\ page = [w \in Watchers |-> Away]
    /\ client = [f \in Followers |-> Unasked]

Record(r) == Insert(r) \/ CommitStep(r) \/ NotSaved(r) \/ Announce(r) \/ NotAnnounced(r)

Stream(w) == Subscribe(w) \/ ReadHistory(w) \/ Send(w) \/ Close(w)

Next ==
    \/ \E r \in Readings : Record(r)
    \/ EndRun \/ ReturnRun \/ DeleteRun
    \/ \E w \in Watchers : Stream(w)
    \/ \E f \in Followers : Ask(f)

Spec == Init /\ [][Next]_vars

-----------------------------------------------------------------------------
(* "Without losing or doubling a step" (RedisStepBroadcaster), as far as   *)
(* the code keeps it: a page that has shown all it was sent misses an      *)
(* announced step only if at least a whole page of steps came before it,   *)
(* for the history is read once and never continued.  Subscribing before   *)
(* reading loses nothing in between.                                       *)
MissedOnlyBeyondThePage ==
    \A w \in Watchers :
        page[w].at = "streaming" /\ page[w].left = <<>> /\ page[w].queue = <<>> =>
            \A s \in ToSet(log) :
                s.cursor \in sent /\ s \notin ToSet(page[w].shown) =>
                    Rank(s, ToSet(log)) \geq Page

(* The announced steps of one reading appear on a page in the order they   *)
(* were made, whichever of them came from the record and which from the    *)
(* channel, and however often the socket was opened again.  Steps that     *)
(* were never announced are left out: a page sees one only in the record,  *)
(* perhaps at a later opening, after steps that followed it.               *)
ReadingsAreShownInOrder ==
    \A w \in Watchers : \A i, j \in DOMAIN page[w].shown :
        LET s == page[w].shown[i]
            t == page[w].shown[j]
        IN  i < j /\ s.by = t.by /\ {s.cursor, t.cursor} \subseteq sent => Earlier(s, t)

(* A client that continues from its cursor is refused a step for good only *)
(* if the step was overtaken: a later id was committed, and given to the   *)
(* client, before it.                                                      *)
FollowersLoseOnlyOvertaken ==
    \A f \in Followers : \A i \in DOMAIN log :
        log[i].cursor \leq client[f].after /\ log[i] \notin client[f].given =>
            \E j \in 1..(i - 1) : Earlier(log[i], log[j]) /\ log[j] \in client[f].given

=============================================================================
