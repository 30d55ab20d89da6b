-------------------------------- MODULE Chat --------------------------------
(***************************************************************************)
(* Conversations about the code.  A page starts or finds a conversation,   *)
(* opens a socket and asks; the agent answers in a loop over tools, or, in *)
(* one pass, from what a search finds; every request is a stream of the    *)
(* model, replaced by another model as long as nothing was said.  Several  *)
(* pages may speak in one conversation.                                    *)
(*                                                                         *)
(* A question whose repository has no index, or that is not a legal text,  *)
(* is refused and changes nothing: it is not an action here.  A model that *)
(* was offered no tools calls none.                                        *)
(***************************************************************************)
EXTENDS ModelRouter, FiniteSets, TLC

CONSTANTS
    Pages,          \* browser pages, each with at most one socket
    Conversations,  \* bound: conversations there will ever be
    Tenants, TenantOf,
    Preferences,    \* what a person may choose: models, or Nameless
    MaxQuestions,   \* bound: questions asked by all pages
    MaxSteps,       \* DEFAULT_MAX_STEPS; a bound, it may differ by page
    MaxCalls,       \* bound: calls in one answer
    MaxShutdowns,   \* bound: after so many ends of the server nobody connects
    None, Deleted  \* rows that are not there yet, and not any more

ASSUME ChatAssumption ==
    /\ Preferences \subseteq Models \cup {Nameless}
    /\ TenantOf \in [Pages -> Tenants]
    /\ MaxQuestions \in Nat /\ MaxCalls \in Nat
    /\ MaxSteps \in [Pages -> Nat \ {0}]
    /\ None # Deleted

AgenticContext == 16
Questions == 1..MaxQuestions

INSTANCE Conversation

ASSUME NoRowAssumption == None \notin ConversationOf /\ Deleted \notin ConversationOf

VARIABLES
    choice, policy,   \* the models and the repository's egress rank
    conversations,    \* rows: None, a conversation, or Deleted
    page,             \* what each page and the task behind its socket do
    asked,            \* questions asked so far
    happened,         \* what the agent did on a question, notes left out
    shown,            \* questions, with where, whose final event reached a page
    shutdowns

given == <<choice, policy>>
vars == <<given, conversations, page, asked, happened, shown, shutdowns>>

Ranks == {"local", "private", "training"}
MaxTrust == [local |-> 0, private |-> 1, training |-> 2]

Away == [at |-> "home", on |-> None, reader |-> FALSE, agentic |-> FALSE, trust |-> 0,
         document |-> FALSE, preferred |-> Nameless, question |-> None, step |-> 0,
         nudged |-> FALSE, queue |-> <<>>, tried |-> {}, calls |-> 0,
         said |-> <<>>, refused |-> FALSE, cooling |-> {}]

At(p, phase) == page[p].at = phase
Goes(p, phase) == page' = [page EXCEPT ![p].at = phase]
Rows == {c \in Conversations : conversations[c] \notin {None, Deleted}}
Row(p) == conversations[page[p].on]
Exists(p) == page[p].on \in Rows

InitWith(choices, ranks) ==
    /\ choice \in choices /\ policy \in ranks
    /\ conversations = [c \in Conversations |-> None]
    /\ page = [p \in Pages |-> Away]
    /\ asked = 0 /\ happened = [q \in Questions |-> <<>>]
    /\ shown = {} /\ shutdowns = 0

Init == InitWith([Models -> ModelChoice({0, AgenticContext})], Ranks)

-----------------------------------------------------------------------------
(* StartConversation: an empty conversation is looked for in one step and  *)
(* a new one is committed in another.                                      *)
Empties(p) == {c \in Rows : conversations[c].tenant = TenantOf[p] /\ IsEmpty(conversations[c])}

FindEmpty(p) ==
    /\ At(p, "home")
    /\ IF Empties(p) # {}
       THEN \E c \in Empties(p) : page' = [page EXCEPT ![p].at = "open", ![p].on = c]
       ELSE Goes(p, "starting")
    /\ UNCHANGED <<given, conversations, asked, happened, shown, shutdowns>>

StartConversation(p) ==
    /\ At(p, "starting")
    /\ \E c \in Conversations, m \in Preferences :
         /\ conversations[c] = None
         /\ conversations' = [conversations EXCEPT ![c] = Start(TenantOf[p], m)]
         /\ page' = [page EXCEPT ![p].at = "open", ![p].on = c]
    /\ UNCHANGED <<given, asked, happened, shown, shutdowns>>

(* Requests about a conversation that is read and written in one short     *)
(* transaction.                                                            *)
Changes(p, new) ==
    /\ Exists(p) /\ EnsureOwn(Row(p), TenantOf[p])
    /\ conversations' = [conversations EXCEPT ![page[p].on] = new]
    /\ UNCHANGED <<given, page, asked, happened, shown, shutdowns>>

AttachDocument(p) == asked < MaxQuestions /\ Changes(p, Attached(Row(p)))
DetachDocument(p) == asked < MaxQuestions /\ Changes(p, Detached(Row(p)))
DeleteConversation(p) == Changes(p, Deleted)

(* Any page of the tenant may open a listed conversation.                  *)
OpenListed(p) ==
    /\ At(p, "home")
    /\ \E c \in Rows : conversations[c].tenant = TenantOf[p]
                       /\ page' = [page EXCEPT ![p].at = "open", ![p].on = c]
    /\ UNCHANGED <<given, conversations, asked, happened, shown, shutdowns>>

-----------------------------------------------------------------------------
(* The socket.  The agent and what its client remembers of refusals live   *)
(* as long as the socket.                                                  *)
Connect(p) ==
    /\ At(p, "open") /\ asked < MaxQuestions /\ shutdowns < MaxShutdowns
    /\ page' = [page EXCEPT ![p] = [Away EXCEPT !.at = "idle", !.on = page[p].on, !.reader = TRUE]]
    /\ UNCHANGED <<given, conversations, asked, happened, shown, shutdowns>>

(* Whether somebody reads is asked where something is sent: leaving        *)
(* between two such places is leaving at the second.                       *)
Leave(p) ==
    /\ page[p].reader
    /\ \/ page[p].at \in {"streaming", "calling", "between", "showing"}
       \/ At(p, "idle") /\ asked < MaxQuestions
    /\ page' = [page EXCEPT ![p].reader = FALSE]
    /\ UNCHANGED <<given, conversations, asked, happened, shown, shutdowns>>

Closed(p) == [Away EXCEPT !.at = "open", !.on = page[p].on]

Disconnect(p) ==
    /\ At(p, "idle") /\ ~page[p].reader
    /\ page' = [page EXCEPT ![p] = Closed(p)]
    /\ UNCHANGED <<given, conversations, asked, happened, shown, shutdowns>>

Shutdown ==
    /\ shutdowns < MaxShutdowns
    /\ shutdowns' = shutdowns + 1
    /\ page' = [p \in Pages |-> IF page[p].at \in {"home", "starting"} THEN Away ELSE Closed(p)]
    /\ UNCHANGED <<given, conversations, asked, happened, shown>>

\* mutant: the policy of the repository decides alone
RepositoryTrust(c) == MaxTrust[policy]

(* The document keeps the conversation local whatever the repository says. *)
AllowedTrust(c) == IF c.document THEN 0 ELSE MaxTrust[policy]

(* build_chat_agent asks once, for the widest policy.                      *)
ToolsAtAll == SupportsToolCalling(choice, TrainingRemote)

Ask(p) ==
    /\ At(p, "idle") /\ page[p].reader
    /\ IF Exists(p) /\ EnsureOwn(Row(p), TenantOf[p])
       THEN /\ asked' = asked + 1 /\ asked' \in Questions
            /\ conversations' = [conversations EXCEPT ![page[p].on] = Asked(@, asked')]
            /\ page' = [page EXCEPT ![p] = [@ EXCEPT
                         !.at = "stepping", !.question = asked', !.agentic = ToolsAtAll,
                         !.trust = AllowedTrust(Row(p)), !.document = Row(p).document,
                         !.preferred = Row(p).preferred, !.step = 0, !.nudged = FALSE]]
       ELSE /\ page' = [page EXCEPT ![p] = Away]
            /\ UNCHANGED <<conversations, asked>>
    /\ UNCHANGED <<given, happened, shown, shutdowns>>

-----------------------------------------------------------------------------
(* LiteLlmClient.stream.                                                   *)
PlainNeeds(p) ==
    [deep |-> TRUE, tools |-> FALSE, context |-> 0, out |-> 0,
     trust |-> page[p].trust, preferred |-> page[p].preferred]

WithToolCalling(p) == [PlainNeeds(p) EXCEPT !.tools = TRUE, !.context = AgenticContext]

Requirements(p) == IF page[p].agentic THEN WithToolCalling(p) ELSE PlainNeeds(p)

\* mutant: models that rest are left out
LiveOnly(models, cooling) == Only(models, Models \ cooling)

LiveFirst(models, cooling) ==
    Only(models, Models \ cooling) \o Only(models, cooling)

Candidates(needs) ==
    <<Select(choice, needs)>> \o Alternatives(choice, needs, Select(choice, needs))

Asking(p) == Head(page[p].queue)

IsLast(p) == page[p].step = MaxSteps[p]

(* What the agent yields is kept and, unless nobody reads any more, sent;  *)
(* a generator that is closed ends in its finally.                         *)
Yields(p, event, new) ==
    /\ page' = [page EXCEPT ![p] = [new EXCEPT !.said = Append(@, event),
                                               !.at = IF page[p].reader THEN @ ELSE "finishing"]]
    /\ happened' = [happened EXCEPT ![page[p].question] = Append(@, event)]
    /\ UNCHANGED <<given, conversations, asked, shown, shutdowns>>

(* A note is shown and becomes no message.                                 *)
Notes(p, new) ==
    /\ page' = [page EXCEPT ![p] = [new EXCEPT !.at = IF page[p].reader THEN @ ELSE "finishing"]]
    /\ UNCHANGED <<given, conversations, asked, happened, shown, shutdowns>>

Quietly(p, new) ==
    /\ page' = [page EXCEPT ![p] = new]
    /\ UNCHANGED <<given, conversations, asked, happened, shown, shutdowns>>

(* The stream has ended.                                                   *)
Over(p) == [page[p] EXCEPT !.queue = <<>>, !.tried = {}]

(* A final event is recorded before it is sent.                            *)
Concludes(p, event) ==
    /\ page' = [page EXCEPT ![p] = [Over(p) EXCEPT !.at = "recording", !.said = Append(@, event)]]
    /\ happened' = [happened EXCEPT ![page[p].question] = Append(@, event)]
    /\ UNCHANGED <<given, conversations, asked, shown, shutdowns>>

(* Some of those that rested may have recovered by now.                    *)
NextStep(p) ==
    /\ At(p, "stepping")
    /\ \E resting \in SUBSET page[p].cooling :
         Quietly(p, [page[p] EXCEPT !.at = "streaming", !.step = @ + 1, !.cooling = resting,
                       !.queue = LiveFirst(Candidates(Requirements(p)), resting)])

(* A piece of text is sent and not kept; there may be nobody to send it to.*)
Unread(p) ==
    /\ At(p, "streaming") /\ ~page[p].reader /\ page[p].queue # <<>>
    /\ Quietly(p, [Over(p) EXCEPT !.at = "finishing"])

(* A refusal before the first text: the model rests, the next is asked.    *)
Replace(p) ==
    LET rest == [page[p] EXCEPT !.cooling = @ \cup {Asking(p)}, !.queue = Tail(@),
                                !.tried = @ \cup {Asking(p)}]
    IN  /\ At(p, "streaming") /\ Len(page[p].queue) > 1
        /\ Notes(p, rest)

GiveUp(p) ==
    /\ At(p, "streaming") /\ Len(page[p].queue) <= 1
    /\ page' = [page EXCEPT ![p].at = "recording", ![p].said = Append(@, "failure"),
                  ![p].queue = <<>>, ![p].refused = TRUE,
                  ![p].tried = @ \cup Among(page[p].queue), ![p].cooling = @ \cup Among(page[p].queue)]
    /\ happened' = [happened EXCEPT ![page[p].question] = Append(@, "failure")]
    /\ UNCHANGED <<given, conversations, asked, shown, shutdowns>>

\* mutant: the loop goes on after a stream that failed
BreakAndGoOn(p) ==
    At(p, "streaming") /\ page[p].queue # <<>>
    /\ Yields(p, "failure", [Over(p) EXCEPT !.at = "stepping"])

(* A failure after the first text.                                         *)
BreakOff(p) == At(p, "streaming") /\ page[p].queue # <<>> /\ Concludes(p, "failure")

(* The window is full: the loop falls back to one pass, one pass fails.    *)
Overflow(p) ==
    /\ At(p, "streaming")
    /\ \/ page[p].agentic
          /\ Notes(p, [Over(p) EXCEPT !.at = "stepping", !.agentic = FALSE])
       \/ ~page[p].agentic /\ Concludes(p, "failure")

-----------------------------------------------------------------------------
(* The loop.                                                               *)
Answer(p) == At(p, "streaming") /\ page[p].queue # <<>> /\ Concludes(p, "answer")

AskToLookUp(p) ==
    /\ At(p, "streaming") /\ page[p].queue # <<>>
    /\ page[p].agentic /\ ~IsLast(p) /\ ~page[p].nudged
    /\ Notes(p, [Over(p) EXCEPT !.at = "stepping", !.nudged = TRUE])

CallTools(p) ==
    /\ At(p, "streaming") /\ page[p].queue # <<>>
    /\ page[p].agentic /\ ~IsLast(p)
    /\ \E n \in 1..MaxCalls :
         Yields(p, "call", [Over(p) EXCEPT !.at = "calling", !.calls = n])

(* search_code asks a model to put prose into names; a refusal of that     *)
(* request is not heard.                                                   *)
Expand(p) ==
    /\ At(p, "calling")
    /\ Quietly(p, [page[p] EXCEPT !.at = "expanding", !.queue = <<Select(choice, PlainNeeds(p))>>])

Result(p) ==
    /\ page[p].at \in {"calling", "expanding"}
    /\ Yields(p, "result", [Over(p) EXCEPT !.calls = @ - 1,
                              !.at = IF page[p].calls = 1 THEN "stepping" ELSE "between"])

NextCall(p) == At(p, "between") /\ Yields(p, "call", [page[p] EXCEPT !.at = "calling"])

-----------------------------------------------------------------------------
(* _converse and _record.  A conversation that is gone ends the task.      *)
Recorded(p) ==
    conversations' = [conversations EXCEPT
        ![page[p].on] = ApplyChanges(@, page[p].said, page[p].question)]

(* What is left of a task: who reads, its question, what rests.           *)
Finished(p) == [Away EXCEPT !.on = page[p].on, !.reader = page[p].reader,
                            !.question = page[p].question, !.cooling = page[p].cooling]

\* mutant: recording waits for a conversation that is gone
RecordWhenThere(p) ==
    /\ At(p, "recording") /\ Exists(p) /\ Recorded(p)
    /\ page' = [page EXCEPT ![p] = [Finished(p) EXCEPT !.at = "showing"]]
    /\ UNCHANGED <<given, asked, happened, shown, shutdowns>>

\* mutant: the final event is left to the finally
LeaveToFinally(p) ==
    /\ At(p, "recording")
    /\ page' = [page EXCEPT ![p].at = "showing"]
    /\ UNCHANGED <<given, conversations, asked, happened, shown, shutdowns>>

\* mutant: what was recorded is not forgotten
RecordAndKeep(p) ==
    /\ At(p, "recording")
    /\ IF Exists(p)
       THEN Recorded(p) /\ page' = [page EXCEPT ![p].at = "showing"]
       ELSE page' = [page EXCEPT ![p] = Closed(p)] /\ UNCHANGED conversations
    /\ UNCHANGED <<given, asked, happened, shown, shutdowns>>

RecordFinal(p) ==
    /\ At(p, "recording")
    /\ IF Exists(p)
       THEN Recorded(p) /\ page' = [page EXCEPT ![p] = [Finished(p) EXCEPT !.at = "showing"]]
       ELSE page' = [page EXCEPT ![p] = Closed(p)] /\ UNCHANGED conversations
    /\ UNCHANGED <<given, asked, happened, shown, shutdowns>>

ShowFinal(p) ==
    /\ At(p, "showing")
    /\ shown' = IF page[p].reader THEN shown \cup {<<page[p].question, page[p].on>>} ELSE shown
    /\ Goes(p, "finishing")
    /\ UNCHANGED <<given, conversations, asked, happened, shutdowns>>

Finally(p) ==
    /\ At(p, "finishing")
    /\ IF page[p].said # <<>> /\ Exists(p) THEN Recorded(p) ELSE UNCHANGED conversations
    /\ page' = [page EXCEPT ![p] =
                  IF page[p].reader /\ (page[p].said = <<>> \/ Exists(p))
                  THEN [Finished(p) EXCEPT !.at = "idle", !.question = None]
                  ELSE Closed(p)]
    /\ UNCHANGED <<given, asked, happened, shown, shutdowns>>

-----------------------------------------------------------------------------
Stream(p) == NextStep(p) \/ Unread(p) \/ Replace(p) \/ GiveUp(p) \/ BreakOff(p) \/ Overflow(p)
Loop(p) == Answer(p) \/ AskToLookUp(p) \/ CallTools(p) \/ Expand(p) \/ Result(p) \/ NextCall(p)
Recording(p) == RecordFinal(p) \/ ShowFinal(p) \/ Finally(p)
Task(p) == Stream(p) \/ Loop(p) \/ Recording(p)

Requests(p) ==
    \/ FindEmpty(p) \/ StartConversation(p) \/ OpenListed(p)
    \/ AttachDocument(p) \/ DetachDocument(p) \/ DeleteConversation(p)
Socket(p) == Connect(p) \/ Leave(p) \/ Disconnect(p) \/ Ask(p)

Next == (\E p \in Pages : Requests(p) \/ Socket(p) \/ Task(p)) \/ Shutdown
Spec == Init /\ [][Next]_vars
FairSpec == Spec /\ \A p \in Pages : WF_vars(Task(p))

-----------------------------------------------------------------------------
Phases == {"home", "starting", "open", "idle", "stepping", "streaming", "calling", "expanding",
           "between", "recording", "showing", "finishing"}

\* The rows are conversations, and a page's task is in a known phase with a
\* budget that the loop respects (AgenticChatAgent, stream_chat).
TypeOK ==
    /\ \A c \in Rows : /\ DOMAIN conversations[c] = {"tenant", "messages", "document", "preferred"}
                       /\ \A i \in DOMAIN conversations[c].messages :
                             conversations[c].messages[i] \in ChatMessage
    /\ \A p \in Pages :
         /\ page[p].at \in Phases /\ page[p].on \in Conversations \cup {None}
         /\ page[p].cooling \subseteq Models /\ Among(page[p].queue) \subseteq Models
         /\ page[p].step \in 0..(MaxSteps[p] + 1) /\ page[p].calls \in 0..MaxCalls
         /\ Among(page[p].said) \subseteq EventKinds
    /\ shown \subseteq (1..asked) \X Conversations /\ asked \in 0..MaxQuestions

\* No request of a conversation, be it a replacement for a model that refused
\* or the expansion of a query, goes further than the repository allows, and
\* none goes to a remote model when it speaks of an attached document
\* (AskQuestion, _allowed_trust; LiteLlmClient.stream).
StreamStaysWithinPolicy ==
    \A p \in Pages : page[p].at \in {"streaming", "expanding"} /\ page[p].queue # <<>> =>
        LET m == Asking(p)
        IN  m # Local =>
              choice[m].trust <= (IF page[p].document THEN 0 ELSE MaxTrust[policy])

(* The conversation has the end of the question, or was deleted.           *)
Holds(c, q) ==
    \/ conversations[c] = Deleted
    \/ c \in Rows /\ \E i \in DOMAIN conversations[c].messages :
           conversations[c].messages[i].of = q
           /\ conversations[c].messages[i].kind \in FinalKinds

\* An answer that a person has seen is in the conversation, whatever happens
\* to the page and the server afterwards, until the conversation itself is
\* deleted (AskQuestion._converse).
ShownAnswersAreRecorded == \A s \in shown : Holds(s[2], s[1])

\* What the agent did on a question is recorded whole or not at all, once and
\* in its order, however many pages speak in the conversation and wherever
\* the answer was cut off (AskQuestion._record, mapper.apply_changes).
EventsAreRecordedOnce ==
    \A c \in Rows, q \in 1..asked :
        LET said == About(conversations[c], q)
        IN  said \in {<<>>, <<"question">>} \/ said = <<"question">> \o happened[q]

\* A question is refused for want of a model only after every model that may
\* answer it was asked, those that rest after a refusal included
\* (LiteLlmClient.stream, _live_first).
RefusedOnlyWhenAllWereAsked ==
    \A p \in Pages : At(p, "recording") /\ page[p].refused =>
        Among(Candidates(Requirements(p))) \subseteq page[p].tried

(* Seen from outside the conversations are those of Transcript, although   *)
(* the agent keeps what it does in memory and writes it in pieces.         *)
Begun == {c \in Conversations : conversations[c] # None}
Gone == {c \in Conversations : conversations[c] = Deleted}
Log == [c \in Conversations |-> IF c \in Rows THEN conversations[c].messages ELSE <<>>]

Promise == INSTANCE Transcript WITH opened <- Begun, gone <- Gone, log <- Log,
                                    Events <- EventKinds, FinalEvents <- FinalKinds

\* What is said grows by a question or by one whole answer, whoever else
\* speaks; nothing is done on a question after its end or after it was
\* recorded, and an end is shown only while its conversation has it or was
\* deleted (AskQuestion._converse, mapper.apply_changes).
TranscriptHolds == Promise!Spec

\* Every question that the agent took ends: with a final event, with a closed
\* page or with the end of the server (AgenticChatAgent, PresetChatAgent).
QuestionEnds ==
    \A p \in Pages : At(p, "stepping") ~> page[p].at \in {"idle", "open", "home"}
=============================================================================
