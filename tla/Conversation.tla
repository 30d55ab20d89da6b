---------------------------- MODULE Conversation ----------------------------
(***************************************************************************)
(* The conversation about the code of one repository: what is said only    *)
(* grows, one document may be attached.  A message is a role and the       *)
(* question it belongs to; the texts themselves play no part here.         *)
(***************************************************************************)
EXTENDS Selection

CONSTANTS Tenants, Questions, Models, Nameless

EventKinds == {"call", "result", "answer", "failure"}
FinalKinds == {"answer", "failure"}

Roles == [question |-> "user", call |-> "assistant", result |-> "tool",
          answer |-> "assistant", failure |-> "assistant"]

ChatMessage == [kind : DOMAIN Roles, of : Questions]

ConversationOf == [tenant : Tenants, messages : Seq(ChatMessage),
                   document : BOOLEAN, preferred : Models \cup {Nameless}]

Start(tenant, model) ==
    [tenant |-> tenant, messages |-> <<>>, document |-> FALSE, preferred |-> model]

Appended(c, kind, question) ==
    [c EXCEPT !.messages = Append(@, [kind |-> kind, of |-> question])]

Asked(c, question) == Appended(c, "question", question)

Attached(c) == [c EXCEPT !.document = TRUE]
Detached(c) == [c EXCEPT !.document = FALSE]

(* The events of an answer as messages.                                    *)
Replayed(events, question) ==
    [i \in DOMAIN events |-> [kind |-> events[i], of |-> question]]

(* Messages are only added: the tail that the stored row does not have.    *)
ApplyChanges(c, events, question) ==
    [c EXCEPT !.messages = @ \o Replayed(events, question)]

IsEmpty(c) == c.messages = <<>>
EnsureOwn(c, tenant) == c.tenant = tenant

(* What was said on one question.                                          *)
About(c, question) ==
    LET said == Only(c.messages, {m \in ChatMessage : m.of = question})
    IN  [i \in DOMAIN said |-> said[i].kind]
=============================================================================
