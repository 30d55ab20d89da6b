--------------------------- MODULE ReviewDialogue ---------------------------
(***************************************************************************)
(* One file is read by the agentic reviewer: a dialogue with a model that  *)
(* may call tools, limited in steps and in the model's window, ended by an *)
(* answer or by a forced conclusion, with a single pass as the fallback.   *)
(* Every request goes through LiteLlmClient.complete: router, cache,       *)
(* retries.  The file may be read again, as a repeated run does.           *)
(*                                                                         *)
(* A tool's call is a name with its arguments; a text of the model is what *)
(* the reviewer asks of it.  Windows and sizes are scaled down together.   *)
(***************************************************************************)
EXTENDS ModelRouter

CONSTANTS
    Calls,        \* calls of tools, in canonical form
    CallLists,    \* the sequences of calls one answer may hold
    Windows,      \* context windows of the models, 0 is unknown
    MaxSteps,     \* DEFAULT_MAX_STEPS
    MaxAttempts,  \* attempts of LiteLlmClient at one request
    Readings      \* bound: how often the file is read

MinResult == 1        \* MAX_TOOL_RESULT_CHARS
BaseOut == 4          \* max_output_tokens of the run
ClosingOut == 6       \* CLOSING_OUTPUT_TOKENS
AgenticContext == 16  \* AGENTIC_MIN_CONTEXT_TOKENS

ASSUME BoundsAssumption ==
    /\ MaxSteps \in Nat \ {0} /\ MaxAttempts \in Nat \ {0} /\ Readings \in Nat \ {0}
    /\ Windows \subseteq Nat
    /\ \A s \in CallLists : s \in Seq(Calls)

VARIABLES
    choice,    \* the models of the run
    setup,     \* policy, preferred model, navigation and size of the patch
    fruitful,  \* the calls whose results hold fragments of code
    reading,   \* which reading of the file this is
    stage,     \* what the reviewer is doing
    attempt,   \* attempts of the loop so far
    dialogue,  \* the messages after the prompt
    window,    \* context_window of the last answer
    fitted,    \* result_chars of the toolbox
    seen,      \* calls that were executed
    shown,     \* calls whose fragments count as evidence
    nudged,    \* the model was asked to look at the code it speaks of
    request,   \* the request that is with a provider
    tries,     \* attempts at it
    answer,    \* the answer that is not handled yet
    asked,     \* requests of this reading
    paid,      \* those of them a provider got
    spoilt,    \* some request ended with nothing the cache could keep
    stop,      \* the run was cancelled
    cache      \* answers by request

loop == <<attempt, seen, nudged, fitted>>
calls == <<request, tries, answer>>
counts == <<asked, paid, spoilt>>
given == <<choice, setup, fruitful>>
vars == <<given, reading, stage, loop, dialogue, window, shown, calls, counts, stop, cache>>

Max2(a, b) == IF a >= b THEN a ELSE b
Min2(a, b) == IF a <= b THEN a ELSE b

result_chars_for(w) == IF w <= 0 THEN MinResult ELSE Max2(MinResult, (w * 3) \div 32)

(* Requirements: of the run, of the loop, of the forced conclusion.        *)
Requirements == [deep |-> TRUE, tools |-> FALSE, context |-> 0, trust |-> setup.policy,
                 preferred |-> setup.preferred, out |-> BaseOut]

WithToolCalling == [Requirements EXCEPT !.tools = TRUE, !.context = Max2(@, AgenticContext)]

ClosingRequirements ==
    IF window <= 0 THEN Requirements
    ELSE [Requirements EXCEPT !.out = Max2(@, Min2(ClosingOut, window \div 8))]

Nothing == [none |-> TRUE]
Texts == {"prose", "clean", "claims"}
Findings == {"clean", "claims"}  \* a JSON object: about the patch, about other code

Answers(withTools) ==
    [calls : {<<>>}, text : Texts, cut : BOOLEAN, full : {FALSE}, window : {0}] \cup
    (IF withTools
     THEN [calls : CallLists \ {<<>>}, text : {"prose"}, cut : BOOLEAN, full : BOOLEAN, window : {0}]
     ELSE {})

FromModel(a) == [by |-> "model", calls |-> a.calls, text |-> a.text]
FromTool(c, says, size) == [by |-> "tool", call |-> c, says |-> says, size |-> size]
FromUs(says) == [by |-> "us", says |-> says]

NoReading ==
    /\ attempt' = 0 /\ dialogue' = <<>> /\ window' = 0 /\ fitted' = MinResult
    /\ seen' = {} /\ shown' = {} /\ nudged' = FALSE
    /\ request' = Nothing /\ tries' = 0 /\ answer' = Nothing
    /\ asked' = 0 /\ paid' = 0

InitWith(choices, setups) ==
    /\ choice \in choices
    /\ setup \in setups
    /\ fruitful \in SUBSET Calls
    /\ reading = 1 /\ stage = "planned"
    /\ attempt = 0 /\ dialogue = <<>> /\ window = 0 /\ fitted = MinResult
    /\ seen = {} /\ shown = {} /\ nudged = FALSE
    /\ request = Nothing /\ tries = 0 /\ answer = Nothing
    /\ asked = 0 /\ paid = 0 /\ spoilt = FALSE
    /\ stop = FALSE /\ cache = <<>>

Choices == [Models -> ModelChoice(Windows)]
Setups == [policy : TrustRanks, preferred : Models \cup {Nameless},
           navigator : BOOLEAN, small : BOOLEAN, redis : BOOLEAN]
Init == InitWith({c \in Choices : c[Local].trust = 0}, Setups)

-----------------------------------------------------------------------------
(* Planning: the factory offers the agentic reviewer when some model of    *)
(* the catalogue calls tools, the planner gives it the patches that fit.   *)

AgenticIsBuilt == SupportsToolCalling(choice, TrainingRemote)

PlannedMode == IF AgenticIsBuilt /\ setup.small THEN "agentic" ELSE "single pass"

FirstStage == IF PlannedMode = "agentic" /\ setup.navigator THEN "loop" ELSE "single"

Begin ==
    /\ stage = "planned"
    /\ stage' = FirstStage
    /\ UNCHANGED <<given, reading, loop, dialogue, window, shown, calls, counts, stop, cache>>

\* mutant: the evidence of the loop goes with the answer of the single pass
FallBackWithEvidence ==
    /\ stage' = "single"
    /\ dialogue' = <<>> /\ UNCHANGED shown
    /\ UNCHANGED <<given, reading, loop, window, stop, cache>>

(* The fallback is a fresh dialogue without support: no evidence, no stop. *)
FallBack ==
    /\ stage' = "single"
    /\ dialogue' = <<>> /\ shown' = {}
    /\ UNCHANGED <<given, reading, loop, window, stop, cache>>

-----------------------------------------------------------------------------
(* LiteLlmClient.complete.                                                 *)

Asking == {"loop", "closing", "reclosing", "single", "resingle"}

Needs ==
    CASE stage = "loop" -> WithToolCalling
      [] stage \in {"closing", "reclosing"} -> ClosingRequirements
      [] OTHER -> Requirements

(* build_cache_key; system_prompt differs between the two modes.           *)
CacheKey(needs) ==
    [model |-> Select(choice, needs), out |-> needs.out, tools |-> needs.tools,
     agentic |-> stage \in {"loop", "closing", "reclosing"}, messages |-> dialogue]

(* RedisResponseCache: what is put, and what is read back, which has no    *)
(* context window.  Without Redis there is no cache.                       *)
Put(key, a) == IF a.cut \/ ~setup.redis THEN cache ELSE [k \in DOMAIN cache \cup {key} |-> IF k = key THEN a ELSE cache[k]]
Get(key) == [cache[key] EXCEPT !.window = 0]

Idle == stage \in Asking /\ request = Nothing /\ answer = Nothing

Ask ==
    /\ Idle
    /\ ~(stage = "loop" /\ stop)
    /\ asked' = asked + 1
    /\ LET key == CacheKey(Needs) IN
          \/ /\ key \in DOMAIN cache
             /\ answer' = Get(key)
             /\ UNCHANGED <<request, tries, paid>>
          \/ /\ key \notin DOMAIN cache
             /\ request' = key /\ tries' = 1 /\ paid' = paid + 1
             /\ UNCHANGED answer
    /\ UNCHANGED <<given, reading, stage, loop, dialogue, window, shown, spoilt, stop, cache>>

\* mutant: the loop looks at the stop request only when it is over
InterruptLate ==
    /\ Idle
    /\ stage = "closing" /\ stop
    /\ stage' = "stopped"
    /\ UNCHANGED <<given, reading, loop, dialogue, window, shown, calls, counts, stop, cache>>

Interrupt ==
    /\ Idle
    /\ stage = "loop" /\ stop
    /\ stage' = "stopped"
    /\ UNCHANGED <<given, reading, loop, dialogue, window, shown, calls, counts, stop, cache>>

Respond ==
    /\ request # Nothing
    /\ \E a \in Answers(request.tools) :
          /\ answer' = [a EXCEPT !.window = choice[request.model].window]
          /\ cache' = Put(request, answer')
          /\ spoilt' = (spoilt \/ a.cut)
    /\ request' = Nothing /\ tries' = 0
    /\ UNCHANGED <<given, reading, stage, loop, dialogue, window, shown, asked, paid, stop>>

\* mutant: one attempt too many
RetryOnce ==
    /\ request # Nothing
    /\ tries <= MaxAttempts
    /\ tries' = tries + 1
    /\ UNCHANGED <<given, reading, stage, loop, dialogue, window, shown, request, answer, counts, stop, cache>>

Retry ==
    /\ request # Nothing
    /\ tries < MaxAttempts
    /\ tries' = tries + 1
    /\ UNCHANGED <<given, reading, stage, loop, dialogue, window, shown, request, answer, counts, stop, cache>>

(* Retryable errors end at the last attempt, others at once.               *)
Refuse ==
    /\ request # Nothing
    /\ request' = Nothing /\ tries' = 0
    /\ stage' = "failed"
    /\ spoilt' = TRUE
    /\ UNCHANGED <<given, reading, loop, dialogue, window, shown, answer, asked, paid, stop, cache>>

Overflow ==
    /\ request # Nothing
    /\ request' = Nothing /\ tries' = 0
    /\ spoilt' = TRUE
    /\ UNCHANGED <<answer, asked, paid>>
    /\ \/ stage \in {"loop", "closing", "reclosing"} /\ FallBack
       \/ /\ stage \in {"single", "resingle"}
          /\ stage' = "failed"
          /\ UNCHANGED <<given, reading, loop, dialogue, window, shown, stop, cache>>

-----------------------------------------------------------------------------
(* The loop handles an answer.  Fitted is the tools' limit after it.       *)

Fitted == IF attempt = 0 THEN result_chars_for(answer.window) ELSE fitted

Heard ==
    /\ stage = "loop"
    /\ answer # Nothing
    /\ answer' = Nothing
    /\ window' = answer.window
    /\ fitted' = Fitted
    /\ UNCHANGED <<given, reading, request, tries, counts, stop, cache>>

Counted == attempt' = attempt + 1

(* After the last attempt the model is made to answer.                     *)
Continue(messages) ==
    IF attempt + 1 < MaxSteps
    THEN stage' = "loop" /\ dialogue' = messages
    ELSE stage' = "closing" /\ dialogue' = messages \o <<FromUs("final")>>

Conclude(messages) == stage' = "closing" /\ dialogue' = messages \o <<FromUs("final")>>

\* mutant: an assistant's calls stay without their refusals
LeaveCalls ==
    /\ Heard /\ Counted
    /\ answer.calls # <<>> /\ answer.cut
    /\ Continue(dialogue \o <<FromModel(answer), FromUs("reissue")>>)
    /\ UNCHANGED <<seen, shown, nudged>>

RefuseCalls ==
    /\ Heard /\ Counted
    /\ answer.calls # <<>> /\ answer.cut
    /\ Continue(dialogue \o <<FromModel(answer)>>
                \o [i \in DOMAIN answer.calls |-> FromTool(answer.calls[i], "refused", 0)]
                \o <<FromUs("reissue")>>)
    /\ UNCHANGED <<seen, shown, nudged>>

(* A call that was executed is not executed again; one that fails answers  *)
(* with its error.                                                         *)
Repeated(s, i) == s[i] \in seen \/ \E j \in 1..(i - 1) : s[j] = s[i]

RunTool(s, i) ==
    IF Repeated(s, i) THEN FromTool(s[i], "repeated", 0)
    ELSE IF s[i] \in fruitful THEN FromTool(s[i], "code", Fitted)
    ELSE FromTool(s[i], "error", 0)

WindowNearlyFull == answer.full /\ answer.window > 0

RunTools ==
    /\ Heard /\ Counted
    /\ answer.calls # <<>> /\ ~answer.cut
    /\ LET s == answer.calls
           messages == dialogue \o <<FromModel(answer)>> \o [i \in DOMAIN s |-> RunTool(s, i)]
           called == {s[i] : i \in DOMAIN s}
       IN /\ seen' = seen \cup called
          /\ shown' = shown \cup (called \cap fruitful)
          /\ IF WindowNearlyFull THEN Conclude(messages) ELSE Continue(messages)
    /\ UNCHANGED nudged

MustBeNudged == answer.text = "claims" /\ shown = {} /\ ~nudged

Nudge ==
    /\ Heard /\ Counted
    /\ answer.calls = <<>> /\ MustBeNudged
    /\ nudged' = TRUE
    /\ Continue(dialogue \o <<FromModel(answer), FromUs("unproven")>>)
    /\ UNCHANGED <<seen, shown>>

FinishInLoop ==
    /\ Heard /\ Counted
    /\ answer.calls = <<>> /\ answer.text \in Findings /\ ~MustBeNudged
    /\ stage' = "done"
    /\ UNCHANGED <<seen, shown, nudged, dialogue>>

GiveUpLoop ==
    /\ Heard /\ Counted
    /\ answer.calls = <<>> /\ answer.text \notin Findings
    /\ Conclude(dialogue)
    /\ UNCHANGED <<seen, shown, nudged>>

(* The forced conclusion asks at most twice, then the single pass reads.   *)
Handled ==
    /\ answer # Nothing
    /\ answer' = Nothing
    /\ UNCHANGED <<request, tries, counts>>

AnswerClosing ==
    /\ stage \in {"closing", "reclosing"}
    /\ Handled
    /\ \/ /\ answer.text \in Findings
          /\ stage' = "done"
          /\ UNCHANGED <<given, reading, loop, dialogue, window, shown, stop, cache>>
       \/ /\ answer.text \notin Findings
          /\ stage = "closing"
          /\ stage' = "reclosing"
          /\ dialogue' = dialogue \o <<FromModel(answer), FromUs(IF answer.cut THEN "short" ELSE "json")>>
          /\ UNCHANGED <<given, reading, loop, window, shown, stop, cache>>
       \/ /\ answer.text \notin Findings
          /\ stage = "reclosing"
          /\ FallBack

AnswerSinglePass ==
    /\ stage \in {"single", "resingle"}
    /\ Handled
    /\ \/ /\ answer.text \in Findings
          /\ stage' = "done"
          /\ UNCHANGED dialogue
       \/ /\ answer.text \notin Findings
          /\ stage = "single"
          /\ stage' = "resingle"
          /\ dialogue' = <<FromUs(IF answer.cut THEN "cut" ELSE "json")>>
       \/ /\ answer.text \notin Findings
          /\ stage = "resingle"
          /\ stage' = "failed"
          /\ UNCHANGED dialogue
    /\ UNCHANGED <<given, reading, loop, window, shown, stop, cache>>

-----------------------------------------------------------------------------
(* The user stops the run, or has the same diff read again.                *)

RequestStop ==
    /\ ~stop
    /\ stop' = TRUE
    /\ UNCHANGED <<given, reading, stage, loop, dialogue, window, shown, calls, counts, cache>>

ReadAgain ==
    /\ stage = "done"
    /\ reading < Readings
    /\ reading' = reading + 1
    /\ stage' = "planned"
    /\ NoReading
    /\ UNCHANGED <<given, spoilt, stop, cache>>

Call == Ask \/ Respond \/ Retry \/ Refuse \/ Overflow
Handle == RefuseCalls \/ RunTools \/ Nudge \/ FinishInLoop \/ GiveUpLoop
          \/ AnswerClosing \/ AnswerSinglePass

Work == Begin \/ Interrupt \/ Call \/ Handle

Next == Work \/ RequestStop \/ ReadAgain

Spec == Init /\ [][Next]_vars
FairSpec == Spec /\ WF_vars(Work)

-----------------------------------------------------------------------------
(* Properties.                                                             *)

Ended == stage \in {"done", "failed", "stopped"}

TypeOK ==
    /\ choice \in Choices /\ setup \in Setups /\ fruitful \subseteq Calls
    /\ reading \in 1..Readings
    /\ stage \in Asking \cup {"planned", "done", "failed", "stopped"}
    /\ attempt \in 0..MaxSteps /\ nudged \in BOOLEAN
    /\ seen \subseteq Calls /\ shown \subseteq Calls
    /\ tries \in 0..MaxAttempts
    /\ request # Nothing => request.model \in Models /\ stage \in Asking /\ answer = Nothing
    /\ stop \in BOOLEAN /\ spoilt \in BOOLEAN
    /\ paid \in 0..asked

(* The code leaves for no model the repository's policy does not trust,    *)
(* whatever model the person preferred and whichever stage asks            *)
(* (ModelRouter.select, EgressPolicy.max_trust).                           *)
CodeStaysWithinPolicy ==
    request # Nothing => choice[request.model].trust <= setup.policy

(* Providers reject a dialogue in which a call has no result, and one in   *)
(* which a result belongs to no call (client.py, _to_wire): in every       *)
(* request the results of a message follow it, in the order of its calls.  *)
AnsweredFrom(d, i) ==
    \A j \in DOMAIN d[i].calls :
        /\ i + j \in DOMAIN d
        /\ d[i + j].by = "tool" /\ d[i + j].call = d[i].calls[j]

WellAnswered(d) ==
    LET answers == {i \in DOMAIN d : d[i].by = "model"}
    IN  /\ \A i \in answers : AnsweredFrom(d, i)
        /\ \A k \in DOMAIN d : d[k].by = "tool" =>
              \E i \in answers : k - i \in DOMAIN d[i].calls

EveryCallIsAnswered == request # Nothing => WellAnswered(request.messages)

(* Quotations are confirmed by what a tool really showed in the dialogue   *)
(* that answered, and by nothing after a fallback (_run_tool, _fall_back). *)
CodeIn(d) ==
    {c \in Calls : \E i \in DOMAIN d : d[i].by = "tool" /\ d[i].call = c /\ d[i].says = "code"}

EvidenceWasShown == stage = "done" => shown = CodeIn(dialogue)

(* A reading ends with an answer, a failure or a stop, although the model  *)
(* repeats itself, cuts its answers off or never answers in JSON.          *)
ReadingEnds == []<>(Ended)
=============================================================================
