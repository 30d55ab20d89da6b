------------------------- MODULE ReviewDialogueProofs -------------------------
(***************************************************************************)
(* Proofs about the model router and ReviewDialogue, for any registry of   *)
(* models, any calls of tools and every bound.                             *)
(***************************************************************************)
EXTENDS ReviewDialogue, TLAPS, WellFoundedInduction, SequenceTheorems

-----------------------------------------------------------------------------
(* The router.                                                             *)

LEMMA LeastIs ==
    ASSUME NEW S, S \subseteq Nat, S # {}
    PROVE  \E i \in S : \A j \in S : i <= j
<1>1. \E i \in S : \A j \in S : ~(<<j, i>> \in OpToRel(<, Nat))
  BY NatLessThanWellFounded, WFMin
<1>2. ASSUME NEW i \in Nat, NEW j \in Nat, j < i
      PROVE  <<j, i>> \in OpToRel(<, Nat)
  BY <1>2, Zenon DEF OpToRel
<1>3. \E i \in S : \A j \in S : ~(j < i)
  <2> HIDE DEF OpToRel
  <2>1. QED
    BY <1>1, <1>2
<1>4. QED
  BY <1>3

(* Whoever is selected, for whatever needs, is in the registry, and is the *)
(* installation's own model or satisfies them, the policy included.        *)
LEMMA SelectedIsFit ==
    ASSUME NEW ch, NEW needs
    PROVE  /\ Select(ch, needs) \in Models
           /\ Select(ch, needs) = Local \/ Satisfies(ch[Select(ch, needs)], needs)
<1> DEFINE fitting == {i \in DOMAIN Remotes : Satisfies(ch[Remotes[i]], needs)}
           first == FirstRemote(ch, needs)
<1>1. first \in Models /\ (first = Local \/ Satisfies(ch[first], needs))
  <2>1. CASE fitting = {}
    BY <2>1 DEF FirstRemote, Models
  <2>2. CASE fitting # {}
    <3>1. fitting \subseteq Nat
      BY RemotesAssumption
    <3>2. (CHOOSE i \in fitting : \A j \in fitting : i <= j) \in fitting
      BY <2>2, <3>1, LeastIs
    <3>3. QED
      BY <2>2, <3>2 DEF FirstRemote, Models
  <2>3. QED
    BY <2>1, <2>2
<1>2. Named(ch, needs) =>
        needs.preferred \in Models /\ Satisfies(ch[needs.preferred], needs)
  BY DEF Named, Catalogue, AllowedRemotes, Models
<1> HIDE DEF first
<1>3. Select(ch, needs) = IF Named(ch, needs) THEN needs.preferred
                          ELSE IF ~needs.deep /\ Satisfies(ch[Local], needs) THEN Local
                          ELSE first
  BY DEF Select, first
<1>4. Local \in Models
  BY DEF Models
<1>5. QED
  BY <1>1, <1>2, <1>3, <1>4
-----------------------------------------------------------------------------
(* The policy.                                                             *)

(* Code never leaves for the installation's own model: its trust is the    *)
(* least there is.  Neither it nor the policy changes while a file is read.*)
LocalIsTrusted == choice[Local].trust = 0 /\ setup.policy \in TrustRanks

PolicyInv == LocalIsTrusted /\ CodeStaysWithinPolicy

LEMMA NeedsHavePolicy == Needs.trust = setup.policy
<1>1. Requirements.trust = setup.policy
  BY DEF Requirements
<1>2. WithToolCalling.trust = setup.policy
  BY DEF WithToolCalling, Requirements
<1>3. ClosingRequirements.trust = setup.policy
  BY DEF ClosingRequirements, Requirements
<1>4. QED
  BY <1>1, <1>2, <1>3 DEF Needs

LEMMA AskKeepsPolicy ==
    ASSUME PolicyInv, Ask
    PROVE  CodeStaysWithinPolicy'
<1>1. CASE request' = request
  BY <1>1 DEF Ask, PolicyInv, CodeStaysWithinPolicy, given
<1>2. CASE request' = CacheKey(Needs)
  <2>1. request'.model = Select(choice, Needs)
    BY <1>2 DEF CacheKey
  <2>2. choice[Select(choice, Needs)].trust <= setup.policy
    <3>1. CASE Select(choice, Needs) = Local
      BY <3>1 DEF PolicyInv, LocalIsTrusted, TrustRanks
    <3>2. CASE Satisfies(choice[Select(choice, Needs)], Needs)
      BY <3>2, NeedsHavePolicy DEF Satisfies
    <3>3. QED
      BY <3>1, <3>2, SelectedIsFit
  <2>3. QED
    BY <2>1, <2>2 DEF Ask, CodeStaysWithinPolicy, given
<1>3. QED
  BY <1>1, <1>2 DEF Ask

(* No other step sends a request: it ends the one there is, or keeps it.   *)
LEMMA OnlyAskSends ==
    ASSUME [Next]_vars
    PROVE  /\ UNCHANGED <<choice, setup>>
           /\ Ask \/ request' = request \/ request' = Nothing
<1>1. CASE UNCHANGED vars
  BY <1>1 DEF vars, given, calls
<1>2. CASE Begin \/ Interrupt \/ RequestStop \/ ReadAgain
  BY <1>2 DEF Begin, Interrupt, RequestStop, ReadAgain, NoReading, given, calls
<1>3. CASE Ask
  BY <1>3 DEF Ask, given
<1>4. CASE Respond \/ Retry \/ Refuse
  BY <1>4 DEF Respond, Retry, Refuse, given
<1>5. CASE Overflow
  BY <1>5 DEF Overflow, FallBack, given
<1>6. CASE RefuseCalls \/ RunTools \/ Nudge \/ FinishInLoop \/ GiveUpLoop
  BY <1>6 DEF RefuseCalls, RunTools, Nudge, FinishInLoop, GiveUpLoop, Heard, given
<1>7. CASE AnswerClosing
  BY <1>7 DEF AnswerClosing, Handled, FallBack, given
<1>8. CASE AnswerSinglePass
  BY <1>8 DEF AnswerSinglePass, Handled, given
<1>9. QED
  BY <1>1, <1>2, <1>3, <1>4, <1>5, <1>6, <1>7, <1>8 DEF Next, Work, Call, Handle

(* With any models and any choice of a person, at every stage of a reading *)
(* and through every retry, the code goes to no model the policy of its    *)
(* repository does not trust.                                              *)
THEOREM PolicyIsKept == Spec => []CodeStaysWithinPolicy
<1>1. Init => PolicyInv
  BY DEF Init, InitWith, Setups, PolicyInv, LocalIsTrusted, CodeStaysWithinPolicy
<1>2. PolicyInv /\ [Next]_vars => PolicyInv'
  <2> SUFFICES ASSUME PolicyInv, [Next]_vars PROVE PolicyInv'
    OBVIOUS
  <2>1. LocalIsTrusted'
    BY OnlyAskSends DEF PolicyInv, LocalIsTrusted
  <2>2. CodeStaysWithinPolicy'
    <3>1. CASE Ask
      BY <3>1, AskKeepsPolicy
    <3>2. CASE request' = request \/ request' = Nothing
      BY <3>2, OnlyAskSends DEF PolicyInv, CodeStaysWithinPolicy
    <3>3. QED
      BY <3>1, <3>2, OnlyAskSends
  <2>3. QED
    BY <2>1, <2>2 DEF PolicyInv
<1>3. PolicyInv => CodeStaysWithinPolicy
  BY DEF PolicyInv
<1>4. QED
  BY <1>1, <1>2, <1>3, PTL DEF Spec

-----------------------------------------------------------------------------
(* Dialogues: what may be in one, and how it is put together of rounds.    *)

Results == {"refused", "repeated", "code", "error"}
Words == {"final", "reissue", "unproven", "short", "json", "cut"}

Messages ==
    [by : {"model"}, calls : Seq(Calls), text : Texts] \cup
    [by : {"tool"}, call : Calls, says : Results, size : Nat] \cup
    [by : {"us"}, says : Words]

AnswerRecords ==
    [calls : Seq(Calls), text : Texts, cut : BOOLEAN, full : BOOLEAN, window : Nat]

LEMMA Joined ==
    ASSUME NEW S, NEW d \in Seq(S), NEW t \in Seq(S)
    PROVE  /\ d \o t \in Seq(S)
           /\ DOMAIN d = 1..Len(d) /\ DOMAIN t = 1..Len(t) /\ Len(d) \in Nat /\ Len(t) \in Nat
           /\ DOMAIN (d \o t) = 1..(Len(d) + Len(t))
           /\ \A i \in 1..Len(d) : (d \o t)[i] = d[i]
           /\ \A i \in 1..Len(t) : (d \o t)[Len(d) + i] = t[i]
  OBVIOUS

LEMMA MessageKinds ==
    ASSUME NEW m \in Messages
    PROVE  /\ m.by = "model" => m.calls \in Seq(Calls)
           /\ m.by = "tool" => m.call \in Calls
           /\ m.by \in {"model", "tool", "us"}
  BY DEF Messages

(* Rounds that are answered each are answered together.                    *)
LEMMA RoundsJoin ==
    ASSUME NEW d \in Seq(Messages), NEW t \in Seq(Messages), WellAnswered(d), WellAnswered(t)
    PROVE  WellAnswered(d \o t)
<1> DEFINE both == d \o t
           n == Len(d)
<1>1. /\ DOMAIN d = 1..n /\ DOMAIN t = 1..Len(t) /\ n \in Nat /\ Len(t) \in Nat
      /\ DOMAIN both = 1..(n + Len(t))
      /\ \A i \in 1..n : both[i] = d[i]
      /\ \A i \in 1..Len(t) : both[n + i] = t[i]
  BY Joined
<1>2. /\ \A i \in 1..n : d[i].by = "model" => d[i].calls \in Seq(Calls)
      /\ \A i \in 1..Len(t) : t[i].by = "model" => t[i].calls \in Seq(Calls)
  BY MessageKinds
<1> HIDE DEF both, n
<1>3. \A k \in DOMAIN both : k \in 1..n \/ (k - n \in 1..Len(t) /\ k = n + (k - n))
  BY <1>1
<1>4. ASSUME NEW i \in DOMAIN both, both[i].by = "model"
      PROVE  AnsweredFrom(both, i)
  <2>1. CASE i \in 1..n
    <3>1. AnsweredFrom(d, i) /\ both[i] = d[i] /\ d[i].calls \in Seq(Calls)
      BY <1>1, <1>2, <1>4, <2>1 DEF WellAnswered
    <3>2. \A j \in DOMAIN d[i].calls : both[i + j] = d[i + j] /\ i + j \in DOMAIN both
      BY <1>1, <3>1 DEF AnsweredFrom
    <3>3. QED
      BY <3>1, <3>2 DEF AnsweredFrom
  <2>2. CASE i - n \in 1..Len(t)
    <3> DEFINE h == i - n
    <3>1. i = n + h /\ h \in 1..Len(t)
      BY <1>1, <2>2
    <3> HIDE DEF h
    <3>2. AnsweredFrom(t, h) /\ both[i] = t[h] /\ t[h].calls \in Seq(Calls)
      BY <1>1, <1>2, <1>4, <3>1 DEF WellAnswered
    <3>3. ASSUME NEW j \in DOMAIN t[h].calls
          PROVE  i + j \in DOMAIN both /\ both[i + j] = t[h + j]
      <4>1. j \in Nat /\ h + j \in 1..Len(t)
        BY <1>1, <3>2, <3>3 DEF AnsweredFrom
      <4>2. i + j = n + (h + j)
        BY <1>1, <3>1, <4>1
      <4>3. QED
        BY <1>1, <4>1, <4>2
    <3>4. QED
      BY <3>2, <3>3 DEF AnsweredFrom
  <2>3. QED
    BY <1>3, <1>4, <2>1, <2>2
<1>5. ASSUME NEW k \in DOMAIN both, both[k].by = "tool"
      PROVE  \E i \in DOMAIN both : both[i].by = "model" /\ k - i \in DOMAIN both[i].calls
  <2>1. CASE k \in 1..n
    <3>1. PICK i \in DOMAIN d : d[i].by = "model" /\ k - i \in DOMAIN d[i].calls
      BY <1>1, <1>5, <2>1 DEF WellAnswered
    <3>2. QED
      BY <1>1, <3>1
  <2>2. CASE k - n \in 1..Len(t)
    <3> DEFINE h == k - n
    <3>1. k = n + h /\ h \in 1..Len(t)
      BY <1>1, <2>2
    <3> HIDE DEF h
    <3>2. PICK i \in DOMAIN t : t[i].by = "model" /\ h - i \in DOMAIN t[i].calls
      BY <1>1, <1>5, <3>1 DEF WellAnswered
    <3>3. k - (n + i) = h - i
      BY <1>1, <3>1, <3>2
    <3>4. n + i \in DOMAIN both /\ both[n + i] = t[i]
      BY <1>1, <3>2
    <3>5. QED
      BY <3>2, <3>3, <3>4
  <2>3. QED
    BY <1>3, <1>5, <2>1, <2>2
<1>6. QED
  BY <1>4, <1>5 DEF WellAnswered, both

LEMMA CodeJoins ==
    ASSUME NEW d \in Seq(Messages), NEW t \in Seq(Messages)
    PROVE  CodeIn(d \o t) = CodeIn(d) \cup CodeIn(t)
<1> DEFINE both == d \o t
           n == Len(d)
           code(s, c) == \E i \in DOMAIN s : s[i].by = "tool" /\ s[i].call = c /\ s[i].says = "code"
<1>1. /\ DOMAIN d = 1..n /\ DOMAIN t = 1..Len(t) /\ n \in Nat /\ Len(t) \in Nat
      /\ DOMAIN both = 1..(n + Len(t))
      /\ \A i \in 1..n : both[i] = d[i]
      /\ \A i \in 1..Len(t) : both[n + i] = t[i]
  BY Joined
<1> HIDE DEF both, n
<1>2. \A k \in DOMAIN both : k \in 1..n \/ (k - n \in 1..Len(t) /\ k = n + (k - n))
  BY <1>1
<1>3. \A i \in 1..Len(t) : n + i \in DOMAIN both
  BY <1>1
<1>4. \A i \in 1..n : i \in DOMAIN both
  BY <1>1
<1>5. ASSUME NEW c
      PROVE  code(both, c) <=> code(d, c) \/ code(t, c)
  <2>1. code(d, c) => code(both, c)
    BY <1>1, <1>4
  <2>2. code(t, c) => code(both, c)
    BY <1>1, <1>3
  <2>3. code(both, c) => code(d, c) \/ code(t, c)
    <3>1. SUFFICES ASSUME NEW k \in DOMAIN both,
                          both[k].by = "tool" /\ both[k].call = c /\ both[k].says = "code"
                   PROVE  code(d, c) \/ code(t, c)
      OBVIOUS
    <3>2. CASE k \in 1..n
      BY <1>1, <3>1, <3>2
    <3>3. CASE k - n \in 1..Len(t) /\ k = n + (k - n)
      <4>1. both[k] = t[k - n]
        BY <1>1, <3>3
      <4>2. QED
        BY <1>1, <3>1, <3>3, <4>1
    <3>4. QED
      BY <1>2, <3>2, <3>3
  <2>4. QED
    BY <2>1, <2>2, <2>3
<1>6. QED
  BY <1>5 DEF CodeIn, both

(* One word of ours, and one round: a message of the model with a result   *)
(* for each of its calls, in their order.                                  *)
LEMMA OurWord ==
    ASSUME NEW says \in Words
    PROVE  /\ <<FromUs(says)>> \in Seq(Messages)
           /\ WellAnswered(<<FromUs(says)>>) /\ CodeIn(<<FromUs(says)>>) = {}
<1>1. FromUs(says) \in Messages /\ FromUs(says).by = "us"
  BY DEF FromUs, Messages
<1> DEFINE d == <<FromUs(says)>>
<1>2. d \in Seq(Messages) /\ DOMAIN d = {1} /\ d[1] = FromUs(says)
  BY <1>1
<1> HIDE DEF d
<1>3. QED
  BY <1>1, <1>2 DEF WellAnswered, CodeIn, d

(* Rounds may be joined in either order.                                   *)
Regroups(p, q, r) == (p \o q) \o r = p \o (q \o r)

LEMMA RoundsRegroup ==
    ASSUME NEW A, NEW p \in Seq(A), NEW q \in Seq(A), NEW r \in Seq(A)
    PROVE  Regroups(p, q, r)
  BY ConcatAssociative DEF Regroups

LEMMA OneRound ==
    ASSUME NEW a \in AnswerRecords, NEW results \in Seq(Messages),
           Len(results) = Len(a.calls),
           \A j \in 1..Len(results) : results[j].by = "tool" /\ results[j].call = a.calls[j]
    PROVE  /\ <<FromModel(a)>> \o results \in Seq(Messages)
           /\ WellAnswered(<<FromModel(a)>> \o results)
           /\ CodeIn(<<FromModel(a)>> \o results) = CodeIn(results)
<1>1. FromModel(a) \in Messages /\ FromModel(a).by = "model" /\ FromModel(a).calls = a.calls
  BY DEF FromModel, AnswerRecords, Messages
<1> DEFINE first == <<FromModel(a)>>
           d == first \o results
           n == Len(results)
<1>2. first \in Seq(Messages) /\ Len(first) = 1 /\ first[1] = FromModel(a) /\ DOMAIN first = {1}
  BY <1>1
<1>3. /\ n \in Nat /\ d \in Seq(Messages) /\ DOMAIN d = 1..(1 + n)
      /\ d[1] = FromModel(a)
      /\ \A j \in 1..n : d[1 + j] = results[j]
  BY <1>2, Joined
<1>4. DOMAIN a.calls = 1..n
  BY DEF AnswerRecords
<1>5. CodeIn(first) = {}
  BY <1>1, <1>2 DEF CodeIn
<1>6. CodeIn(d) = CodeIn(results)
  <2> HIDE DEF first
  <2>1. CodeIn(first \o results) = CodeIn(first) \cup CodeIn(results)
    BY <1>2, CodeJoins
  <2>2. QED
    BY <1>5, <2>1
<1> HIDE DEF first, d, n
<1>7. \A k \in DOMAIN d : k = 1 \/ (k - 1 \in 1..n /\ k = 1 + (k - 1))
  <2>1. \A k \in 1..(1 + n) : k = 1 \/ (k - 1 \in 1..n /\ k = 1 + (k - 1))
    <3>1. n \in Nat
      BY <1>3
    <3> QED
      BY <3>1
  <2>2. DOMAIN d = 1..(1 + n)
    BY <1>3
  <2> QED
    BY <2>1, <2>2, Zenon
<1>8. \A k \in DOMAIN d : k # 1 => d[k].by = "tool" /\ k - 1 \in DOMAIN a.calls
  BY <1>3, <1>4, <1>7 DEF n
<1>9. AnsweredFrom(d, 1)
  BY <1>1, <1>3, <1>4 DEF AnsweredFrom, n
<1>10. WellAnswered(d)
  <2>1. \A i \in DOMAIN d : d[i].by = "model" => i = 1
    BY <1>8
  <2>2. 1 \in DOMAIN d
    BY <1>3
  <2>3. \A k \in DOMAIN d : d[k].by = "tool" => k - 1 \in DOMAIN d[1].calls
    BY <1>1, <1>3, <1>8
  <2>4. QED
    BY <1>1, <1>3, <1>9, <2>1, <2>2, <2>3 DEF WellAnswered
<1>11. QED
  BY <1>3, <1>6, <1>10 DEF d, first


-----------------------------------------------------------------------------
(* The invariant.  What is said is answered, and what counts as evidence   *)
(* is what the tools showed in this dialogue; the request at a provider    *)
(* holds this dialogue; an answer to a request without tools calls none,   *)
(* also when it comes from the cache; in the loop every fruitful call      *)
(* that was executed has been shown.                                       *)

DialogueInv ==
    dialogue \in Seq(Messages) /\ WellAnswered(dialogue) /\ shown = CodeIn(dialogue)

NumbersInv == window \in Nat /\ fitted \in Nat /\ asked \in Nat

AnswersInv ==
    /\ answer \in AnswerRecords \cup {Nothing}
    /\ answer # Nothing /\ stage # "loop" => answer.calls = <<>>
    /\ request # Nothing => request.messages = dialogue
    /\ request # Nothing /\ stage # "loop" => request.tools = FALSE
    /\ \A k \in DOMAIN cache :
          cache[k] \in AnswerRecords /\ (k.tools = FALSE => cache[k].calls = <<>>)

StagesInv ==
    /\ stage = "loop" => attempt < MaxSteps /\ seen \cap fruitful \subseteq shown
    /\ stage \in {"planned", "single"} => dialogue = <<>>
    /\ stage = "planned" => attempt = 0 /\ seen = {} /\ answer = Nothing

Inv == TypeOK /\ DialogueInv /\ NumbersInv /\ AnswersInv /\ StagesInv

(* A sequence of messages that may follow any dialogue.                    *)
Round(t) == t \in Seq(Messages) /\ WellAnswered(t)

LEMMA NoWords == Round(<<>>) /\ CodeIn(<<>>) = {}
  BY DEF Round, WellAnswered, CodeIn

LEMMA TwoRounds ==
    ASSUME NEW s, NEW t, Round(s), Round(t)
    PROVE  Round(s \o t) /\ CodeIn(s \o t) = CodeIn(s) \cup CodeIn(t)
  BY RoundsJoin, CodeJoins, Joined DEF Round

(* An answer without calls, with a word of ours after it.                  *)
LEMMA RoundOfTwo ==
    ASSUME NEW a \in AnswerRecords, a.calls = <<>>, NEW says \in Words
    PROVE  /\ Round(<<FromModel(a), FromUs(says)>>)
           /\ CodeIn(<<FromModel(a), FromUs(says)>>) = {}
<1>1. FromModel(a) \in Messages /\ FromUs(says) \in Messages
  BY DEF FromModel, FromUs, AnswerRecords, Messages
<1> DEFINE said == <<FromModel(a)>>
           ours == <<FromUs(says)>>
<1>2. said \in Seq(Messages) /\ said \o <<>> = said
  BY <1>1
<1>3. <<FromModel(a), FromUs(says)>> = said \o ours
  BY <1>1
<1>4. Round(said \o <<>>) /\ CodeIn(said \o <<>>) = {}
  <2>1. /\ <<>> \in Seq(Messages) /\ Len(<<>>) = Len(a.calls)
        /\ \A j \in 1..Len(<<>>) : FALSE
    OBVIOUS
  <2>2. Round(said \o <<>>) /\ CodeIn(said \o <<>>) = CodeIn(<<>>)
    BY <2>1, OneRound DEF Round
  <2>3. QED
    BY <2>2, NoWords
<1>5. Round(ours) /\ CodeIn(ours) = {}
  BY OurWord DEF Round
<1>6. Round(said) /\ CodeIn(said) = {}
  BY <1>2, <1>4
<1>7. Round(said \o ours) /\ CodeIn(said \o ours) = CodeIn(said) \cup CodeIn(ours)
  BY <1>5, <1>6, TwoRounds
<1>8. QED
  BY <1>3, <1>5, <1>6, <1>7

(* The results of the calls that were cut off, and of those that were run. *)
RefusedCalls(s) == [i \in DOMAIN s |-> FromTool(s[i], "refused", 0)]
RunCalls(s) == [i \in DOMAIN s |-> RunTool(s, i)]

LEMMA ResultsInOrder ==
    ASSUME NEW s \in Seq(Calls), NEW results,
           DOMAIN results = DOMAIN s,
           \A i \in DOMAIN s : /\ results[i] \in Messages
                               /\ results[i].by = "tool" /\ results[i].call = s[i]
    PROVE  /\ results = [i \in DOMAIN s |-> results[i]] => results \in Seq(Messages)
           /\ results = [i \in DOMAIN s |-> results[i]] => Len(results) = Len(s)
  OBVIOUS

LEMMA RefusedIsRound ==
    ASSUME NEW a \in AnswerRecords
    PROVE  /\ RefusedCalls(a.calls) \in Seq(Messages)
           /\ Round(<<FromModel(a)>> \o RefusedCalls(a.calls))
           /\ CodeIn(<<FromModel(a)>> \o RefusedCalls(a.calls)) = {}
<1> DEFINE s == a.calls
           results == RefusedCalls(s)
<1>1. s \in Seq(Calls)
  BY DEF AnswerRecords
<1>2. \A i \in DOMAIN s : s[i] \in Calls
  BY <1>1
<1> HIDE DEF s
<1>3. /\ DOMAIN results = DOMAIN s
      /\ \A i \in DOMAIN s : results[i] = [by |-> "tool", call |-> s[i], says |-> "refused", size |-> 0]
  BY DEF RefusedCalls, FromTool
<1>4. \A i \in DOMAIN s : /\ results[i] \in Messages /\ results[i].by = "tool"
                          /\ results[i].call = s[i] /\ results[i].says = "refused"
  BY <1>2, <1>3 DEF Messages, Results
<1>5. results \in Seq(Messages) /\ Len(results) = Len(s)
  BY <1>1, <1>3, <1>4, ResultsInOrder DEF RefusedCalls
<1>6. DOMAIN results = 1..Len(results)
  BY <1>5
<1>7. CodeIn(results) = {}
  BY <1>3, <1>4 DEF CodeIn
<1> HIDE DEF results
<1>8. QED
  BY <1>3, <1>4, <1>5, <1>6, <1>7, OneRound DEF Round, s, results

(* The tools show what a fruitful call finds the first time it is made.    *)
LEMMA RunIsRound ==
    ASSUME NEW a \in AnswerRecords, Fitted \in Nat
    PROVE  /\ RunCalls(a.calls) \in Seq(Messages)
           /\ Round(<<FromModel(a)>> \o RunCalls(a.calls))
           /\ CodeIn(<<FromModel(a)>> \o RunCalls(a.calls)) =
                 ({a.calls[i] : i \in DOMAIN a.calls} \cap fruitful) \ seen
<1> DEFINE s == a.calls
           results == RunCalls(s)
<1>1. s \in Seq(Calls)
  BY DEF AnswerRecords
<1>2. (\A i \in DOMAIN s : s[i] \in Calls) /\ DOMAIN s \subseteq Nat
  BY <1>1
<1> HIDE DEF s
<1>3. /\ DOMAIN results = DOMAIN s
      /\ \A i \in DOMAIN s : results[i] = RunTool(s, i)
  BY DEF RunCalls
<1>4. \A i \in DOMAIN s : /\ results[i] \in Messages /\ results[i].by = "tool"
                          /\ results[i].call = s[i]
                          /\ results[i].says = "code" <=> ~Repeated(s, i) /\ s[i] \in fruitful
  <2> SUFFICES ASSUME NEW i \in DOMAIN s
               PROVE  /\ RunTool(s, i) \in Messages /\ RunTool(s, i).by = "tool"
                      /\ RunTool(s, i).call = s[i]
                      /\ RunTool(s, i).says = "code" <=> ~Repeated(s, i) /\ s[i] \in fruitful
    BY <1>3
  <2>1. ASSUME NEW says \in Results, NEW n \in Nat
        PROVE  /\ FromTool(s[i], says, n) \in Messages /\ FromTool(s[i], says, n).by = "tool"
               /\ FromTool(s[i], says, n).call = s[i] /\ FromTool(s[i], says, n).says = says
    BY <1>2 DEF FromTool, Messages
  <2> HIDE DEF Results
  <2>2. {"repeated", "code", "error"} \subseteq Results
    BY DEF Results
  <2>3. CASE Repeated(s, i)
    BY <2>1, <2>2, <2>3 DEF RunTool
  <2>4. CASE ~Repeated(s, i) /\ s[i] \in fruitful
    BY <2>1, <2>2, <2>4 DEF RunTool
  <2>5. CASE ~Repeated(s, i) /\ s[i] \notin fruitful
    BY <2>1, <2>2, <2>5 DEF RunTool
  <2>6. QED
    BY <2>3, <2>4, <2>5
<1>5. results \in Seq(Messages) /\ Len(results) = Len(s)
  BY <1>1, <1>3, <1>4, ResultsInOrder DEF RunCalls
<1>6. DOMAIN results = 1..Len(results)
  BY <1>5
<1>7. CodeIn(results) = ({s[i] : i \in DOMAIN s} \cap fruitful) \ seen
  <2>1. ASSUME NEW i \in DOMAIN s, ~Repeated(s, i)
        PROVE  s[i] \notin seen
    BY <2>1 DEF Repeated
  <2>2. ASSUME NEW i \in DOMAIN s, s[i] \notin seen
        PROVE  \E j \in DOMAIN s : s[j] = s[i] /\ ~Repeated(s, j)
    <3> DEFINE same == {j \in DOMAIN s : s[j] = s[i]}
    <3>1. same \subseteq Nat /\ same # {}
      BY <1>2
    <3>2. PICK first \in same : \A k \in same : first <= k
      BY <3>1, LeastIs
    <3>4. \A k \in 1..(first - 1) : k \in DOMAIN s /\ s[k] # s[first]
      BY <1>1, <3>2
    <3>5. ~Repeated(s, first)
      BY <2>2, <3>2, <3>4 DEF Repeated
    <3>6. QED
      BY <3>2, <3>5
  <2>3. QED
    BY <1>2, <1>3, <1>4, <2>1, <2>2 DEF CodeIn
<1> HIDE DEF results
<1>8. QED
  BY <1>3, <1>4, <1>5, <1>6, <1>7, OneRound DEF Round, s, results

-----------------------------------------------------------------------------
(* The dialogue grows by rounds, or is forgotten.                          *)

LEMMA Spoken ==
    ASSUME DialogueInv, NEW t, Round(t), dialogue' = dialogue \o t, shown' = shown \cup CodeIn(t)
    PROVE  DialogueInv'
<1>1. dialogue \o t \in Seq(Messages)
  BY Joined DEF DialogueInv, Round
<1>2. WellAnswered(dialogue \o t) /\ CodeIn(dialogue \o t) = CodeIn(dialogue) \cup CodeIn(t)
  BY RoundsJoin, CodeJoins DEF DialogueInv, Round
<1> DEFINE d == dialogue \o t
<1> HIDE DEF d
<1>3. d \in Seq(Messages) /\ WellAnswered(d) /\ shown' = CodeIn(d) /\ dialogue' = d
  BY <1>1, <1>2 DEF d, DialogueInv
<1>4. QED
  BY <1>3 DEF DialogueInv

LEMMA Silent ==
    ASSUME DialogueInv, UNCHANGED <<dialogue, shown>>
    PROVE  DialogueInv'
  BY DEF DialogueInv

LEMMA Forgotten ==
    ASSUME dialogue' = <<>>, shown' = {}
    PROVE  DialogueInv'
  BY NoWords DEF DialogueInv, Round

(* A round of the loop, with or without the word that ends the loop.       *)
LEMMA Turn ==
    ASSUME DialogueInv, NEW t, Round(t), shown' = shown \cup CodeIn(t),
           Continue(dialogue \o t) \/ Conclude(dialogue \o t)
    PROVE  /\ DialogueInv'
           /\ stage' = "closing" \/ (stage' = "loop" /\ attempt + 1 < MaxSteps)
<1> DEFINE final == <<FromUs("final")>>
<1>1. Round(final) /\ CodeIn(final) = {}
  BY OurWord DEF Round, Words
<1>2. Round(t \o final) /\ CodeIn(t \o final) = CodeIn(t)
  BY <1>1, TwoRounds
<1>3. (dialogue \o t) \o final = dialogue \o (t \o final)
  BY <1>1, ConcatAssociative DEF DialogueInv, Round
<1>4. CASE stage' = "loop" /\ attempt + 1 < MaxSteps /\ dialogue' = dialogue \o t
  BY <1>4, Spoken
<1>5. CASE stage' = "closing" /\ dialogue' = (dialogue \o t) \o final
  BY <1>2, <1>3, <1>5, Spoken
<1>6. QED
  BY <1>4, <1>5 DEF Continue, Conclude

-----------------------------------------------------------------------------
(* Requests and what a provider makes of them.                             *)

LEMMA NeedsOfStages ==
    Needs.tools \in BOOLEAN /\ (stage # "loop" => Needs.tools = FALSE)
<1>1. Requirements.tools = FALSE
  BY DEF Requirements
<1>2. WithToolCalling.tools = TRUE
  BY DEF WithToolCalling, Requirements
<1>3. ClosingRequirements.tools = FALSE
  BY DEF ClosingRequirements, Requirements
<1>4. QED
  BY <1>1, <1>2, <1>3 DEF Needs

LEMMA ResultCharsType ==
    ASSUME NEW w \in Nat
    PROVE  result_chars_for(w) \in Nat
  BY DEF result_chars_for, Max2, MinResult

LEMMA AnswersAreRecords ==
    ASSUME NEW tools, NEW a \in Answers(tools), NEW w \in Nat
    PROVE  /\ [a EXCEPT !.window = w] \in AnswerRecords
           /\ tools = FALSE => [a EXCEPT !.window = w].calls = <<>>
<1> DEFINE plain == [calls : {<<>>}, text : Texts, cut : BOOLEAN, full : {FALSE}, window : {0}]
           calling == [calls : CallLists \ {<<>>}, text : {"prose"}, cut : BOOLEAN,
                       full : BOOLEAN, window : {0}]
<1>1. a \in plain \/ (a \in calling /\ ~(tools = FALSE))
  BY DEF Answers
<1>2. <<>> \in Seq(Calls) /\ "prose" \in Texts
  BY DEF Texts
<1>3. CASE a \in plain
  BY <1>2, <1>3 DEF AnswerRecords
<1>4. CASE a \in calling /\ ~(tools = FALSE)
  BY <1>2, <1>4, BoundsAssumption DEF AnswerRecords
<1>5. QED
  BY <1>1, <1>3, <1>4

LEMMA NothingIsNoRecord == Nothing \notin AnswerRecords
<1>1. \A a \in AnswerRecords : "calls" \in DOMAIN a
  BY DEF AnswerRecords
<1>2. DOMAIN Nothing = {"none"}
  BY DEF Nothing
<1>3. QED
  BY <1>1, <1>2

LEMMA AskKeepsInv ==
    ASSUME Inv, Ask
    PROVE  Inv'
<1> DEFINE key == CacheKey(Needs)
<1>1. key.model \in Models /\ key.messages = dialogue /\ key.tools = Needs.tools
  BY SelectedIsFit DEF CacheKey
<1>2. /\ UNCHANGED <<given, reading, stage, loop, dialogue, window, shown, spoilt, stop, cache>>
      /\ stage \in Asking /\ request = Nothing /\ answer = Nothing /\ asked' = asked + 1
  BY DEF Ask, Idle
<1>3. \/ key \in DOMAIN cache /\ answer' = Get(key) /\ UNCHANGED <<request, tries, paid>>
      \/ request' = key /\ tries' = 1 /\ paid' = paid + 1 /\ answer' = answer
  BY DEF Ask
<1> HIDE DEF key
<1>4. key.tools \in BOOLEAN /\ (stage # "loop" => key.tools = FALSE)
  BY <1>1, NeedsOfStages
<1>5. ASSUME key \in DOMAIN cache
      PROVE  Get(key) \in AnswerRecords /\ (key.tools = FALSE => Get(key).calls = <<>>)
  BY <1>5 DEF Inv, AnswersInv, Get, AnswerRecords
<1>6. asked \in Nat /\ paid \in 0..asked
  BY DEF Inv, NumbersInv, TypeOK
<1>7. TypeOK'
  <2>1. tries' \in 0..MaxAttempts /\ paid' \in 0..asked'
    BY <1>2, <1>3, <1>6, BoundsAssumption DEF Inv, TypeOK
  <2>2. request' # Nothing => request'.model \in Models /\ stage' \in Asking /\ answer' = Nothing
    BY <1>1, <1>2, <1>3
  <2>3. QED
    BY <1>2, <2>1, <2>2 DEF Inv, TypeOK, given, loop
<1>8. DialogueInv' /\ NumbersInv' /\ StagesInv'
  <2>1. DialogueInv' /\ NumbersInv'
    BY <1>2, <1>6, Silent DEF Inv, NumbersInv, loop
  <2>2. StagesInv'
    BY <1>2 DEF Inv, StagesInv, loop, given, Asking
  <2>3. QED
    BY <2>1, <2>2
<1>9. AnswersInv'
  <2>1. answer' \in AnswerRecords \cup {Nothing}
    BY <1>2, <1>3, <1>5
  <2>2. answer' # Nothing /\ stage' # "loop" => answer'.calls = <<>>
    BY <1>2, <1>3, <1>4, <1>5
  <2>3. request' # Nothing => request'.messages = dialogue' /\ (stage' # "loop" => request'.tools = FALSE)
    BY <1>1, <1>2, <1>3, <1>4
  <2>4. QED
    BY <1>2, <2>1, <2>2, <2>3 DEF Inv, AnswersInv
<1>10. QED
  BY <1>7, <1>8, <1>9 DEF Inv

LEMMA RespondKeepsInv ==
    ASSUME Inv, Respond
    PROVE  Inv'
<1>1. /\ request # Nothing /\ request' = Nothing /\ tries' = 0
      /\ UNCHANGED <<given, reading, stage, loop, dialogue, window, shown, asked, paid, stop>>
  BY DEF Respond
<1>2. PICK a \in Answers(request.tools) :
          /\ answer' = [a EXCEPT !.window = choice[request.model].window]
          /\ cache' = Put(request, answer')
          /\ spoilt' = (spoilt \/ a.cut)
  BY DEF Respond
<1>3. choice[request.model].window \in Nat
  <2>1. request.model \in Models /\ choice \in Choices
    BY <1>1 DEF Inv, TypeOK
  <2>2. QED
    BY <2>1, BoundsAssumption DEF Choices, ModelChoice
<1>4. answer' \in AnswerRecords /\ (request.tools = FALSE => answer'.calls = <<>>)
  BY <1>2, <1>3, AnswersAreRecords
<1>5. request' = Nothing /\ spoilt' \in BOOLEAN
  BY <1>1, <1>2
<1>6. TypeOK'
  BY <1>1, <1>5, BoundsAssumption DEF Inv, TypeOK, given, loop
<1>7. DialogueInv' /\ NumbersInv'
  BY <1>1, Silent DEF Inv, NumbersInv, loop
<1>8. StagesInv'
  <2>1. stage # "planned"
    BY <1>1 DEF Inv, TypeOK, Asking
  <2>2. QED
    BY <1>1, <2>1 DEF Inv, StagesInv, loop, given
<1>9. AnswersInv'
  <2>1. stage # "loop" => answer'.calls = <<>>
    BY <1>1, <1>4 DEF Inv, AnswersInv
  <2>2. ASSUME NEW k \in DOMAIN cache'
        PROVE  cache'[k] \in AnswerRecords /\ (k.tools = FALSE => cache'[k].calls = <<>>)
    <3>1. CASE cache' = cache
      BY <2>2, <3>1 DEF Inv, AnswersInv
    <3>2. CASE cache' = [h \in DOMAIN cache \cup {request} |-> IF h = request THEN answer' ELSE cache[h]]
      <4>1. k = request \/ k \in DOMAIN cache
        BY <2>2, <3>2
      <4>2. cache'[k] = IF k = request THEN answer' ELSE cache[k]
        BY <2>2, <3>2
      <4>3. QED
        BY <1>4, <4>1, <4>2 DEF Inv, AnswersInv
    <3>3. QED
      BY <1>2, <3>1, <3>2 DEF Put
  <2>3. QED
    BY <1>1, <1>4, <2>1, <2>2 DEF AnswersInv
<1>10. QED
  BY <1>6, <1>7, <1>8, <1>9 DEF Inv



(* A request is tried again, and a step that says nothing.                 *)
LEMMA QuietStepsKeepInv ==
    ASSUME Inv, Begin \/ Interrupt \/ Retry \/ RequestStop \/ UNCHANGED vars
    PROVE  Inv'
<1>1. CASE Begin
  <2>1. stage' \in {"loop", "single"} /\ stage = "planned"
    BY <1>1 DEF Begin, FirstStage
  <2>2. UNCHANGED <<given, reading, loop, dialogue, window, shown, calls, counts, stop, cache>>
    BY <1>1 DEF Begin
  <2>3. request = Nothing /\ answer = Nothing /\ attempt = 0 /\ seen = {} /\ dialogue = <<>>
    BY <2>1 DEF Inv, StagesInv, TypeOK, Asking
  <2>4. TypeOK'
    BY <2>1, <2>2, <2>3 DEF Inv, TypeOK, given, loop, calls, counts, Asking
  <2>5. DialogueInv' /\ NumbersInv'
    BY <2>2, Silent DEF Inv, NumbersInv, loop, counts
  <2>6. AnswersInv'
    BY <2>2, <2>3 DEF Inv, AnswersInv, calls
  <2>7. StagesInv'
    BY <2>1, <2>2, <2>3, BoundsAssumption DEF StagesInv, loop, given
  <2>8. QED
    BY <2>4, <2>5, <2>6, <2>7 DEF Inv
<1>2. CASE Interrupt
  <2>1. stage' = "stopped" /\ request = Nothing /\ answer = Nothing
    BY <1>2 DEF Interrupt, Idle
  <2>2. UNCHANGED <<given, reading, loop, dialogue, window, shown, calls, counts, stop, cache>>
    BY <1>2 DEF Interrupt
  <2>3. TypeOK'
    BY <2>1, <2>2 DEF Inv, TypeOK, given, loop, calls, counts
  <2>4. DialogueInv' /\ NumbersInv'
    BY <2>2, Silent DEF Inv, NumbersInv, loop, counts
  <2>5. AnswersInv' /\ StagesInv'
    BY <2>1, <2>2 DEF Inv, AnswersInv, StagesInv, calls
  <2>6. QED
    BY <2>3, <2>4, <2>5 DEF Inv
<1>3. CASE Retry
  <2>1. tries' \in 0..MaxAttempts
    BY <1>3, BoundsAssumption DEF Retry, Inv, TypeOK
  <2>2. UNCHANGED <<given, reading, stage, loop, dialogue, window, shown, request, answer, counts, stop, cache>>
    BY <1>3 DEF Retry
  <2>3. TypeOK'
    BY <2>1, <2>2 DEF Inv, TypeOK, given, loop, counts
  <2>4. DialogueInv' /\ NumbersInv'
    BY <2>2, Silent DEF Inv, NumbersInv, loop, counts
  <2>5. AnswersInv' /\ StagesInv'
    BY <2>2 DEF Inv, AnswersInv, StagesInv, loop, given
  <2>6. QED
    BY <2>3, <2>4, <2>5 DEF Inv
<1>4. CASE RequestStop \/ UNCHANGED vars
  <2>1. stop' \in BOOLEAN
    BY <1>4 DEF RequestStop, vars, Inv, TypeOK
  <2>2. UNCHANGED <<given, reading, stage, loop, dialogue, window, shown, calls, counts, cache>>
    BY <1>4 DEF RequestStop, vars
  <2>3. TypeOK'
    BY <2>1, <2>2 DEF Inv, TypeOK, given, loop, calls, counts
  <2>4. DialogueInv' /\ NumbersInv'
    BY <2>2, Silent DEF Inv, NumbersInv, loop, counts
  <2>5. AnswersInv' /\ StagesInv'
    BY <2>2 DEF Inv, AnswersInv, StagesInv, loop, given, calls
  <2>6. QED
    BY <2>3, <2>4, <2>5 DEF Inv
<1>5. QED
  BY <1>1, <1>2, <1>3, <1>4

(* A refusal ends the reading; a full window ends it or starts it afresh.  *)
LEMMA RefusalKeepsInv ==
    ASSUME Inv, Refuse \/ Overflow
    PROVE  Inv'
<1>1. /\ request' = Nothing /\ tries' = 0 /\ spoilt' = TRUE /\ answer = Nothing
      /\ UNCHANGED <<given, reading, loop, window, answer, asked, paid, stop, cache>>
  BY DEF Refuse, Overflow, FallBack, Inv, TypeOK
<1>2. \/ stage' = "failed" /\ UNCHANGED <<dialogue, shown>>
      \/ stage' = "single" /\ dialogue' = <<>> /\ shown' = {}
  BY DEF Refuse, Overflow, FallBack
<1>3. shown' \subseteq Calls /\ stage' \in Asking \cup {"failed"}
  BY <1>2 DEF Inv, TypeOK, Asking
<1>4. TypeOK'
  BY <1>1, <1>3, BoundsAssumption DEF Inv, TypeOK, given, loop
<1>5. DialogueInv'
  BY <1>2, Silent, Forgotten DEF Inv
<1>6. NumbersInv'
  BY <1>1 DEF Inv, NumbersInv, loop
<1>7. AnswersInv'
  BY <1>1 DEF Inv, AnswersInv
<1>8. StagesInv'
  BY <1>2 DEF StagesInv
<1>9. QED
  BY <1>4, <1>5, <1>6, <1>7, <1>8 DEF Inv

-----------------------------------------------------------------------------
(* The loop handles an answer.                                             *)

LEMMA HeardAnswer ==
    ASSUME Inv, Heard
    PROVE  /\ answer \in AnswerRecords /\ answer.window \in Nat /\ Fitted \in Nat
           /\ request = Nothing /\ attempt + 1 \in 1..MaxSteps
           /\ stage = "loop" /\ seen \cap fruitful \subseteq shown
<1>1. stage = "loop" /\ answer # Nothing /\ answer \in AnswerRecords
  BY DEF Heard, Inv, AnswersInv
<1>2. answer.window \in Nat
  BY <1>1 DEF AnswerRecords
<1>3. Fitted \in Nat
  BY <1>2, ResultCharsType DEF Fitted, Inv, NumbersInv
<1>4. request = Nothing
  BY <1>1 DEF Inv, TypeOK
<1>5. attempt + 1 \in 1..MaxSteps /\ seen \cap fruitful \subseteq shown
  BY <1>1, BoundsAssumption DEF Inv, TypeOK, StagesInv
<1>6. QED
  BY <1>1, <1>2, <1>3, <1>4, <1>5

(* What every handler of the loop does besides talking.                    *)
LEMMA LoopStep ==
    ASSUME Inv, Heard, Counted, DialogueInv',
           seen' \subseteq Calls, nudged' \in BOOLEAN,
           \/ stage' \in {"closing", "done"}
           \/ stage' = "loop" /\ attempt + 1 < MaxSteps /\ seen' \cap fruitful \subseteq shown'
    PROVE  Inv'
<1>1. /\ answer' = Nothing /\ window' = answer.window /\ fitted' = Fitted /\ attempt' = attempt + 1
      /\ UNCHANGED <<given, reading, request, tries, counts, stop, cache>>
  BY DEF Heard, Counted
<1>2. /\ answer.window \in Nat /\ Fitted \in Nat
      /\ request = Nothing /\ attempt + 1 \in 1..MaxSteps
  BY HeardAnswer
<1>3. shown' \subseteq Calls
  BY DEF DialogueInv, CodeIn
<1>4. TypeOK'
  BY <1>1, <1>2, <1>3 DEF Inv, TypeOK, given, counts, Asking
<1>5. NumbersInv'
  BY <1>1, <1>2 DEF Inv, NumbersInv, counts
<1>6. AnswersInv'
  BY <1>1, <1>2 DEF Inv, AnswersInv
<1>7. StagesInv'
  BY <1>1 DEF StagesInv, given
<1>8. QED
  BY <1>4, <1>5, <1>6, <1>7 DEF Inv

LEMMA RefuseCallsKeepsInv ==
    ASSUME Inv, RefuseCalls
    PROVE  Inv'
<1> DEFINE said == <<FromModel(answer)>>
           results == RefusedCalls(answer.calls)
           ours == <<FromUs("reissue")>>
           t == (said \o results) \o ours
<1>1. Heard /\ Counted /\ UNCHANGED <<seen, shown, nudged>>
  BY DEF RefuseCalls
<1>2. answer \in AnswerRecords /\ stage = "loop" /\ seen \cap fruitful \subseteq shown
  BY <1>1, HeardAnswer
<1>3. Round(said \o results) /\ CodeIn(said \o results) = {}
  BY <1>2, RefusedIsRound
<1>4. Round(ours) /\ CodeIn(ours) = {}
  BY OurWord DEF Round, Words
<1>5. Round(t) /\ CodeIn(t) = {}
  BY <1>3, <1>4, TwoRounds
<1>6. said \in Seq(Messages) /\ results \in Seq(Messages)
  <2>1. said \in Seq(Messages)
    BY <1>2 DEF FromModel, AnswerRecords, Messages
  <2>2. QED
    BY <1>2, <2>1, RefusedIsRound
<1>7. Continue(((dialogue \o said) \o results) \o ours)
  BY DEF RefuseCalls, RefusedCalls
<1>8. ((dialogue \o said) \o results) \o ours = dialogue \o t
  <2>1. /\ dialogue \in Seq(Messages)
        /\ said \o results \in Seq(Messages) /\ ours \in Seq(Messages)
    BY <1>3, <1>4 DEF Inv, DialogueInv, Round
  <2> HIDE DEF said, results, ours
  <2>2. (dialogue \o said) \o results = dialogue \o (said \o results)
    BY <1>6, <2>1, ConcatAssociative
  <2>3. (dialogue \o (said \o results)) \o ours = dialogue \o ((said \o results) \o ours)
    <3> DEFINE round == said \o results
    <3> HIDE DEF round
    <3>1. round \in Seq(Messages)
      BY <2>1 DEF round
    <3>2. (dialogue \o round) \o ours = dialogue \o (round \o ours)
      <4>1. Regroups(dialogue, round, ours)
        BY <2>1, <3>1, RoundsRegroup, Zenon
      <4>2. QED
        BY <4>1, Zenon DEF Regroups
    <3>3. QED
      BY <3>2 DEF round
  <2>4. QED
    BY <2>2, <2>3
<1>9. shown' = shown \cup CodeIn(t)
  BY <1>1, <1>5
<1> HIDE DEF said, results, ours, t
<1>10. /\ DialogueInv'
       /\ stage' = "closing" \/ (stage' = "loop" /\ attempt + 1 < MaxSteps)
  BY <1>5, <1>7, <1>8, <1>9, Turn DEF Inv
<1>11. QED
  BY <1>1, <1>2, <1>10, LoopStep DEF Inv, TypeOK

LEMMA RunToolsKeepsInv ==
    ASSUME Inv, RunTools
    PROVE  Inv'
<1> DEFINE s == answer.calls
           said == <<FromModel(answer)>>
           results == RunCalls(s)
           called == {s[i] : i \in DOMAIN s}
           t == said \o results
<1>1. Heard /\ Counted /\ UNCHANGED nudged
  BY DEF RunTools
<1>2. /\ answer \in AnswerRecords /\ Fitted \in Nat
      /\ stage = "loop" /\ seen \cap fruitful \subseteq shown
  BY <1>1, HeardAnswer
<1>3. Round(t) /\ CodeIn(t) = (called \cap fruitful) \ seen
  BY <1>2, RunIsRound
<1>4. called \subseteq Calls
  BY <1>2 DEF AnswerRecords
<1>5. /\ seen' = seen \cup called /\ shown' = shown \cup (called \cap fruitful)
      /\ Conclude((dialogue \o said) \o results) \/ Continue((dialogue \o said) \o results)
  BY DEF RunTools, RunCalls
<1>6. (dialogue \o said) \o results = dialogue \o t
  <2>1. said \in Seq(Messages)
    BY <1>2 DEF FromModel, AnswerRecords, Messages
  <2>2. results \in Seq(Messages)
    BY <1>2, RunIsRound
  <2>3. dialogue \in Seq(Messages)
    BY DEF Inv, DialogueInv
  <2> HIDE DEF said, results
  <2>4. QED
    BY <2>1, <2>2, <2>3, ConcatAssociative
<1>7. shown' = shown \cup CodeIn(t)
  BY <1>2, <1>3, <1>5
<1> HIDE DEF said, results, t, called
<1>8. /\ DialogueInv'
      /\ stage' = "closing" \/ (stage' = "loop" /\ attempt + 1 < MaxSteps)
  BY <1>3, <1>5, <1>6, <1>7, Turn DEF Inv
<1>9. seen' \subseteq Calls /\ seen' \cap fruitful \subseteq shown' /\ nudged' \in BOOLEAN
  BY <1>1, <1>2, <1>4, <1>5 DEF Inv, TypeOK
<1>10. QED
  BY <1>1, <1>8, <1>9, LoopStep

LEMMA NudgeKeepsInv ==
    ASSUME Inv, Nudge
    PROVE  Inv'
<1> DEFINE t == <<FromModel(answer), FromUs("unproven")>>
<1>1. Heard /\ Counted /\ UNCHANGED <<seen, shown>> /\ nudged' = TRUE /\ answer.calls = <<>>
  BY DEF Nudge
<1>2. answer \in AnswerRecords /\ seen \cap fruitful \subseteq shown
  BY <1>1, HeardAnswer
<1>3. Round(t) /\ CodeIn(t) = {}
  BY <1>1, <1>2, RoundOfTwo DEF Words
<1>4. Continue(dialogue \o t) /\ shown' = shown \cup CodeIn(t)
  BY <1>1, <1>3 DEF Nudge
<1> HIDE DEF t
<1>5. /\ DialogueInv'
      /\ stage' = "closing" \/ (stage' = "loop" /\ attempt + 1 < MaxSteps)
  BY <1>3, <1>4, Turn DEF Inv
<1>6. seen' \subseteq Calls /\ nudged' \in BOOLEAN /\ seen' \cap fruitful \subseteq shown'
  BY <1>1, <1>2 DEF Inv, TypeOK
<1>7. QED
  BY <1>1, <1>5, <1>6, LoopStep

LEMMA LeaveLoopKeepsInv ==
    ASSUME Inv, FinishInLoop \/ GiveUpLoop
    PROVE  Inv'
<1>1. Heard /\ Counted /\ UNCHANGED <<seen, shown, nudged>>
  BY DEF FinishInLoop, GiveUpLoop
<1>2. DialogueInv' /\ stage' \in {"closing", "done"}
  <2>1. CASE FinishInLoop
    BY <2>1, Silent DEF FinishInLoop, Inv
  <2>2. CASE GiveUpLoop
    <3>1. Conclude(dialogue \o <<>>) /\ shown' = shown \cup CodeIn(<<>>)
      <4>1. dialogue \o <<>> = dialogue
        BY DEF Inv, DialogueInv
      <4>2. QED
        BY <2>2, <4>1, NoWords DEF GiveUpLoop
    <3>2. DialogueInv'
      BY <3>1, NoWords, Turn DEF Inv
    <3>3. QED
      BY <2>2, <3>2 DEF GiveUpLoop, Conclude
  <2>3. QED
    BY <2>1, <2>2
<1>3. seen' \subseteq Calls /\ nudged' \in BOOLEAN
  BY <1>1 DEF Inv, TypeOK
<1>4. QED
  BY <1>1, <1>2, <1>3, LoopStep

-----------------------------------------------------------------------------
(* The conclusion and the single pass handle an answer.                    *)

LEMMA EndStep ==
    ASSUME Inv, Handled, DialogueInv',
           UNCHANGED <<given, reading, loop, window, stop, cache>>,
           \/ stage' \in {"done", "failed", "reclosing", "resingle"}
           \/ stage' = "single" /\ dialogue' = <<>>
    PROVE  Inv'
<1>1. answer' = Nothing /\ UNCHANGED <<request, tries, counts>> /\ request = Nothing
  BY DEF Handled, Inv, TypeOK
<1>2. shown' \subseteq Calls
  BY DEF DialogueInv, CodeIn
<1>3. TypeOK'
  BY <1>1, <1>2 DEF Inv, TypeOK, given, loop, counts, Asking
<1>4. NumbersInv'
  BY <1>1 DEF Inv, NumbersInv, loop, counts
<1>5. AnswersInv' /\ StagesInv'
  BY <1>1 DEF Inv, AnswersInv, StagesInv
<1>6. QED
  BY <1>3, <1>4, <1>5 DEF Inv

LEMMA AnswerClosingKeepsInv ==
    ASSUME Inv, AnswerClosing
    PROVE  Inv'
<1>1. /\ Handled /\ stage \in {"closing", "reclosing"}
      /\ UNCHANGED <<given, reading, loop, window, stop, cache>>
  BY DEF AnswerClosing, FallBack
<1>2. answer \in AnswerRecords /\ answer.calls = <<>>
  BY <1>1 DEF Handled, Inv, AnswersInv
<1>3. CASE stage' = "done" /\ UNCHANGED <<dialogue, shown>>
  BY <1>1, <1>3, Silent, EndStep DEF Inv
<1>4. CASE FallBack
  BY <1>1, <1>4, Forgotten, EndStep DEF FallBack
<1>5. ASSUME NEW says \in Words, stage' = "reclosing", UNCHANGED shown,
             dialogue' = dialogue \o <<FromModel(answer), FromUs(says)>>
      PROVE  Inv'
  <2> DEFINE t == <<FromModel(answer), FromUs(says)>>
  <2>1. Round(t) /\ CodeIn(t) = {}
    BY <1>2, RoundOfTwo
  <2>2. dialogue' = dialogue \o t /\ shown' = shown \cup CodeIn(t)
    BY <1>5, <2>1
  <2> HIDE DEF t
  <2>3. DialogueInv'
    BY <2>1, <2>2, Spoken DEF Inv
  <2>4. QED
    BY <1>1, <1>5, <2>3, EndStep
<1>6. QED
  <2>1. (IF answer.cut THEN "short" ELSE "json") \in Words
    BY DEF Words
  <2>2. QED
    BY <1>3, <1>4, <1>5, <2>1 DEF AnswerClosing

LEMMA AnswerSinglePassKeepsInv ==
    ASSUME Inv, AnswerSinglePass
    PROVE  Inv'
<1>1. /\ Handled /\ stage \in {"single", "resingle"} /\ UNCHANGED shown
      /\ UNCHANGED <<given, reading, loop, window, stop, cache>>
  BY DEF AnswerSinglePass
<1>2. CASE stage' \in {"done", "failed"} /\ UNCHANGED dialogue
  BY <1>1, <1>2, Silent, EndStep DEF Inv
<1>3. ASSUME NEW says \in Words, stage = "single", stage' = "resingle",
             dialogue' = <<FromUs(says)>>
      PROVE  Inv'
  <2> DEFINE t == <<FromUs(says)>>
  <2>1. Round(t) /\ CodeIn(t) = {}
    BY OurWord DEF Round
  <2>2. dialogue = <<>> /\ <<>> \o t = t
    BY <1>3, <2>1 DEF Inv, StagesInv, Round
  <2>3. dialogue' = dialogue \o t /\ shown' = shown \cup CodeIn(t)
    BY <1>1, <1>3, <2>1, <2>2
  <2> HIDE DEF t
  <2>4. DialogueInv'
    BY <2>1, <2>3, Spoken DEF Inv
  <2>5. QED
    BY <1>1, <1>3, <2>4, EndStep
<1>4. QED
  <2>1. (IF answer.cut THEN "cut" ELSE "json") \in Words
    BY DEF Words
  <2>2. QED
    BY <1>2, <1>3, <2>1 DEF AnswerSinglePass

LEMMA ReadAgainKeepsInv ==
    ASSUME Inv, ReadAgain
    PROVE  Inv'
<1>1. /\ stage' = "planned" /\ reading' = reading + 1 /\ reading < Readings
      /\ attempt' = 0 /\ dialogue' = <<>> /\ window' = 0 /\ fitted' = MinResult
      /\ seen' = {} /\ shown' = {} /\ nudged' = FALSE
      /\ request' = Nothing /\ tries' = 0 /\ answer' = Nothing
      /\ asked' = 0 /\ paid' = 0
      /\ UNCHANGED <<given, spoilt, stop, cache>>
  BY DEF ReadAgain, NoReading
<1>2. TypeOK'
  <2>1. /\ 0 \in 0..MaxSteps /\ 0 \in 0..MaxAttempts /\ 0 \in 0..0
        /\ reading + 1 \in 1..Readings
    BY <1>1, BoundsAssumption DEF Inv, TypeOK
  <2>2. QED
    BY <1>1, <2>1 DEF Inv, TypeOK, given
<1>3. DialogueInv' /\ NumbersInv'
  BY <1>1, Forgotten DEF NumbersInv, MinResult
<1>4. AnswersInv' /\ StagesInv'
  BY <1>1 DEF Inv, AnswersInv, StagesInv
<1>5. QED
  BY <1>2, <1>3, <1>4 DEF Inv

LEMMA ReadingIsInv ==
    Spec => []Inv
<1>1. Init => Inv
  <2> SUFFICES ASSUME Init PROVE Inv
    OBVIOUS
  <2> USE DEF Init, InitWith
  <2>1. TypeOK
    <3>1. 0 \in 0..MaxSteps /\ 0 \in 0..MaxAttempts /\ 0 \in 0..0 /\ 1 \in 1..Readings
      BY BoundsAssumption
    <3>2. QED
      BY <3>1 DEF TypeOK
  <2>2. DialogueInv /\ NumbersInv
    BY NoWords DEF DialogueInv, NumbersInv, MinResult, Round
  <2>3. AnswersInv /\ StagesInv
    BY DEF AnswersInv, StagesInv
  <2>4. QED
    BY <2>1, <2>2, <2>3 DEF Inv
<1>2. Inv /\ [Next]_vars => Inv'
  <2> SUFFICES ASSUME Inv, [Next]_vars PROVE Inv'
    OBVIOUS
  <2>1. CASE Begin \/ Interrupt \/ Retry \/ RequestStop \/ UNCHANGED vars
    BY <2>1, QuietStepsKeepInv
  <2>2. CASE Ask
    BY <2>2, AskKeepsInv
  <2>3. CASE Respond
    BY <2>3, RespondKeepsInv
  <2>4. CASE Refuse \/ Overflow
    BY <2>4, RefusalKeepsInv
  <2>5. CASE RefuseCalls
    BY <2>5, RefuseCallsKeepsInv
  <2>6. CASE RunTools
    BY <2>6, RunToolsKeepsInv
  <2>7. CASE Nudge
    BY <2>7, NudgeKeepsInv
  <2>8. CASE FinishInLoop \/ GiveUpLoop
    BY <2>8, LeaveLoopKeepsInv
  <2>9. CASE AnswerClosing
    BY <2>9, AnswerClosingKeepsInv
  <2>10. CASE AnswerSinglePass
    BY <2>10, AnswerSinglePassKeepsInv
  <2>11. CASE ReadAgain
    BY <2>11, ReadAgainKeepsInv
  <2>12. QED
    BY <2>1, <2>2, <2>3, <2>4, <2>5, <2>6, <2>7, <2>8, <2>9, <2>10, <2>11 DEF Next, Work, Call, Handle
<1>3. QED
  BY <1>1, <1>2, PTL DEF Spec

(* With any models, tools and bounds the counters of a reading stay within *)
(* their limits, and nothing is at a provider while an answer is handled.  *)
THEOREM ReadingIsTyped == Spec => []TypeOK
<1>1. Inv => TypeOK
  BY DEF Inv
<1>2. QED
  BY <1>1, ReadingIsInv, PTL

(* However the model repeats itself, cuts its calls off or is made to      *)
(* conclude: no request holds a call without its result, or a result       *)
(* without its call (client.py, _to_wire).                                 *)
THEOREM DialogueIsAnswered == Spec => []EveryCallIsAnswered
<1>1. Inv => EveryCallIsAnswered
  BY DEF Inv, AnswersInv, DialogueInv, EveryCallIsAnswered
<1>2. QED
  BY <1>1, ReadingIsInv, PTL

(* A finished reading confirms quotations by what its tools showed in the  *)
(* dialogue that answered, and by all of it (_run_tool, _fall_back).       *)
THEOREM EvidenceIsInTheDialogue == Spec => []EvidenceWasShown
<1>1. Inv => EvidenceWasShown
  BY DEF Inv, DialogueInv, EvidenceWasShown
<1>2. QED
  BY <1>1, ReadingIsInv, PTL
===============================================================================
