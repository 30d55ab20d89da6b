------------------------------ MODULE Findings ------------------------------
(***************************************************************************)
(* What becomes of the drafts the reviewers proposed: the aggregate node   *)
(* merges those with one deduplication key, the verify node discards what  *)
(* the shown code does not confirm and names the reason, and the closing   *)
(* transaction of RunReview stores the rest.                               *)
(*                                                                         *)
(* A draft is what the two nodes ask of it: its key, whether its line is   *)
(* in the diff, where its quotations were found, whether it speaks of code *)
(* outside the patch, whether its reviewer was shown any, its severity.    *)
(* The counters of discarded drafts are the sets they count.               *)
(***************************************************************************)
EXTENDS Integers

CONSTANTS
    Drafts,      \* the drafts of all reviewers, in whatever order they come
    Keys,        \* deduplication keys
    Severities,  \* ranks of severity
    Nobody       \* no draft has this key yet

ASSUME SeverityAssumption == Severities \subseteq Nat
ASSUME NobodyAssumption == Nobody \notin Drafts

VARIABLES
    draft,      \* what each draft says
    stage,      \* the node that is working
    left,       \* the drafts it has not looked at yet
    survivor,   \* the draft that holds each key
    displaced,  \* the drafts that lost theirs
    outside,    \* discarded: not about the changed lines
    unquoted,   \* discarded: without confirmed evidence
    unproven,   \* discarded: speaks of code its reviewer never saw
    duplicates, \* discarded: another draft says the same
    confirmed,  \* the findings of the pipeline
    stored      \* the findings of the run

verdicts == <<outside, unquoted, unproven, duplicates, confirmed, stored>>
vars == <<draft, stage, left, survivor, displaced, verdicts>>

Sources == {"patch", "retrieved"}
Kinds == [key      : Keys,
          covers   : BOOLEAN,
          evidence : SUBSET Sources,
          claims   : BOOLEAN,
          shown    : BOOLEAN,
          severity : Severities]

TypeOK ==
    /\ draft \in [Drafts -> Kinds]
    /\ stage \in {"merging", "verifying", "saving"}
    /\ left \subseteq Drafts
    /\ survivor \in [Keys -> Drafts \cup {Nobody}]
    /\ \A s \in {displaced, outside, unquoted, unproven, duplicates, confirmed, stored} :
          s \subseteq Drafts
    /\ stage = "saving" => left \subseteq confirmed

(* "It will break its callers" cannot be said from the patch: it counts    *)
(* only when a quotation comes from elsewhere or anything was shown.       *)
Proven(d) == draft[d].claims => "retrieved" \in draft[d].evidence \/ draft[d].shown

Confirmable(d) == draft[d].evidence # {} /\ Proven(d)

Passes(d) == draft[d].covers /\ Confirmable(d)

\* mutant: severity decides before the evidence
SeverityFirst(d, e) ==
    \/ draft[d].severity > draft[e].severity
    \/ draft[d].severity = draft[e].severity /\ Confirmable(d) /\ ~Confirmable(e)

(* _survival_rank: the changed lines first, then the evidence, then the    *)
(* severity.                                                               *)
Outranks(d, e) ==
    \/ draft[d].covers /\ ~draft[e].covers
    \/ /\ draft[d].covers = draft[e].covers
       /\ \/ Confirmable(d) /\ ~Confirmable(e)
          \/ /\ Confirmable(d) = Confirmable(e)
             /\ draft[d].severity > draft[e].severity

InitWith(kinds) ==
    /\ draft \in [Drafts -> kinds]
    /\ stage = "merging"
    /\ left = Drafts
    /\ survivor = [k \in Keys |-> Nobody]
    /\ displaced = {}
    /\ outside = {} /\ unquoted = {} /\ unproven = {} /\ duplicates = {}
    /\ confirmed = {} /\ stored = {}

Init == InitWith(Kinds)

\* mutant: a draft that takes over a key drops the previous one
MergeForgetting(d) ==
    /\ stage = "merging"
    /\ d \in left
    /\ left' = left \ {d}
    /\ LET previous == survivor[draft[d].key] IN
          \/ /\ previous # Nobody => Outranks(d, previous)
             /\ survivor' = [survivor EXCEPT ![draft[d].key] = d]
             /\ UNCHANGED displaced
          \/ /\ previous # Nobody /\ ~Outranks(d, previous)
             /\ displaced' = displaced \cup {d}
             /\ UNCHANGED survivor
    /\ UNCHANGED <<draft, stage, verdicts>>

Merge(d) ==
    /\ stage = "merging"
    /\ d \in left
    /\ left' = left \ {d}
    /\ LET previous == survivor[draft[d].key] IN
          \/ /\ previous = Nobody
             /\ survivor' = [survivor EXCEPT ![draft[d].key] = d]
             /\ UNCHANGED displaced
          \/ /\ previous # Nobody /\ Outranks(d, previous)
             /\ survivor' = [survivor EXCEPT ![draft[d].key] = d]
             /\ displaced' = displaced \cup {previous}
          \/ /\ previous # Nobody /\ ~Outranks(d, previous)
             /\ displaced' = displaced \cup {d}
             /\ UNCHANGED survivor
    /\ UNCHANGED <<draft, stage, verdicts>>

Merged == {d \in Drafts : survivor[draft[d].key] = d}

BeginVerifying ==
    /\ stage = "merging"
    /\ left = {}
    /\ stage' = "verifying"
    /\ left' = Merged \cup displaced
    /\ UNCHANGED <<draft, survivor, displaced, verdicts>>

VerifyMerged(d) ==
    /\ stage = "verifying"
    /\ d \in left \cap Merged
    /\ left' = left \ {d}
    /\ \/ /\ ~draft[d].covers
          /\ outside' = outside \cup {d}
          /\ UNCHANGED <<unquoted, unproven, confirmed>>
       \/ /\ draft[d].covers /\ draft[d].evidence = {}
          /\ unquoted' = unquoted \cup {d}
          /\ UNCHANGED <<outside, unproven, confirmed>>
       \/ /\ draft[d].covers /\ draft[d].evidence # {} /\ ~Proven(d)
          /\ unproven' = unproven \cup {d}
          /\ UNCHANGED <<outside, unquoted, confirmed>>
       \/ /\ Passes(d)
          /\ confirmed' = confirmed \cup {d}
          /\ UNCHANGED <<outside, unquoted, unproven>>
    /\ UNCHANGED <<draft, stage, survivor, displaced, duplicates, stored>>

(* A displaced draft is asked for its evidence with the proof of its claim *)
(* included, so it is never counted as unproven.                           *)
VerifyDisplaced(d) ==
    /\ stage = "verifying"
    /\ d \in left \cap displaced
    /\ left' = left \ {d}
    /\ \/ /\ ~draft[d].covers
          /\ outside' = outside \cup {d}
          /\ UNCHANGED <<unquoted, duplicates>>
       \/ /\ draft[d].covers /\ ~Confirmable(d)
          /\ unquoted' = unquoted \cup {d}
          /\ UNCHANGED <<outside, duplicates>>
       \/ /\ Passes(d)
          /\ duplicates' = duplicates \cup {d}
          /\ UNCHANGED <<outside, unquoted>>
    /\ UNCHANGED <<draft, stage, survivor, displaced, unproven, confirmed, stored>>

\* mutant: the closing transaction is given what verify discarded, too
SaveEverything ==
    /\ stage = "verifying"
    /\ left = {}
    /\ stage' = "saving"
    /\ left' = Drafts
    /\ UNCHANGED <<draft, survivor, displaced, verdicts>>

BeginSaving ==
    /\ stage = "verifying"
    /\ left = {}
    /\ stage' = "saving"
    /\ left' = confirmed
    /\ UNCHANGED <<draft, survivor, displaced, verdicts>>

(* ReviewRun.add_finding refuses a finding whose key the run already has.  *)
Save(d) ==
    /\ stage = "saving"
    /\ d \in left
    /\ left' = left \ {d}
    /\ IF \E e \in stored : draft[e].key = draft[d].key
       THEN duplicates' = duplicates \cup {d} /\ UNCHANGED stored
       ELSE stored' = stored \cup {d} /\ UNCHANGED duplicates
    /\ UNCHANGED <<draft, stage, survivor, displaced, outside, unquoted, unproven, confirmed>>

Next ==
    \/ \E d \in Drafts : Merge(d) \/ VerifyMerged(d) \/ VerifyDisplaced(d) \/ Save(d)
    \/ BeginVerifying \/ BeginSaving

Spec == Init /\ [][Next]_vars

Over == stage = "saving" /\ left = {}

-----------------------------------------------------------------------------
(* Properties.                                                             *)

Fates == <<outside, unquoted, unproven, duplicates, stored>>

(* The numbers the run reports add up: every proposed draft is a stored    *)
(* finding or was discarded for one reason, in whatever order the          *)
(* reviewers answered and however often a key changed hands (ReviewOutcome *)
(* and the counters of verify).                                            *)
EveryDraftEndsOnce ==
    Over => /\ Drafts = UNION {Fates[i] : i \in DOMAIN Fates}
            /\ \A i, j \in DOMAIN Fates : i # j => Fates[i] \cap Fates[j] = {}

(* Merging loses nothing: of the drafts with one key that would pass the   *)
(* verification one is stored, and none of them is more severe (aggregate: *)
(* a draft with an invented quotation must not displace its true twin).    *)
BestDraftIsStored ==
    Over => \A d \in Drafts :
        Passes(d) => \E e \in stored : /\ draft[e].key = draft[d].key
                                       /\ Passes(e)
                                       /\ draft[e].severity >= draft[d].severity
=============================================================================
