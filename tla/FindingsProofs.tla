--------------------------- MODULE FindingsProofs ---------------------------
(***************************************************************************)
(* Findings proved for any number of drafts, keys and severities.  The     *)
(* invariant has two halves: what merging has established about the        *)
(* survivor of each key, and which set each judged draft is in.            *)
(***************************************************************************)
EXTENDS Findings, TLAPS

(* A key's survivor has that key and is outranked by no draft it displaced; *)
(* every draft that was looked at is a survivor or displaced, not both.    *)
MergeInv ==
    /\ \A k \in Keys : survivor[k] # Nobody => draft[survivor[k]].key = k
    /\ \A d \in Drafts :
          \/ stage = "merging" /\ d \in left /\ d \notin displaced /\ d \notin Merged
          \/ (stage = "merging" => d \notin left) /\ d \in Merged /\ d \notin displaced
          \/ (stage = "merging" => d \notin left) /\ d \notin Merged /\ d \in displaced
    /\ \A d \in displaced : /\ survivor[draft[d].key] # Nobody
                            /\ ~Outranks(d, survivor[draft[d].key])

(* The drafts verify has judged.                                           *)
Judged(d) == stage = "saving" \/ (stage = "verifying" /\ d \notin left)

VerdictInv ==
    \A d \in Drafts :
        /\ d \in outside <=> Judged(d) /\ ~draft[d].covers
        /\ d \in unquoted <=> /\ Judged(d) /\ draft[d].covers
                              /\ IF d \in Merged THEN draft[d].evidence = {} ELSE ~Confirmable(d)
        /\ d \in unproven <=> /\ Judged(d) /\ draft[d].covers /\ d \in Merged
                              /\ draft[d].evidence # {} /\ ~Proven(d)
        /\ d \in duplicates <=> Judged(d) /\ Passes(d) /\ d \notin Merged
        /\ d \in confirmed <=> Judged(d) /\ Passes(d) /\ d \in Merged
        /\ d \in stored <=> stage = "saving" /\ d \in confirmed /\ d \notin left

IInv == TypeOK /\ MergeInv /\ VerdictInv

-----------------------------------------------------------------------------
(* Of two drafts with one key, a survivor outranked by neither passes      *)
(* whenever the other does, and is at least as severe.                     *)
LEMMA NotOutrankedPasses ==
    ASSUME NEW d \in Drafts, NEW e \in Drafts,
           draft \in [Drafts -> Kinds], Passes(d), ~Outranks(d, e)
    PROVE  Passes(e) /\ draft[e].severity >= draft[d].severity
<1>1. /\ draft[d].covers \in BOOLEAN /\ draft[e].covers \in BOOLEAN
      /\ draft[d].severity \in Nat /\ draft[e].severity \in Nat
  BY SeverityAssumption DEF Kinds
<1>2. Confirmable(d) /\ draft[d].covers
  BY DEF Passes
<1>3. draft[e].covers
  BY <1>1, <1>2 DEF Outranks
<1>4. Confirmable(e) /\ ~(draft[d].severity > draft[e].severity)
  BY <1>1, <1>2, <1>3 DEF Outranks
<1> QED
  BY <1>1, <1>3, <1>4 DEF Passes

LEMMA InitIInv == Init => IInv
<1> SUFFICES ASSUME Init PROVE IInv
  OBVIOUS
<1>1. \A d \in Drafts : draft[d].key \in Keys
  BY DEF Init, InitWith, Kinds
<1>2. Merged = {}
  BY <1>1, NobodyAssumption DEF Init, InitWith, Merged
<1>3. TypeOK
  BY DEF Init, InitWith, TypeOK
<1>4. MergeInv
  BY <1>2 DEF Init, InitWith, MergeInv
<1>5. VerdictInv
  BY DEF Init, InitWith, VerdictInv, Judged
<1> QED
  BY <1>3, <1>4, <1>5 DEF IInv

(* A key that changes hands leaves its previous holder among the           *)
(* displaced, and everything displaced before stays outranked: whoever     *)
(* outranks the holder outranks what the holder outranked.                 *)
LEMMA OutranksTransitive ==
    ASSUME NEW d \in Drafts, NEW e \in Drafts, NEW f \in Drafts,
           draft \in [Drafts -> Kinds], Outranks(d, e), ~Outranks(f, e)
    PROVE  ~Outranks(f, d)
<1>1. /\ draft[d].severity \in Nat /\ draft[e].severity \in Nat /\ draft[f].severity \in Nat
      /\ draft[d].covers \in BOOLEAN /\ draft[e].covers \in BOOLEAN /\ draft[f].covers \in BOOLEAN
  BY SeverityAssumption DEF Kinds
<1> QED
  BY <1>1 DEF Outranks, Confirmable, Proven

(* What is displaced by a draft does not outrank it in turn.               *)
LEMMA OutranksAsymmetric ==
    ASSUME NEW d \in Drafts, NEW e \in Drafts,
           draft \in [Drafts -> Kinds], Outranks(d, e)
    PROVE  ~Outranks(e, d)
<1>1. /\ draft[d].severity \in Nat /\ draft[e].severity \in Nat
      /\ draft[d].covers \in BOOLEAN /\ draft[e].covers \in BOOLEAN
  BY SeverityAssumption DEF Kinds
<1> QED
  BY <1>1 DEF Outranks, Confirmable, Proven

LEMMA MergeKeepsIInv ==
    ASSUME IInv, NEW d \in Drafts, Merge(d)
    PROVE  IInv'
<1> DEFINE k == draft[d].key
           previous == survivor[k]
<1> USE DEF verdicts
<1>0. k \in Keys /\ d # Nobody /\ \A e \in Drafts : draft[e].key \in Keys
  BY NobodyAssumption DEF IInv, TypeOK, Kinds
<1>1. TypeOK'
  BY <1>0 DEF IInv, TypeOK, Merge
<1>2. stage = "merging" /\ stage' = "merging" /\ d \in left /\ left' = left \ {d} /\ draft' = draft
  BY DEF Merge
<1>3. d \notin Merged /\ d \notin displaced
  BY <1>2 DEF IInv, MergeInv
<1>4. previous # Nobody => previous \in Merged /\ previous \in Drafts /\ previous # d
                           /\ draft[previous].key = k
  BY <1>0, <1>3 DEF IInv, TypeOK, MergeInv, Merged
<1>5. \A e \in displaced : e \in Drafts /\ e \notin Merged
  BY DEF IInv, TypeOK, MergeInv
<1> DEFINE Takes == /\ survivor' = [survivor EXCEPT ![k] = d]
                    /\ \/ previous = Nobody /\ displaced' = displaced
                       \/ /\ previous # Nobody /\ Outranks(d, previous)
                          /\ displaced' = displaced \cup {previous}
           Loses == /\ survivor' = survivor /\ displaced' = displaced \cup {d}
                    /\ previous # Nobody /\ ~Outranks(d, previous)
<1>6. MergeInv'
  <2>1. CASE Takes
    <3>1. \A e \in Drafts : e \in Merged' <=> e = d \/ (e \in Merged /\ e # previous)
      <4> SUFFICES ASSUME NEW e \in Drafts
                   PROVE  e \in Merged' <=> e = d \/ (e \in Merged /\ e # previous)
        OBVIOUS
      <4>1. e \in Merged' <=> survivor'[draft[e].key] = e
        BY <1>2 DEF Merged
      <4>2. e \in Merged <=> survivor[draft[e].key] = e
        BY DEF Merged
      <4>3. CASE draft[e].key = k
        BY <1>0, <2>1, <4>1, <4>2, <4>3 DEF IInv, TypeOK
      <4>4. CASE draft[e].key # k
        BY <1>0, <1>4, <2>1, <4>1, <4>2, <4>4, NobodyAssumption DEF IInv, TypeOK
      <4> QED BY <4>3, <4>4
    <3>2. \A e : e \in displaced' <=> e \in displaced \/ (e = previous /\ previous # Nobody)
      BY <2>1
    <3>3. \A j \in Keys : survivor'[j] # Nobody => draft'[survivor'[j]].key = j
      BY <1>0, <1>2, <2>1 DEF IInv, TypeOK, MergeInv
    <3>4. previous # Nobody => Outranks(d, previous)
      BY <2>1
    <3>5. \A e \in displaced' : /\ survivor'[draft'[e].key] # Nobody
                                /\ ~Outranks(e, survivor'[draft[e].key])
      <4> SUFFICES ASSUME NEW e \in displaced'
                   PROVE  survivor'[draft'[e].key] # Nobody /\ ~Outranks(e, survivor'[draft[e].key])
        OBVIOUS
      <4>1. e \in Drafts
        BY <1>4, <1>5, <3>2
      <4>2. CASE draft[e].key # k
        BY <1>0, <1>2, <1>4, <2>1, <3>2, <4>1, <4>2 DEF IInv, TypeOK, MergeInv
      <4>3. CASE draft[e].key = k
        <5>1. survivor'[k] = d
          BY <1>0, <2>1 DEF IInv, TypeOK
        <5>2. previous # Nobody /\ (e = previous \/ ~Outranks(e, previous))
          BY <3>2, <4>3 DEF IInv, MergeInv
        <5>3. previous \in Drafts /\ Outranks(d, previous)
          BY <1>4, <3>4, <5>2
        <5>4. ~Outranks(e, d)
          BY <4>1, <5>2, <5>3, OutranksTransitive, OutranksAsymmetric DEF IInv, TypeOK
        <5> QED BY <1>0, <1>2, <4>3, <5>1, <5>4
      <4> QED BY <4>2, <4>3
    <3>6. \A e \in Drafts :
             \/ stage' = "merging" /\ e \in left' /\ e \notin displaced' /\ e \notin Merged'
             \/ (stage' = "merging" => e \notin left') /\ e \in Merged' /\ e \notin displaced'
             \/ (stage' = "merging" => e \notin left') /\ e \notin Merged' /\ e \in displaced'
      BY <1>2, <1>3, <1>4, <3>1, <3>2, NobodyAssumption DEF IInv, MergeInv
    <3> QED
      BY <1>2, <3>3, <3>5, <3>6 DEF MergeInv, Outranks, Confirmable, Proven
  <2>2. CASE Loses
    <3>1. Merged' = Merged
      BY <1>2, <2>2 DEF Merged
    <3>2. previous # Nobody /\ ~Outranks(d, previous) /\ displaced' = displaced \cup {d}
      BY <2>2
    <3>3. \A e \in displaced' : survivor[draft[e].key] # Nobody /\ ~Outranks(e, survivor[draft[e].key])
      BY <3>2 DEF IInv, MergeInv
    <3>4. \A e \in Drafts :
             \/ stage' = "merging" /\ e \in left' /\ e \notin displaced' /\ e \notin Merged'
             \/ (stage' = "merging" => e \notin left') /\ e \in Merged' /\ e \notin displaced'
             \/ (stage' = "merging" => e \notin left') /\ e \notin Merged' /\ e \in displaced'
      BY <1>2, <1>3, <3>1, <3>2 DEF IInv, MergeInv
    <3> QED
      BY <1>2, <2>2, <3>3, <3>4 DEF IInv, MergeInv, Outranks, Confirmable, Proven
  <2>3. Takes \/ Loses
    BY DEF Merge
  <2> QED BY <2>1, <2>2, <2>3
<1>7. VerdictInv'
  BY DEF IInv, VerdictInv, Merge, Judged
<1> QED BY <1>1, <1>6, <1>7 DEF IInv

(* After merging, the drafts, the survivors and the displaced stay.        *)
LEMMA MergedStays ==
    ASSUME IInv, UNCHANGED <<draft, survivor, displaced>>, stage # "merging" \/ left = {},
           stage' # "merging"
    PROVE  Merged' = Merged /\ MergeInv' /\ Drafts = Merged \cup displaced
<1>1. Merged' = Merged
  BY DEF Merged
<1>2. MergeInv'
  BY <1>1 DEF IInv, MergeInv, Outranks, Confirmable, Proven
<1>3. Drafts = Merged \cup displaced
  BY DEF IInv, TypeOK, MergeInv, Merged
<1> QED BY <1>1, <1>2, <1>3

LEMMA VerifyMergedKeepsIInv ==
    ASSUME IInv, NEW d \in Drafts, VerifyMerged(d)
    PROVE  IInv'
<1>1. /\ stage = "verifying" /\ stage' = "verifying" /\ d \in left /\ left' = left \ {d}
      /\ d \in Merged
      /\ UNCHANGED <<draft, survivor, displaced, duplicates, stored>>
  BY DEF VerifyMerged
<1>2. Merged' = Merged /\ MergeInv'
  BY <1>1, MergedStays
<1>3. TypeOK'
  BY <1>1 DEF IInv, TypeOK, VerifyMerged
<1>4. VerdictInv'
  <2> SUFFICES ASSUME NEW e \in Drafts PROVE
        /\ e \in outside' <=> Judged(e)' /\ ~draft[e].covers
        /\ e \in unquoted' <=> /\ Judged(e)' /\ draft[e].covers
                               /\ IF e \in Merged THEN draft[e].evidence = {} ELSE ~Confirmable(e)
        /\ e \in unproven' <=> /\ Judged(e)' /\ draft[e].covers /\ e \in Merged
                               /\ draft[e].evidence # {} /\ ~Proven(e)
        /\ e \in duplicates' <=> Judged(e)' /\ Passes(e) /\ e \notin Merged
        /\ e \in confirmed' <=> Judged(e)' /\ Passes(e) /\ e \in Merged
        /\ e \in stored' <=> stage' = "saving" /\ e \in confirmed' /\ e \notin left'
    BY <1>1, <1>2 DEF VerdictInv, Judged, Passes, Confirmable, Proven
  <2>1. CASE e = d
    BY <1>1, <2>1 DEF IInv, VerdictInv, Judged, VerifyMerged, Passes, Confirmable
  <2>2. CASE e # d
    BY <1>1, <2>2 DEF IInv, VerdictInv, Judged, VerifyMerged
  <2> QED BY <2>1, <2>2
<1> QED BY <1>2, <1>3, <1>4 DEF IInv

LEMMA VerifyDisplacedKeepsIInv ==
    ASSUME IInv, NEW d \in Drafts, VerifyDisplaced(d)
    PROVE  IInv'
<1>1. /\ stage = "verifying" /\ stage' = "verifying" /\ d \in left /\ left' = left \ {d}
      /\ d \in displaced
      /\ UNCHANGED <<draft, survivor, displaced, unproven, confirmed, stored>>
  BY DEF VerifyDisplaced
<1>2. Merged' = Merged /\ MergeInv' /\ d \notin Merged
  BY <1>1, MergedStays DEF IInv, MergeInv
<1>3. TypeOK'
  BY <1>1 DEF IInv, TypeOK, VerifyDisplaced
<1>4. VerdictInv'
  <2> SUFFICES ASSUME NEW e \in Drafts PROVE
        /\ e \in outside' <=> Judged(e)' /\ ~draft[e].covers
        /\ e \in unquoted' <=> /\ Judged(e)' /\ draft[e].covers
                               /\ IF e \in Merged THEN draft[e].evidence = {} ELSE ~Confirmable(e)
        /\ e \in unproven' <=> /\ Judged(e)' /\ draft[e].covers /\ e \in Merged
                               /\ draft[e].evidence # {} /\ ~Proven(e)
        /\ e \in duplicates' <=> Judged(e)' /\ Passes(e) /\ e \notin Merged
        /\ e \in confirmed' <=> Judged(e)' /\ Passes(e) /\ e \in Merged
        /\ e \in stored' <=> stage' = "saving" /\ e \in confirmed' /\ e \notin left'
    BY <1>1, <1>2 DEF VerdictInv, Judged, Passes, Confirmable, Proven
  <2>1. CASE e = d
    BY <1>1, <1>2, <2>1 DEF IInv, VerdictInv, Judged, VerifyDisplaced, Passes
  <2>2. CASE e # d
    BY <1>1, <2>2 DEF IInv, VerdictInv, Judged, VerifyDisplaced
  <2> QED BY <2>1, <2>2
<1> QED BY <1>2, <1>3, <1>4 DEF IInv

LEMMA BeginVerifyingKeepsIInv ==
    ASSUME IInv, BeginVerifying
    PROVE  IInv'
<1>1. Merged' = Merged /\ MergeInv' /\ Drafts = Merged \cup displaced
  BY MergedStays DEF BeginVerifying
<1>2. TypeOK'
  BY <1>1 DEF IInv, TypeOK, BeginVerifying, verdicts
<1>3. VerdictInv'
  BY <1>1 DEF IInv, VerdictInv, Judged, BeginVerifying, verdicts, Passes, Confirmable, Proven
<1> QED BY <1>1, <1>2, <1>3 DEF IInv

LEMMA BeginSavingKeepsIInv ==
    ASSUME IInv, BeginSaving
    PROVE  IInv'
<1>1. Merged' = Merged /\ MergeInv'
  BY MergedStays DEF BeginSaving
<1>2. TypeOK'
  BY DEF IInv, TypeOK, BeginSaving, verdicts
<1>3. VerdictInv'
  BY <1>1 DEF IInv, VerdictInv, Judged, BeginSaving, verdicts, Passes, Confirmable, Proven
<1> QED BY <1>1, <1>2, <1>3 DEF IInv

(* Two survivors never have one key, so add_finding refuses none of them.  *)
LEMMA SaveKeepsIInv ==
    ASSUME IInv, NEW d \in Drafts, Save(d)
    PROVE  IInv'
<1>1. /\ stage = "saving" /\ stage' = "saving" /\ d \in left /\ left' = left \ {d}
      /\ UNCHANGED <<draft, survivor, displaced, outside, unquoted, unproven, confirmed>>
  BY DEF Save
<1>2. Merged' = Merged /\ MergeInv'
  BY <1>1, MergedStays
<1>3. d \in confirmed /\ d \in Merged /\ d \notin stored
  BY <1>1 DEF IInv, TypeOK, VerdictInv
<1>4. \A e \in stored : draft[e].key # draft[d].key
  BY <1>3 DEF IInv, TypeOK, VerdictInv, Merged
<1>5. stored' = stored \cup {d} /\ UNCHANGED duplicates
  BY <1>4 DEF Save
<1>6. TypeOK'
  BY <1>1, <1>5 DEF IInv, TypeOK
<1>7. VerdictInv'
  BY <1>1, <1>2, <1>3, <1>5 DEF IInv, VerdictInv, Judged, Passes, Confirmable, Proven
<1> QED BY <1>2, <1>6, <1>7 DEF IInv

LEMMA StepKeepsIInv == IInv /\ [Next]_vars => IInv'
<1> SUFFICES ASSUME IInv, [Next]_vars PROVE IInv'
  OBVIOUS
<1>1. ASSUME NEW d \in Drafts, Merge(d) PROVE IInv'
  BY <1>1, MergeKeepsIInv
<1>2. ASSUME NEW d \in Drafts, VerifyMerged(d) PROVE IInv'
  BY <1>2, VerifyMergedKeepsIInv
<1>3. ASSUME NEW d \in Drafts, VerifyDisplaced(d) PROVE IInv'
  BY <1>3, VerifyDisplacedKeepsIInv
<1>4. ASSUME NEW d \in Drafts, Save(d) PROVE IInv'
  BY <1>4, SaveKeepsIInv
<1>5. CASE BeginVerifying
  BY <1>5, BeginVerifyingKeepsIInv
<1>6. CASE BeginSaving
  BY <1>6, BeginSavingKeepsIInv
<1>7. CASE UNCHANGED vars
  BY <1>7 DEF vars, verdicts, IInv, TypeOK, MergeInv, VerdictInv, Merged, Judged,
              Outranks, Passes, Confirmable, Proven
<1> QED BY <1>1, <1>2, <1>3, <1>4, <1>5, <1>6, <1>7 DEF Next

(* The invariant holds in every reachable state.                           *)
THEOREM InvariantHolds == Spec => []IInv
<1> QED BY InitIInv, StepKeepsIInv, PTL DEF Spec

(* Type correctness, for any drafts, keys and severities.                  *)
THEOREM TypeCorrect == Spec => []TypeOK
<1>1. IInv => TypeOK
  BY DEF IInv
<1> QED BY <1>1, InvariantHolds, PTL

(* The numbers the run reports add up: every draft of every reviewer is    *)
(* stored or discarded for exactly one reason (verify, RunReview.execute). *)
THEOREM DraftsAreConserved == Spec => []EveryDraftEndsOnce
<1>1. IInv => EveryDraftEndsOnce
  <2> SUFFICES ASSUME IInv, Over PROVE
        /\ Drafts = UNION {Fates[i] : i \in DOMAIN Fates}
        /\ \A i, j \in DOMAIN Fates : i # j => Fates[i] \cap Fates[j] = {}
    BY DEF EveryDraftEndsOnce
  <2>1. /\ DOMAIN Fates = 1 .. 5
        /\ Fates[1] = outside /\ Fates[2] = unquoted /\ Fates[3] = unproven
        /\ Fates[4] = duplicates /\ Fates[5] = stored
    BY DEF Fates
  <2>2. \A d \in Drafts : Judged(d) /\ d \notin left
    BY DEF Over, Judged
  <2>3. \A d \in Drafts : d \in Fates[1] \/ d \in Fates[2] \/ d \in Fates[3]
                          \/ d \in Fates[4] \/ d \in Fates[5]
    BY <2>1, <2>2 DEF IInv, VerdictInv, Over, Passes, Confirmable
  <2>4. \A i \in 1 .. 5 : Fates[i] \subseteq Drafts
    BY <2>1 DEF IInv, TypeOK
  <2>5. \A i, j \in 1 .. 5 : i # j => Fates[i] \cap Fates[j] = {}
    <3>1. \A d \in Drafts :
             /\ d \in outside => d \notin unquoted \cup unproven \cup duplicates \cup stored
             /\ d \in unquoted => d \notin unproven \cup duplicates \cup stored
             /\ d \in unproven => d \notin duplicates \cup stored
             /\ d \in duplicates => d \notin stored
      BY DEF IInv, VerdictInv, Passes, Confirmable
    <3> QED BY <2>1, <2>4, <3>1
  <2>6. Drafts = UNION {Fates[i] : i \in 1 .. 5}
    BY <2>3, <2>4
  <2> QED BY <2>1, <2>5, <2>6
<1> QED BY <1>1, InvariantHolds, PTL

(* Merging loses no finding: for every draft that would pass, one with its *)
(* key that passes and is at least as severe is stored (aggregate).        *)
THEOREM MergingLosesNothing == Spec => []BestDraftIsStored
<1>1. IInv => BestDraftIsStored
  <2> SUFFICES ASSUME IInv, Over, NEW d \in Drafts, Passes(d)
               PROVE  \E e \in stored : /\ draft[e].key = draft[d].key
                                        /\ Passes(e)
                                        /\ draft[e].severity >= draft[d].severity
    BY DEF BestDraftIsStored
  <2>0. draft[d].severity \in Nat /\ draft[d].key \in Keys
    BY SeverityAssumption DEF IInv, TypeOK, Kinds
  <2>1. \A e \in Drafts : Passes(e) /\ e \in Merged => e \in stored
    BY DEF IInv, VerdictInv, Over, Judged
  <2>2. CASE d \in Merged
    BY <2>0, <2>1, <2>2
  <2>3. CASE d \in displaced
    <3> DEFINE e == survivor[draft[d].key]
    <3>1. e \in Drafts /\ draft[e].key = draft[d].key /\ ~Outranks(d, e)
      BY <2>0, <2>3 DEF IInv, TypeOK, MergeInv
    <3>2. Passes(e) /\ draft[e].severity >= draft[d].severity
      BY <3>1, NotOutrankedPasses DEF IInv, TypeOK
    <3>3. e \in stored
      BY <2>1, <3>1, <3>2 DEF Merged
    <3> QED BY <3>1, <3>2, <3>3
  <2> QED BY <2>2, <2>3 DEF IInv, MergeInv, Over
<1> QED BY <1>1, InvariantHolds, PTL
=============================================================================
