------------------------ MODULE InvestigationFeedProofs ------------------------
(***************************************************************************)
(* Proofs about InvestigationFeed, for any readings, pages, clients, page  *)
(* size and number of steps.                                               *)
(***************************************************************************)
EXTENDS InvestigationFeed, TLAPS, FiniteSetTheorems, SequenceTheorems

-----------------------------------------------------------------------------
(* Sequences as the sets of what is in them.                               *)

LEMMA SetOfSeq ==
    ASSUME NEW S, NEW q \in Seq(S)
    PROVE  /\ ToSet(q) \subseteq S
           /\ q = <<>> <=> ToSet(q) = {}
           /\ \A x \in S : /\ Append(q, x) \in Seq(S)
                           /\ ToSet(Append(q, x)) = ToSet(q) \cup {x}
           /\ q # <<>> => /\ Head(q) \in S /\ Tail(q) \in Seq(S)
                          /\ ToSet(q) = {Head(q)} \cup ToSet(Tail(q))
<1>1. ToSet(q) \subseteq S /\ DOMAIN q = 1..Len(q) /\ Len(q) \in Nat
  BY DEF ToSet
<1>2. q = <<>> <=> ToSet(q) = {}
  BY DEF ToSet
<1>3. ASSUME NEW x \in S
      PROVE  Append(q, x) \in Seq(S) /\ ToSet(Append(q, x)) = ToSet(q) \cup {x}
  <2> DEFINE a == Append(q, x)
  <2>1. /\ a \in Seq(S) /\ Len(a) = Len(q) + 1 /\ DOMAIN a = 1..(Len(q) + 1)
        /\ \A i \in 1..Len(q) : a[i] = q[i]
        /\ a[Len(q) + 1] = x
    BY AppendProperties
  <2> HIDE DEF a
  <2>2. ToSet(a) = ToSet(q) \cup {x}
    BY <1>1, <2>1 DEF ToSet
  <2>3. QED
    BY <2>1, <2>2 DEF a
<1>4. ASSUME q # <<>>
      PROVE  /\ Head(q) \in S /\ Tail(q) \in Seq(S)
             /\ ToSet(q) = {Head(q)} \cup ToSet(Tail(q))
  <2> DEFINE t == Tail(q)
  <2>1. /\ t \in Seq(S) /\ Len(t) = Len(q) - 1 /\ Len(q) # 0 /\ DOMAIN t = 1..(Len(q) - 1)
        /\ \A i \in 1..(Len(q) - 1) : t[i] = q[i + 1]
        /\ Head(q) \in S /\ Head(q) = q[1]
    BY <1>4, HeadTailProperties
  <2> HIDE DEF t
  <2>2. ToSet(q) = {q[1]} \cup ToSet(t)
    <3>1. \A i \in 1..Len(q) : i = 1 \/ (i - 1 \in DOMAIN t /\ t[i - 1] = q[i])
      BY <1>1, <2>1
    <3>2. \A i \in DOMAIN t : i + 1 \in DOMAIN q /\ t[i] = q[i + 1]
      BY <1>1, <2>1
    <3>3. 1 \in DOMAIN q
      BY <1>1, <2>1
    <3>4. \A x : x \in ToSet(q) => x \in {q[1]} \cup ToSet(t)
      BY <1>1, <3>1 DEF ToSet
    <3>5. \A x : x \in {q[1]} \cup ToSet(t) => x \in ToSet(q)
      BY <3>2, <3>3 DEF ToSet
    <3>6. QED
      BY <3>4, <3>5
  <2>3. QED
    BY <2>1, <2>2 DEF t
<1>5. QED
  BY <1>1, <1>2, <1>3, <1>4

(* A sequence in order: of the steps of one reading, or of all.            *)
InOrder(q, all) ==
    \A i, j \in DOMAIN q : i < j /\ (all \/ q[i].by = q[j].by) => Earlier(q[i], q[j])

LEMMA OrderOfTail ==
    ASSUME NEW S, NEW q \in Seq(S), q # <<>>, NEW all \in BOOLEAN, InOrder(q, all)
    PROVE  /\ InOrder(Tail(q), all)
           /\ \A y \in ToSet(Tail(q)) : all \/ y.by = Head(q).by => Earlier(Head(q), y)
<1> DEFINE t == Tail(q)
<1>1. /\ t \in Seq(S) /\ Len(t) = Len(q) - 1 /\ DOMAIN t = 1..(Len(q) - 1) /\ DOMAIN q = 1..Len(q)
      /\ Len(q) \in Nat /\ Len(q) # 0
      /\ \A i \in 1..(Len(q) - 1) : t[i] = q[i + 1]
      /\ Head(q) = q[1]
  BY HeadTailProperties
<1> HIDE DEF t
<1>2. InOrder(t, all)
  BY <1>1 DEF InOrder
<1>3. \A y \in ToSet(t) : all \/ y.by = q[1].by => Earlier(q[1], y)
  <2> SUFFICES ASSUME NEW i \in DOMAIN t, all \/ t[i].by = q[1].by
               PROVE  Earlier(q[1], t[i])
    BY DEF ToSet
  <2>1. i + 1 \in DOMAIN q /\ t[i] = q[i + 1] /\ 1 \in DOMAIN q /\ 1 < i + 1
    BY <1>1
  <2>2. QED
    BY <2>1 DEF InOrder
<1>4. QED
  BY <1>1, <1>2, <1>3 DEF t

-----------------------------------------------------------------------------
(* The rank of a step among finitely many, whose ids are different.        *)

Ids(R) == /\ IsFiniteSet(R)
          /\ \A s \in R : s.cursor \in Nat
          /\ \A s, t \in R : s.cursor = t.cursor => s = t

LEMMA RankGrows ==
    ASSUME NEW R, NEW T, IsFiniteSet(T), R \subseteq T, NEW s
    PROVE  /\ Rank(s, R) \in Nat /\ Rank(s, T) \in Nat
           /\ Rank(s, R) <= Rank(s, T)
<1> DEFINE A == {t \in R : Earlier(t, s)}
           B == {t \in T : Earlier(t, s)}
<1>1. B \in SUBSET T /\ A \in SUBSET B
  OBVIOUS
<1> HIDE DEF A, B
<1>2. IsFiniteSet(B)
  BY <1>1, FS_Subset
<1>3. IsFiniteSet(A) /\ Cardinality(A) <= Cardinality(B)
  BY <1>1, <1>2, FS_Subset
<1>4. Cardinality(A) \in Nat /\ Cardinality(B) \in Nat
  BY <1>2, <1>3, FS_CardinalityType
<1>5. QED
  BY <1>3, <1>4 DEF A, B, Rank

LEMMA Ranks ==
    ASSUME NEW R, Ids(R)
    PROVE  /\ Cardinality(R) \in Nat
           /\ \A s \in R : Rank(s, R) \in 0..(Cardinality(R) - 1)
           /\ \A s, t \in R : Earlier(s, t) <=> Rank(s, R) < Rank(t, R)
           /\ \A k \in 0..(Cardinality(R) - 1) : \E s \in R : Rank(s, R) = k
<1> DEFINE n == Cardinality(R)
           Before(s) == {t \in R : Earlier(t, s)}
<1>1. n \in Nat /\ IsFiniteSet(R)
  BY FS_CardinalityType DEF Ids
<1>2. \A s \in R : Before(s) \in SUBSET R /\ s \notin Before(s)
  BY DEF Ids, Earlier
<1>3. \A s \in R : /\ IsFiniteSet(Before(s)) /\ Rank(s, R) = Cardinality(Before(s))
                   /\ Rank(s, R) \in Nat
                   /\ IsFiniteSet(Before(s) \cup {s})
                   /\ Cardinality(Before(s) \cup {s}) = Rank(s, R) + 1
  <2> TAKE s \in R
  <2> DEFINE B == Before(s)
  <2>1. B \in SUBSET R /\ s \notin B /\ Rank(s, R) = Cardinality(B)
    BY <1>2 DEF Rank
  <2> HIDE DEF B
  <2>2. IsFiniteSet(B)
    BY <1>1, <2>1, FS_Subset
  <2>3. Cardinality(B) \in Nat
    BY <2>2, FS_CardinalityType
  <2>4. IsFiniteSet(B \cup {s}) /\ Cardinality(B \cup {s}) = Cardinality(B) + 1
    BY <2>1, <2>2, FS_AddElement
  <2>5. QED
    BY <2>1, <2>2, <2>3, <2>4 DEF B
<1>4. \A s \in R : Rank(s, R) \in 0..(n - 1)
  <2> TAKE s \in R
  <2> DEFINE C == Before(s) \cup {s}
  <2>1. C \in SUBSET R /\ Cardinality(C) = Rank(s, R) + 1 /\ Rank(s, R) \in Nat
    BY <1>2, <1>3
  <2> HIDE DEF C
  <2>2. Cardinality(C) <= n
    BY <1>1, <2>1, FS_Subset
  <2>3. QED
    BY <1>1, <2>1, <2>2
<1>5. \A s, t \in R : Earlier(s, t) => Rank(s, R) < Rank(t, R)
  <2> SUFFICES ASSUME NEW s \in R, NEW t \in R, Earlier(s, t)
               PROVE  Rank(s, R) < Rank(t, R)
    OBVIOUS
  <2> DEFINE C == Before(s) \cup {s}
             D == Before(t)
  <2>1. C \in SUBSET D
    BY DEF Earlier, Ids
  <2>2. /\ Cardinality(C) = Rank(s, R) + 1 /\ Rank(s, R) \in Nat
        /\ IsFiniteSet(D) /\ Cardinality(D) = Rank(t, R) /\ Rank(t, R) \in Nat
    BY <1>3
  <2> HIDE DEF C, D
  <2>3. Cardinality(C) <= Cardinality(D)
    BY <2>1, <2>2, FS_Subset
  <2>4. QED
    BY <2>2, <2>3
<1>6. \A s, t \in R : s = t \/ Earlier(s, t) \/ Earlier(t, s)
  BY DEF Ids, Earlier
<1>7. \A s, t \in R : Earlier(s, t) <=> Rank(s, R) < Rank(t, R)
  <2> SUFFICES ASSUME NEW s \in R, NEW t \in R, Rank(s, R) < Rank(t, R), ~Earlier(s, t)
               PROVE  FALSE
    BY <1>5
  <2>1. Rank(s, R) \in Nat /\ Rank(t, R) \in Nat
    BY <1>3
  <2>2. CASE s = t
    <3>1. Rank(s, R) = Rank(t, R)
      BY <2>2
    <3> HIDE DEF Before, n
    <3>2. QED
      BY <2>1, <3>1
  <2>3. CASE Earlier(t, s)
    <3>1. Rank(t, R) < Rank(s, R)
      BY <1>5, <2>3
    <3>2. QED
      BY <2>1, <3>1
  <2>4. QED
    BY <1>6, <2>2, <2>3
<1>8. \A k \in 0..(n - 1) : \E s \in R : Rank(s, R) = k
  <2> DEFINE f == [s \in R |-> Rank(s, R)]
             T == 0..(n - 1)
  <2>1. \A s, t \in R : f[s] = f[t] => s = t
    <3> SUFFICES ASSUME NEW s \in R, NEW t \in R, Rank(s, R) = Rank(t, R), s # t
                 PROVE  FALSE
      OBVIOUS
    <3>1. Rank(s, R) \in Nat /\ Rank(t, R) \in Nat
      BY <1>3
    <3>2. Rank(s, R) < Rank(t, R) \/ Rank(t, R) < Rank(s, R)
      BY <1>5, <1>6
    <3>3. QED
      BY <3>1, <3>2
  <2>2. f \in [R -> T]
    BY <1>4
  <2>3. f \in Injection(R, T)
    BY <2>1, <2>2 DEF Injection, IsInjective
  <2>4. IsFiniteSet(T) /\ Cardinality(T) = n
    BY <1>1, FS_Interval
  <2> HIDE DEF f, T
  <2>5. f \in Surjection(R, T)
    BY <2>3, <2>4, FS_Injection
  <2>6. \A k \in T : \E s \in R : f[s] = k
    BY <2>5 DEF Surjection
  <2>7. QED
    BY <2>6 DEF f, T
<1>9. QED
  BY <1>1, <1>4, <1>7, <1>8

-----------------------------------------------------------------------------
(* What every state has: columns of their types, ids that name their step, *)
(* and what a reading is about to record or announce.                      *)

StepRecs == [cursor : 1..MaxSteps, by : Readings]

Typed ==
    /\ cursor \in 0..MaxSteps
    /\ log \in Seq(StepRecs)
    /\ IsFiniteSet(ToSet(log))
    /\ sink \in [Readings -> [at : {"idle", "writing", "written"}, step : 0..MaxSteps]]
    /\ sent \subseteq 1..MaxSteps
    /\ run \in {"live", "ended", "deleted"}
    /\ page \in [Watchers -> [at : {"away", "subscribed", "streaming", "closed"},
                              queue : Seq(StepRecs), left : Seq(StepRecs), shown : Seq(StepRecs)]]
    /\ client \in [Followers -> [after : 0..MaxSteps, given : SUBSET StepRecs]]

Numbered ==
    /\ \A s \in ToSet(log) : s.cursor <= cursor
    /\ \A s, t \in ToSet(log) : s.cursor = t.cursor => s = t
    /\ \A c \in sent : c <= cursor
    /\ \A r \in Readings : sink[r].at # "idle" => sink[r].step \in 1..cursor
    /\ \A r, q \in Readings :
          sink[r].at # "idle" /\ sink[q].at # "idle" /\ sink[r].step = sink[q].step => r = q
    /\ \A r \in Readings : sink[r].at = "writing" =>
          /\ run = "live"
          /\ \A s \in ToSet(log) : s.cursor # sink[r].step
    /\ \A r \in Readings : sink[r].at # "idle" => sink[r].step \notin sent
    /\ \A r \in Readings : sink[r].at = "written" =>
          run = "deleted" \/ StepOf(sink[r].step, r) \in ToSet(log)
    /\ run = "deleted" => log = <<>>

LEMMA LogIds ==
    ASSUME Typed, Numbered
    PROVE  /\ Ids(ToSet(log)) /\ ToSet(log) \subseteq StepRecs
           /\ \A c : Ids({s \in ToSet(log) : s.cursor > c})
<1>1. ToSet(log) \subseteq StepRecs
  BY SetOfSeq DEF Typed
<1>2. \A s \in ToSet(log) : s.cursor \in Nat
  BY <1>1, FeedAssumption DEF StepRecs
<1>3. \A s, t \in ToSet(log) : s.cursor = t.cursor => s = t
  BY DEF Numbered
<1>4. IsFiniteSet(ToSet(log))
  BY DEF Typed
<1>5. ASSUME NEW R, R \in SUBSET ToSet(log)
      PROVE  Ids(R)
  <2>1. IsFiniteSet(R)
    BY <1>4, <1>5, FS_Subset
  <2>2. QED
    BY <1>2, <1>3, <1>5, <2>1 DEF Ids
<1>6. ASSUME NEW c PROVE Ids({s \in ToSet(log) : s.cursor > c})
  BY <1>5
<1>7. QED
  BY <1>1, <1>5, <1>6

(* What a page of the record holds: of the steps after a cursor the first  *)
(* ones, in order, so that the last of them has none before it left out.   *)
LEMMA NextSteps ==
    ASSUME Typed, Numbered, NEW c \in Nat
    PROVE  LET rows == {s \in ToSet(log) : s.cursor > c}
               list == ListAfter(c)
           IN  /\ list \in Seq(StepRecs)
               /\ ToSet(list) \subseteq rows
               /\ InOrder(list, TRUE)
               /\ \A s \in rows : Rank(s, rows) < Page <=> s \in ToSet(list)
               /\ list # <<>> =>
                     /\ Last(list) \in ToSet(list)
                     /\ \A s \in rows : s.cursor <= Last(list).cursor => s \in ToSet(list)
<1> DEFINE rows == {s \in ToSet(log) : s.cursor > c}
           size == Cardinality(rows)
           m == IF size < Page THEN size ELSE Page
           Step(i) == CHOOSE s \in rows : Rank(s, rows) = i - 1
           list == [i \in 1..m |-> Step(i)]
<1>1. Ids(rows) /\ rows \subseteq StepRecs
  BY LogIds
<1>2. /\ size \in Nat
      /\ \A s \in rows : Rank(s, rows) \in 0..(size - 1)
      /\ \A s, t \in rows : Earlier(s, t) <=> Rank(s, rows) < Rank(t, rows)
      /\ \A k \in 0..(size - 1) : \E s \in rows : Rank(s, rows) = k
  BY <1>1, Ranks
<1>3. \A s, t \in rows : s.cursor \in Nat /\ t.cursor \in Nat /\ (s.cursor = t.cursor => s = t)
  BY <1>1 DEF Ids
<1>4. list = ListAfter(c)
  BY DEF ListAfter
<1> HIDE DEF rows
<1>5. m \in Nat /\ m <= size /\ m <= Page
  BY <1>2, FeedAssumption
<1>6. \A i \in 1..m : Step(i) \in rows /\ Rank(Step(i), rows) = i - 1
  <2> TAKE i \in 1..m
  <2>1. i - 1 \in 0..(size - 1)
    BY <1>2, <1>5
  <2>2. \E s \in rows : Rank(s, rows) = i - 1
    BY <1>2, <2>1
  <2>3. QED
    BY <2>2
<1>7. \A s, t \in rows : Rank(s, rows) = Rank(t, rows) => s = t
  <2> TAKE s, t \in rows
  <2>1. Rank(s, rows) \in Int /\ Rank(t, rows) \in Int
    BY <1>2
  <2>2. Earlier(s, t) \/ Earlier(t, s) \/ s = t
    BY <1>3 DEF Earlier
  <2>3. QED
    BY <1>2, <2>1, <2>2
<1> HIDE DEF Step, size
<1>8. list \in Seq(StepRecs) /\ Len(list) = m /\ DOMAIN list = 1..m
  BY <1>1, <1>5, <1>6
<1>9. \A i \in 1..m : list[i] = Step(i)
  OBVIOUS
<1> HIDE DEF list, m
<1>10. ToSet(list) \subseteq rows
  BY <1>6, <1>8, <1>9 DEF ToSet
<1>11. InOrder(list, TRUE)
  <2> SUFFICES ASSUME NEW i \in 1..m, NEW j \in 1..m, i < j
               PROVE  Earlier(list[i], list[j])
    BY <1>8 DEF InOrder
  <2>1. /\ list[i] \in rows /\ list[j] \in rows
        /\ Rank(list[i], rows) = i - 1 /\ Rank(list[j], rows) = j - 1
    BY <1>6, <1>9
  <2>2. i - 1 < j - 1
    BY <1>5
  <2>3. QED
    BY <1>2, <2>1, <2>2
<1>12. \A s \in rows : Rank(s, rows) < m => s \in ToSet(list)
  <2> SUFFICES ASSUME NEW s \in rows, Rank(s, rows) < m
               PROVE  s \in ToSet(list)
    OBVIOUS
  <2> DEFINE i == Rank(s, rows) + 1
  <2>1. i \in 1..m /\ Rank(s, rows) = i - 1
    BY <1>2, <1>5
  <2> HIDE DEF i
  <2>2. list[i] = s
    BY <1>6, <1>7, <1>9, <2>1
  <2>3. QED
    BY <1>8, <2>1, <2>2 DEF ToSet
<1>13. \A s \in rows : Rank(s, rows) < Page => s \in ToSet(list)
  <2> TAKE s \in rows
  <2>1. Rank(s, rows) < size /\ Rank(s, rows) \in Int
    BY <1>2
  <2>2. Rank(s, rows) < Page => Rank(s, rows) < m
    BY <2>1 DEF m
  <2>3. QED
    BY <1>12, <2>2
<1>14. ASSUME list # <<>>
       PROVE  /\ Last(list) \in ToSet(list)
              /\ \A s \in rows : s.cursor <= Last(list).cursor => s \in ToSet(list)
  <2>1. m # 0
    BY <1>8, <1>14
  <2>2. m \in 1..m
    BY <1>5, <2>1
  <2>3. Last(list) = list[m] /\ list[m] \in rows /\ Rank(list[m], rows) = m - 1
    BY <1>6, <1>8, <1>9, <2>2 DEF Last
  <2>4. Last(list) \in ToSet(list)
    BY <1>8, <2>2, <2>3 DEF ToSet
  <2>5. ASSUME NEW s \in rows, s.cursor <= list[m].cursor
        PROVE  s \in ToSet(list)
    <3>1. ~Earlier(list[m], s)
      BY <1>3, <2>3, <2>5 DEF Earlier
    <3>2. ~(Rank(list[m], rows) < Rank(s, rows))
      BY <1>2, <2>3, <3>1
    <3>3. Rank(s, rows) \in Int /\ m \in Nat
      BY <1>2, <1>5
    <3>4. Rank(s, rows) < m
      BY <2>3, <3>2, <3>3
    <3>5. QED
      BY <1>12, <3>4
  <2>6. QED
    BY <2>3, <2>4, <2>5
<1>15. \A s \in ToSet(list) : Rank(s, rows) < Page
  <2> SUFFICES ASSUME NEW i \in 1..m PROVE Rank(list[i], rows) < Page
    BY <1>8 DEF ToSet
  <2>1. Rank(list[i], rows) = i - 1 /\ i - 1 < m
    BY <1>5, <1>6, <1>9
  <2>2. QED
    BY <1>5, <2>1, FeedAssumption
<1>16. QED
  BY <1>4, <1>8, <1>10, <1>11, <1>13, <1>14, <1>15 DEF rows

-----------------------------------------------------------------------------
(* Typed and Numbered are kept.                                            *)

Known == Typed /\ Numbered

LEMMA LogGrows ==
    ASSUME Known, NEW r \in Readings, CommitStep(r)
    PROVE  LET s == StepOf(sink[r].step, r)
           IN  /\ s \in StepRecs /\ s.cursor = sink[r].step /\ s.cursor \in 1..cursor
               /\ log' \in Seq(StepRecs) /\ Len(log') = Len(log) + 1
               /\ \A i \in 1..Len(log) : log'[i] = log[i]
               /\ log'[Len(log) + 1] = s
               /\ ToSet(log') = ToSet(log) \cup {s}
               /\ IsFiniteSet(ToSet(log'))
               /\ \A t \in ToSet(log) : t.cursor # s.cursor
<1> DEFINE s == StepOf(sink[r].step, r)
<1>1. sink[r].at = "writing" /\ log' = Append(log, s)
  BY DEF CommitStep
<1>2. log \in Seq(StepRecs) /\ cursor \in 0..MaxSteps /\ sink[r].step \in 1..cursor
  BY <1>1 DEF Known, Typed, Numbered
<1>3. s \in StepRecs /\ s.cursor = sink[r].step /\ s.cursor \in 1..cursor
  BY <1>2, FeedAssumption DEF StepOf, StepRecs
<1>4. \A t \in ToSet(log) : t.cursor # s.cursor
  BY <1>1, <1>3 DEF Known, Numbered
<1> HIDE DEF s
<1>5. log' \in Seq(StepRecs) /\ ToSet(log') = ToSet(log) \cup {s}
  BY <1>1, <1>2, <1>3, SetOfSeq
<1>6. /\ Len(log') = Len(log) + 1
      /\ \A i \in 1..Len(log) : log'[i] = log[i]
      /\ log'[Len(log) + 1] = s
  BY <1>1, <1>2, <1>3, AppendProperties
<1>7. IsFiniteSet(ToSet(log'))
  <2>1. IsFiniteSet(ToSet(log) \cup {s})
    BY FS_AddElement DEF Known, Typed
  <2>2. QED
    BY <1>5, <2>1
<1>8. QED
  BY <1>3, <1>4, <1>5, <1>6, <1>7 DEF s

LEMMA InitIsKnown == Init => Known
<1> SUFFICES ASSUME Init PROVE Known
  OBVIOUS
<1>1. ToSet(log) = {} /\ log \in Seq(StepRecs)
  BY DEF Init, ToSet
<1>2. IsFiniteSet(ToSet(log))
  BY <1>1, FS_EmptySet
<1>3. Typed
  BY <1>1, <1>2, FeedAssumption DEF Init, Typed, Idle, Away, Unasked
<1>4. Numbered
  BY <1>1 DEF Init, Numbered, Idle
<1>5. QED
  BY <1>3, <1>4 DEF Known

LEMMA RecordKeepsKnown ==
    ASSUME Known, NEW r \in Readings, Record(r)
    PROVE  Known'
<1> USE DEF Known
<1>0. /\ cursor \in 0..MaxSteps /\ sink[r].step \in 0..MaxSteps
      /\ sink[r].at \in {"idle", "writing", "written"}
  BY DEF Typed
<1>1. CASE Insert(r)
  <2>1. sink'[r].at = "writing" /\ sink'[r].step = cursor + 1
    BY <1>1 DEF Insert, Typed
  <2>2. \A q \in Readings \ {r} : sink'[q] = sink[q]
    BY <1>1 DEF Insert, Typed
  <2>3. Typed'
    BY <1>1, FeedAssumption DEF Insert, Typed, ToSet
  <2>4. /\ cursor' = cursor + 1 /\ run = "live"
        /\ UNCHANGED <<log, sent, run>> /\ ToSet(log)' = ToSet(log)
    BY <1>1 DEF Insert, ToSet
  <2>5. \A s \in ToSet(log) : s.cursor \in Nat
    BY LogIds DEF Ids
  <2>6. \A c \in sent : c \in Nat
    BY DEF Typed
  <2>7. \A q \in Readings : sink[q].step \in Nat
    BY DEF Typed
  <2>8. Numbered'
    BY <1>0, <2>1, <2>2, <2>4, <2>5, <2>6, <2>7 DEF Numbered
  <2>9. QED
    BY <2>3, <2>8
<1>2. CASE CommitStep(r)
  <2> DEFINE s == StepOf(sink[r].step, r)
  <2>1. /\ s \in StepRecs /\ s.cursor = sink[r].step /\ s.cursor \in 1..cursor
        /\ log' \in Seq(StepRecs) /\ ToSet(log') = ToSet(log) \cup {s}
        /\ IsFiniteSet(ToSet(log')) /\ \A t \in ToSet(log) : t.cursor # s.cursor
    BY <1>2, LogGrows
  <2>2. sink'[r].at = "written" /\ sink'[r].step = sink[r].step /\ sink[r].at = "writing"
    BY <1>2 DEF CommitStep, Typed
  <2>3. \A q \in Readings \ {r} : sink'[q] = sink[q]
    BY <1>2 DEF CommitStep, Typed
  <2>4. Typed'
    BY <1>2, <2>1 DEF CommitStep, Typed
  <2>5. UNCHANGED <<cursor, sent, run>> /\ run = "live"
    BY <1>2, <2>2 DEF CommitStep, Numbered
  <2>6. StepOf(sink'[r].step, r) = s
    BY <2>2
  <2>7. sink[r].step \notin sent
    BY <2>2 DEF Numbered
  <2>8. \A q \in Readings : q # r /\ sink[q].at # "idle" => sink[q].step # sink[r].step
    BY <2>2 DEF Numbered
  <2> HIDE DEF s
  <2>9. ToSet(log)' = ToSet(log')
    BY DEF ToSet
  <2>10. /\ \A t \in ToSet(log') : t.cursor <= cursor
         /\ \A t, u \in ToSet(log') : t.cursor = u.cursor => t = u
    BY <2>1 DEF Numbered
  <2>11. \A q \in Readings :
            /\ sink'[q].at # "idle" => sink'[q].step \in 1..cursor /\ sink'[q].step \notin sent
            /\ sink'[q].at = "writing" => \A t \in ToSet(log') : t.cursor # sink'[q].step
            /\ sink'[q].at = "written" => StepOf(sink'[q].step, q) \in ToSet(log')
    BY <2>1, <2>2, <2>3, <2>5, <2>6, <2>7, <2>8 DEF Numbered
  <2>12. \A p, q \in Readings :
           sink'[p].at # "idle" /\ sink'[q].at # "idle" /\ sink'[p].step = sink'[q].step => p = q
    BY <2>2, <2>3, <2>8 DEF Numbered
  <2>13. Numbered'
    BY <2>5, <2>9, <2>10, <2>11, <2>12 DEF Numbered
  <2>14. QED
    BY <2>4, <2>13
<1>3. CASE NotSaved(r) \/ NotAnnounced(r)
  <2>1. sink'[r] = Idle /\ \A q \in Readings \ {r} : sink'[q] = sink[q]
    BY <1>3 DEF NotSaved, NotAnnounced, Typed
  <2>2. UNCHANGED <<cursor, log, sent, run, page, client>> /\ ToSet(log)' = ToSet(log)
    BY <1>3 DEF NotSaved, NotAnnounced, ToSet
  <2>3. Typed'
    <3>1. sink' \in [Readings -> [at : {"idle", "writing", "written"}, step : 0..MaxSteps]]
      <4>1. Idle \in [at : {"idle", "writing", "written"}, step : 0..MaxSteps]
        BY FeedAssumption DEF Idle
      <4>2. sink' = [sink EXCEPT ![r] = Idle]
        BY <1>3 DEF NotSaved, NotAnnounced
      <4> HIDE DEF Idle
      <4>3. QED
        BY <4>1, <4>2 DEF Typed
    <3>2. QED
      BY <2>2, <3>1 DEF Typed, ToSet
  <2>4. Numbered'
    BY <2>1, <2>2 DEF Numbered, Idle
  <2>5. QED
    BY <2>3, <2>4
<1>4. CASE Announce(r)
  <2>1. sink'[r] = Idle /\ \A q \in Readings \ {r} : sink'[q] = sink[q]
    BY <1>4 DEF Announce, Typed
  <2>2. /\ UNCHANGED <<cursor, log, run, client>> /\ ToSet(log)' = ToSet(log)
        /\ sent' = sent \cup {sink[r].step} /\ sink[r].at = "written"
    BY <1>4 DEF Announce, ToSet
  <2>3. sink[r].step \in 1..cursor
    BY <2>2 DEF Numbered
  <2>4. StepOf(sink[r].step, r) \in StepRecs
    BY <1>0, <2>3, FeedAssumption DEF StepOf, StepRecs
  <2>5. page' \in [Watchers -> [at : {"away", "subscribed", "streaming", "closed"},
                                queue : Seq(StepRecs), left : Seq(StepRecs), shown : Seq(StepRecs)]]
    <3>1. \A w \in Watchers : Append(page[w].queue, StepOf(sink[r].step, r)) \in Seq(StepRecs)
      BY <2>4, AppendProperties DEF Typed
    <3> DEFINE s == StepOf(sink[r].step, r)
    <3>2. page' = [w \in Watchers |-> IF w \in Receivers
                                      THEN [page[w] EXCEPT !.queue = Append(@, s)] ELSE page[w]]
      BY <1>4 DEF Announce
    <3> HIDE DEF s
    <3>3. \A w \in Watchers : Append(page[w].queue, s) \in Seq(StepRecs)
      BY <3>1 DEF s
    <3>4. QED
      BY <3>2, <3>3 DEF Typed
  <2>6. sink' \in [Readings -> [at : {"idle", "writing", "written"}, step : 0..MaxSteps]]
    BY <1>4, FeedAssumption DEF Announce, Typed, Idle
  <2>7. Typed'
    <3>1. sink[r].step \in 1..MaxSteps
      BY <1>0, <2>3, FeedAssumption
    <3>2. QED
      BY <2>2, <2>5, <2>6, <3>1 DEF Typed, ToSet
  <2>8. \A q \in Readings : q # r /\ sink[q].at # "idle" => sink[q].step # sink[r].step
    BY <2>2 DEF Numbered
  <2>9. Numbered'
    BY <1>0, <2>1, <2>2, <2>3, <2>8 DEF Numbered, Idle
  <2>10. QED
    BY <2>7, <2>9
<1>5. QED
  BY <1>1, <1>2, <1>3, <1>4 DEF Record

PageRecs == [at : {"away", "subscribed", "streaming", "closed"},
             queue : Seq(StepRecs), left : Seq(StepRecs), shown : Seq(StepRecs)]

LEMMA ShowsOne ==
    ASSUME Known, NEW w \in Watchers, NEW s \in StepRecs
    PROVE  /\ Shown(w, s) \in Seq(StepRecs)
           /\ ToSet(Shown(w, s)) = ToSet(page[w].shown) \cup {s}
<1>1. page[w].shown \in Seq(StepRecs)
  BY DEF Known, Typed
<1> DEFINE q == page[w].shown
<1>2. CASE s \in ToSet(q)
  <2>1. Shown(w, s) = q
    BY <1>2 DEF Shown
  <2>2. QED
    BY <1>1, <1>2, <2>1
<1>3. CASE s \notin ToSet(q)
  <2>1. Shown(w, s) = Append(q, s)
    BY <1>3 DEF Shown
  <2>2. QED
    BY <1>1, <2>1, SetOfSeq
<1>4. QED
  BY <1>2, <1>3

(* What a socket's step does to its page.                                  *)
LEMMA StreamStep ==
    ASSUME Known, NEW w \in Watchers, Stream(w)
    PROVE  /\ page'[w] \in PageRecs
           /\ \A v \in Watchers \ {w} : page'[v] = page[v]
           /\ page' \in [Watchers -> PageRecs]
           /\ UNCHANGED <<cursor, log, sink, sent, run, client>>
<1>1. page \in [Watchers -> PageRecs]
  BY DEF Known, Typed, PageRecs
<1>2. <<>> \in Seq(StepRecs)
  OBVIOUS
<1>3. CASE Subscribe(w)
  <2>1. page' = [page EXCEPT ![w].at = "subscribed", ![w].queue = <<>>, ![w].left = <<>>]
    BY <1>3 DEF Subscribe
  <2>2. /\ page[w] \in PageRecs
        /\ page'[w] = [page[w] EXCEPT !.at = "subscribed", !.queue = <<>>, !.left = <<>>]
    BY <1>1, <2>1
  <2>3. page'[w] \in PageRecs
    BY <1>2, <2>2 DEF PageRecs
  <2>4. \A v \in Watchers \ {w} : page'[v] = page[v]
    BY <1>1, <2>1
  <2> HIDE DEF PageRecs
  <2>5. page' \in [Watchers -> PageRecs]
    BY <1>1, <2>1, <2>3, <2>4
  <2>6. UNCHANGED <<cursor, log, sink, sent, run, client>>
    BY <1>3 DEF Subscribe
  <2> QED
    BY <2>3, <2>4, <2>5, <2>6
<1>4. CASE ReadHistory(w)
  <2> DEFINE list == ListAfter(0)
  <2>1. list \in Seq(StepRecs)
    BY NextSteps DEF Known
  <2>2. \/ page' = [page EXCEPT ![w].at = "streaming", ![w].left = list]
        \/ page' = [page EXCEPT ![w].at = "closed"]
    BY <1>4 DEF ReadHistory
  <2>3. UNCHANGED <<cursor, log, sink, sent, run, client>>
    BY <1>4 DEF ReadHistory
  <2> HIDE DEF list
  <2>4. CASE page' = [page EXCEPT ![w].at = "streaming", ![w].left = list]
    BY <1>1, <2>1, <2>3, <2>4 DEF PageRecs
  <2>5. CASE page' = [page EXCEPT ![w].at = "closed"]
    BY <1>1, <2>3, <2>5 DEF PageRecs
  <2>6. QED
    BY <2>2, <2>4, <2>5
<1>5. CASE Send(w)
  <2>1. page[w].left \in Seq(StepRecs) /\ page[w].queue \in Seq(StepRecs)
    BY <1>1 DEF PageRecs
  <2>2. /\ page[w].left # <<>> =>
             Tail(page[w].left) \in Seq(StepRecs) /\ Head(page[w].left) \in StepRecs
        /\ page[w].queue # <<>> =>
             Tail(page[w].queue) \in Seq(StepRecs) /\ Head(page[w].queue) \in StepRecs
    BY <2>1, SetOfSeq
  <2>3. /\ page[w].left # <<>> => Shown(w, Head(page[w].left)) \in Seq(StepRecs)
        /\ page[w].queue # <<>> => Shown(w, Head(page[w].queue)) \in Seq(StepRecs)
    BY <2>2, ShowsOne
  <2> DEFINE fromLeft == Shown(w, Head(page[w].left))
             fromQueue == Shown(w, Head(page[w].queue))
  <2>4. /\ UNCHANGED <<cursor, log, sink, sent, run, client>>
        /\ \/ /\ page[w].left # <<>>
              /\ page' = [page EXCEPT ![w].left = Tail(@), ![w].shown = fromLeft]
           \/ /\ page[w].queue # <<>>
              /\ page' = [page EXCEPT ![w].queue = Tail(@), ![w].shown = fromQueue]
    BY <1>5 DEF Send
  <2>5. /\ page[w].left # <<>> => fromLeft \in Seq(StepRecs)
        /\ page[w].queue # <<>> => fromQueue \in Seq(StepRecs)
    BY <2>3
  <2> HIDE DEF fromLeft, fromQueue
  <2>6. CASE page[w].left # <<>> /\ page' = [page EXCEPT ![w].left = Tail(@), ![w].shown = fromLeft]
    <3> DEFINE rest == Tail(page[w].left)
    <3>1. page' = [page EXCEPT ![w] = [page[w] EXCEPT !.left = rest, !.shown = fromLeft]]
      BY <1>1, <2>6 DEF PageRecs
    <3>2. rest \in Seq(StepRecs) /\ fromLeft \in Seq(StepRecs)
      BY <2>2, <2>5, <2>6
    <3> HIDE DEF rest
    <3>3. [page[w] EXCEPT !.left = rest, !.shown = fromLeft] \in PageRecs
      BY <1>1, <3>2 DEF PageRecs
    <3>4. QED
      BY <1>1, <2>4, <3>1, <3>3
  <2>7. CASE page[w].queue # <<>> /\ page' = [page EXCEPT ![w].queue = Tail(@), ![w].shown = fromQueue]
    <3> DEFINE rest == Tail(page[w].queue)
    <3>1. page' = [page EXCEPT ![w] = [page[w] EXCEPT !.queue = rest, !.shown = fromQueue]]
      BY <1>1, <2>7 DEF PageRecs
    <3>2. rest \in Seq(StepRecs) /\ fromQueue \in Seq(StepRecs)
      BY <2>2, <2>5, <2>7
    <3> HIDE DEF rest
    <3>3. [page[w] EXCEPT !.queue = rest, !.shown = fromQueue] \in PageRecs
      BY <1>1, <3>2 DEF PageRecs
    <3>4. QED
      BY <1>1, <2>4, <3>1, <3>3
  <2>8. QED
    BY <2>4, <2>6, <2>7
<1>6. CASE Close(w)
  BY <1>1, <1>2, <1>6 DEF Close, PageRecs
<1>7. QED
  BY <1>3, <1>4, <1>5, <1>6 DEF Stream

LEMMA AskStep ==
    ASSUME Known, NEW f \in Followers, Ask(f)
    PROVE  LET list == ListAfter(client[f].after)
           IN  /\ list \in Seq(StepRecs) /\ list # <<>> /\ run # "deleted"
               /\ ToSet(list) \subseteq ToSet(log)
               /\ Last(list) \in ToSet(list)
               /\ \A s \in ToSet(log) : s.cursor > client[f].after /\ s.cursor <= Last(list).cursor
                                            => s \in ToSet(list)
               /\ client'[f] = [after |-> Last(list).cursor,
                                given |-> client[f].given \cup ToSet(list)]
               /\ \A g \in Followers \ {f} : client'[g] = client[g]
               /\ client' \in [Followers -> [after : 0..MaxSteps, given : SUBSET StepRecs]]
               /\ UNCHANGED <<cursor, log, sink, sent, run, page>>
<1> DEFINE c == client[f].after
           list == ListAfter(c)
<1>1. c \in Nat /\ client \in [Followers -> [after : 0..MaxSteps, given : SUBSET StepRecs]]
  BY FeedAssumption DEF Known, Typed
<1> HIDE DEF c
<1>2. /\ list \in Seq(StepRecs)
      /\ ToSet(list) \subseteq {s \in ToSet(log) : s.cursor > c}
      /\ list # <<>> =>
            /\ Last(list) \in ToSet(list)
            /\ \A s \in {s \in ToSet(log) : s.cursor > c} :
                   s.cursor <= Last(list).cursor => s \in ToSet(list)
  BY <1>1, NextSteps DEF Known
<1>3. /\ run # "deleted" /\ list # <<>>
      /\ client' = [client EXCEPT ![f] = [after |-> Last(list).cursor,
                                          given |-> @.given \cup ToSet(list)]]
      /\ UNCHANGED <<cursor, log, sink, sent, run, page>>
  BY DEF Ask, c
<1> HIDE DEF list
<1>4. ToSet(list) \subseteq ToSet(log) /\ Last(list) \in ToSet(list)
  BY <1>2, <1>3
<1>5. Last(list) \in StepRecs /\ ToSet(list) \subseteq StepRecs
  BY <1>4, LogIds DEF Known
<1>6. [after |-> Last(list).cursor, given |-> client[f].given \cup ToSet(list)]
         \in [after : 0..MaxSteps, given : SUBSET StepRecs]
  BY <1>1, <1>5, FeedAssumption DEF StepRecs
<1>7. QED
  BY <1>1, <1>2, <1>3, <1>4, <1>6 DEF c, list

LEMMA StepsKeepKnown == Known /\ [Next]_vars => Known'
<1> SUFFICES ASSUME Known, [Next]_vars PROVE Known'
  OBVIOUS
<1>1. ASSUME NEW r \in Readings, Record(r) PROVE Known'
  BY <1>1, RecordKeepsKnown
<1>2. CASE EndRun
  <2>1. UNCHANGED <<cursor, log, sink, sent, page, client>> /\ ToSet(log)' = ToSet(log)
    BY <1>2 DEF EndRun, ToSet
  <2>2. run' = "ended" /\ run = "live" /\ \A r \in Readings : sink[r] = Idle
    BY <1>2 DEF EndRun
  <2>3. QED
    BY <2>1, <2>2 DEF Known, Typed, Numbered, Idle
<1>3. CASE ReturnRun
  <2>1. UNCHANGED <<cursor, log, sink, sent, page, client>> /\ ToSet(log)' = ToSet(log)
    BY <1>3 DEF ReturnRun, ToSet
  <2>2. run' = "live" /\ run = "ended"
    BY <1>3 DEF ReturnRun
  <2>3. QED
    BY <2>1, <2>2 DEF Known, Typed, Numbered
<1>4. CASE DeleteRun
  <2>1. /\ UNCHANGED <<cursor, sink, sent, page, client>>
        /\ log' = <<>> /\ run' = "deleted" /\ run # "deleted"
        /\ \A r \in Readings : sink[r].at # "writing"
    BY <1>4 DEF DeleteRun
  <2>2. ToSet(log') = {} /\ ToSet(log)' = {}
    BY <2>1 DEF ToSet
  <2>3. IsFiniteSet(ToSet(log))'
    BY <2>2, FS_EmptySet
  <2>4. QED
    BY <2>1, <2>2, <2>3 DEF Known, Typed, Numbered
<1>5. ASSUME NEW w \in Watchers, Stream(w) PROVE Known'
  <2>1. /\ page' \in [Watchers -> PageRecs]
        /\ UNCHANGED <<cursor, log, sink, sent, run, client>>
    BY <1>5, StreamStep
  <2>2. ToSet(log)' = ToSet(log)
    BY <2>1 DEF ToSet
  <2>3. QED
    BY <2>1, <2>2 DEF Known, Typed, Numbered, PageRecs
<1>6. ASSUME NEW f \in Followers, Ask(f) PROVE Known'
  <2>1. /\ client' \in [Followers -> [after : 0..MaxSteps, given : SUBSET StepRecs]]
        /\ UNCHANGED <<cursor, log, sink, sent, run, page>>
    BY <1>6, AskStep
  <2>2. ToSet(log)' = ToSet(log)
    BY <2>1 DEF ToSet
  <2>3. QED
    BY <2>1, <2>2 DEF Known, Typed, Numbered
<1>7. CASE UNCHANGED vars
  <2>1. UNCHANGED vars /\ ToSet(log)' = ToSet(log)
    BY <1>7 DEF vars, ToSet
  <2>2. QED
    BY <2>1 DEF vars, Known, Typed, Numbered
<1>8. QED
  BY <1>1, <1>2, <1>3, <1>4, <1>5, <1>6, <1>7 DEF Next

(* In every state the columns have their types, ids name their steps and a *)
(* written step is in the record (SqlAlchemyInvestigationLog.append).      *)
THEOREM AlwaysKnown == Spec => []Known
<1>1. Init => Known
  BY InitIsKnown
<1>2. Known /\ [Next]_vars => Known'
  BY StepsKeepKnown
<1>3. QED
  BY <1>1, <1>2, PTL DEF Spec

-----------------------------------------------------------------------------
(* A client's cursor is the id of a step it was given.                     *)
GivenUpTo ==
    \A f \in Followers :
        \/ run = "deleted"
        \/ client[f].after = 0
        \/ \E j \in DOMAIN log :
               log[j].cursor = client[f].after /\ log[j] \in client[f].given

FollowInv == Known /\ GivenUpTo /\ FollowersLoseOnlyOvertaken

LEMMA SameLogSameLosses ==
    ASSUME FollowInv, UNCHANGED <<log, client>>, run' = "deleted" <=> run = "deleted"
    PROVE  GivenUpTo' /\ FollowersLoseOnlyOvertaken'
  BY DEF FollowInv, GivenUpTo, FollowersLoseOnlyOvertaken

LEMMA CommitLosesOnlyOvertaken ==
    ASSUME FollowInv, NEW r \in Readings, CommitStep(r)
    PROVE  GivenUpTo' /\ FollowersLoseOnlyOvertaken'
<1> DEFINE s == StepOf(sink[r].step, r)
           n == Len(log)
<1>1. /\ s \in StepRecs /\ s.cursor \in 1..cursor
      /\ log' \in Seq(StepRecs) /\ Len(log') = n + 1
      /\ \A i \in 1..n : log'[i] = log[i]
      /\ log'[n + 1] = s
      /\ \A t \in ToSet(log) : t.cursor # s.cursor
  BY LogGrows DEF FollowInv
<1>2. UNCHANGED <<run, client>> /\ sink[r].at = "writing"
  BY DEF CommitStep
<1>3. run # "deleted" /\ cursor \in 0..MaxSteps
  BY <1>2 DEF FollowInv, Known, Numbered, Typed
<1>4. log \in Seq(StepRecs) /\ n \in Nat /\ DOMAIN log = 1..n /\ DOMAIN log' = 1..(n + 1)
  BY <1>1 DEF FollowInv, Known, Typed
<1> HIDE DEF s, n
<1>5. GivenUpTo'
  <2> SUFFICES ASSUME NEW f \in Followers, client[f].after # 0
               PROVE  \E j \in DOMAIN log' :
                          log'[j].cursor = client[f].after /\ log'[j] \in client[f].given
    BY <1>2 DEF GivenUpTo
  <2>1. PICK j \in DOMAIN log : log[j].cursor = client[f].after /\ log[j] \in client[f].given
    BY <1>3 DEF FollowInv, GivenUpTo
  <2>2. j \in DOMAIN log' /\ log'[j] = log[j]
    BY <1>1, <1>4
  <2>3. QED
    BY <2>1, <2>2
<1>6. FollowersLoseOnlyOvertaken'
  <2> SUFFICES ASSUME NEW f \in Followers, NEW i \in DOMAIN log',
                      log'[i].cursor <= client[f].after, log'[i] \notin client[f].given
               PROVE  \E j \in 1..(i - 1) : Earlier(log'[i], log'[j]) /\ log'[j] \in client[f].given
    BY <1>2 DEF FollowersLoseOnlyOvertaken, Earlier
  <2>1. CASE i \in 1..n
    <3>1. log'[i] = log[i] /\ i \in DOMAIN log
      BY <1>1, <1>4, <2>1
    <3>2. PICK j \in 1..(i - 1) : Earlier(log[i], log[j]) /\ log[j] \in client[f].given
      BY <3>1 DEF FollowInv, FollowersLoseOnlyOvertaken
    <3>3. log'[j] = log[j]
      BY <1>1, <1>4, <2>1, <3>2
    <3>4. QED
      BY <3>1, <3>2, <3>3
  <2>2. CASE i = n + 1
    <3>1. log'[i] = s
      BY <1>1, <2>2
    <3>2. client[f].after # 0
      <4>1. client[f].after \in Nat /\ s.cursor \in Nat /\ s.cursor # 0
        BY <1>1, <1>3, FeedAssumption DEF FollowInv, Known, Typed
      <4>2. s.cursor <= client[f].after
        BY <3>1
      <4>3. QED
        BY <4>1, <4>2
    <3>3. PICK j \in DOMAIN log : log[j].cursor = client[f].after /\ log[j] \in client[f].given
      BY <1>3, <3>2 DEF FollowInv, GivenUpTo
    <3>4. log[j] \in ToSet(log)
      BY <3>3 DEF ToSet
    <3>5. log[j].cursor # s.cursor
      BY <1>1, <3>4
    <3>6. s.cursor \in Nat /\ log[j].cursor \in Nat
      <4>1. log[j] \in StepRecs /\ s \in StepRecs
        BY <1>1, <1>4
      <4>2. QED
        BY <4>1, FeedAssumption DEF StepRecs
    <3>7. Earlier(s, log[j])
      BY <3>1, <3>3, <3>5, <3>6 DEF Earlier
    <3>8. j \in 1..(i - 1) /\ log'[j] = log[j]
      BY <1>1, <1>4, <2>2
    <3>9. QED
      BY <3>1, <3>3, <3>7, <3>8
  <2>3. QED
    BY <1>4, <2>1, <2>2
<1>7. QED
  BY <1>5, <1>6

LEMMA AskLosesOnlyOvertaken ==
    ASSUME FollowInv, NEW f \in Followers, Ask(f)
    PROVE  GivenUpTo' /\ FollowersLoseOnlyOvertaken'
<1> DEFINE c == client[f].after
           list == ListAfter(c)
<1>1. /\ ToSet(list) \subseteq ToSet(log)
      /\ Last(list) \in ToSet(list)
      /\ \A s \in ToSet(log) : s.cursor > c /\ s.cursor <= Last(list).cursor => s \in ToSet(list)
      /\ client'[f] = [after |-> Last(list).cursor, given |-> client[f].given \cup ToSet(list)]
      /\ \A g \in Followers \ {f} : client'[g] = client[g]
      /\ UNCHANGED <<log, run>>
  BY AskStep DEF FollowInv
<1> HIDE DEF list
<1>2. PICK j \in DOMAIN log : log[j] = Last(list)
  BY <1>1 DEF ToSet
<1>3. GivenUpTo'
  BY <1>1, <1>2 DEF FollowInv, GivenUpTo
<1>4. FollowersLoseOnlyOvertaken'
  <2> SUFFICES ASSUME NEW g \in Followers, NEW i \in DOMAIN log,
                      log[i].cursor <= client'[g].after, log[i] \notin client'[g].given
               PROVE  \E k \in 1..(i - 1) : Earlier(log[i], log[k]) /\ log[k] \in client'[g].given
    BY <1>1 DEF FollowersLoseOnlyOvertaken, Earlier
  <2>1. CASE g # f
    BY <1>1, <2>1 DEF FollowInv, FollowersLoseOnlyOvertaken
  <2>2. CASE g = f
    <3>1. log[i] \in ToSet(log)
      BY DEF ToSet
    <3>2. log[i].cursor <= Last(list).cursor /\ log[i] \notin ToSet(list) /\ log[i] \notin client[f].given
      BY <1>1, <2>2
    <3>3. ~(log[i].cursor > c)
      BY <1>1, <3>1, <3>2
    <3>4. c \in Int /\ log[i].cursor \in Int
      <4>1. log[i] \in StepRecs
        BY <3>1, LogIds DEF FollowInv, Known
      <4>2. QED
        BY <4>1, FeedAssumption DEF FollowInv, Known, Typed, StepRecs
    <3>5. log[i].cursor <= c
      BY <3>3, <3>4
    <3>6. PICK k \in 1..(i - 1) : Earlier(log[i], log[k]) /\ log[k] \in client[f].given
      BY <3>2, <3>5 DEF FollowInv, FollowersLoseOnlyOvertaken
    <3>7. QED
      BY <1>1, <2>2, <3>6
  <2>3. QED
    BY <2>1, <2>2
<1>5. QED
  BY <1>3, <1>4

LEMMA StepsKeepFollowInv == FollowInv /\ [Next]_vars => FollowInv'
<1> SUFFICES ASSUME FollowInv, [Next]_vars PROVE FollowInv'
  OBVIOUS
<1>1. Known'
  BY StepsKeepKnown DEF FollowInv
<1>2. ASSUME NEW r \in Readings, Record(r) PROVE GivenUpTo' /\ FollowersLoseOnlyOvertaken'
  <2>1. CASE CommitStep(r)
    BY <2>1, CommitLosesOnlyOvertaken
  <2>2. CASE Insert(r) \/ NotSaved(r) \/ Announce(r) \/ NotAnnounced(r)
    <3>1. UNCHANGED <<log, run, client>>
      BY <2>2 DEF Insert, NotSaved, Announce, NotAnnounced
    <3>2. QED
      BY <3>1, SameLogSameLosses
  <2>3. QED
    BY <1>2, <2>1, <2>2 DEF Record
<1>3. ASSUME EndRun \/ ReturnRun PROVE GivenUpTo' /\ FollowersLoseOnlyOvertaken'
  <2>1. UNCHANGED <<log, client>> /\ (run' = "deleted" <=> run = "deleted")
    BY <1>3 DEF EndRun, ReturnRun
  <2>2. QED
    BY <2>1, SameLogSameLosses
<1>4. ASSUME DeleteRun PROVE GivenUpTo' /\ FollowersLoseOnlyOvertaken'
  <2>1. log' = <<>> /\ run' = "deleted" /\ UNCHANGED client
    BY <1>4 DEF DeleteRun
  <2>2. QED
    BY <2>1 DEF GivenUpTo, FollowersLoseOnlyOvertaken
<1>5. ASSUME NEW w \in Watchers, Stream(w) PROVE GivenUpTo' /\ FollowersLoseOnlyOvertaken'
  <2>1. UNCHANGED <<log, run, client>>
    BY <1>5, StreamStep DEF FollowInv
  <2>2. QED
    BY <2>1, SameLogSameLosses
<1>6. ASSUME NEW f \in Followers, Ask(f) PROVE GivenUpTo' /\ FollowersLoseOnlyOvertaken'
  BY <1>6, AskLosesOnlyOvertaken
<1>7. ASSUME UNCHANGED vars PROVE GivenUpTo' /\ FollowersLoseOnlyOvertaken'
  BY <1>7, SameLogSameLosses DEF vars
<1>8. GivenUpTo' /\ FollowersLoseOnlyOvertaken'
  BY <1>2, <1>3, <1>4, <1>5, <1>6, <1>7 DEF Next
<1>9. QED
  BY <1>1, <1>8 DEF FollowInv

(* Whatever the order of the commits, of the deletion and of the answers,  *)
(* a client that continues from its cursor misses for good only steps that *)
(* were committed after a later one it was given (investigation.py:72).    *)
THEOREM OnlyOvertakenStepsAreLost == Spec => []FollowersLoseOnlyOvertaken
<1>1. Init => FollowInv
  <2> SUFFICES ASSUME Init PROVE FollowInv
    OBVIOUS
  <2>1. GivenUpTo /\ FollowersLoseOnlyOvertaken
    BY DEF Init, GivenUpTo, FollowersLoseOnlyOvertaken, Unasked
  <2>2. QED
    BY <2>1, InitIsKnown DEF FollowInv
<1>2. FollowInv /\ [Next]_vars => FollowInv'
  BY StepsKeepFollowInv
<1>3. FollowInv => FollowersLoseOnlyOvertaken
  BY DEF FollowInv
<1>4. QED
  BY <1>1, <1>2, <1>3, PTL DEF Spec

-----------------------------------------------------------------------------
(* A page that streams will still show, or has shown, what was announced,  *)
(* unless a page of steps came before it.                                  *)
OnItsWay(w) == ToSet(page[w].shown) \cup ToSet(page[w].left) \cup ToSet(page[w].queue)

Awaited(w) ==
    page[w].at = "streaming" =>
        \A s \in ToSet(log) :
            s.cursor \in sent /\ s \notin OnItsWay(w) => Rank(s, ToSet(log)) \geq Page

WatchInv == Known /\ \A w \in Watchers : Awaited(w)

LEMMA CommitKeepsAwaited ==
    ASSUME WatchInv, NEW r \in Readings, CommitStep(r), NEW w \in Watchers
    PROVE  Awaited(w)'
<1> DEFINE R == ToSet(log)
           T == ToSet(log')
           new == StepOf(sink[r].step, r)
<1>1. T = R \cup {new} /\ IsFiniteSet(T) /\ new.cursor = sink[r].step
  BY LogGrows DEF WatchInv
<1>2. sink[r].at = "writing" /\ UNCHANGED <<sent, page>>
  BY DEF CommitStep
<1>3. new.cursor \notin sent
  BY <1>1, <1>2 DEF WatchInv, Known, Numbered
<1>4. OnItsWay(w)' = OnItsWay(w) /\ ToSet(log)' = T
  BY <1>2 DEF OnItsWay, ToSet
<1>5. Page \in Nat
  BY FeedAssumption
<1> HIDE DEF R, T, new
<1>6. ASSUME NEW s \in T, page[w].at = "streaming", s.cursor \in sent, s \notin OnItsWay(w)
      PROVE  Rank(s, T) \geq Page
  <2>1. s \in R
    BY <1>1, <1>3, <1>6
  <2>2. Rank(s, R) \geq Page
    BY <1>6, <2>1 DEF WatchInv, Awaited, R
  <2>3. Rank(s, R) \in Nat /\ Rank(s, T) \in Nat /\ Rank(s, R) <= Rank(s, T)
    BY <1>1, RankGrows
  <2>4. QED
    BY <1>5, <2>2, <2>3
<1>7. \A s : (s.cursor \in sent)' <=> s.cursor \in sent
  BY <1>2
<1>8. Awaited(w)' <=> (page'[w].at = "streaming" =>
                        \A s \in T : s.cursor \in sent' /\ s \notin OnItsWay(w) => Rank(s, T) \geq Page)
  BY <1>4 DEF Awaited, Rank, Earlier
<1>9. QED
  BY <1>2, <1>6, <1>8

LEMMA AnnounceKeepsAwaited ==
    ASSUME WatchInv, NEW r \in Readings, Announce(r), NEW w \in Watchers
    PROVE  Awaited(w)'
<1> DEFINE new == StepOf(sink[r].step, r)
<1>1. /\ sink[r].at = "written" /\ UNCHANGED <<log, run>> /\ ToSet(log)' = ToSet(log)
      /\ sent' = sent \cup {sink[r].step}
      /\ w \in Receivers => page'[w] = [page[w] EXCEPT !.queue = Append(@, new)]
      /\ w \notin Receivers => page'[w] = page[w]
  BY DEF Announce, ToSet
<1>2. page[w] \in PageRecs /\ sink[r].step \in 1..MaxSteps /\ new.cursor = sink[r].step /\ new \in StepRecs
  <2>1. sink[r].step \in 1..cursor /\ cursor \in 0..MaxSteps
    BY <1>1 DEF WatchInv, Known, Numbered, Typed
  <2>2. sink[r].step \in 1..MaxSteps
    BY <2>1, FeedAssumption
  <2>3. page[w] \in PageRecs
    BY DEF WatchInv, Known, Typed, PageRecs
  <2>4. new \in StepRecs /\ new.cursor = sink[r].step
    BY <2>2 DEF StepOf, StepRecs
  <2>5. QED
    BY <2>2, <2>3, <2>4
<1>3. run = "deleted" \/ new \in ToSet(log)
  BY <1>1 DEF WatchInv, Known, Numbered
<1>4. run = "deleted" => ToSet(log) = {}
  BY DEF WatchInv, Known, Numbered, ToSet
<1> HIDE DEF new
<1>5. SUFFICES ASSUME page'[w].at = "streaming", NEW s \in ToSet(log),
                      s.cursor \in sent', s \notin OnItsWay(w)'
               PROVE  Rank(s, ToSet(log)) \geq Page
  BY <1>1 DEF Awaited, Rank, Earlier
<1>6. page[w].at = "streaming" /\ w \in Receivers
  BY <1>1, <1>2, <1>5 DEF Receivers, PageRecs
<1>7. /\ page'[w].queue = Append(page[w].queue, new)
      /\ page'[w].left = page[w].left /\ page'[w].shown = page[w].shown
  BY <1>1, <1>2, <1>6 DEF PageRecs
<1>8. ToSet(page'[w].queue) = ToSet(page[w].queue) \cup {new}
  BY <1>2, <1>7, SetOfSeq DEF PageRecs
<1>9. OnItsWay(w)' = OnItsWay(w) \cup {new}
  BY <1>7, <1>8 DEF OnItsWay, ToSet
<1>10. s # new /\ s \notin OnItsWay(w)
  BY <1>5, <1>9
<1>11. new \in ToSet(log)
  BY <1>3, <1>4
<1>12. s.cursor # new.cursor
  BY <1>10, <1>11 DEF WatchInv, Known, Numbered
<1>13. s.cursor \in sent
  BY <1>1, <1>2, <1>5, <1>12
<1>14. QED
  BY <1>6, <1>10, <1>13 DEF WatchInv, Awaited

LEMMA SendMovesAlong ==
    ASSUME Known, NEW w \in Watchers, Send(w)
    PROVE  page'[w].at = "streaming" /\ page[w].at = "streaming" /\ OnItsWay(w)' = OnItsWay(w)
<1>1. page[w] \in PageRecs /\ page \in [Watchers -> PageRecs]
  BY DEF Known, Typed, PageRecs
<1>2. page[w].left \in Seq(StepRecs) /\ page[w].queue \in Seq(StepRecs)
  BY <1>1 DEF PageRecs
<1>3. CASE page[w].left # <<>>
  <2> DEFINE h == Head(page[w].left)
             t == Tail(page[w].left)
             shown == Shown(w, h)
  <2>1. h \in StepRecs /\ ToSet(page[w].left) = {h} \cup ToSet(t)
    BY <1>2, <1>3, SetOfSeq
  <2>2. ToSet(shown) = ToSet(page[w].shown) \cup {h}
    BY <2>1, ShowsOne
  <2>3. page' = [page EXCEPT ![w].left = t, ![w].shown = shown] /\ page[w].at = "streaming"
    BY <1>3 DEF Send
  <2> HIDE DEF h, t, shown
  <2>4. /\ page'[w].left = t /\ page'[w].shown = shown
        /\ page'[w].queue = page[w].queue /\ page'[w].at = page[w].at
    BY <1>1, <2>3 DEF PageRecs
  <2>5. OnItsWay(w)' = ToSet(shown) \cup ToSet(t) \cup ToSet(page[w].queue)
    BY <2>4 DEF OnItsWay, ToSet
  <2>6. QED
    BY <2>1, <2>2, <2>3, <2>4, <2>5 DEF OnItsWay
<1>4. CASE page[w].left = <<>>
  <2> DEFINE h == Head(page[w].queue)
             t == Tail(page[w].queue)
             shown == Shown(w, h)
  <2>0. page[w].queue # <<>>
    BY <1>4 DEF Send
  <2>1. h \in StepRecs /\ ToSet(page[w].queue) = {h} \cup ToSet(t)
    BY <1>2, <2>0, SetOfSeq
  <2>2. ToSet(shown) = ToSet(page[w].shown) \cup {h}
    BY <2>1, ShowsOne
  <2>3. page' = [page EXCEPT ![w].queue = t, ![w].shown = shown] /\ page[w].at = "streaming"
    BY <1>4 DEF Send
  <2> HIDE DEF h, t, shown
  <2>4. /\ page'[w].queue = t /\ page'[w].shown = shown
        /\ page'[w].left = page[w].left /\ page'[w].at = page[w].at
    BY <1>1, <2>3 DEF PageRecs
  <2>5. OnItsWay(w)' = ToSet(shown) \cup ToSet(page[w].left) \cup ToSet(t)
    BY <2>4 DEF OnItsWay, ToSet
  <2>6. QED
    BY <2>1, <2>2, <2>3, <2>4, <2>5 DEF OnItsWay
<1>5. QED
  BY <1>3, <1>4

LEMMA StreamKeepsAwaited ==
    ASSUME WatchInv, NEW w \in Watchers, Stream(w), NEW v \in Watchers
    PROVE  Awaited(v)'
<1>1. /\ UNCHANGED <<log, sent>> /\ ToSet(log)' = ToSet(log)
      /\ v # w => page'[v] = page[v]
      /\ page'[w] \in PageRecs
  BY StreamStep DEF WatchInv, ToSet
<1>2. Page \in Nat
  BY FeedAssumption
<1>3. CASE v # w
  BY <1>1, <1>3 DEF WatchInv, Awaited, OnItsWay, Rank, Earlier, ToSet
<1>4. CASE v = w
  <2>1. page[w] \in PageRecs /\ page \in [Watchers -> PageRecs]
    BY DEF WatchInv, Known, Typed, PageRecs
  <2>2. CASE Subscribe(w) \/ Close(w)
    <3>1. page'[w].at # "streaming"
      BY <2>1, <2>2 DEF Subscribe, Close, PageRecs
    <3>2. QED
      BY <1>4, <3>1 DEF Awaited
  <2>3. CASE ReadHistory(w)
    <3> DEFINE list == ListAfter(0)
               R == ToSet(log)
    <3>1. \A s \in {s \in R : s.cursor > 0} :
             Rank(s, {t \in R : t.cursor > 0}) < Page => s \in ToSet(list)
      BY NextSteps DEF WatchInv, Known
    <3>2. \A s \in R : s.cursor > 0
      BY LogIds, FeedAssumption DEF WatchInv, Known, StepRecs
    <3>3. {t \in R : t.cursor > 0} = R /\ {s \in R : s.cursor > 0} = R
      BY <3>2
    <3>4. \A s \in R : Rank(s, R) < Page => s \in ToSet(list)
      BY <3>1, <3>3
    <3>5. \/ page'[w].at = "closed"
          \/ page'[w].left = list
      <4>1. \/ page' = [page EXCEPT ![w].at = "streaming", ![w].left = list]
            \/ page' = [page EXCEPT ![w].at = "closed"]
        BY <2>3 DEF ReadHistory
      <4> HIDE DEF list
      <4>2. QED
        BY <2>1, <4>1 DEF PageRecs
    <3>6. \A s \in R : Rank(s, R) \in Nat
      BY RankGrows DEF WatchInv, Known, Typed
    <3> HIDE DEF list
    <3>7. SUFFICES ASSUME page'[w].at = "streaming", NEW s \in R, s \notin OnItsWay(w)'
                   PROVE  Rank(s, R) \geq Page
      BY <1>1, <1>4 DEF Awaited, Rank, Earlier
    <3>8. s \notin ToSet(list)
      BY <3>5, <3>7 DEF OnItsWay, ToSet
    <3>9. QED
      BY <1>2, <3>4, <3>6, <3>8
  <2>4. CASE Send(w)
    <3>1. page[w].at = "streaming" /\ OnItsWay(w)' = OnItsWay(w)
      BY <2>4, SendMovesAlong DEF WatchInv
    <3>2. QED
      BY <1>1, <1>4, <3>1 DEF WatchInv, Awaited, Rank, Earlier
  <2>5. QED
    BY <2>2, <2>3, <2>4 DEF Stream
<1>5. QED
  BY <1>3, <1>4

LEMMA OthersKeepAwaited ==
    ASSUME WatchInv, UNCHANGED <<log, sent, page>>, NEW w \in Watchers
    PROVE  Awaited(w)'
<1>1. ToSet(log)' = ToSet(log) /\ OnItsWay(w)' = OnItsWay(w)
  BY DEF ToSet, OnItsWay
<1>2. QED
  BY <1>1 DEF WatchInv, Awaited, Rank, Earlier

LEMMA StepsKeepWatchInv == WatchInv /\ [Next]_vars => WatchInv'
<1> SUFFICES ASSUME WatchInv, [Next]_vars PROVE WatchInv'
  OBVIOUS
<1>1. Known'
  BY StepsKeepKnown DEF WatchInv
<1>2. ASSUME NEW w \in Watchers PROVE Awaited(w)'
  <2>1. ASSUME NEW r \in Readings, Record(r) PROVE Awaited(w)'
    <3>1. CASE CommitStep(r)
      BY <3>1, CommitKeepsAwaited
    <3>2. CASE Announce(r)
      BY <3>2, AnnounceKeepsAwaited
    <3>3. CASE Insert(r) \/ NotSaved(r) \/ NotAnnounced(r)
      <4>1. UNCHANGED <<log, sent, page>>
        BY <3>3 DEF Insert, NotSaved, NotAnnounced
      <4>2. QED
        BY <4>1, OthersKeepAwaited
    <3>4. QED
      BY <2>1, <3>1, <3>2, <3>3 DEF Record
  <2>2. CASE DeleteRun
    <3>1. ToSet(log)' = {}
      BY <2>2 DEF DeleteRun, ToSet
    <3>2. QED
      BY <3>1 DEF Awaited
  <2>3. CASE EndRun \/ ReturnRun
    <3>1. UNCHANGED <<log, sent, page>>
      BY <2>3 DEF EndRun, ReturnRun
    <3>2. QED
      BY <3>1, OthersKeepAwaited
  <2>4. ASSUME NEW v \in Watchers, Stream(v) PROVE Awaited(w)'
    BY <2>4, StreamKeepsAwaited
  <2>5. ASSUME NEW f \in Followers, Ask(f) PROVE Awaited(w)'
    <3>1. UNCHANGED <<log, sent, page>>
      BY <2>5, AskStep DEF WatchInv
    <3>2. QED
      BY <3>1, OthersKeepAwaited
  <2>6. CASE UNCHANGED vars
    BY <2>6, OthersKeepAwaited DEF vars
  <2>7. QED
    BY <2>1, <2>2, <2>3, <2>4, <2>5, <2>6 DEF Next
<1>3. QED
  BY <1>1, <1>2 DEF WatchInv

(* However many readings record at once and however often a page opens its *)
(* socket: what it was not shown, though announced, lies beyond the first  *)
(* page of the record (step_broadcaster.py:36, investigation_stream.py:84).*)
THEOREM PagesMissOnlyTheRest == Spec => []MissedOnlyBeyondThePage
<1>1. Init => WatchInv
  <2> SUFFICES ASSUME Init PROVE WatchInv
    OBVIOUS
  <2>1. \A w \in Watchers : Awaited(w)
    BY DEF Init, Awaited, Away
  <2>2. QED
    BY <2>1, InitIsKnown DEF WatchInv
<1>2. WatchInv /\ [Next]_vars => WatchInv'
  BY StepsKeepWatchInv
<1>3. WatchInv => MissedOnlyBeyondThePage
  BY DEF WatchInv, Awaited, OnItsWay, MissedOnlyBeyondThePage, ToSet
<1>4. QED
  BY <1>1, <1>2, <1>3, PTL DEF Spec

-----------------------------------------------------------------------------
(* A reading has done with a step, one way or the other, before it inserts *)
(* the next: of what is known of it nothing is later than what it is about *)
(* to record or announce.                                                  *)
Placed(x) ==
    /\ x.cursor <= cursor
    /\ \A r \in Readings : sink[r].at # "idle" =>
          /\ x.by = r => x.cursor <= sink[r].step
          /\ x.cursor = sink[r].step => x.by = r /\ sink[r].at = "written"

PlacedInv ==
    /\ WatchInv
    /\ \A x \in ToSet(log) : Placed(x)
    /\ \A w \in Watchers : \A x \in OnItsWay(w) : Placed(x)

LEMMA PagesHoldSteps ==
    ASSUME Known, NEW w \in Watchers
    PROVE  /\ OnItsWay(w) \subseteq StepRecs
           /\ page[w].shown \in Seq(StepRecs) /\ page[w].left \in Seq(StepRecs)
           /\ page[w].queue \in Seq(StepRecs)
           /\ ToSet(page[w].shown) \subseteq StepRecs /\ ToSet(page[w].left) \subseteq StepRecs
           /\ ToSet(page[w].queue) \subseteq StepRecs
<1>1. /\ page[w].shown \in Seq(StepRecs) /\ page[w].left \in Seq(StepRecs)
      /\ page[w].queue \in Seq(StepRecs)
  BY DEF Known, Typed
<1>2. QED
  BY <1>1, SetOfSeq DEF OnItsWay

LEMMA PlacedStays ==
    ASSUME Known, [Next]_vars, NEW x \in StepRecs, Placed(x)
    PROVE  Placed(x)'
<1>0. x.cursor \in Nat /\ cursor \in Nat /\ \A r \in Readings : sink[r].step \in Nat
  BY FeedAssumption DEF Known, Typed, StepRecs
<1>1. ASSUME NEW r \in Readings, Record(r) PROVE Placed(x)'
  <2>1. CASE Insert(r)
    <3>1. /\ sink'[r].step = cursor + 1 /\ cursor' = cursor + 1
          /\ \A q \in Readings \ {r} : sink'[q] = sink[q]
      BY <2>1 DEF Insert, Known, Typed
    <3>2. QED
      BY <1>0, <3>1 DEF Placed
  <2>2. CASE CommitStep(r)
    <3>1. /\ sink[r].at = "writing" /\ sink'[r].at = "written" /\ sink'[r].step = sink[r].step
          /\ UNCHANGED cursor
          /\ \A q \in Readings \ {r} : sink'[q] = sink[q]
      BY <2>2 DEF CommitStep, Known, Typed
    <3>2. QED
      BY <3>1 DEF Placed
  <2>3. CASE NotSaved(r) \/ NotAnnounced(r) \/ Announce(r)
    <3>1. /\ sink'[r].at = "idle" /\ UNCHANGED cursor
          /\ \A q \in Readings \ {r} : sink'[q] = sink[q]
      BY <2>3 DEF NotSaved, NotAnnounced, Announce, Idle, Known, Typed
    <3>2. QED
      BY <3>1 DEF Placed
  <2>4. QED
    BY <1>1, <2>1, <2>2, <2>3 DEF Record
<1>2. ASSUME UNCHANGED <<cursor, sink>> PROVE Placed(x)'
  BY <1>2 DEF Placed
<1>3. ASSUME EndRun \/ ReturnRun \/ DeleteRun \/ UNCHANGED vars PROVE Placed(x)'
  BY <1>2, <1>3 DEF EndRun, ReturnRun, DeleteRun, vars
<1>4. ASSUME NEW w \in Watchers, Stream(w) PROVE Placed(x)'
  BY <1>2, <1>4, StreamStep
<1>5. ASSUME NEW f \in Followers, Ask(f) PROVE Placed(x)'
  BY <1>2, <1>5, AskStep
<1>6. QED
  BY <1>1, <1>3, <1>4, <1>5 DEF Next

LEMMA NewIsPlaced ==
    ASSUME Known, NEW r \in Readings, sink[r].at # "idle"
    PROVE  LET s == StepOf(sink[r].step, r)
           IN  /\ s \in StepRecs /\ s.cursor = sink[r].step /\ s.by = r
               /\ s.cursor <= cursor
               /\ \A q \in Readings \ {r} : sink[q].at # "idle" => s.cursor # sink[q].step
<1>1. sink[r].step \in 1..cursor /\ cursor \in 0..MaxSteps
  BY DEF Known, Numbered, Typed
<1>2. sink[r].step \in 1..MaxSteps /\ sink[r].step <= cursor
  BY <1>1, FeedAssumption
<1>3. \A q \in Readings \ {r} : sink[q].at # "idle" => sink[r].step # sink[q].step
  BY DEF Known, Numbered
<1>4. QED
  BY <1>2, <1>3 DEF StepOf, StepRecs

(* What a step of the system adds to the record and to a page.             *)
LEMMA WhatIsNew ==
    ASSUME WatchInv, [Next]_vars
    PROVE  /\ \A x \in ToSet(log') : \/ x \in ToSet(log)
                                     \/ \E r \in Readings : CommitStep(r) /\ x = StepOf(sink[r].step, r)
           /\ \A w \in Watchers : \A x \in OnItsWay(w)' :
                 \/ x \in OnItsWay(w) \cup ToSet(log)
                 \/ \E r \in Readings : Announce(r) /\ x = StepOf(sink[r].step, r)
<1> USE DEF WatchInv
<1>1. ASSUME NEW r \in Readings, CommitStep(r)
      PROVE  /\ ToSet(log') = ToSet(log) \cup {StepOf(sink[r].step, r)}
             /\ \A w \in Watchers : OnItsWay(w)' = OnItsWay(w)
  <2>1. UNCHANGED page
    BY <1>1 DEF CommitStep
  <2>2. \A w \in Watchers : OnItsWay(w)' = OnItsWay(w)
    BY <2>1 DEF OnItsWay, ToSet
  <2>3. QED
    BY <1>1, <2>2, LogGrows
<1>2. ASSUME NEW r \in Readings, Announce(r)
      PROVE  /\ ToSet(log') = ToSet(log)
             /\ \A w \in Watchers : OnItsWay(w)' \subseteq OnItsWay(w) \cup {StepOf(sink[r].step, r)}
  <2> DEFINE new == StepOf(sink[r].step, r)
  <2>1. log' = log /\ sink[r].at = "written"
    BY <1>2 DEF Announce
  <2>2. new \in StepRecs
    BY <2>1, NewIsPlaced
  <2>3. ASSUME NEW w \in Watchers PROVE OnItsWay(w)' \subseteq OnItsWay(w) \cup {new}
    <3>1. /\ w \in Receivers => page'[w] = [page[w] EXCEPT !.queue = Append(@, new)]
          /\ w \notin Receivers => page'[w] = page[w]
      BY <1>2 DEF Announce
    <3> HIDE DEF new
    <3>2. page[w] \in PageRecs
      BY DEF Known, Typed, PageRecs
    <3>3. ToSet(Append(page[w].queue, new)) = ToSet(page[w].queue) \cup {new}
      BY <2>2, <3>2, SetOfSeq DEF PageRecs
    <3>4. CASE w \in Receivers
      <4>1. /\ page'[w].queue = Append(page[w].queue, new)
            /\ page'[w].left = page[w].left /\ page'[w].shown = page[w].shown
        BY <3>1, <3>2, <3>4 DEF PageRecs
      <4>2. QED
        BY <3>3, <4>1 DEF OnItsWay, ToSet
    <3>5. CASE w \notin Receivers
      BY <3>1, <3>5 DEF OnItsWay, ToSet
    <3>6. QED
      BY <3>4, <3>5
  <2>4. QED
    BY <2>1, <2>3
<1>3. ASSUME NEW v \in Watchers, Stream(v)
      PROVE  /\ log' = log
             /\ \A w \in Watchers : OnItsWay(w)' \subseteq OnItsWay(w) \cup ToSet(log)
  <2>1. log' = log /\ \A w \in Watchers \ {v} : page'[w] = page[w]
    BY <1>3, StreamStep
  <2>2. page \in [Watchers -> PageRecs] /\ page[v] \in PageRecs
    BY DEF Known, Typed, PageRecs
  <2>3. /\ ToSet(<<>>) = {}
        /\ \A w \in Watchers \ {v} : OnItsWay(w)' = OnItsWay(w)
    BY <2>1 DEF ToSet, OnItsWay
  <2>4. CASE Subscribe(v) \/ Close(v)
    <3>1. page'[v].shown = page[v].shown /\ page'[v].left = <<>> /\ page'[v].queue = <<>>
      BY <2>2, <2>4 DEF Subscribe, Close, PageRecs
    <3>2. OnItsWay(v)' \subseteq OnItsWay(v)
      BY <2>3, <3>1 DEF OnItsWay, ToSet
    <3>3. QED
      BY <2>1, <2>3, <3>2
  <2>5. CASE ReadHistory(v)
    <3> DEFINE list == ListAfter(0)
    <3>1. ToSet(list) \subseteq ToSet(log)
      BY NextSteps DEF Known
    <3>2. \/ page' = [page EXCEPT ![v].at = "streaming", ![v].left = list]
          \/ page' = [page EXCEPT ![v].at = "closed"]
      BY <2>5 DEF ReadHistory
    <3> HIDE DEF list
    <3>3. /\ page'[v].shown = page[v].shown /\ page'[v].queue = page[v].queue
          /\ page'[v].left = list \/ page'[v].left = page[v].left
      BY <2>2, <3>2 DEF PageRecs
    <3>4. OnItsWay(v)' \subseteq OnItsWay(v) \cup ToSet(log)
      BY <3>1, <3>3 DEF OnItsWay, ToSet
    <3>5. QED
      BY <2>1, <2>3, <3>4
  <2>6. CASE Send(v)
    <3>1. OnItsWay(v)' = OnItsWay(v)
      BY <2>6, SendMovesAlong
    <3>2. QED
      BY <2>1, <2>3, <3>1
  <2>7. QED
    BY <1>3, <2>4, <2>5, <2>6 DEF Stream
<1>4. ASSUME UNCHANGED page, log' = log \/ log' = <<>>
      PROVE  /\ ToSet(log') \subseteq ToSet(log)
             /\ \A w \in Watchers : OnItsWay(w)' = OnItsWay(w)
  BY <1>4 DEF OnItsWay, ToSet
<1>5. ASSUME NEW r \in Readings, Insert(r) \/ NotSaved(r) \/ NotAnnounced(r)
      PROVE  UNCHANGED page /\ log' = log
  BY <1>5 DEF Insert, NotSaved, NotAnnounced
<1>6. ASSUME EndRun \/ ReturnRun \/ DeleteRun \/ UNCHANGED vars
      PROVE  UNCHANGED page /\ (log' = log \/ log' = <<>>)
  BY <1>6 DEF EndRun, ReturnRun, DeleteRun, vars
<1>7. ASSUME NEW f \in Followers, Ask(f) PROVE UNCHANGED page /\ log' = log
  BY <1>7, AskStep
<1>8. CASE \E r \in Readings : CommitStep(r)
  BY <1>1, <1>8
<1>9. CASE \E r \in Readings : Announce(r)
  BY <1>2, <1>9
<1>10. CASE \E v \in Watchers : Stream(v)
  BY <1>3, <1>10
<1>11. CASE \/ \E r \in Readings : Insert(r) \/ NotSaved(r) \/ NotAnnounced(r)
            \/ EndRun \/ ReturnRun \/ DeleteRun \/ UNCHANGED vars
            \/ \E f \in Followers : Ask(f)
  BY <1>4, <1>5, <1>6, <1>7, <1>11
<1>12. QED
  BY <1>8, <1>9, <1>10, <1>11 DEF Next, Record

LEMMA StepsKeepPlaced == PlacedInv /\ [Next]_vars => PlacedInv'
<1> SUFFICES ASSUME PlacedInv, [Next]_vars PROVE PlacedInv'
  OBVIOUS
<1>1. WatchInv /\ Known
  BY DEF PlacedInv, WatchInv
<1>2. WatchInv'
  BY <1>1, StepsKeepWatchInv
<1>3. \A x \in ToSet(log) : x \in StepRecs /\ Placed(x)'
  BY <1>1, PlacedStays, LogIds DEF PlacedInv, Known
<1>4. \A w \in Watchers : \A x \in OnItsWay(w) : Placed(x)'
  BY <1>1, PlacedStays, PagesHoldSteps DEF PlacedInv
<1>5. ASSUME NEW r \in Readings, CommitStep(r) \/ Announce(r),
             NEW x, x = StepOf(sink[r].step, r)
      PROVE  Placed(x)'
  <2>1. sink[r].at # "idle"
    BY <1>5 DEF CommitStep, Announce
  <2>2. /\ x.cursor = sink[r].step /\ x.by = r /\ x.cursor <= cursor /\ x.cursor \in Nat
        /\ \A q \in Readings \ {r} : sink[q].at # "idle" => x.cursor # sink[q].step
    <3>1. x \in StepRecs
      BY <1>1, <1>5, <2>1, NewIsPlaced
    <3>2. x.cursor \in Nat
      BY <3>1, FeedAssumption DEF StepRecs
    <3>3. QED
      BY <1>1, <1>5, <2>1, <3>2, NewIsPlaced
  <2>3. /\ UNCHANGED cursor /\ \A q \in Readings \ {r} : sink'[q] = sink[q]
        /\ sink'[r].at = "idle" \/ (sink'[r].at = "written" /\ sink'[r].step = sink[r].step)
    BY <1>1, <1>5 DEF CommitStep, Announce, Known, Typed, Idle
  <2>4. \A q \in Readings \ {r} : x.by # q
    BY <2>2
  <2>5. QED
    BY <2>2, <2>3, <2>4 DEF Placed
<1>6. \A x \in ToSet(log') : Placed(x)'
  BY <1>1, <1>3, <1>5, WhatIsNew
<1>7. \A w \in Watchers : \A x \in OnItsWay(w)' : Placed(x)'
  BY <1>1, <1>3, <1>4, <1>5, WhatIsNew
<1>8. ToSet(log)' = ToSet(log')
  BY DEF ToSet
<1>9. QED
  BY <1>2, <1>6, <1>7, <1>8 DEF PlacedInv

-----------------------------------------------------------------------------
(* What a page has shown, what is left of the history it is sent and what  *)
(* waits in its queue, taken one after the other, keep the order of each   *)
(* reading.  ids are the announced ids and steps the record.               *)
Once(q) == \A i, j \in DOMAIN q : q[i] = q[j] => i = j

SentInOrder(q, ids) ==
    \A i, j \in DOMAIN q : i < j /\ q[i].by = q[j].by /\ q[j].cursor \in ids => Earlier(q[i], q[j])

PageOrder(shown, left, queue, ids) ==
    /\ Once(shown) /\ SentInOrder(shown, ids)
    /\ InOrder(left, TRUE) /\ InOrder(queue, FALSE)
    /\ \A s \in ToSet(shown) : \A z \in ToSet(left) \cup ToSet(queue) :
          z \notin ToSet(shown) /\ s.by = z.by /\ z.cursor \in ids => Earlier(s, z)
    /\ \A x \in ToSet(left) : \A y \in ToSet(queue) :
          x.by = y.by /\ y \notin ToSet(left) \cup ToSet(shown) => Earlier(x, y)

NoneSkipped(shown, left, queue, ids, steps) ==
    /\ \A s \in ToSet(shown) : \A z \in steps :
          s.by = z.by /\ Earlier(z, s) /\ z.cursor \in ids =>
              z \in ToSet(shown) \/ Rank(z, steps) \geq Page
    /\ \A x \in ToSet(left) : \A z \in steps :
          x.by = z.by /\ Earlier(z, x) => z \in ToSet(shown) \cup ToSet(left)
    /\ \A y \in ToSet(queue) : y.cursor \in ids

LEMMA ShowingKeepsOrder ==
    ASSUME NEW q \in Seq(StepRecs), NEW h \in StepRecs, NEW ids,
           Once(q), SentInOrder(q, ids), h \notin ToSet(q),
           h.cursor \in ids => \A s \in ToSet(q) : s.by = h.by => Earlier(s, h)
    PROVE  Once(Append(q, h)) /\ SentInOrder(Append(q, h), ids)
<1> DEFINE a == Append(q, h)
           n == Len(q)
<1>1. /\ n \in Nat /\ DOMAIN q = 1..n /\ DOMAIN a = 1..(n + 1)
      /\ \A i \in 1..n : a[i] = q[i]
      /\ a[n + 1] = h
  BY AppendProperties
<1> HIDE DEF a, n
<1>2. \A i \in 1..n : q[i] \in ToSet(q)
  BY <1>1 DEF ToSet
<1>3. Once(a)
  BY <1>1, <1>2 DEF Once
<1>4. SentInOrder(a, ids)
  <2> SUFFICES ASSUME NEW i \in 1..(n + 1), NEW j \in 1..(n + 1), i < j,
                      a[i].by = a[j].by, a[j].cursor \in ids
               PROVE  Earlier(a[i], a[j])
    BY <1>1 DEF SentInOrder
  <2>1. i \in 1..n /\ a[i] = q[i]
    BY <1>1
  <2>2. CASE j \in 1..n
    BY <1>1, <2>1, <2>2 DEF SentInOrder
  <2>3. CASE j = n + 1
    BY <1>1, <1>2, <2>1, <2>3
  <2>4. QED
    BY <1>1, <2>2, <2>3
<1>5. QED
  BY <1>3, <1>4 DEF a

LEMMA HistoryKeepsOrder ==
    ASSUME NEW shown \in Seq(StepRecs), NEW left \in Seq(StepRecs), NEW queue \in Seq(StepRecs),
           NEW ids, NEW steps, steps \subseteq StepRecs, left # <<>>,
           PageOrder(shown, left, queue, ids), NoneSkipped(shown, left, queue, ids, steps),
           NEW now, now = IF Head(left) \in ToSet(shown) THEN shown ELSE Append(shown, Head(left))
    PROVE  /\ PageOrder(now, Tail(left), queue, ids)
           /\ NoneSkipped(now, Tail(left), queue, ids, steps)
<1> DEFINE h == Head(left)
           t == Tail(left)
<1>1. h \in StepRecs /\ t \in Seq(StepRecs) /\ ToSet(left) = {h} \cup ToSet(t)
  BY SetOfSeq
<1>2. InOrder(t, TRUE) /\ \A y \in ToSet(t) : Earlier(h, y)
  BY OrderOfTail DEF PageOrder
<1>3. ToSet(now) = ToSet(shown) \cup {h}
  BY <1>1, SetOfSeq
<1>4. Once(now) /\ SentInOrder(now, ids)
  <2>1. CASE h \in ToSet(shown)
    BY <2>1 DEF PageOrder
  <2>2. CASE h \notin ToSet(shown)
    <3>1. h.cursor \in ids => \A s \in ToSet(shown) : s.by = h.by => Earlier(s, h)
      BY <1>1, <2>2 DEF PageOrder
    <3>2. now = Append(shown, h) /\ Once(shown) /\ SentInOrder(shown, ids)
      BY <2>2 DEF PageOrder
    <3> HIDE DEF h
    <3>3. QED
      BY <1>1, <2>2, <3>1, <3>2, ShowingKeepsOrder
  <2>3. QED
    BY <2>1, <2>2
<1>5. \A x \in StepRecs : x.cursor \in Int
  BY FeedAssumption DEF StepRecs
<1> HIDE DEF h, t
<1>6. PageOrder(now, t, queue, ids)
  <2>1. \A s \in ToSet(now) : \A z \in ToSet(t) \cup ToSet(queue) :
           z \notin ToSet(now) /\ s.by = z.by /\ z.cursor \in ids => Earlier(s, z)
    <3> SUFFICES ASSUME NEW s \in ToSet(now), NEW z \in ToSet(t) \cup ToSet(queue),
                        z \notin ToSet(now), s.by = z.by, z.cursor \in ids
                 PROVE  Earlier(s, z)
      OBVIOUS
    <3>1. CASE s \in ToSet(shown)
      BY <1>1, <1>3, <3>1 DEF PageOrder
    <3>2. CASE s = h /\ z \in ToSet(t)
      BY <1>2, <3>2
    <3>3. CASE s = h /\ z \in ToSet(queue) /\ z \notin ToSet(t)
      BY <1>1, <1>3, <3>3 DEF PageOrder
    <3>4. QED
      BY <1>3, <3>1, <3>2, <3>3
  <2>2. \A x \in ToSet(t) : \A y \in ToSet(queue) :
           x.by = y.by /\ y \notin ToSet(t) \cup ToSet(now) => Earlier(x, y)
    BY <1>1, <1>3 DEF PageOrder
  <2>3. InOrder(queue, FALSE)
    BY DEF PageOrder
  <2>4. QED
    BY <1>2, <1>4, <2>1, <2>2, <2>3 DEF PageOrder
<1>7. NoneSkipped(now, t, queue, ids, steps)
  <2>1. \A s \in ToSet(now) : \A z \in steps :
           s.by = z.by /\ Earlier(z, s) /\ z.cursor \in ids =>
               z \in ToSet(now) \/ Rank(z, steps) \geq Page
    <3> SUFFICES ASSUME NEW s \in ToSet(now), NEW z \in steps, s.by = z.by, Earlier(z, s),
                        z.cursor \in ids, z \notin ToSet(now)
                 PROVE  Rank(z, steps) \geq Page
      OBVIOUS
    <3>1. CASE s \in ToSet(shown)
      BY <1>3, <3>1 DEF NoneSkipped
    <3>2. CASE s = h
      <4>1. z \in ToSet(t)
        BY <1>1, <1>3, <3>2 DEF NoneSkipped
      <4>2. Earlier(h, z) /\ Earlier(z, h)
        BY <1>2, <3>2, <4>1
      <4>3. FALSE
        BY <1>1, <1>5, <4>2 DEF Earlier
      <4>4. QED
        BY <4>3
    <3>3. QED
      BY <1>3, <3>1, <3>2
  <2>2. \A x \in ToSet(t) : \A z \in steps :
           x.by = z.by /\ Earlier(z, x) => z \in ToSet(now) \cup ToSet(t)
    BY <1>1, <1>3 DEF NoneSkipped
  <2>3. \A y \in ToSet(queue) : y.cursor \in ids
    BY DEF NoneSkipped
  <2>4. QED
    BY <2>1, <2>2, <2>3 DEF NoneSkipped
<1>8. QED
  BY <1>6, <1>7 DEF t

LEMMA QueueKeepsOrder ==
    ASSUME NEW shown \in Seq(StepRecs), NEW queue \in Seq(StepRecs),
           NEW ids, NEW steps, steps \subseteq StepRecs, queue # <<>>,
           PageOrder(shown, <<>>, queue, ids), NoneSkipped(shown, <<>>, queue, ids, steps),
           \A z \in steps : z.cursor \in ids /\ z \notin ToSet(shown) \cup ToSet(queue)
                              => Rank(z, steps) \geq Page,
           NEW now, now = IF Head(queue) \in ToSet(shown) THEN shown ELSE Append(shown, Head(queue))
    PROVE  /\ PageOrder(now, <<>>, Tail(queue), ids)
           /\ NoneSkipped(now, <<>>, Tail(queue), ids, steps)
<1> DEFINE h == Head(queue)
           t == Tail(queue)
<1>1. h \in StepRecs /\ t \in Seq(StepRecs) /\ ToSet(queue) = {h} \cup ToSet(t)
  BY SetOfSeq
<1>2. InOrder(t, FALSE) /\ \A y \in ToSet(t) : y.by = h.by => Earlier(h, y)
  BY OrderOfTail DEF PageOrder
<1>3. ToSet(now) = ToSet(shown) \cup {h}
  BY <1>1, SetOfSeq
<1>4. Once(now) /\ SentInOrder(now, ids)
  <2>1. CASE h \in ToSet(shown)
    BY <2>1 DEF PageOrder
  <2>2. CASE h \notin ToSet(shown)
    <3>1. h.cursor \in ids => \A s \in ToSet(shown) : s.by = h.by => Earlier(s, h)
      BY <1>1, <2>2 DEF PageOrder
    <3>2. now = Append(shown, h) /\ Once(shown) /\ SentInOrder(shown, ids)
      BY <2>2 DEF PageOrder
    <3> HIDE DEF h
    <3>3. QED
      BY <1>1, <2>2, <3>1, <3>2, ShowingKeepsOrder
  <2>3. QED
    BY <2>1, <2>2
<1>5. \A x \in StepRecs : x.cursor \in Int
  BY FeedAssumption DEF StepRecs
<1>6. ToSet(<<>>) = {} /\ InOrder(<<>>, TRUE)
  BY DEF ToSet, InOrder
<1> HIDE DEF h, t
<1>7. PageOrder(now, <<>>, t, ids)
  <2>1. \A s \in ToSet(now) : \A z \in ToSet(t) :
           z \notin ToSet(now) /\ s.by = z.by /\ z.cursor \in ids => Earlier(s, z)
    <3> SUFFICES ASSUME NEW s \in ToSet(now), NEW z \in ToSet(t),
                        z \notin ToSet(now), s.by = z.by, z.cursor \in ids
                 PROVE  Earlier(s, z)
      OBVIOUS
    <3>1. CASE s \in ToSet(shown)
      BY <1>1, <1>3, <3>1 DEF PageOrder
    <3>2. CASE s = h
      BY <1>2, <3>2
    <3>3. QED
      BY <1>3, <3>1, <3>2
  <2>2. QED
    BY <1>2, <1>4, <1>6, <2>1 DEF PageOrder
<1>8. NoneSkipped(now, <<>>, t, ids, steps)
  <2>1. \A s \in ToSet(now) : \A z \in steps :
           s.by = z.by /\ Earlier(z, s) /\ z.cursor \in ids =>
               z \in ToSet(now) \/ Rank(z, steps) \geq Page
    <3> SUFFICES ASSUME NEW s \in ToSet(now), NEW z \in steps, s.by = z.by, Earlier(z, s),
                        z.cursor \in ids, z \notin ToSet(now)
                 PROVE  Rank(z, steps) \geq Page
      OBVIOUS
    <3>1. CASE s \in ToSet(shown)
      BY <1>3, <3>1 DEF NoneSkipped
    <3>2. CASE s = h
      <4>1. z \notin ToSet(t)
        <5> SUFFICES ASSUME z \in ToSet(t) PROVE FALSE
          OBVIOUS
        <5>1. Earlier(h, z) /\ Earlier(z, h)
          BY <1>2, <3>2
        <5>2. QED
          BY <1>1, <1>5, <5>1 DEF Earlier
      <4>2. QED
        BY <1>1, <1>3, <4>1
    <3>3. QED
      BY <1>3, <3>1, <3>2
  <2>2. \A y \in ToSet(t) : y.cursor \in ids
    BY <1>1 DEF NoneSkipped
  <2>3. QED
    BY <1>6, <2>1, <2>2 DEF NoneSkipped
<1>9. QED
  BY <1>7, <1>8 DEF t

LEMMA AnnouncingKeepsOrder ==
    ASSUME NEW shown \in Seq(StepRecs), NEW left \in Seq(StepRecs), NEW queue \in Seq(StepRecs),
           NEW ids, NEW steps, steps \subseteq StepRecs, NEW new \in StepRecs, new.cursor \notin ids,
           PageOrder(shown, left, queue, ids), NoneSkipped(shown, left, queue, ids, steps),
           \A x \in ToSet(shown) \cup ToSet(left) \cup ToSet(queue) \cup steps :
              /\ x.by = new.by => x.cursor <= new.cursor
              /\ x.cursor = new.cursor => x = new
    PROVE  /\ PageOrder(shown, left, queue, ids \cup {new.cursor})
           /\ NoneSkipped(shown, left, queue, ids \cup {new.cursor}, steps)
           /\ PageOrder(shown, left, Append(queue, new), ids \cup {new.cursor})
           /\ NoneSkipped(shown, left, Append(queue, new), ids \cup {new.cursor}, steps)
<1> DEFINE A == ToSet(shown)
           B == ToSet(left)
           C == ToSet(queue)
           now == ids \cup {new.cursor}
           q == Append(queue, new)
<1>1. A \subseteq StepRecs /\ B \subseteq StepRecs /\ C \subseteq StepRecs
  BY SetOfSeq
<1>2. \A x \in StepRecs : x.cursor \in Int
  BY FeedAssumption DEF StepRecs
<1>3. \A x \in A \cup B \cup C \cup steps :
         /\ x \in StepRecs
         /\ x.by = new.by /\ x # new => Earlier(x, new)
         /\ x.cursor \in now <=> x.cursor \in ids \/ x = new
  BY <1>1, <1>2 DEF Earlier
<1>4. new \notin C /\ \A y \in C : y.cursor \in ids
  BY DEF NoneSkipped
<1>5. Once(shown) /\ InOrder(left, TRUE) /\ InOrder(queue, FALSE)
  BY DEF PageOrder
<1>6. SentInOrder(shown, now)
  <2> SUFFICES ASSUME NEW i \in DOMAIN shown, NEW j \in DOMAIN shown, i < j,
                      shown[i].by = shown[j].by, shown[j].cursor \in now
               PROVE  Earlier(shown[i], shown[j])
    BY DEF SentInOrder
  <2>1. shown[i] \in A /\ shown[j] \in A
    BY DEF ToSet
  <2>2. CASE shown[j].cursor \in ids
    BY <2>2 DEF PageOrder, SentInOrder
  <2>3. CASE shown[j] = new
    <3>1. shown[i] # new
      BY <1>5, <2>3 DEF Once
    <3>2. QED
      BY <1>3, <2>1, <2>3, <3>1
  <2>4. QED
    BY <1>3, <2>1, <2>2, <2>3
<1>7. \A s \in A : \A z \in B \cup C \cup {new} :
         z \notin A /\ s.by = z.by /\ z.cursor \in now => Earlier(s, z)
  <2> SUFFICES ASSUME NEW s \in A, NEW z \in B \cup C \cup {new},
                      z \notin A, s.by = z.by, z.cursor \in now
               PROVE  Earlier(s, z)
    OBVIOUS
  <2>1. CASE z = new
    BY <1>3, <2>1
  <2>2. CASE z # new /\ z \in B \cup C
    <3>1. z.cursor \in ids
      BY <1>3, <2>2
    <3>2. QED
      BY <2>2, <3>1 DEF PageOrder
  <2>3. QED
    BY <2>1, <2>2
<1>8. \A x \in B : \A y \in C \cup {new} : x.by = y.by /\ y \notin B \cup A => Earlier(x, y)
  <2> SUFFICES ASSUME NEW x \in B, NEW y \in C \cup {new}, x.by = y.by, y \notin B \cup A
               PROVE  Earlier(x, y)
    OBVIOUS
  <2>1. CASE y = new
    BY <1>3, <2>1
  <2>2. CASE y \in C
    BY <2>2 DEF PageOrder
  <2>3. QED
    BY <2>1, <2>2
<1>9. \A s \in A : \A z \in steps :
         s.by = z.by /\ Earlier(z, s) /\ z.cursor \in now => z \in A \/ Rank(z, steps) \geq Page
  <2> SUFFICES ASSUME NEW s \in A, NEW z \in steps, s.by = z.by, Earlier(z, s), z.cursor \in now
               PROVE  z \in A \/ Rank(z, steps) \geq Page
    OBVIOUS
  <2>1. CASE z = new
    <3>1. s.cursor <= new.cursor /\ new.cursor < s.cursor
      BY <2>1 DEF Earlier
    <3>2. QED
      BY <1>1, <1>2, <3>1
  <2>2. CASE z.cursor \in ids
    BY <2>2 DEF NoneSkipped
  <2>3. QED
    BY <1>3, <2>1, <2>2
<1>10. \A x \in B : \A z \in steps : x.by = z.by /\ Earlier(z, x) => z \in A \cup B
  BY DEF NoneSkipped
<1>11. q \in Seq(StepRecs) /\ ToSet(q) = C \cup {new}
  BY SetOfSeq
<1>12. InOrder(q, FALSE)
  <2> DEFINE n == Len(queue)
  <2>1. /\ n \in Nat /\ DOMAIN queue = 1..n /\ DOMAIN q = 1..(n + 1)
        /\ \A i \in 1..n : q[i] = queue[i]
        /\ q[n + 1] = new
    BY AppendProperties
  <2>2. \A i \in 1..n : queue[i] \in C
    BY <2>1 DEF ToSet
  <2> HIDE DEF n, q, C
  <2> SUFFICES ASSUME NEW i \in 1..(n + 1), NEW j \in 1..(n + 1), i < j, q[i].by = q[j].by
               PROVE  Earlier(q[i], q[j])
    BY <2>1 DEF InOrder
  <2>3. i \in 1..n /\ q[i] = queue[i]
    BY <2>1
  <2>4. CASE j \in 1..n
    BY <1>5, <2>1, <2>3, <2>4 DEF InOrder
  <2>5. CASE j = n + 1
    BY <1>3, <1>4, <2>1, <2>2, <2>3, <2>5
  <2>6. QED
    BY <2>1, <2>4, <2>5
<1>13. \A y \in C \cup {new} : y.cursor \in now
  BY <1>4
<1> HIDE DEF q, now, A, B, C
<1>14. PageOrder(shown, left, queue, now) /\ PageOrder(shown, left, q, now)
  BY <1>5, <1>6, <1>7, <1>8, <1>11, <1>12 DEF PageOrder, A, B, C
<1>15. NoneSkipped(shown, left, queue, now, steps) /\ NoneSkipped(shown, left, q, now, steps)
  BY <1>9, <1>10, <1>11, <1>13 DEF NoneSkipped, A, B, C
<1>16. QED
  BY <1>14, <1>15 DEF q, now

LEMMA CommittingKeepsOrder ==
    ASSUME NEW shown \in Seq(StepRecs), NEW left \in Seq(StepRecs), NEW queue \in Seq(StepRecs),
           NEW ids, NEW steps, NEW new \in StepRecs, new.cursor \notin ids,
           IsFiniteSet(steps \cup {new}), NoneSkipped(shown, left, queue, ids, steps),
           \A x \in ToSet(left) : x.by = new.by => x.cursor <= new.cursor
    PROVE  NoneSkipped(shown, left, queue, ids, steps \cup {new})
<1> DEFINE T == steps \cup {new}
<1>1. \A z \in steps : /\ Rank(z, steps) \in Nat /\ Rank(z, T) \in Nat
                       /\ Rank(z, steps) <= Rank(z, T)
  BY RankGrows
<1>2. Page \in Nat
  BY FeedAssumption
<1>3. ASSUME NEW s \in ToSet(shown), NEW z \in T, s.by = z.by, Earlier(z, s), z.cursor \in ids
      PROVE  z \in ToSet(shown) \/ Rank(z, T) \geq Page
  <2>1. z \in steps
    BY <1>3
  <2>2. z \in ToSet(shown) \/ Rank(z, steps) \geq Page
    BY <1>3, <2>1 DEF NoneSkipped
  <2>3. /\ Rank(z, steps) \in Nat /\ Rank(z, T) \in Nat
        /\ Rank(z, steps) <= Rank(z, T)
    BY <1>1, <2>1
  <2> HIDE DEF T
  <2>4. QED
    BY <1>2, <2>2, <2>3
<1>4. ASSUME NEW x \in ToSet(left), NEW z \in T, x.by = z.by, Earlier(z, x)
      PROVE  z \in ToSet(shown) \cup ToSet(left)
  <2>1. CASE z \in steps
    BY <1>4, <2>1 DEF NoneSkipped
  <2>2. CASE z = new
    <3>1. x \in StepRecs
      BY SetOfSeq
    <3>2. x.cursor \in Int /\ new.cursor \in Int
      BY <3>1, FeedAssumption DEF StepRecs
    <3>3. x.cursor <= new.cursor /\ new.cursor < x.cursor
      BY <1>4, <2>2 DEF Earlier
    <3>4. QED
      BY <3>2, <3>3
  <2>3. QED
    BY <2>1, <2>2
<1>5. QED
  BY <1>3, <1>4 DEF NoneSkipped

LEMMA ReadingKeepsOrder ==
    ASSUME NEW shown \in Seq(StepRecs), NEW left \in Seq(StepRecs), NEW queue \in Seq(StepRecs),
           NEW ids, NEW steps, Ids(steps), steps \subseteq StepRecs,
           PageOrder(shown, left, queue, ids), NoneSkipped(shown, left, queue, ids, steps),
           steps = {} \/ ToSet(queue) \subseteq steps,
           NEW list \in Seq(StepRecs), InOrder(list, TRUE), ToSet(list) \subseteq steps,
           \A s \in steps : Rank(s, steps) < Page <=> s \in ToSet(list)
    PROVE  PageOrder(shown, list, queue, ids) /\ NoneSkipped(shown, list, queue, ids, steps)
<1>1. \A s, t \in steps : Earlier(s, t) <=> Rank(s, steps) < Rank(t, steps)
  BY Ranks
<1>2. \A s \in steps : Rank(s, steps) \in Int
  BY RankGrows DEF Ids
<1>3. \A s, t \in StepRecs : s.by = t.by => s = t \/ Earlier(s, t) \/ Earlier(t, s)
  <2> TAKE s, t \in StepRecs
  <2>1. /\ s = [cursor |-> s.cursor, by |-> s.by] /\ t = [cursor |-> t.cursor, by |-> t.by]
        /\ s.cursor \in Int /\ t.cursor \in Int
    BY FeedAssumption DEF StepRecs
  <2>2. s.cursor = t.cursor \/ s.cursor < t.cursor \/ t.cursor < s.cursor
    BY <2>1
  <2>3. s.by = t.by /\ s.cursor = t.cursor => s = t
    BY <2>1
  <2>4. QED
    BY <2>2, <2>3 DEF Earlier
<1>4. Page \in Int
  BY FeedAssumption
<1>5. \A x \in ToSet(list) : \A z \in steps : Earlier(z, x) => z \in ToSet(list)
  <2> SUFFICES ASSUME NEW x \in ToSet(list), NEW z \in steps, Earlier(z, x)
               PROVE  z \in ToSet(list)
    OBVIOUS
  <2>1. x \in steps /\ Rank(x, steps) < Page /\ Rank(z, steps) < Rank(x, steps)
    BY <1>1
  <2>2. QED
    BY <1>2, <1>4, <2>1
<1>6. \A z \in ToSet(list) : ~(Rank(z, steps) \geq Page)
  BY <1>2, <1>4
<1>7. ToSet(shown) \subseteq StepRecs /\ ToSet(queue) \subseteq StepRecs /\ ToSet(list) \subseteq StepRecs
  BY SetOfSeq
<1>8. \A s \in ToSet(shown) : \A z \in ToSet(list) \cup ToSet(queue) :
         z \notin ToSet(shown) /\ s.by = z.by /\ z.cursor \in ids => Earlier(s, z)
  <2> SUFFICES ASSUME NEW s \in ToSet(shown), NEW z \in ToSet(list) \cup ToSet(queue),
                      z \notin ToSet(shown), s.by = z.by, z.cursor \in ids
               PROVE  Earlier(s, z)
    OBVIOUS
  <2>1. CASE z \in ToSet(queue)
    BY <2>1 DEF PageOrder
  <2>2. CASE z \in ToSet(list)
    <3>1. s # z /\ s \in StepRecs /\ z \in StepRecs
      BY <1>7
    <3>2. ~Earlier(z, s)
      BY <1>6, <2>2 DEF NoneSkipped
    <3>3. QED
      BY <1>3, <3>1, <3>2
  <2>3. QED
    BY <2>1, <2>2
<1>9. \A x \in ToSet(list) : \A y \in ToSet(queue) :
         x.by = y.by /\ y \notin ToSet(list) \cup ToSet(shown) => Earlier(x, y)
  <2> SUFFICES ASSUME NEW x \in ToSet(list), NEW y \in ToSet(queue), x.by = y.by, y \notin ToSet(list)
               PROVE  Earlier(x, y)
    OBVIOUS
  <2>1. y \in steps /\ x \in StepRecs /\ y \in StepRecs /\ x # y
    BY <1>7
  <2>2. ~Earlier(y, x)
    BY <1>5, <2>1
  <2>3. QED
    BY <1>3, <2>1, <2>2
<1>10. PageOrder(shown, list, queue, ids)
  BY <1>8, <1>9 DEF PageOrder
<1>11. NoneSkipped(shown, list, queue, ids, steps)
  BY <1>5 DEF NoneSkipped
<1>12. QED
  BY <1>10, <1>11

-----------------------------------------------------------------------------
(* Every page is in sequence in every state.                               *)
InSequence(w) ==
    /\ PageOrder(page[w].shown, page[w].left, page[w].queue, sent)
    /\ NoneSkipped(page[w].shown, page[w].left, page[w].queue, sent, ToSet(log))
    /\ run = "deleted" \/ ToSet(page[w].queue) \subseteq ToSet(log)

OrderInv == PlacedInv /\ \A w \in Watchers : InSequence(w)

LEMMA OrderFacts ==
    ASSUME OrderInv
    PROVE  /\ PlacedInv /\ WatchInv /\ Known /\ ToSet(log) \subseteq StepRecs
           /\ run = "deleted" => ToSet(log) = {}
           /\ page \in [Watchers -> PageRecs]
           /\ \A w \in Watchers : /\ page[w] \in PageRecs
                                  /\ page[w].shown \in Seq(StepRecs) /\ page[w].left \in Seq(StepRecs)
                                  /\ page[w].queue \in Seq(StepRecs)
<1>1. PlacedInv /\ WatchInv /\ Known
  BY DEF OrderInv, PlacedInv, WatchInv
<1>2. ToSet(log) \subseteq StepRecs
  BY <1>1, LogIds DEF Known
<1>3. run = "deleted" => ToSet(log) = {}
  BY <1>1 DEF Known, Numbered, ToSet
<1>4. page \in [Watchers -> PageRecs]
  BY <1>1 DEF Known, Typed, PageRecs
<1>5. QED
  BY <1>1, <1>2, <1>3, <1>4 DEF PageRecs

LEMMA CommitKeepsSequence ==
    ASSUME OrderInv, NEW r \in Readings, CommitStep(r), NEW w \in Watchers
    PROVE  InSequence(w)'
<1> DEFINE new == StepOf(sink[r].step, r)
           shown == page[w].shown
           left == page[w].left
           queue == page[w].queue
           R == ToSet(log)
<1>1. /\ shown \in Seq(StepRecs) /\ left \in Seq(StepRecs) /\ queue \in Seq(StepRecs)
      /\ PlacedInv /\ WatchInv /\ Known
  BY OrderFacts
<1>2. sink[r].at = "writing" /\ UNCHANGED <<sent, page, run>>
  BY DEF CommitStep
<1>3. /\ new \in StepRecs /\ new.cursor = sink[r].step /\ ToSet(log') = R \cup {new}
      /\ IsFiniteSet(ToSet(log'))
  BY <1>1, LogGrows
<1>4. new.cursor \notin sent /\ new.by = r
  BY <1>1, <1>2, <1>3, NewIsPlaced DEF Known, Numbered
<1>5. \A x \in ToSet(left) : x.by = new.by => x.cursor <= new.cursor
  <2>1. \A x \in ToSet(left) : Placed(x)
    BY <1>1 DEF PlacedInv, OnItsWay
  <2>2. QED
    BY <1>2, <1>3, <1>4, <2>1 DEF Placed
<1>6. /\ PageOrder(shown, left, queue, sent) /\ NoneSkipped(shown, left, queue, sent, R)
      /\ run = "deleted" \/ ToSet(queue) \subseteq R
  BY DEF OrderInv, InSequence
<1>7. ToSet(log)' = R \cup {new} /\ ToSet(queue)' = ToSet(queue)
  BY <1>2, <1>3 DEF ToSet
<1>8. shown' = shown /\ left' = left /\ queue' = queue /\ sent' = sent
  BY <1>2
<1> HIDE DEF new, shown, left, queue, R
<1>9. NoneSkipped(shown, left, queue, sent, R \cup {new})
  BY <1>1, <1>3, <1>4, <1>5, <1>6, CommittingKeepsOrder
<1>10. /\ InSequence(w)' <=> /\ PageOrder(shown', left', queue', sent')
                             /\ NoneSkipped(shown', left', queue', sent', ToSet(log)')
                             /\ run' = "deleted" \/ ToSet(queue)' \subseteq ToSet(log)'
  BY DEF InSequence, shown, left, queue, PageOrder, NoneSkipped, Once, SentInOrder, InOrder,
         Rank, Earlier, ToSet
<1>11. QED
  BY <1>2, <1>6, <1>7, <1>8, <1>9, <1>10

LEMMA SequenceNow ==
    ASSUME NEW w \in Watchers, NEW shown, NEW left, NEW queue, NEW ids, NEW steps,
           page'[w].shown = shown, page'[w].left = left, page'[w].queue = queue,
           sent' = ids, ToSet(log') = steps,
           PageOrder(shown, left, queue, ids), NoneSkipped(shown, left, queue, ids, steps),
           run' = "deleted" \/ ToSet(queue) \subseteq steps
    PROVE  InSequence(w)'
<1>1. ToSet(log)' = steps
  BY DEF ToSet
<1>2. PageOrder(page[w].shown, page[w].left, page[w].queue, sent)'
  BY DEF PageOrder, Once, SentInOrder, InOrder, Earlier, ToSet
<1>3. NoneSkipped(page[w].shown, page[w].left, page[w].queue, sent, ToSet(log))'
  BY <1>1 DEF NoneSkipped, Rank, Earlier, ToSet
<1>4. (run = "deleted" \/ ToSet(page[w].queue) \subseteq ToSet(log))'
  BY <1>1 DEF ToSet
<1>5. QED
  BY <1>2, <1>3, <1>4 DEF InSequence

LEMMA AnnounceKeepsSequence ==
    ASSUME OrderInv, NEW r \in Readings, Announce(r), NEW w \in Watchers
    PROVE  InSequence(w)'
<1> DEFINE new == StepOf(sink[r].step, r)
           shown == page[w].shown
           left == page[w].left
           queue == page[w].queue
           R == ToSet(log)
           ids == sent \cup {new.cursor}
<1>1. /\ shown \in Seq(StepRecs) /\ left \in Seq(StepRecs) /\ queue \in Seq(StepRecs)
      /\ PlacedInv /\ WatchInv /\ Known /\ R \subseteq StepRecs /\ page[w] \in PageRecs
      /\ run = "deleted" => R = {}
  BY OrderFacts
<1>2. /\ sink[r].at = "written" /\ UNCHANGED <<log, run>>
      /\ w \in Receivers => page'[w] = [page[w] EXCEPT !.queue = Append(@, new)]
      /\ w \notin Receivers => page'[w] = page[w]
  BY DEF Announce
<1>3. new \in StepRecs /\ new.cursor = sink[r].step /\ new.by = r
  BY <1>1, <1>2, NewIsPlaced
<1>4. sent' = ids
  BY <1>3 DEF Announce
<1>5. new.cursor \notin sent /\ (run = "deleted" \/ new \in R)
  BY <1>2, <1>3, <1>1 DEF Known, Numbered
<1>6. \A x \in ToSet(shown) \cup ToSet(left) \cup ToSet(queue) \cup R :
         /\ x.by = new.by => x.cursor <= new.cursor
         /\ x.cursor = new.cursor => x = new
  <2> TAKE x \in ToSet(shown) \cup ToSet(left) \cup ToSet(queue) \cup R
  <2>1. Placed(x)
    BY <1>1 DEF PlacedInv, OnItsWay
  <2>2. /\ x.by = r => x.cursor <= sink[r].step
        /\ x.cursor = sink[r].step => x.by = r
    BY <1>2, <2>1 DEF Placed
  <2>3. x \in StepRecs
    BY <1>1, SetOfSeq
  <2>4. x = [cursor |-> x.cursor, by |-> x.by] /\ new = [cursor |-> new.cursor, by |-> new.by]
    BY <1>3, <2>3 DEF StepRecs
  <2>5. QED
    BY <1>3, <2>2, <2>4
<1>7. /\ PageOrder(shown, left, queue, sent) /\ NoneSkipped(shown, left, queue, sent, R)
      /\ run = "deleted" \/ ToSet(queue) \subseteq R
  BY DEF OrderInv, InSequence
<1>8. ToSet(log') = R
  BY <1>2
<1> HIDE DEF new, R
<1>9. /\ PageOrder(shown, left, queue, ids) /\ NoneSkipped(shown, left, queue, ids, R)
      /\ PageOrder(shown, left, Append(queue, new), ids)
      /\ NoneSkipped(shown, left, Append(queue, new), ids, R)
  BY <1>1, <1>3, <1>5, <1>6, <1>7, AnnouncingKeepsOrder
<1>10. CASE w \notin Receivers
  <2>1. page'[w].shown = shown /\ page'[w].left = left /\ page'[w].queue = queue
    BY <1>2, <1>10
  <2>2. QED
    BY <1>2, <1>4, <1>7, <1>8, <1>9, <2>1, SequenceNow
<1>11. CASE w \in Receivers
  <2>1. page'[w].shown = shown /\ page'[w].left = left /\ page'[w].queue = Append(queue, new)
    BY <1>1, <1>2, <1>11 DEF PageRecs
  <2>2. ToSet(Append(queue, new)) = ToSet(queue) \cup {new}
    BY <1>1, <1>3, SetOfSeq
  <2>3. run' = "deleted" \/ ToSet(Append(queue, new)) \subseteq R
    BY <1>2, <1>5, <1>7, <2>2
  <2>4. QED
    BY <1>4, <1>8, <1>9, <2>1, <2>3, SequenceNow
<1>12. QED
  BY <1>10, <1>11

LEMMA EmptiesAreInSequence ==
    ASSUME OrderInv, NEW w \in Watchers
    PROVE  /\ PageOrder(page[w].shown, <<>>, <<>>, sent)
           /\ NoneSkipped(page[w].shown, <<>>, <<>>, sent, ToSet(log))
           /\ ToSet(<<>>) = {}
<1>1. ToSet(<<>>) = {} /\ InOrder(<<>>, TRUE) /\ InOrder(<<>>, FALSE)
  BY DEF ToSet, InOrder
<1>2. /\ PageOrder(page[w].shown, page[w].left, page[w].queue, sent)
      /\ NoneSkipped(page[w].shown, page[w].left, page[w].queue, sent, ToSet(log))
  BY DEF OrderInv, InSequence
<1>3. QED
  BY <1>1, <1>2 DEF PageOrder, NoneSkipped

LEMMA StreamKeepsSequence ==
    ASSUME OrderInv, NEW v \in Watchers, Stream(v), NEW w \in Watchers
    PROVE  InSequence(w)'
<1> DEFINE shown == page[w].shown
           left == page[w].left
           queue == page[w].queue
           R == ToSet(log)
<1>1. /\ shown \in Seq(StepRecs) /\ left \in Seq(StepRecs) /\ queue \in Seq(StepRecs)
      /\ PlacedInv /\ WatchInv /\ Known /\ R \subseteq StepRecs /\ page \in [Watchers -> PageRecs]
      /\ run = "deleted" => R = {}
  BY OrderFacts
<1>2. /\ UNCHANGED <<log, sent, run>>
      /\ w # v => page'[w] = page[w]
  BY <1>1, StreamStep
<1>3. sent' = sent /\ ToSet(log') = R
  BY <1>2
<1>4. /\ PageOrder(shown, left, queue, sent) /\ NoneSkipped(shown, left, queue, sent, R)
      /\ run = "deleted" \/ ToSet(queue) \subseteq R
  BY DEF OrderInv, InSequence
<1>5. CASE w # v
  <2>1. page'[w].shown = shown /\ page'[w].left = left /\ page'[w].queue = queue
    BY <1>2, <1>5
  <2>2. QED
    BY <1>2, <1>3, <1>4, <2>1, SequenceNow
<1>6. CASE w = v
  <2>1. CASE Subscribe(v) \/ Close(v)
    <3>1. page'[w].shown = shown /\ page'[w].left = <<>> /\ page'[w].queue = <<>>
      BY <1>1, <1>6, <2>1 DEF Subscribe, Close, PageRecs
    <3>2. PageOrder(shown, <<>>, <<>>, sent) /\ NoneSkipped(shown, <<>>, <<>>, sent, R)
          /\ ToSet(<<>>) \subseteq R
      BY EmptiesAreInSequence
    <3>3. QED
      BY <1>3, <3>1, <3>2, SequenceNow
  <2>2. CASE ReadHistory(v)
    <3> DEFINE list == ListAfter(0)
    <3>1. \A s \in R : s.cursor > 0
      BY <1>1, FeedAssumption DEF StepRecs
    <3>2. {t \in R : t.cursor > 0} = R
      BY <3>1
    <3>3. /\ list \in Seq(StepRecs) /\ InOrder(list, TRUE) /\ ToSet(list) \subseteq R
          /\ \A s \in R : Rank(s, R) < Page <=> s \in ToSet(list)
      BY <1>1, <3>2, NextSteps DEF Known
    <3>4. Ids(R)
      BY <1>1, LogIds DEF Known
    <3>5. \/ page' = [page EXCEPT ![w].at = "streaming", ![w].left = list]
          \/ page' = [page EXCEPT ![w].at = "closed"]
      BY <1>6, <2>2 DEF ReadHistory
    <3> HIDE DEF list, R
    <3>6. /\ page'[w].shown = shown /\ page'[w].queue = queue
          /\ page'[w].left = list \/ page'[w].left = left
      BY <1>1, <3>5 DEF PageRecs
    <3>7. PageOrder(shown, list, queue, sent) /\ NoneSkipped(shown, list, queue, sent, R)
      <4>1. R = {} \/ ToSet(queue) \subseteq R
        BY <1>1, <1>4
      <4>2. QED
        BY <1>1, <1>4, <3>3, <3>4, <4>1, ReadingKeepsOrder
    <3>8. CASE page'[w].left = list
      BY <1>2, <1>3, <1>4, <3>6, <3>7, <3>8, SequenceNow
    <3>9. CASE page'[w].left = left
      BY <1>2, <1>3, <1>4, <3>6, <3>9, SequenceNow
    <3>10. QED
      BY <3>6, <3>8, <3>9
  <2>3. CASE Send(v) /\ left # <<>>
    <3> DEFINE now == Shown(w, Head(left))
               rest == Tail(left)
    <3>1. page' = [page EXCEPT ![w].left = rest, ![w].shown = now]
      BY <1>6, <2>3 DEF Send
    <3>2. now = IF Head(left) \in ToSet(shown) THEN shown ELSE Append(shown, Head(left))
      BY DEF Shown
    <3>3. PageOrder(now, Tail(left), queue, sent) /\ NoneSkipped(now, Tail(left), queue, sent, R)
      <4> HIDE DEF now, R
      <4>1. QED
        BY <1>1, <1>4, <2>3, <3>2, HistoryKeepsOrder
    <3> HIDE DEF now, rest, R
    <3>4. page'[w].shown = now /\ page'[w].left = rest /\ page'[w].queue = queue
      BY <1>1, <3>1 DEF PageRecs
    <3>5. PageOrder(now, rest, queue, sent) /\ NoneSkipped(now, rest, queue, sent, R)
      BY <3>3 DEF rest
    <3>6. QED
      BY <1>2, <1>3, <1>4, <3>4, <3>5, SequenceNow
  <2>4. CASE Send(v) /\ left = <<>>
    <3> DEFINE now == Shown(w, Head(queue))
               rest == Tail(queue)
    <3>1. page' = [page EXCEPT ![w].queue = rest, ![w].shown = now] /\ queue # <<>>
          /\ page[w].at = "streaming"
      BY <1>6, <2>4 DEF Send
    <3>2. now = IF Head(queue) \in ToSet(shown) THEN shown ELSE Append(shown, Head(queue))
      BY DEF Shown
    <3>3. \A z \in R : z.cursor \in sent /\ z \notin ToSet(shown) \cup ToSet(queue)
                          => Rank(z, R) \geq Page
      <4>1. ToSet(left) = {}
        BY <2>4 DEF ToSet
      <4>2. OnItsWay(w) = ToSet(shown) \cup ToSet(queue)
        BY <4>1 DEF OnItsWay
      <4>3. QED
        BY <1>1, <3>1, <4>2 DEF WatchInv, Awaited
    <3>4. PageOrder(now, <<>>, Tail(queue), sent) /\ NoneSkipped(now, <<>>, Tail(queue), sent, R)
      <4>1. PageOrder(shown, <<>>, queue, sent) /\ NoneSkipped(shown, <<>>, queue, sent, R)
        BY <1>4, <2>4
      <4> HIDE DEF now, R
      <4>2. QED
        BY <1>1, <3>1, <3>2, <3>3, <4>1, QueueKeepsOrder
    <3>5. run = "deleted" \/ ToSet(rest) \subseteq R
      BY <1>1, <1>4, <3>1, SetOfSeq
    <3> HIDE DEF now, rest, R
    <3>6. page'[w].shown = now /\ page'[w].left = <<>> /\ page'[w].queue = rest
      BY <1>1, <2>4, <3>1 DEF PageRecs
    <3>7. PageOrder(now, <<>>, rest, sent) /\ NoneSkipped(now, <<>>, rest, sent, R)
      BY <3>4 DEF rest
    <3>8. QED
      BY <1>2, <1>3, <3>5, <3>6, <3>7, SequenceNow
  <2>5. QED
    BY <1>6, <2>1, <2>2, <2>3, <2>4 DEF Stream
<1>7. QED
  BY <1>5, <1>6

LEMMA StepsKeepOrder == OrderInv /\ [Next]_vars => OrderInv'
<1> SUFFICES ASSUME OrderInv, [Next]_vars PROVE OrderInv'
  OBVIOUS
<1>1. PlacedInv'
  BY StepsKeepPlaced DEF OrderInv
<1>2. ASSUME NEW w \in Watchers PROVE InSequence(w)'
  <2>0. /\ PageOrder(page[w].shown, page[w].left, page[w].queue, sent)
        /\ NoneSkipped(page[w].shown, page[w].left, page[w].queue, sent, ToSet(log))
        /\ run = "deleted" \/ ToSet(page[w].queue) \subseteq ToSet(log)
    BY DEF OrderInv, InSequence
  <2>1. ASSUME UNCHANGED <<log, sent, page>>, run' = "deleted" <=> run = "deleted"
        PROVE  InSequence(w)'
    BY <2>0, <2>1, SequenceNow
  <2>2. ASSUME NEW r \in Readings, Record(r) PROVE InSequence(w)'
    <3>1. CASE CommitStep(r)
      BY <3>1, CommitKeepsSequence
    <3>2. CASE Announce(r)
      BY <3>2, AnnounceKeepsSequence
    <3>3. CASE Insert(r) \/ NotSaved(r) \/ NotAnnounced(r)
      BY <2>1, <3>3 DEF Insert, NotSaved, NotAnnounced
    <3>4. QED
      BY <2>2, <3>1, <3>2, <3>3 DEF Record
  <2>3. CASE EndRun \/ ReturnRun
    BY <2>1, <2>3 DEF EndRun, ReturnRun
  <2>4. CASE DeleteRun
    <3>1. log' = <<>> /\ run' = "deleted" /\ UNCHANGED <<sent, page>>
      BY <2>4 DEF DeleteRun
    <3>2. ToSet(log') = {}
      BY <3>1 DEF ToSet
    <3>3. NoneSkipped(page[w].shown, page[w].left, page[w].queue, sent, {})
      BY <2>0 DEF NoneSkipped
    <3>4. QED
      BY <2>0, <3>1, <3>2, <3>3, SequenceNow
  <2>5. ASSUME NEW v \in Watchers, Stream(v) PROVE InSequence(w)'
    BY <2>5, StreamKeepsSequence
  <2>6. ASSUME NEW f \in Followers, Ask(f) PROVE InSequence(w)'
    <3>1. UNCHANGED <<log, sent, page, run>>
      BY <2>6, AskStep, OrderFacts
    <3>2. QED
      BY <2>1, <3>1
  <2>7. CASE UNCHANGED vars
    BY <2>1, <2>7 DEF vars
  <2>8. QED
    BY <2>2, <2>3, <2>4, <2>5, <2>6, <2>7 DEF Next
<1>3. QED
  BY <1>1, <1>2 DEF OrderInv

(* Whichever steps of a reading come from the record and whichever from    *)
(* the channel, however often the socket is opened again and whatever is   *)
(* deleted meanwhile: a page shows them in the order they were made.       *)
THEOREM PagesShowReadingsInOrder == Spec => []ReadingsAreShownInOrder
<1>1. Init => OrderInv
  <2> SUFFICES ASSUME Init PROVE OrderInv
    OBVIOUS
  <2>1. ToSet(log) = {} /\ ToSet(<<>>) = {}
    BY DEF Init, ToSet
  <2>2. \A w \in Watchers : page[w].shown = <<>> /\ page[w].left = <<>> /\ page[w].queue = <<>>
    BY DEF Init, Away
  <2>3. \A w \in Watchers : OnItsWay(w) = {} /\ Awaited(w)
    BY <2>1, <2>2 DEF OnItsWay, Awaited, Init, Away
  <2>4. PlacedInv
    BY <2>1, <2>3, InitIsKnown DEF PlacedInv, WatchInv
  <2>5. ASSUME NEW w \in Watchers PROVE InSequence(w)
    BY <2>1, <2>2 DEF InSequence, PageOrder, NoneSkipped, Once, SentInOrder, InOrder
  <2>6. QED
    BY <2>4, <2>5 DEF OrderInv
<1>2. OrderInv /\ [Next]_vars => OrderInv'
  BY StepsKeepOrder
<1>3. OrderInv => ReadingsAreShownInOrder
  BY DEF OrderInv, InSequence, PageOrder, SentInOrder, ReadingsAreShownInOrder
<1>4. QED
  BY <1>1, <1>2, <1>3, PTL DEF Spec
=============================================================================
