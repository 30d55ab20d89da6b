------------------------------ MODULE ChatProofs ------------------------------
(***************************************************************************)
(* Proofs about Chat, for any number of pages, conversations and           *)
(* questions, any models and every bound.                                  *)
(***************************************************************************)
EXTENDS Chat, TLAPS, WellFoundedInduction, SequenceTheorems

-----------------------------------------------------------------------------
(* Selections from sequences.                                              *)

LEMMA LeastIs ==
    ASSUME NEW S, S \subseteq Nat, S # {}
    PROVE  \E i \in S : \A j \in S : i <= j
<1>1. \E i \in S : \A j \in S : ~(<<j, i>> \in OpToRel(<, Nat))
  BY NatLessThanWellFounded, WFMin
<1>2. ASSUME NEW i \in Nat, NEW j \in Nat, j < i
      PROVE  <<j, i>> \in OpToRel(<, Nat)
  BY <1>2, Zenon DEF OpToRel
<1>3. \E i \in S : \A j \in S : ~(j < i)
  <2> HIDE DEF OpToRel
  <2>1. QED
    BY <1>1, <1>2
<1>4. QED
  BY <1>3

(* Induction up to a bound, with a set in the place of the predicate.      *)
LEMMA UpTo ==
    ASSUME NEW n \in Nat, NEW S, 0 \in S, \A i \in 0..(n - 1) : i \in S => i + 1 \in S
    PROVE  \A i \in 0..n : i \in S
<1> DEFINE missing == {i \in 0..n : i \notin S}
<1>1. SUFFICES ASSUME missing # {} PROVE FALSE
  OBVIOUS
<1>2. PICK i \in missing : \A j \in missing : i <= j
  <2>1. missing \subseteq Nat
    OBVIOUS
  <2> HIDE DEF missing
  <2>2. QED
    BY <1>1, <2>1, LeastIs
<1>3. i # 0 /\ i - 1 \in 0..(n - 1) /\ i - 1 \notin missing
  BY <1>2
<1>4. i - 1 \in S
  BY <1>3
<1>5. QED
  BY <1>2, <1>3, <1>4

(* The function that Only reads its value from.                            *)
Keeps(f, s, S) ==
    /\ f = [i \in 0..Len(s) |-> f[i]]
    /\ f[0] = <<>>
    /\ \A i \in 1..Len(s) : f[i] = IF s[i] \in S THEN Append(f[i - 1], s[i]) ELSE f[i - 1]

LEMMA OnlyIs ==
    ASSUME NEW A, NEW s \in Seq(A), NEW S
    PROVE  \E f : Keeps(f, s, S) /\ Only(s, S) = f[Len(s)]
<1> DEFINE n == Len(s)
           part(f, k) == f = [i \in 0..k |-> IF i = 0 THEN <<>>
                                             ELSE IF s[i] \in S THEN Append(f[i - 1], s[i])
                                             ELSE f[i - 1]]
           done == {k \in 0..n : \E f : part(f, k)}
<1>1. n \in Nat
  OBVIOUS
<1>2. 0 \in done
  <2> DEFINE f == [i \in 0..0 |-> <<>>]
  <2>1. part(f, 0)
    OBVIOUS
  <2> HIDE DEF f, part
  <2>2. QED
    BY <1>1, <2>1
<1>3. ASSUME NEW k \in 0..(n - 1), k \in done
      PROVE  k + 1 \in done
  <2>1. PICK f : part(f, k)
    BY <1>3
  <2> DEFINE last == IF s[k + 1] \in S THEN Append(f[k], s[k + 1]) ELSE f[k]
             g == [i \in 0..(k + 1) |-> IF i = k + 1 THEN last ELSE f[i]]
  <2>2. /\ DOMAIN f = 0..k
        /\ \A i \in 0..k : f[i] = IF i = 0 THEN <<>>
                                  ELSE IF s[i] \in S THEN Append(f[i - 1], s[i]) ELSE f[i - 1]
    BY <2>1
  <2>3. ASSUME NEW i \in 0..(k + 1)
        PROVE  g[i] = IF i = 0 THEN <<>>
                      ELSE IF s[i] \in S THEN Append(g[i - 1], s[i]) ELSE g[i - 1]
    <3>1. CASE i = k + 1
      <4>1. g[i] = last /\ g[i - 1] = f[k] /\ i # 0 /\ i - 1 = k
        BY <1>1, <3>1
      <4>2. QED
        BY <3>1, <4>1
    <3>2. CASE i \in 1..k
      <4>1. g[i] = f[i] /\ g[i - 1] = f[i - 1]
        BY <1>1, <3>2
      <4> HIDE DEF g
      <4>2. QED
        BY <2>2, <3>2, <4>1
    <3>3. CASE i = 0
      <4>1. g[i] = f[0] /\ 0 \in 0..k
        BY <1>1, <3>3
      <4> HIDE DEF g
      <4>2. QED
        BY <2>2, <3>3, <4>1
    <3>4. QED
      BY <1>1, <3>1, <3>2, <3>3
  <2>4. g = [i \in 0..(k + 1) |-> g[i]]
    OBVIOUS
  <2> HIDE DEF g
  <2>5. part(g, k + 1)
    BY <2>3, <2>4
  <2> HIDE DEF part, last
  <2>6. QED
    BY <1>1, <2>5
<1>4. n \in done
  <2> HIDE DEF done, n, part
  <2>1. \A k \in 0..(n - 1) : k \in done => k + 1 \in done
    BY <1>3
  <2>2. \A k \in 0..n : k \in done
    BY <1>1, <1>2, <2>1, UpTo
  <2>3. QED
    BY <1>1, <2>2
<1> DEFINE only == CHOOSE f : part(f, n)
<1>5. part(only, n)
  BY <1>4
<1>6. Only(s, S) = only[n]
  BY DEF Only
<1> HIDE DEF only
<1>7. Keeps(only, s, S)
  <2>1. \A i \in 0..n : only[i] = IF i = 0 THEN <<>>
                                  ELSE IF s[i] \in S THEN Append(only[i - 1], s[i]) ELSE only[i - 1]
    BY <1>5
  <2>2. DOMAIN only = 0..n /\ only = [i \in 0..n |-> only[i]]
    BY <1>5
  <2>3. QED
    BY <1>1, <2>1, <2>2 DEF Keeps
<1>8. QED
  BY <1>6, <1>7

(* What is kept of the first elements of a sequence.                       *)
KeptOf(k, s, i, S, A) ==
    k \in Seq(A) /\ \A x : x \in Among(k) <=> x \in S /\ \E j \in 1..i : x = s[j]

LEMMA KeepsElements ==
    ASSUME NEW A, NEW s \in Seq(A), NEW S, NEW f, Keeps(f, s, S)
    PROVE  \A i \in 0..Len(s) : KeptOf(f[i], s, i, S, A)
<1> DEFINE n == Len(s)
           good == {i \in 0..n : KeptOf(f[i], s, i, S, A)}
<1>1. n \in Nat /\ DOMAIN s = 1..n /\ \A i \in 1..n : s[i] \in A
  OBVIOUS
<1>2. 0 \in good
  <2>1. f[0] = <<>> /\ 0 \in 0..n
    BY <1>1 DEF Keeps
  <2>2. KeptOf(<<>>, s, 0, S, A)
    BY DEF KeptOf, Among
  <2> HIDE DEF n
  <2>3. QED
    BY <2>1, <2>2
<1>3. ASSUME NEW i \in 0..(n - 1), i \in good
      PROVE  i + 1 \in good
  <2>1. i + 1 \in 1..n /\ (i + 1) - 1 = i
    BY <1>1
  <2>2. f[i + 1] = IF s[i + 1] \in S THEN Append(f[i], s[i + 1]) ELSE f[i]
    BY <2>1 DEF Keeps
  <2>3. KeptOf(f[i], s, i, S, A) /\ s[i + 1] \in A
    BY <1>1, <1>3, <2>1
  <2>4. \A x : (\E j \in 1..(i + 1) : x = s[j]) <=> x = s[i + 1] \/ \E j \in 1..i : x = s[j]
    BY <1>1
  <2>5. \A q \in Seq(A), x \in A : Append(q, x) \in Seq(A) /\ Among(Append(q, x)) = Among(q) \cup {x}
    <3>1. TAKE q \in Seq(A), x \in A
    <3>2. /\ DOMAIN Append(q, x) = DOMAIN q \cup {Len(q) + 1}
          /\ \A j \in DOMAIN q : Append(q, x)[j] = q[j]
          /\ Append(q, x)[Len(q) + 1] = x
      OBVIOUS
    <3>3. QED
      BY <3>2 DEF Among
  <2>6. KeptOf(f[i + 1], s, i + 1, S, A)
    BY <2>2, <2>3, <2>4, <2>5 DEF KeptOf
  <2>7. QED
    BY <1>1, <2>6
<1>4. \A i \in 0..n : i \in good
  <2> HIDE DEF good, n
  <2>1. QED
    BY <1>1, <1>2, <1>3, UpTo
<1>5. QED
  BY <1>4

LEMMA OnlyKeeps ==
    ASSUME NEW A, NEW s \in Seq(A), NEW S
    PROVE  Only(s, S) \in Seq(A) /\ Among(Only(s, S)) = Among(s) \cap S
<1>1. PICK f : Keeps(f, s, S) /\ Only(s, S) = f[Len(s)]
  BY OnlyIs
<1>2. Len(s) \in 0..Len(s) /\ DOMAIN s = 1..Len(s)
  OBVIOUS
<1>3. KeptOf(Only(s, S), s, Len(s), S, A)
  BY <1>1, <1>2, KeepsElements
<1>4. \A x : x \in Among(s) <=> \E j \in 1..Len(s) : x = s[j]
  BY <1>2 DEF Among
<1>5. QED
  BY <1>3, <1>4 DEF KeptOf

JoinsLast(p, q, x) == Append(p \o q, x) = p \o Append(q, x)

LEMMA AppendJoins ==
    ASSUME NEW A, NEW p \in Seq(A), NEW q \in Seq(A), NEW x \in A
    PROVE  JoinsLast(p, q, x)
  BY SMT DEF JoinsLast

LEMMA OnlyJoins ==
    ASSUME NEW A, NEW s \in Seq(A), NEW t \in Seq(A), NEW S
    PROVE  Only(s \o t, S) = Only(s, S) \o Only(t, S)
<1> DEFINE m == Len(s)
           n == Len(t)
           u == s \o t
<1>1. /\ m \in Nat /\ n \in Nat /\ u \in Seq(A) /\ Len(u) = m + n
      /\ \A i \in 1..m : u[i] = s[i]
      /\ \A i \in 1..n : u[m + i] = t[i] /\ t[i] \in A
  OBVIOUS
<1>2. PICK f : Keeps(f, s, S) /\ Only(s, S) = f[m]
  BY OnlyIs
<1>3. PICK g : Keeps(g, t, S) /\ Only(t, S) = g[n]
  BY OnlyIs
<1>4. PICK h : Keeps(h, u, S) /\ Only(u, S) = h[m + n]
  BY <1>1, OnlyIs
<1> HIDE DEF u
<1> DEFINE first == {i \in 0..m : h[i] = f[i]}
<1>5. \A i \in 0..m : i \in first
  <2>1. 0 \in first
    BY <1>1, <1>2, <1>4 DEF Keeps
  <2>2. ASSUME NEW i \in 0..(m - 1), i \in first
        PROVE  i + 1 \in first
    <3>1. i + 1 \in 1..m /\ i + 1 \in 1..(m + n) /\ (i + 1) - 1 = i
      BY <1>1
    <3>2. /\ h[i + 1] = IF u[i + 1] \in S THEN Append(h[i], u[i + 1]) ELSE h[i]
          /\ f[i + 1] = IF s[i + 1] \in S THEN Append(f[i], s[i + 1]) ELSE f[i]
      BY <1>1, <1>2, <1>4, <3>1 DEF Keeps
    <3>3. u[i + 1] = s[i + 1] /\ h[i] = f[i]
      BY <1>1, <2>2, <3>1
    <3>4. QED
      BY <1>1, <3>1, <3>2, <3>3
  <2> HIDE DEF first, m
  <2>3. QED
    BY <1>1, <2>1, <2>2, UpTo
<1> DEFINE before == f[m]
<1>6. before \in Seq(A) /\ \A i \in 0..n : g[i] \in Seq(A)
  BY <1>1, <1>2, <1>3, KeepsElements DEF KeptOf
<1>7. h[m] = before
  BY <1>1, <1>5
<1> HIDE DEF before, first
<1> DEFINE joined == {i \in 0..n : h[m + i] = before \o g[i]}
<1>8. 0 \in joined
  <2>1. g[0] = <<>> /\ before \o <<>> = before /\ m + 0 = m /\ 0 \in 0..n
    BY <1>1, <1>3, <1>6 DEF Keeps
  <2> HIDE DEF m, n
  <2>2. QED
    BY <1>7, <2>1
<1>9. ASSUME NEW i \in 0..(n - 1), i \in joined
      PROVE  i + 1 \in joined
  <2> DEFINE k == m + (i + 1)
             x == t[i + 1]
  <2>1. /\ i + 1 \in 1..n /\ k \in 1..(m + n) /\ (i + 1) - 1 = i
        /\ k - 1 = m + i /\ i \in 0..n /\ i + 1 \in 0..n
    BY <1>1
  <2>2. u[k] = x /\ x \in A
    BY <1>1, <2>1
  <2>3. h[m + i] = before \o g[i] /\ g[i] \in Seq(A)
    BY <1>6, <1>9
  <2>4. g[i + 1] = IF x \in S THEN Append(g[i], x) ELSE g[i]
    BY <1>3, <2>1 DEF Keeps
  <2>5. h[k] = IF x \in S THEN Append(h[m + i], x) ELSE h[m + i]
    <3>1. h[k] = IF u[k] \in S THEN Append(h[k - 1], u[k]) ELSE h[k - 1]
      BY <1>1, <1>4, <2>1 DEF Keeps
    <3> HIDE DEF k, x
    <3>2. QED
      BY <2>1, <2>2, <3>1
  <2>6. PICK p \in Seq(A), q \in Seq(A), y \in A : p = before /\ q = g[i] /\ y = x
    BY <1>6, <2>2, <2>3
  <2>7. Append(p \o q, y) = p \o Append(q, y)
    <3>1. JoinsLast(p, q, y)
      BY AppendJoins
    <3>2. QED
      BY <3>1 DEF JoinsLast
  <2> HIDE DEF k, x
  <2>8. h[k] = p \o g[i + 1]
    <3>1. CASE y \in S
      <4>1. h[k] = Append(p \o q, y) /\ g[i + 1] = Append(q, y)
        BY <2>3, <2>4, <2>5, <2>6, <3>1
      <4>2. QED
        BY <2>7, <4>1
    <3>2. CASE y \notin S
      BY <2>3, <2>4, <2>5, <2>6, <3>2
    <3>3. QED
      BY <3>1, <3>2
  <2>9. QED
    BY <2>1, <2>6, <2>8 DEF k
<1>10. \A i \in 0..n : i \in joined
  <2> HIDE DEF joined, n
  <2>1. QED
    BY <1>1, <1>8, <1>9, UpTo
<1>11. h[m + n] = before \o g[n]
  BY <1>1, <1>10
<1>12. QED
  BY <1>2, <1>3, <1>4, <1>11 DEF u, before

LEMMA OnlyNone ==
    ASSUME NEW A, NEW s \in Seq(A), NEW S, \A i \in 1..Len(s) : s[i] \notin S
    PROVE  Only(s, S) = <<>>
<1>1. Only(s, S) \in Seq(A) /\ Among(Only(s, S)) = {}
  BY OnlyKeeps DEF Among
<1>2. DOMAIN Only(s, S) = {}
  BY <1>1 DEF Among
<1>3. QED
  BY <1>1, <1>2

LEMMA OnlyAll ==
    ASSUME NEW A, NEW s \in Seq(A), NEW S, \A i \in 1..Len(s) : s[i] \in S
    PROVE  Only(s, S) = s
<1> DEFINE n == Len(s)
<1>1. PICK f : Keeps(f, s, S) /\ Only(s, S) = f[n]
  BY OnlyIs
<1> DEFINE good == {i \in 0..n : Len(f[i]) = i /\ \A j \in 1..i : f[i][j] = s[j]}
<1>2. n \in Nat /\ \A i \in 0..n : f[i] \in Seq(A)
  BY <1>1, KeepsElements DEF KeptOf
<1>3. 0 \in good
  BY <1>1, <1>2 DEF Keeps
<1>4. ASSUME NEW i \in 0..(n - 1), i \in good
      PROVE  i + 1 \in good
  <2>1. i + 1 \in 1..n /\ (i + 1) - 1 = i /\ i \in 0..n
    BY <1>2
  <2>2. f[i + 1] = Append(f[i], s[i + 1]) /\ f[i] \in Seq(A)
    BY <1>1, <1>2, <2>1 DEF Keeps
  <2>3. Len(f[i]) = i /\ \A j \in 1..i : f[i][j] = s[j]
    BY <1>4
  <2>4. Len(f[i + 1]) = i + 1 /\ \A j \in 1..(i + 1) : f[i + 1][j] = s[j]
    BY <2>1, <2>2, <2>3
  <2>5. QED
    BY <1>2, <2>4
<1>5. \A i \in 0..n : i \in good
  <2> HIDE DEF good, n
  <2>1. QED
    BY <1>2, <1>3, <1>4, UpTo
<1>6. n \in good
  BY <1>2, <1>5
<1>7. f[n] \in Seq(A) /\ Len(f[n]) = n /\ \A j \in 1..n : f[n][j] = s[j]
  BY <1>2, <1>6
<1>8. QED
  BY <1>1, <1>7
-----------------------------------------------------------------------------
(* What was said on one question, as a selection of what was said.         *)
SaidOn(q) == {m \in ChatMessage : m.of = q}
KindsOf(messages) == [i \in DOMAIN messages |-> messages[i].kind]

LEMMA AboutIs ==
    ASSUME NEW row, NEW q
    PROVE  About(row, q) = KindsOf(Only(row.messages, SaidOn(q)))
  BY DEF About, KindsOf, SaidOn

LEMMA KindsJoin ==
    ASSUME NEW s \in Seq(ChatMessage), NEW t \in Seq(ChatMessage)
    PROVE  /\ KindsOf(s) \in Seq(DOMAIN Roles)
           /\ KindsOf(s \o t) = KindsOf(s) \o KindsOf(t)
<1>1. ASSUME NEW u \in Seq(ChatMessage)
      PROVE  /\ KindsOf(u) \in Seq(DOMAIN Roles) /\ Len(KindsOf(u)) = Len(u) /\ Len(u) \in Nat
             /\ \A i \in 1..Len(u) : KindsOf(u)[i] = u[i].kind
  <2>1. /\ KindsOf(u) = [i \in 1..Len(u) |-> u[i].kind] /\ Len(u) \in Nat
        /\ \A i \in 1..Len(u) : u[i] \in ChatMessage
    BY DEF KindsOf
  <2>2. \A i \in 1..Len(u) : u[i].kind \in DOMAIN Roles
    BY <2>1 DEF ChatMessage
  <2>3. QED
    BY <2>1, <2>2
<1>2. s \o t \in Seq(ChatMessage) /\ Len(s \o t) = Len(s) + Len(t)
  OBVIOUS
<1>3. ASSUME NEW i \in 1..(Len(s) + Len(t))
      PROVE  KindsOf(s \o t)[i] = (KindsOf(s) \o KindsOf(t))[i]
  <2>1. KindsOf(s \o t)[i] = (s \o t)[i].kind
    BY <1>1, <1>2
  <2>2. CASE i \in 1..Len(s)
    <3>1. (s \o t)[i] = s[i] /\ (KindsOf(s) \o KindsOf(t))[i] = KindsOf(s)[i]
      BY <1>1, <2>2
    <3>2. QED
      BY <1>1, <2>1, <2>2, <3>1
  <2>3. CASE i - Len(s) \in 1..Len(t)
    <3>1. (s \o t)[i] = t[i - Len(s)] /\ (KindsOf(s) \o KindsOf(t))[i] = KindsOf(t)[i - Len(s)]
      BY <1>1, <2>3
    <3>2. QED
      BY <1>1, <2>1, <2>3, <3>1
  <2>4. QED
    BY <1>1, <2>2, <2>3
<1>4. /\ KindsOf(s) \o KindsOf(t) \in Seq(DOMAIN Roles)
      /\ Len(KindsOf(s) \o KindsOf(t)) = Len(s) + Len(t)
      /\ KindsOf(s \o t) \in Seq(DOMAIN Roles) /\ Len(KindsOf(s \o t)) = Len(s) + Len(t)
  <2> DEFINE a == KindsOf(s)
             b == KindsOf(t)
             K == DOMAIN Roles
  <2>1. a \in Seq(K) /\ b \in Seq(K) /\ Len(a) = Len(s) /\ Len(b) = Len(t)
    BY <1>1
  <2>2. KindsOf(s \o t) \in Seq(K) /\ Len(KindsOf(s \o t)) = Len(s) + Len(t)
    BY <1>1, <1>2
  <2> HIDE DEF a, b, K
  <2>3. a \o b \in Seq(K) /\ Len(a \o b) = Len(s) + Len(t)
    BY <2>1
  <2>4. QED
    BY <2>2, <2>3 DEF a, b, K
<1>5. KindsOf(s \o t) = KindsOf(s) \o KindsOf(t)
  <2> DEFINE a == KindsOf(s \o t)
             b == KindsOf(s) \o KindsOf(t)
  <2> HIDE DEF a, b
  <2>1. a \in Seq(DOMAIN Roles) /\ b \in Seq(DOMAIN Roles) /\ Len(a) = Len(b)
        /\ \A i \in 1..Len(a) : a[i] = b[i]
    BY <1>3, <1>4 DEF a, b
  <2>2. a = b
    BY <2>1
  <2>3. QED
    BY <2>2 DEF a, b
<1>6. QED
  BY <1>1, <1>5

(* New messages are about one question and leave the others as they were.  *)
LEMMA AboutMore ==
    \A row \in ConversationOf, t \in Seq(ChatMessage), q \in Questions : \A new :
        new.messages = row.messages \o t /\ (\A i \in 1..Len(t) : t[i].of = q)
        => /\ About(new, q) = About(row, q) \o KindsOf(t)
           /\ \A r : r # q => About(new, r) = About(row, r)
<1> TAKE row \in ConversationOf, t \in Seq(ChatMessage), q \in Questions
<1> TAKE new
<1> HAVE new.messages = row.messages \o t /\ (\A i \in 1..Len(t) : t[i].of = q)
<1>1. row.messages \in Seq(ChatMessage)
  BY DEF ConversationOf
<1>2. \A i \in 1..Len(t) : t[i] \in SaidOn(q) /\ \A r : r # q => t[i] \notin SaidOn(r)
  BY DEF SaidOn
<1>3. Only(t, SaidOn(q)) = t
  BY <1>2, OnlyAll
<1>4. \A r : Only(new.messages, SaidOn(r)) = Only(row.messages, SaidOn(r)) \o Only(t, SaidOn(r))
  <2> DEFINE s == row.messages
             A == ChatMessage
  <2>1. s \in Seq(A) /\ t \in Seq(A) /\ new.messages = s \o t
    BY <1>1
  <2> HIDE DEF s, A
  <2>2. \A S : Only(s \o t, S) = Only(s, S) \o Only(t, S)
    BY <2>1, OnlyJoins
  <2>3. QED
    BY <2>1, <2>2 DEF s
<1>5. \A r : Only(row.messages, SaidOn(r)) \in Seq(ChatMessage)
  BY <1>1, OnlyKeeps
<1>6. About(new, q) = About(row, q) \o KindsOf(t)
  <2>1. About(new, q) = KindsOf(Only(row.messages, SaidOn(q)) \o t)
    BY <1>3, <1>4, AboutIs
  <2>2. KindsOf(Only(row.messages, SaidOn(q)) \o t) = KindsOf(Only(row.messages, SaidOn(q))) \o KindsOf(t)
    BY <1>5, KindsJoin
  <2>3. QED
    BY <2>1, <2>2, AboutIs
<1>7. ASSUME NEW r, r # q
      PROVE  About(new, r) = About(row, r)
  <2> DEFINE old == Only(row.messages, SaidOn(r))
  <2>1. Only(t, SaidOn(r)) = <<>>
    BY <1>2, <1>7, OnlyNone
  <2>2. old \in Seq(ChatMessage) /\ Only(new.messages, SaidOn(r)) = old \o <<>>
    BY <1>4, <1>5, <2>1
  <2> HIDE DEF old
  <2>3. old \o <<>> = old
    BY <2>2
  <2>4. About(new, r) = KindsOf(old)
    BY <2>2, <2>3, AboutIs
  <2>5. QED
    BY <2>4, AboutIs DEF old
<1>8. QED
  BY <1>6, <1>7

LEMMA AboutRecorded ==
    ASSUME NEW row \in ConversationOf, NEW events \in Seq(EventKinds), NEW q \in Questions
    PROVE  /\ About(ApplyChanges(row, events, q), q) = About(row, q) \o events
           /\ \A r : r # q => About(ApplyChanges(row, events, q), r) = About(row, r)
<1> DEFINE t == Replayed(events, q)
           new == ApplyChanges(row, events, q)
<1>1. t = [i \in 1..Len(events) |-> [kind |-> events[i], of |-> q]] /\ Len(events) \in Nat
      /\ \A i \in 1..Len(events) : events[i] \in EventKinds
  BY DEF Replayed
<1>2. \A i \in 1..Len(events) : [kind |-> events[i], of |-> q] \in ChatMessage
  BY <1>1 DEF ChatMessage, EventKinds, Roles
<1>3. t \in Seq(ChatMessage) /\ Len(t) = Len(events) /\ \A i \in 1..Len(t) : t[i].of = q
  BY <1>1, <1>2
<1>4. KindsOf(t) = events
  <2>1. /\ KindsOf(t) = [i \in 1..Len(events) |-> t[i].kind]
        /\ \A i \in 1..Len(events) : t[i].kind = events[i]
    BY <1>1 DEF KindsOf
  <2>2. events = [i \in 1..Len(events) |-> events[i]]
    OBVIOUS
  <2>3. QED
    BY <2>1, <2>2
<1>5. new.messages = row.messages \o t
  BY DEF ApplyChanges, ConversationOf
<1> HIDE DEF t, new
<1>6. About(new, q) = About(row, q) \o KindsOf(t) /\ \A r : r # q => About(new, r) = About(row, r)
  <2>1. t \in Seq(ChatMessage) /\ \A i \in 1..Len(t) : t[i].of = q
    BY <1>3
  <2>2. \A more :
          more.messages = row.messages \o t /\ (\A i \in 1..Len(t) : t[i].of = q)
          => /\ About(more, q) = About(row, q) \o KindsOf(t)
             /\ \A r : r # q => About(more, r) = About(row, r)
    BY <2>1, AboutMore, Zenon
  <2>3. QED
    BY <1>5, <2>1, <2>2, Zenon
<1>7. About(new, q) = About(row, q) \o events /\ \A r : r # q => About(new, r) = About(row, r)
  BY <1>4, <1>6
<1>8. QED
  BY <1>7 DEF new

LEMMA AboutAsked ==
    ASSUME NEW row \in ConversationOf, NEW q \in Questions
    PROVE  /\ About(Asked(row, q), q) = About(row, q) \o <<"question">>
           /\ \A r : r # q => About(Asked(row, q), r) = About(row, r)
<1> DEFINE m == [kind |-> "question", of |-> q]
           t == <<m>>
           new == Asked(row, q)
<1>1. m \in ChatMessage
  BY DEF ChatMessage, Roles
<1>2. row.messages \in Seq(ChatMessage)
  BY DEF ConversationOf
<1>3. new.messages = Append(row.messages, m)
  BY DEF Asked, Appended, ConversationOf
<1>4. t \in Seq(ChatMessage) /\ Len(t) = 1 /\ t[1] = m
  BY <1>1
<1>5. new.messages = row.messages \o t
  BY <1>1, <1>2, <1>3, AppendIsConcat
<1>6. KindsOf(t) = <<"question">>
  <2>1. DOMAIN t = {1} /\ t[1].kind = "question"
    BY <1>4
  <2> HIDE DEF t
  <2>2. KindsOf(t) = [i \in {1} |-> "question"]
    BY <2>1 DEF KindsOf
  <2>3. QED
    BY <2>2
<1> HIDE DEF m, new, t
<1>7. \A i \in 1..Len(t) : t[i].of = q
  BY <1>4 DEF m
<1>8. About(new, q) = About(row, q) \o KindsOf(t) /\ \A r : r # q => About(new, r) = About(row, r)
  <2>1. t \in Seq(ChatMessage)
    BY <1>4
  <2>2. \A more :
          more.messages = row.messages \o t /\ (\A i \in 1..Len(t) : t[i].of = q)
          => /\ About(more, q) = About(row, q) \o KindsOf(t)
             /\ \A r : r # q => About(more, r) = About(row, r)
    BY <2>1, AboutMore, Zenon
  <2>3. QED
    BY <1>5, <1>7, <2>2, Zenon
<1>9. About(new, q) = About(row, q) \o <<"question">> /\ \A r : r # q => About(new, r) = About(row, r)
  BY <1>6, <1>8
<1>10. QED
  BY <1>9 DEF new

LEMMA AboutNothing ==
    ASSUME NEW row, row.messages = <<>>, NEW q
    PROVE  About(row, q) = <<>>
<1>1. Only(<<>>, SaidOn(q)) = <<>>
  <2>1. <<>> \in Seq(ChatMessage) /\ \A i \in 1..Len(<<>>) : FALSE
    OBVIOUS
  <2>2. QED
    BY <2>1, OnlyNone
<1>2. KindsOf(<<>>) = <<>>
  BY DEF KindsOf
<1>3. QED
  BY <1>1, <1>2, AboutIs
-----------------------------------------------------------------------------
(* What is said in a conversation only grows.                              *)

RowsTyped == conversations \in [Conversations -> ConversationOf \cup {None, Deleted}]

(* The row keeps its tenant and every message at its place.                *)
Continues(old, new) ==
    /\ old \in ConversationOf /\ new \in ConversationOf
    /\ Len(old.messages) <= Len(new.messages)
    /\ \A i \in 1..Len(old.messages) : new.messages[i] = old.messages[i]

(* A row is opened, continued or deleted, and deleted for good.            *)
Grows(old, new) ==
    \/ new = old
    \/ old # Deleted /\ new = Deleted
    \/ old = None
    \/ Continues(old, new)

HasEnd(row, q) ==
    \E i \in 1..Len(row.messages) : row.messages[i].of = q /\ row.messages[i].kind \in FinalKinds

LEMMA HoldsIs ==
    ASSUME RowsTyped, NEW c \in Conversations, NEW q
    PROVE  Holds(c, q) <=> \/ conversations[c] = Deleted
                           \/ conversations[c] \in ConversationOf /\ HasEnd(conversations[c], q)
<1>1. conversations[c] \in ConversationOf \cup {None, Deleted}
  BY DEF RowsTyped
<1>2. c \in Rows <=> conversations[c] \in ConversationOf
  BY <1>1, NoRowAssumption DEF Rows
<1>3. ASSUME conversations[c] \in ConversationOf
      PROVE  DOMAIN conversations[c].messages = 1..Len(conversations[c].messages)
  <2>1. conversations[c].messages \in Seq(ChatMessage)
    BY <1>3 DEF ConversationOf
  <2>2. QED
    BY <2>1
<1>4. QED
  BY <1>2, <1>3 DEF Holds, HasEnd

LEMMA AppendedContinues ==
    ASSUME NEW row \in ConversationOf, NEW kind \in DOMAIN Roles, NEW q \in Questions
    PROVE  Continues(row, Appended(row, kind, q))
<1>1. row.messages \in Seq(ChatMessage) /\ [kind |-> kind, of |-> q] \in ChatMessage
  BY DEF ConversationOf, ChatMessage
<1>2. Append(row.messages, [kind |-> kind, of |-> q]) \in Seq(ChatMessage)
  BY <1>1
<1>3. Appended(row, kind, q) \in ConversationOf
  BY <1>2 DEF Appended, ConversationOf
<1>4. Appended(row, kind, q).messages = Append(row.messages, [kind |-> kind, of |-> q])
  BY DEF Appended, ConversationOf
<1>5. QED
  BY <1>1, <1>3, <1>4 DEF Continues

(* What is recorded follows what was there, in its order.                  *)
LEMMA RecordedContinues ==
    ASSUME NEW row \in ConversationOf, NEW events \in Seq(EventKinds), NEW q \in Questions
    PROVE  /\ Continues(row, ApplyChanges(row, events, q))
           /\ events # <<>> /\ events[Len(events)] \in FinalKinds =>
                 HasEnd(ApplyChanges(row, events, q), q)
<1> DEFINE added == Replayed(events, q)
           new == ApplyChanges(row, events, q)
<1>1. row.messages \in Seq(ChatMessage)
  BY DEF ConversationOf
<1>2. /\ added = [i \in 1..Len(events) |-> [kind |-> events[i], of |-> q]]
      /\ Len(events) \in Nat
  BY DEF Replayed
<1>3. \A i \in 1..Len(events) : [kind |-> events[i], of |-> q] \in ChatMessage
  BY DEF ChatMessage, EventKinds, Roles
<1>4. added \in Seq(ChatMessage) /\ Len(added) = Len(events)
  BY <1>2, <1>3
<1> HIDE DEF added
<1>5. row.messages \o added \in Seq(ChatMessage)
  BY <1>1, <1>4
<1>6. new \in ConversationOf /\ new.messages = row.messages \o added
  BY <1>5 DEF ApplyChanges, ConversationOf, added
<1>7. Continues(row, new)
  BY <1>1, <1>4, <1>6 DEF Continues
<1>8. ASSUME events # <<>>, events[Len(events)] \in FinalKinds
      PROVE  HasEnd(new, q)
  <2> DEFINE last == Len(row.messages) + Len(events)
  <2>1. Len(events) > 0
    BY <1>8
  <2>2. last \in 1..Len(new.messages)
    BY <1>1, <1>4, <1>6, <2>1
  <2>3. new.messages[last] = added[Len(events)]
    BY <1>1, <1>4, <1>6, <2>1
  <2>4. added[Len(events)] = [kind |-> events[Len(events)], of |-> q]
    BY <1>2, <2>1
  <2>5. QED
    BY <1>8, <2>2, <2>3, <2>4 DEF HasEnd
<1>9. QED
  BY <1>7, <1>8

LEMMA HoldsStays ==
    ASSUME RowsTyped, RowsTyped', NEW c \in Conversations, NEW q,
           Grows(conversations[c], conversations'[c]), Holds(c, q)
    PROVE  Holds(c, q)'
<1>1. \/ conversations[c] = Deleted
      \/ conversations[c] \in ConversationOf /\ HasEnd(conversations[c], q)
  BY HoldsIs
<1>2. \/ conversations'[c] = Deleted
      \/ conversations'[c] \in ConversationOf /\ HasEnd(conversations'[c], q)
  <2>1. CASE conversations[c] = Deleted
    BY <2>1, NoRowAssumption, ChatAssumption DEF Grows, Continues
  <2>2. CASE conversations[c] \in ConversationOf /\ HasEnd(conversations[c], q)
    <3>1. CASE conversations'[c] = conversations[c] \/ conversations'[c] = Deleted
      BY <2>2, <3>1
    <3>2. CASE Continues(conversations[c], conversations'[c])
      <4>1. /\ Len(conversations[c].messages) \in Nat
            /\ Len(conversations'[c].messages) \in Nat
        BY <3>2 DEF Continues, ConversationOf
      <4>2. QED
        BY <2>2, <3>2, <4>1 DEF Continues, HasEnd
    <3>3. QED
      BY <2>2, <3>1, <3>2, NoRowAssumption DEF Grows
  <2>3. QED
    BY <1>1, <2>1, <2>2
<1>3. (Holds(c, q) <=> \/ conversations[c] = Deleted
                       \/ conversations[c] \in ConversationOf /\ HasEnd(conversations[c], q))'
  BY HoldsIs, PTL
<1>4. QED
  BY <1>2, <1>3 DEF HasEnd
-----------------------------------------------------------------------------
(* Pages.  While a task works it has its question; what it is about to     *)
(* record ends in a final event; what it is about to show was recorded.    *)

Working == {"stepping", "streaming", "calling", "expanding", "between", "finishing"}
Busy == Working \cup {"recording", "showing"}

EndsWell(events) == events # <<>> /\ events[Len(events)] \in FinalKinds

Tame(x) ==
    /\ DOMAIN x = DOMAIN Away
    /\ x.at \in Phases
    /\ x.said \in Seq(EventKinds)
    /\ x.at \in Busy => x.question \in Questions
    /\ x.at \in Busy \cup {"open", "idle"} => x.on \in Conversations
    /\ x.at = "recording" => EndsWell(x.said)

PagesTame == DOMAIN page = Pages /\ \A p \in Pages : Tame(page[p])

Inv ==
    /\ RowsTyped /\ PagesTame
    /\ asked \in Nat
    /\ \A p \in Pages : At(p, "showing") => Holds(page[p].on, page[p].question)
    /\ shown \subseteq Questions \X Conversations
    /\ ShownAnswersAreRecorded

(* A step of one page that touches no row and leads to nothing new to show.*)
Quiet(p) ==
    /\ \E x : /\ page' = [page EXCEPT ![p] = x] /\ Tame(x)
              /\ x.at = "showing" =>
                    At(p, "showing") /\ x.on = page[p].on /\ x.question = page[p].question
    /\ UNCHANGED <<conversations, asked, shown>>

LEMMA AwayIsTame == Tame(Away)
  BY DEF Tame, Away, Phases, Busy, Working

LEMMA ClosedIsTame ==
    ASSUME NEW p \in Pages, page[p].on \in Conversations
    PROVE  Tame(Closed(p)) /\ Closed(p).at = "open"
  BY DEF Closed, Tame, Away, Phases, Busy, Working

LEMMA FinishedIsTame ==
    ASSUME NEW p \in Pages, page[p].on \in Conversations, page[p].question \in Questions
    PROVE  /\ Tame([Finished(p) EXCEPT !.at = "showing"])
           /\ Tame([Finished(p) EXCEPT !.at = "idle", !.question = None])
           /\ \A at : /\ [Finished(p) EXCEPT !.at = at].on = page[p].on
                      /\ [Finished(p) EXCEPT !.at = at].question = page[p].question
  BY DEF Finished, Tame, Away, Phases, Busy, Working

LEMMA OverIsTame ==
    ASSUME NEW p \in Pages, Tame(page[p])
    PROVE  Tame(Over(p)) /\ Over(p).at = page[p].at /\ Over(p).said = page[p].said
  BY DEF Over, Tame, Away

LEMMA QuietlyIsQuiet ==
    ASSUME NEW p \in Pages, NEW new, Quietly(p, new), Tame(new), new.at # "showing"
    PROVE  Quiet(p)
  BY DEF Quietly, Quiet

LEMMA NotesAreQuiet ==
    ASSUME NEW p \in Pages, NEW new, Notes(p, new), Tame(new), new.at \in Working
    PROVE  Quiet(p)
<1> DEFINE x == [new EXCEPT !.at = IF page[p].reader THEN @ ELSE "finishing"]
<1>1. Tame(x) /\ x.at # "showing"
  BY DEF Tame, Away, Phases, Busy, Working
<1>2. QED
  BY <1>1 DEF Notes, Quiet

LEMMA YieldsAreQuiet ==
    ASSUME NEW p \in Pages, NEW new, NEW event \in EventKinds,
           Yields(p, event, new), Tame(new), new.at \in Working
    PROVE  Quiet(p)
<1> DEFINE x == [new EXCEPT !.said = Append(@, event),
                            !.at = IF page[p].reader THEN @ ELSE "finishing"]
<1>1. Append(new.said, event) \in Seq(EventKinds)
  BY DEF Tame
<1>2. Tame(x) /\ x.at # "showing"
  BY <1>1 DEF Tame, Away, Phases, Busy, Working
<1>3. QED
  BY <1>2 DEF Yields, Quiet

LEMMA EndingWell ==
    ASSUME NEW events \in Seq(EventKinds), NEW event \in FinalKinds
    PROVE  Append(events, event) \in Seq(EventKinds) /\ EndsWell(Append(events, event))
<1>1. event \in EventKinds
  BY DEF FinalKinds, EventKinds
<1>2. Append(events, event) \in Seq(EventKinds) /\ Len(Append(events, event)) = Len(events) + 1
  BY <1>1
<1>3. Append(events, event)[Len(events) + 1] = event
  BY <1>1
<1>4. QED
  BY <1>2, <1>3 DEF EndsWell

LEMMA ConcludesIsQuiet ==
    ASSUME NEW p \in Pages, NEW event \in FinalKinds, Concludes(p, event),
           Tame(page[p]), page[p].at \in Working
    PROVE  Quiet(p)
<1> DEFINE x == [Over(p) EXCEPT !.at = "recording", !.said = Append(@, event)]
<1>1. Tame(Over(p)) /\ Over(p).at = page[p].at
  BY OverIsTame
<1>2. Append(Over(p).said, event) \in Seq(EventKinds) /\ EndsWell(Append(Over(p).said, event))
  BY <1>1, EndingWell DEF Tame
<1>3. Tame(x) /\ x.at # "showing"
  BY <1>1, <1>2 DEF Tame, Away, Phases, Busy, Working
<1>4. QED
  BY <1>3 DEF Concludes, Quiet
-----------------------------------------------------------------------------
(* The stream and the loop touch no row.                                   *)

LEMMA StreamIsQuiet ==
    ASSUME Inv, NEW p \in Pages, Stream(p)
    PROVE  Quiet(p)
<1> USE DEF At
<1>1. Tame(page[p]) /\ Tame(Over(p)) /\ Over(p).at = page[p].at
  BY OverIsTame DEF Inv, PagesTame
<1>2. CASE NextStep(p)
  <2>1. PICK resting \in SUBSET page[p].cooling :
          Quietly(p, [page[p] EXCEPT !.at = "streaming", !.step = @ + 1, !.cooling = resting,
                        !.queue = LiveFirst(Candidates(Requirements(p)), resting)])
    BY <1>2 DEF NextStep
  <2> DEFINE asking == LiveFirst(Candidates(Requirements(p)), resting)
             x == [page[p] EXCEPT !.at = "streaming", !.step = @ + 1, !.cooling = resting,
                                  !.queue = asking]
  <2>2. page[p].at = "stepping"
    BY <1>2 DEF NextStep
  <2> HIDE DEF asking
  <2>3. Tame(x) /\ x.at # "showing"
    BY <1>1, <2>2 DEF Tame, Away, Phases, Busy, Working
  <2>4. QED
    BY <2>1, <2>3, QuietlyIsQuiet DEF asking
<1>3. CASE Unread(p)
  <2> DEFINE x == [Over(p) EXCEPT !.at = "finishing"]
  <2>1. Tame(x) /\ x.at # "showing"
    BY <1>1, <1>3 DEF Unread, Tame, Away, Phases, Busy, Working
  <2>2. QED
    BY <1>3, <2>1, QuietlyIsQuiet DEF Unread
<1>4. CASE Replace(p)
  <2> DEFINE x == [page[p] EXCEPT !.cooling = @ \cup {Asking(p)}, !.queue = Tail(@),
                                  !.tried = @ \cup {Asking(p)}]
  <2>1. Tame(x) /\ x.at \in Working
    BY <1>1, <1>4 DEF Replace, Tame, Away, Phases, Busy, Working
  <2>2. Notes(p, x)
    BY <1>4 DEF Replace
  <2>3. QED
    BY <2>1, <2>2, NotesAreQuiet
<1>5. CASE GiveUp(p)
  <2> DEFINE x == [page[p] EXCEPT !.at = "recording", !.said = Append(@, "failure"),
                     !.queue = <<>>, !.refused = TRUE,
                     !.tried = @ \cup Among(page[p].queue), !.cooling = @ \cup Among(page[p].queue)]
  <2>1. page[p].said \in Seq(EventKinds) /\ "failure" \in FinalKinds
    BY <1>1 DEF Tame, FinalKinds
  <2>2. Append(page[p].said, "failure") \in Seq(EventKinds) /\ EndsWell(Append(page[p].said, "failure"))
    BY <2>1, EndingWell
  <2>3. page[p].at = "streaming"
    BY <1>5 DEF GiveUp
  <2>4. Tame(x) /\ x.at # "showing"
    BY <1>1, <2>2, <2>3 DEF Tame, Away, Phases, Busy, Working
  <2>5. page' = [page EXCEPT ![p] = x] /\ UNCHANGED <<conversations, asked, shown>>
    BY <1>5 DEF GiveUp
  <2>6. QED
    BY <2>4, <2>5 DEF Quiet
<1>6. CASE BreakOff(p)
  BY <1>1, <1>6, ConcludesIsQuiet DEF BreakOff, FinalKinds, Working
<1>7. CASE Overflow(p)
  <2> DEFINE x == [Over(p) EXCEPT !.at = "stepping", !.agentic = FALSE]
  <2>1. Tame(x) /\ x.at \in Working
    BY <1>1, <1>7 DEF Overflow, Tame, Away, Phases, Busy, Working
  <2>2. CASE Notes(p, x)
    BY <2>1, <2>2, NotesAreQuiet
  <2>3. CASE Concludes(p, "failure")
    BY <1>1, <1>7, <2>3, ConcludesIsQuiet DEF Overflow, FinalKinds, Working
  <2>4. QED
    BY <1>7, <2>2, <2>3 DEF Overflow
<1>8. QED
  BY <1>2, <1>3, <1>4, <1>5, <1>6, <1>7 DEF Stream

LEMMA LoopIsQuiet ==
    ASSUME Inv, NEW p \in Pages, Loop(p)
    PROVE  Quiet(p)
<1> USE DEF At
<1>1. Tame(page[p]) /\ Tame(Over(p)) /\ Over(p).at = page[p].at
  BY OverIsTame DEF Inv, PagesTame
<1>2. CASE Answer(p)
  BY <1>1, <1>2, ConcludesIsQuiet DEF Answer, FinalKinds, Working
<1>3. CASE AskToLookUp(p)
  <2> DEFINE x == [Over(p) EXCEPT !.at = "stepping", !.nudged = TRUE]
  <2>1. Tame(x) /\ x.at \in Working
    BY <1>1, <1>3 DEF AskToLookUp, Tame, Away, Phases, Busy, Working
  <2>2. QED
    BY <1>3, <2>1, NotesAreQuiet DEF AskToLookUp
<1>4. CASE CallTools(p)
  <2>1. PICK n \in 1..MaxCalls : Yields(p, "call", [Over(p) EXCEPT !.at = "calling", !.calls = n])
    BY <1>4 DEF CallTools
  <2> DEFINE x == [Over(p) EXCEPT !.at = "calling", !.calls = n]
  <2>2. Tame(x) /\ x.at \in Working
    BY <1>1, <1>4 DEF CallTools, Tame, Away, Phases, Busy, Working
  <2>3. QED
    BY <2>1, <2>2, YieldsAreQuiet DEF EventKinds
<1>5. CASE Expand(p)
  <2> DEFINE asking == <<Select(choice, PlainNeeds(p))>>
             x == [page[p] EXCEPT !.at = "expanding", !.queue = asking]
  <2> HIDE DEF asking
  <2>1. page[p].at = "calling"
    BY <1>5 DEF Expand
  <2>2. Tame(x) /\ x.at # "showing"
    BY <1>1, <2>1 DEF Tame, Away, Phases, Busy, Working
  <2>3. QED
    BY <1>5, <2>2, QuietlyIsQuiet DEF Expand, asking
<1>6. CASE Result(p)
  <2> DEFINE x == [Over(p) EXCEPT !.calls = @ - 1,
                     !.at = IF page[p].calls = 1 THEN "stepping" ELSE "between"]
  <2>1. Tame(x) /\ x.at \in Working
    BY <1>1, <1>6 DEF Result, Tame, Away, Phases, Busy, Working
  <2>2. Yields(p, "result", x)
    BY <1>6 DEF Result
  <2>3. QED
    BY <2>1, <2>2, YieldsAreQuiet DEF EventKinds
<1>7. CASE NextCall(p)
  <2> DEFINE x == [page[p] EXCEPT !.at = "calling"]
  <2>1. Tame(x) /\ x.at \in Working
    BY <1>1, <1>7 DEF NextCall, Tame, Away, Phases, Busy, Working
  <2>2. Yields(p, "call", x)
    BY <1>7 DEF NextCall
  <2>3. QED
    BY <2>1, <2>2, YieldsAreQuiet DEF EventKinds
<1>8. QED
  BY <1>2, <1>3, <1>4, <1>5, <1>6, <1>7 DEF Loop
-----------------------------------------------------------------------------
(* What keeps the invariant.                                               *)

Grown == \A c \in Conversations : Grows(conversations[c], conversations'[c])

LEMMA Kept ==
    ASSUME Inv, RowsTyped', PagesTame', asked' \in Nat, Grown,
           \A p \in Pages : page'[p].at = "showing" =>
              \/ At(p, "showing") /\ page'[p].on = page[p].on /\ page'[p].question = page[p].question
              \/ Holds(page[p].on, page[p].question)',
           shown' \subseteq Questions \X Conversations,
           \A s \in shown' : s \in shown \/ Holds(s[2], s[1])
    PROVE  Inv'
<1>1. ASSUME NEW c \in Conversations, NEW q, Holds(c, q)
      PROVE  Holds(c, q)'
  BY <1>1, HoldsStays DEF Inv, Grown
<1>2. ASSUME NEW p \in Pages, page'[p].at = "showing"
      PROVE  Holds(page[p].on, page[p].question)'
  <2>1. CASE Holds(page[p].on, page[p].question)'
    BY <2>1
  <2>2. CASE At(p, "showing") /\ page'[p].on = page[p].on /\ page'[p].question = page[p].question
    <3>1. Holds(page[p].on, page[p].question)
      BY <2>2 DEF Inv
    <3>2. page[p].on \in Conversations
      BY <2>2 DEF Inv, PagesTame, Tame, At, Busy
    <3>3. \A c, q : c = page[p].on /\ q = page[p].question => Holds(c, q)'
      BY <1>1, <3>1, <3>2
    <3>4. \A c, q : c = page'[p].on /\ q = page'[p].question => Holds(c, q)'
      BY <2>2, <3>3
    <3>5. QED
      BY <3>4 DEF Holds, Rows
  <2>3. QED
    BY <1>2, <2>1, <2>2
<1>3. ASSUME NEW s \in shown'
      PROVE  Holds(s[2], s[1])'
  <2>1. Holds(s[2], s[1])
    BY <1>3 DEF Inv, ShownAnswersAreRecorded
  <2>2. s[2] \in Conversations
    BY <1>3
  <2>3. QED
    BY <1>1, <2>1, <2>2
<1>4. QED
  BY <1>2, <1>3 DEF Inv, At, ShownAnswersAreRecorded

(* A step that leaves the rows alone leaves them typed and grown.          *)
LEMMA SameRows ==
    ASSUME Inv, UNCHANGED conversations
    PROVE  RowsTyped' /\ Grown
  BY DEF Inv, RowsTyped, Grown, Grows

LEMMA PageStep ==
    ASSUME Inv, NEW p \in Pages, NEW x, Tame(x), page' = [page EXCEPT ![p] = x]
    PROVE  /\ PagesTame' /\ page'[p] = x
           /\ \A o \in Pages : o # p => page'[o] = page[o]
  BY DEF Inv, PagesTame

LEMMA QuietKeepsInv ==
    ASSUME Inv, NEW p \in Pages, Quiet(p)
    PROVE  Inv'
<1>1. PICK x : /\ page' = [page EXCEPT ![p] = x] /\ Tame(x)
               /\ x.at = "showing" =>
                     At(p, "showing") /\ x.on = page[p].on /\ x.question = page[p].question
  BY DEF Quiet
<1>2. /\ PagesTame' /\ page'[p] = x
      /\ \A o \in Pages : o # p => page'[o] = page[o]
  BY <1>1, PageStep
<1>3. RowsTyped' /\ Grown
  BY SameRows DEF Quiet
<1>4. QED
  BY <1>1, <1>2, <1>3, Kept DEF Quiet, Inv, At

(* One row grows and nothing becomes ready to be shown.                    *)
LEMMA RowStep ==
    ASSUME Inv, NEW c \in Conversations, NEW row \in ConversationOf \cup {Deleted},
           conversations' = [conversations EXCEPT ![c] = row],
           Grows(conversations[c], row)
    PROVE  RowsTyped' /\ Grown /\ conversations'[c] = row
  BY DEF Inv, RowsTyped, Grown, Grows
-----------------------------------------------------------------------------
(* Requests and sockets.                                                   *)

LEMMA RowOf ==
    ASSUME Inv, NEW c \in Rows
    PROVE  c \in Conversations /\ conversations[c] \in ConversationOf
  BY DEF Inv, RowsTyped, Rows

LEMMA RequestsKeepInv ==
    ASSUME Inv, NEW p \in Pages, Requests(p)
    PROVE  Inv'
<1> USE DEF At
<1>1. Tame(page[p])
  BY DEF Inv, PagesTame
<1>2. ASSUME NEW c \in Conversations, page' = [page EXCEPT ![p].at = "open", ![p].on = c]
      PROVE  PagesTame' /\ page'[p].at = "open" /\ \A o \in Pages : o # p => page'[o] = page[o]
  <2> DEFINE x == [page[p] EXCEPT !.at = "open", !.on = c]
  <2>1. Tame(x) /\ x.at = "open"
    BY <1>1 DEF Tame, Away, Phases, Busy, Working
  <2>2. page' = [page EXCEPT ![p] = x]
    BY <1>2
  <2>3. QED
    BY <2>1, <2>2, PageStep
<1>3. ASSUME NEW c \in Rows, page' = [page EXCEPT ![p].at = "open", ![p].on = c],
             UNCHANGED <<conversations, asked, shown>>
      PROVE  Inv'
  <2>1. /\ PagesTame' /\ page'[p].at = "open"
        /\ \A o \in Pages : o # p => page'[o] = page[o]
    BY <1>2, <1>3, RowOf
  <2>2. RowsTyped' /\ Grown
    BY <1>3, SameRows
  <2>3. QED
    BY <1>3, <2>1, <2>2, Kept DEF Inv
<1>4. CASE FindEmpty(p)
  <2>1. CASE Goes(p, "starting")
    <3> DEFINE x == [page[p] EXCEPT !.at = "starting"]
    <3>1. Tame(x) /\ x.at # "showing"
      BY <1>1 DEF Tame, Away, Phases, Busy, Working
    <3>2. Quiet(p)
      BY <1>4, <2>1, <3>1 DEF FindEmpty, Goes, Quiet
    <3>3. QED
      BY <3>2, QuietKeepsInv
  <2>2. CASE \E c \in Empties(p) : page' = [page EXCEPT ![p].at = "open", ![p].on = c]
    BY <1>3, <1>4, <2>2 DEF FindEmpty, Empties
  <2>3. QED
    BY <1>4, <2>1, <2>2 DEF FindEmpty
<1>5. CASE StartConversation(p)
  <2>1. PICK c \in Conversations, m \in Preferences :
          /\ conversations[c] = None
          /\ conversations' = [conversations EXCEPT ![c] = Start(TenantOf[p], m)]
          /\ page' = [page EXCEPT ![p].at = "open", ![p].on = c]
    BY <1>5 DEF StartConversation
  <2>2. Start(TenantOf[p], m) \in ConversationOf
    BY ChatAssumption DEF Start, ConversationOf
  <2>3. RowsTyped' /\ Grown
    BY <2>1, <2>2, RowStep DEF Grows
  <2>4. /\ PagesTame' /\ page'[p].at = "open"
        /\ \A o \in Pages : o # p => page'[o] = page[o]
    BY <1>2, <2>1
  <2>5. QED
    BY <1>5, <2>3, <2>4, Kept DEF StartConversation, Inv
<1>6. CASE OpenListed(p)
  BY <1>3, <1>6 DEF OpenListed
<1>7. ASSUME NEW new \in ConversationOf \cup {Deleted}, Changes(p, new),
             Grows(Row(p), new)
      PROVE  Inv'
  <2>1. page[p].on \in Conversations /\ UNCHANGED <<page, asked, shown>>
    BY <1>7, RowOf DEF Changes, Exists
  <2>2. RowsTyped' /\ Grown
    BY <1>7, <2>1, RowStep DEF Changes, Row
  <2>3. QED
    BY <2>1, <2>2, Kept DEF Inv, PagesTame
<1>8. ASSUME NEW new, Changes(p, new)
      PROVE  Row(p) \in ConversationOf
  BY <1>8, RowOf DEF Changes, Exists, Row
<1>9. ASSUME NEW b \in BOOLEAN, Row(p) \in ConversationOf
      PROVE  [Row(p) EXCEPT !.document = b] \in ConversationOf /\ Grows(Row(p), [Row(p) EXCEPT !.document = b])
  <2>1. [Row(p) EXCEPT !.document = b] \in ConversationOf
    BY <1>9 DEF ConversationOf
  <2>2. [Row(p) EXCEPT !.document = b].messages = Row(p).messages /\ Len(Row(p).messages) \in Nat
    BY <1>9 DEF ConversationOf
  <2>3. QED
    BY <1>9, <2>1, <2>2 DEF Grows, Continues
<1>10. CASE AttachDocument(p) \/ DetachDocument(p)
  BY <1>7, <1>8, <1>9, <1>10 DEF AttachDocument, DetachDocument, Attached, Detached
<1>11. CASE DeleteConversation(p)
  BY <1>7, <1>8, <1>11, NoRowAssumption DEF DeleteConversation, Grows
<1>12. QED
  BY <1>4, <1>5, <1>6, <1>10, <1>11 DEF Requests

LEMMA SocketKeepsInv ==
    ASSUME Inv, NEW p \in Pages, Socket(p)
    PROVE  Inv'
<1> USE DEF At
<1>1. Tame(page[p])
  BY DEF Inv, PagesTame
<1>2. CASE Connect(p)
  <2> DEFINE x == [Away EXCEPT !.at = "idle", !.on = page[p].on, !.reader = TRUE]
  <2>1. Tame(x) /\ x.at # "showing"
    BY <1>1, <1>2, AwayIsTame DEF Connect, Tame, Away, Phases, Busy, Working
  <2>2. QED
    BY <1>2, <2>1, QuietKeepsInv DEF Connect, Quiet
<1>3. CASE Leave(p)
  <2> DEFINE x == [page[p] EXCEPT !.reader = FALSE]
  <2>1. Tame(x) /\ x.at = page[p].at /\ x.on = page[p].on /\ x.question = page[p].question
    BY <1>1 DEF Tame, Away
  <2>2. QED
    BY <1>3, <2>1, QuietKeepsInv DEF Leave, Quiet
<1>4. CASE Disconnect(p)
  <2>1. Tame(Closed(p)) /\ Closed(p).at # "showing"
    BY <1>1, <1>4, ClosedIsTame DEF Disconnect, Tame, Busy
  <2>2. QED
    BY <1>4, <2>1, QuietKeepsInv DEF Disconnect, Quiet
<1>5. CASE Ask(p) /\ ~(Exists(p) /\ EnsureOwn(Row(p), TenantOf[p]))
  <2>1. Tame(Away) /\ Away.at # "showing"
    BY AwayIsTame DEF Away
  <2>2. QED
    BY <1>5, <2>1, QuietKeepsInv DEF Ask, Quiet
<1>6. CASE Ask(p) /\ Exists(p) /\ EnsureOwn(Row(p), TenantOf[p])
  <2> DEFINE x == [page[p] EXCEPT
                     !.at = "stepping", !.question = asked', !.agentic = ToolsAtAll,
                     !.trust = AllowedTrust(Row(p)), !.document = Row(p).document,
                     !.preferred = Row(p).preferred, !.step = 0, !.nudged = FALSE]
             row == Asked(Row(p), asked')
  <2>1. /\ asked' = asked + 1 /\ asked' \in Questions
        /\ conversations' = [conversations EXCEPT ![page[p].on] = row]
        /\ page' = [page EXCEPT ![p] = x]
        /\ UNCHANGED shown
    BY <1>6 DEF Ask, Row
  <2>2. page[p].on \in Conversations /\ Row(p) \in ConversationOf
    BY <1>6, RowOf DEF Exists, Row
  <2>3. Tame(x) /\ x.at # "showing"
    BY <1>1, <2>1, <2>2 DEF Tame, Away, Phases, Busy, Working
  <2>4. Continues(Row(p), row)
    BY <2>1, <2>2, AppendedContinues DEF Asked, Roles
  <2>5. row \in ConversationOf /\ Grows(Row(p), row)
    BY <2>4 DEF Continues, Grows
  <2>6. RowsTyped' /\ Grown
    BY <2>1, <2>2, <2>5, RowStep DEF Row
  <2>7. /\ PagesTame' /\ page'[p].at # "showing"
        /\ \A o \in Pages : o # p => page'[o] = page[o]
    BY <2>1, <2>3, PageStep
  <2>8. QED
    BY <2>1, <2>6, <2>7, Kept DEF Inv
<1>7. QED
  BY <1>2, <1>3, <1>4, <1>5, <1>6 DEF Socket
-----------------------------------------------------------------------------
(* Recording and showing.                                                  *)

LEMMA RecordingGrows ==
    ASSUME Inv, NEW p \in Pages, page[p].at \in Busy, Exists(p), Recorded(p)
    PROVE  /\ RowsTyped' /\ Grown
           /\ \A c, q : c = page[p].on /\ q = page[p].question /\ EndsWell(page[p].said)
                        => Holds(c, q)'
<1> DEFINE row == ApplyChanges(Row(p), page[p].said, page[p].question)
<1>1. page[p].on \in Conversations /\ Row(p) \in ConversationOf
  BY RowOf DEF Exists, Row
<1>2. page[p].said \in Seq(EventKinds) /\ page[p].question \in Questions
  BY DEF Inv, PagesTame, Tame
<1>3. /\ Continues(Row(p), row)
      /\ EndsWell(page[p].said) => HasEnd(row, page[p].question)
  BY <1>1, <1>2, RecordedContinues DEF EndsWell
<1>4. row \in ConversationOf /\ Grows(Row(p), row)
  BY <1>3 DEF Continues, Grows
<1>5. conversations' = [conversations EXCEPT ![page[p].on] = row]
  BY DEF Recorded, Row
<1>6. RowsTyped' /\ Grown /\ conversations'[page[p].on] = row
  BY <1>1, <1>4, <1>5, RowStep DEF Row
<1> HIDE DEF row
<1>7. ASSUME EndsWell(page[p].said)
      PROVE  \E i \in DOMAIN row.messages :
                row.messages[i].of = page[p].question /\ row.messages[i].kind \in FinalKinds
  BY <1>3, <1>4, <1>7 DEF HasEnd, ConversationOf
<1>8. row \notin {None, Deleted}
  BY <1>4, NoRowAssumption
<1>9. ASSUME NEW c, NEW q, c = page[p].on, q = page[p].question, EndsWell(page[p].said)
      PROVE  Holds(c, q)'
  BY <1>1, <1>6, <1>7, <1>8, <1>9 DEF Holds, Rows
<1>10. QED
  BY <1>6, <1>9

LEMMA RecordingKeepsInv ==
    ASSUME Inv, NEW p \in Pages, Recording(p)
    PROVE  Inv'
<1> USE DEF At
<1>1. Tame(page[p])
  BY DEF Inv, PagesTame
<1>2. ASSUME page[p].at \in Busy
      PROVE  page[p].on \in Conversations /\ page[p].question \in Questions
  BY <1>1, <1>2 DEF Tame
<1>3. ASSUME page[p].at \in Busy, NEW x, x = Closed(p), page' = [page EXCEPT ![p] = x],
             UNCHANGED <<asked, shown>>, RowsTyped', Grown
      PROVE  Inv'
  <2>1. Tame(x) /\ x.at # "showing"
    BY <1>2, <1>3, ClosedIsTame
  <2>2. /\ PagesTame' /\ page'[p].at # "showing"
        /\ \A o \in Pages : o # p => page'[o] = page[o]
    BY <1>3, <2>1, PageStep
  <2>3. QED
    BY <1>3, <2>2, Kept DEF Inv
<1>4. CASE RecordFinal(p) /\ Exists(p)
  <2> DEFINE x == [Finished(p) EXCEPT !.at = "showing"]
  <2>1. page[p].at \in Busy /\ EndsWell(page[p].said)
    BY <1>1, <1>4 DEF RecordFinal, Tame, Busy
  <2>2. Recorded(p) /\ page' = [page EXCEPT ![p] = x] /\ UNCHANGED <<asked, shown>>
    BY <1>4 DEF RecordFinal
  <2>3. /\ RowsTyped' /\ Grown
        /\ \A c, q : c = page[p].on /\ q = page[p].question => Holds(c, q)'
    BY <1>4, <2>1, <2>2, RecordingGrows
  <2>4. Tame(x) /\ x.on = page[p].on /\ x.question = page[p].question
    BY <1>2, <2>1, FinishedIsTame
  <2>5. /\ PagesTame' /\ page'[p] = x
        /\ \A o \in Pages : o # p => page'[o] = page[o]
    BY <2>2, <2>4, PageStep
  <2>6. Holds(page[p].on, page[p].question)'
    <3>1. \A c, q : c = page'[p].on /\ q = page'[p].question => Holds(c, q)'
      BY <2>3, <2>4, <2>5
    <3>2. QED
      BY <3>1 DEF Holds, Rows
  <2>7. \A o \in Pages : page'[o].at = "showing" =>
           \/ At(o, "showing") /\ page'[o].on = page[o].on /\ page'[o].question = page[o].question
           \/ Holds(page[o].on, page[o].question)'
    BY <2>5, <2>6
  <2>8. QED
    BY <2>2, <2>3, <2>5, <2>7, Kept DEF Inv
<1>5. CASE RecordFinal(p) /\ ~Exists(p)
  <2>1. page[p].at \in Busy /\ UNCHANGED conversations
    BY <1>5 DEF RecordFinal, Busy
  <2>2. RowsTyped' /\ Grown
    BY <2>1, SameRows
  <2>3. QED
    BY <1>3, <1>5, <2>1, <2>2 DEF RecordFinal
<1>6. CASE ShowFinal(p)
  <2> DEFINE x == [page[p] EXCEPT !.at = "finishing"]
  <2>1. page[p].at = "showing" /\ page' = [page EXCEPT ![p] = x] /\ UNCHANGED <<conversations, asked>>
    BY <1>6 DEF ShowFinal, Goes
  <2>2. Tame(x) /\ x.at # "showing"
    BY <1>1, <2>1 DEF Tame, Away, Phases, Busy, Working
  <2>3. /\ PagesTame' /\ page'[p].at # "showing"
        /\ \A o \in Pages : o # p => page'[o] = page[o]
    BY <2>1, <2>2, PageStep
  <2>4. RowsTyped' /\ Grown
    BY <2>1, SameRows
  <2>5. Holds(page[p].on, page[p].question) /\ page[p].on \in Conversations /\ page[p].question \in Questions
    BY <1>2, <2>1 DEF Inv, Busy
  <2>6. shown' \subseteq shown \cup {<<page[p].question, page[p].on>>}
    BY <1>6 DEF ShowFinal
  <2>7. /\ shown' \subseteq Questions \X Conversations
        /\ \A s \in shown' : s \in shown \/ Holds(s[2], s[1])
    BY <2>5, <2>6 DEF Inv
  <2>8. QED
    BY <2>1, <2>3, <2>4, <2>7, Kept DEF Inv
<1>7. CASE Finally(p)
  <2>1. page[p].at \in Busy /\ UNCHANGED <<asked, shown>>
    BY <1>7 DEF Finally, Busy, Working
  <2>2. RowsTyped' /\ Grown
    <3>1. CASE page[p].said # <<>> /\ Exists(p)
      BY <1>7, <2>1, <3>1, RecordingGrows DEF Finally
    <3>2. CASE ~(page[p].said # <<>> /\ Exists(p))
      BY <1>7, <3>2, SameRows DEF Finally
    <3>3. QED
      BY <3>1, <3>2
  <2>3. CASE page' = [page EXCEPT ![p] = Closed(p)]
    BY <1>3, <2>1, <2>2, <2>3
  <2>4. CASE page' = [page EXCEPT ![p] = [Finished(p) EXCEPT !.at = "idle", !.question = None]]
    <3> DEFINE x == [Finished(p) EXCEPT !.at = "idle", !.question = None]
    <3>1. Tame(x)
      BY <1>2, <2>1, FinishedIsTame
    <3>2. x.at # "showing"
      BY DEF Finished, Away
    <3>3. /\ PagesTame' /\ page'[p].at # "showing"
          /\ \A o \in Pages : o # p => page'[o] = page[o]
      BY <2>4, <3>1, <3>2, PageStep
    <3>4. QED
      BY <2>1, <2>2, <3>3, Kept DEF Inv
  <2>5. QED
    BY <1>7, <2>3, <2>4 DEF Finally
<1>8. QED
  BY <1>4, <1>5, <1>6, <1>7 DEF Recording

LEMMA ShutdownKeepsInv ==
    ASSUME Inv, Shutdown
    PROVE  Inv'
<1>1. ASSUME NEW p \in Pages
      PROVE  page'[p] \in {Away, Closed(p)} /\ Tame(page'[p]) /\ page'[p].at # "showing"
  <2>1. CASE page[p].at \in {"home", "starting"}
    <3>1. page'[p] = Away
      BY <2>1 DEF Shutdown
    <3>2. QED
      BY <3>1, AwayIsTame DEF Away
  <2>2. CASE page[p].at \notin {"home", "starting"}
    <3>1. page'[p] = Closed(p)
      BY <2>2 DEF Shutdown
    <3>2. page[p].on \in Conversations
      BY <2>2 DEF Inv, PagesTame, Tame, Phases, Busy, Working
    <3>3. QED
      BY <3>1, <3>2, ClosedIsTame
  <2>3. QED
    BY <2>1, <2>2
<1>2. PagesTame'
  BY <1>1 DEF Shutdown, PagesTame
<1>3. RowsTyped' /\ Grown
  BY SameRows DEF Shutdown
<1>4. QED
  BY <1>1, <1>2, <1>3, Kept DEF Shutdown, Inv

LEMMA InitInv ==
    ASSUME Init
    PROVE  Inv
<1>1. /\ conversations = [c \in Conversations |-> None] /\ page = [p \in Pages |-> Away]
      /\ asked = 0 /\ shown = {}
  BY DEF Init, InitWith
<1>2. RowsTyped
  BY <1>1 DEF RowsTyped
<1>3. PagesTame
  BY <1>1, AwayIsTame DEF PagesTame
<1>4. \A p \in Pages : ~At(p, "showing")
  BY <1>1 DEF At, Away
<1>5. QED
  BY <1>1, <1>2, <1>3, <1>4 DEF Inv, ShownAnswersAreRecorded

LEMMA NextKeepsInv ==
    ASSUME Inv, [Next]_vars
    PROVE  Inv'
<1>1. CASE UNCHANGED vars
  <2>1. RowsTyped' /\ Grown
    BY <1>1, SameRows DEF vars
  <2>2. QED
    BY <1>1, <2>1, Kept DEF vars, Inv, At, PagesTame
<1>2. ASSUME NEW p \in Pages, Requests(p) \/ Socket(p) \/ Task(p)
      PROVE  Inv'
  <2>1. CASE Stream(p) \/ Loop(p)
    BY <2>1, StreamIsQuiet, LoopIsQuiet, QuietKeepsInv
  <2>2. QED
    BY <1>2, <2>1, RequestsKeepInv, SocketKeepsInv, RecordingKeepsInv DEF Task
<1>3. CASE Shutdown
  BY <1>3, ShutdownKeepsInv
<1>4. QED
  BY <1>1, <1>2, <1>3 DEF Next
-----------------------------------------------------------------------------
(* Which models a request may go to.                                       *)

(* What the router selects is the local model or one that satisfies.       *)
LEMMA SelectedIsFit ==
    ASSUME NEW ch, NEW needs
    PROVE  /\ Select(ch, needs) \in Models
           /\ Select(ch, needs) = Local \/ Satisfies(ch[Select(ch, needs)], needs)
<1> DEFINE fitting == {i \in DOMAIN Remotes : Satisfies(ch[Remotes[i]], needs)}
           first == FirstRemote(ch, needs)
<1>1. first \in Models /\ (first = Local \/ Satisfies(ch[first], needs))
  <2>1. CASE fitting = {}
    BY <2>1 DEF FirstRemote, Models
  <2>2. CASE fitting # {}
    <3>1. fitting \subseteq Nat
      BY RemotesAssumption
    <3>2. (CHOOSE i \in fitting : \A j \in fitting : i <= j) \in fitting
      BY <2>2, <3>1, LeastIs
    <3>3. QED
      BY <2>2, <3>2 DEF FirstRemote, Models
  <2>3. QED
    BY <2>1, <2>2
<1>2. Named(ch, needs) =>
        needs.preferred \in Models /\ Satisfies(ch[needs.preferred], needs)
  BY DEF Named, Catalogue, AllowedRemotes, Models
<1> HIDE DEF first
<1>3. Select(ch, needs) = IF Named(ch, needs) THEN needs.preferred
                          ELSE IF ~needs.deep /\ Satisfies(ch[Local], needs) THEN Local
                          ELSE first
  BY DEF Select, first
<1>4. Local \in Models
  BY DEF Models
<1>5. QED
  BY <1>1, <1>2, <1>3, <1>4

(* Whoever is asked is the local model or within the trust that is needed. *)
Within(s, limit) == \A m \in Among(s) : m = Local \/ choice[m].trust <= limit

LEMMA AmongJoin ==
    ASSUME NEW s \in Seq(Models), NEW t \in Seq(Models)
    PROVE  s \o t \in Seq(Models) /\ Among(s \o t) = Among(s) \cup Among(t)
<1>1. /\ s \o t \in Seq(Models) /\ DOMAIN (s \o t) = 1..(Len(s) + Len(t))
      /\ DOMAIN s = 1..Len(s) /\ DOMAIN t = 1..Len(t) /\ Len(s) \in Nat /\ Len(t) \in Nat
      /\ \A i \in 1..Len(s) : (s \o t)[i] = s[i]
      /\ \A i \in 1..Len(t) : (s \o t)[Len(s) + i] = t[i]
  OBVIOUS
<1>2. \A i \in 1..(Len(s) + Len(t)) : i \in 1..Len(s) \/ i - Len(s) \in 1..Len(t)
  BY <1>1
<1>3. ASSUME NEW m \in Among(s \o t)
      PROVE  m \in Among(s) \cup Among(t)
  <2>1. PICK i \in 1..(Len(s) + Len(t)) : m = (s \o t)[i]
    BY <1>1, <1>3 DEF Among
  <2>2. CASE i \in 1..Len(s)
    BY <1>1, <2>1, <2>2 DEF Among
  <2>3. CASE i - Len(s) \in 1..Len(t)
    <3>1. (s \o t)[Len(s) + (i - Len(s))] = t[i - Len(s)] /\ Len(s) + (i - Len(s)) = i
      BY <1>1, <2>3
    <3>2. m = t[i - Len(s)]
      BY <2>1, <3>1
    <3>3. QED
      BY <1>1, <2>3, <3>2 DEF Among
  <2>4. QED
    BY <1>2, <2>2, <2>3
<1>4. ASSUME NEW m \in Among(s) \cup Among(t)
      PROVE  m \in Among(s \o t)
  <2>1. CASE m \in Among(s)
    <3>1. PICK i \in 1..Len(s) : m = s[i]
      BY <1>1, <2>1 DEF Among
    <3>2. i \in DOMAIN (s \o t) /\ (s \o t)[i] = m
      BY <1>1, <3>1
    <3>3. QED
      BY <3>2 DEF Among
  <2>2. CASE m \in Among(t)
    <3>1. PICK i \in 1..Len(t) : m = t[i]
      BY <1>1, <2>2 DEF Among
    <3>2. Len(s) + i \in DOMAIN (s \o t) /\ (s \o t)[Len(s) + i] = m
      BY <1>1, <3>1
    <3>3. QED
      BY <3>2 DEF Among
  <2>3. QED
    BY <1>4, <2>1, <2>2
<1>5. QED
  BY <1>1, <1>3, <1>4

LEMMA AmongOne ==
    ASSUME NEW m \in Models
    PROVE  <<m>> \in Seq(Models) /\ Among(<<m>>) = {m}
<1>1. <<m>> \in Seq(Models) /\ DOMAIN <<m>> = {1} /\ <<m>>[1] = m
  OBVIOUS
<1>2. QED
  BY <1>1 DEF Among

LEMMA CandidatesAreWithin ==
    ASSUME NEW needs
    PROVE  Candidates(needs) \in Seq(Models) /\ Within(Candidates(needs), needs.trust)
<1> DEFINE first == Select(choice, needs)
           fit == {m \in Catalogue(choice, needs.trust) : m # first /\ Satisfies(choice[m], needs)}
           all == <<Local>> \o Remotes
           rest == Only(all, fit)
<1>1. first \in Models /\ (first = Local \/ choice[first].trust <= needs.trust)
  BY SelectedIsFit DEF Satisfies
<1>2. \A m \in fit : m = Local \/ choice[m].trust <= needs.trust
  BY DEF Satisfies
<1>3. all \in Seq(Models)
  BY RemotesAssumption, AmongOne, AmongJoin DEF Models
<1>4. Candidates(needs) = <<first>> \o rest
  BY DEF Candidates, Alternatives
<1> HIDE DEF first, fit, all
<1>5. rest \in Seq(Models) /\ Among(rest) \subseteq fit
  BY <1>3, OnlyKeeps
<1> HIDE DEF rest
<1>6. <<first>> \in Seq(Models) /\ Among(<<first>>) = {first}
  BY <1>1, AmongOne
<1>7. <<first>> \o rest \in Seq(Models) /\ Among(<<first>> \o rest) = {first} \cup Among(rest)
  BY <1>5, <1>6, AmongJoin
<1>8. QED
  BY <1>1, <1>2, <1>4, <1>5, <1>7 DEF Within

(* Resting models are asked last and none is left out.                     *)
LEMMA LiveFirstAsksAll ==
    ASSUME NEW s \in Seq(Models), NEW cooling
    PROVE  LiveFirst(s, cooling) \in Seq(Models) /\ Among(LiveFirst(s, cooling)) = Among(s)
<1> DEFINE live == Only(s, Models \ cooling)
           rest == Only(s, cooling)
<1>1. /\ live \in Seq(Models) /\ Among(live) = Among(s) \cap (Models \ cooling)
      /\ rest \in Seq(Models) /\ Among(rest) = Among(s) \cap cooling
  BY OnlyKeeps
<1>2. Among(s) \subseteq Models
  BY DEF Among
<1> HIDE DEF live, rest
<1>3. live \o rest \in Seq(Models) /\ Among(live \o rest) = Among(live) \cup Among(rest)
  BY <1>1, AmongJoin
<1>4. LiveFirst(s, cooling) = live \o rest
  BY DEF LiveFirst, live, rest
<1>5. QED
  BY <1>1, <1>2, <1>3, <1>4

LEMMA AmongTail ==
    ASSUME NEW s \in Seq(Models), Len(s) > 0
    PROVE  /\ Tail(s) \in Seq(Models) /\ Head(s) \in Models /\ Head(s) \in Among(s)
           /\ Among(s) = {Head(s)} \cup Among(Tail(s))
<1>1. /\ Tail(s) \in Seq(Models) /\ Head(s) = s[1] /\ Len(s) \in Nat /\ DOMAIN s = 1..Len(s)
      /\ DOMAIN Tail(s) = 1..(Len(s) - 1)
      /\ \A i \in 1..(Len(s) - 1) : Tail(s)[i] = s[i + 1]
  OBVIOUS
<1>2. Head(s) \in Models /\ Head(s) \in Among(s)
  BY <1>1 DEF Among
<1>3. ASSUME NEW m \in Among(s)
      PROVE  m \in {Head(s)} \cup Among(Tail(s))
  <2>1. PICK i \in 1..Len(s) : m = s[i]
    BY <1>1, <1>3 DEF Among
  <2>2. CASE i = 1
    BY <1>1, <2>1, <2>2
  <2>3. CASE i # 1
    <3>1. i - 1 \in 1..(Len(s) - 1) /\ Tail(s)[i - 1] = s[(i - 1) + 1] /\ (i - 1) + 1 = i
      BY <1>1, <2>3
    <3>2. i - 1 \in DOMAIN Tail(s) /\ Tail(s)[i - 1] = m
      BY <1>1, <2>1, <3>1
    <3>3. QED
      BY <3>2 DEF Among
  <2>4. QED
    BY <2>2, <2>3
<1>4. ASSUME NEW m \in Among(Tail(s))
      PROVE  m \in Among(s)
  <2>1. PICK i \in 1..(Len(s) - 1) : m = Tail(s)[i]
    BY <1>1, <1>4 DEF Among
  <2>2. i + 1 \in DOMAIN s /\ s[i + 1] = m
    BY <1>1, <2>1
  <2>3. QED
    BY <2>2 DEF Among
<1>5. QED
  BY <1>1, <1>2, <1>3, <1>4
-----------------------------------------------------------------------------
(* What holds of a page whatever it does: its bounds, whom it may ask and  *)
(* whom it asked.                                                          *)

Tooling == {"calling", "expanding", "between"}
Talking == {"stepping", "streaming"} \cup Tooling

Limit(x) == IF x.document THEN 0 ELSE MaxTrust[policy]

NeedsOf(x) ==
    [deep |-> TRUE, tools |-> x.agentic, context |-> IF x.agentic THEN AgenticContext ELSE 0,
     out |-> 0, trust |-> x.trust, preferred |-> x.preferred]

(* Only the step after the last is past the bound, and in it no tool runs. *)
Bounded(p, x) ==
    /\ x.cooling \subseteq Models /\ x.queue \in Seq(Models)
    /\ x.on \in Conversations \cup {None}
    /\ x.agentic \in BOOLEAN /\ x.document \in BOOLEAN /\ x.refused \in BOOLEAN
    /\ x.step \in 0..(MaxSteps[p] + 1) /\ x.calls \in 0..MaxCalls

Paced(p, x) ==
    /\ x.at = "stepping" => x.step <= MaxSteps[p] /\ (x.agentic => x.step < MaxSteps[p])
    /\ x.at = "streaming" /\ x.agentic => x.step <= MaxSteps[p]
    /\ x.at \in Tooling => x.step < MaxSteps[p] /\ x.calls >= 1

(* The trust was fixed when the question was asked.                        *)
Trusted(x) ==
    /\ x.at \in Talking => x.trust = Limit(x)
    /\ x.at \in {"streaming", "expanding"} => Within(x.queue, x.trust)

Tireless(x) ==
    /\ x.at = "streaming" => Among(Candidates(NeedsOf(x))) \subseteq x.tried \cup Among(x.queue)
    /\ x.refused => x.at = "recording" /\ Among(Candidates(NeedsOf(x))) \subseteq x.tried

Sound(p, x) == Bounded(p, x) /\ Paced(p, x) /\ Trusted(x) /\ Tireless(x)

PagesSound == \A p \in Pages : Sound(p, page[p])

LEMMA RequirementsAre ==
    ASSUME NEW p, page[p].agentic \in BOOLEAN
    PROVE  Requirements(p) = NeedsOf(page[p])
<1>1. CASE page[p].agentic
  BY <1>1 DEF Requirements, WithToolCalling, PlainNeeds, NeedsOf
<1>2. CASE ~page[p].agentic
  BY <1>2 DEF Requirements, PlainNeeds, NeedsOf
<1>3. QED
  BY <1>1, <1>2

(* A page that talks to no model and was not refused needs no more than    *)
(* its bounds.                                                             *)
LEMMA SilentIsSound ==
    ASSUME NEW p, NEW x, Bounded(p, x), x.at \notin Talking, x.refused = FALSE
    PROVE  Sound(p, x)
  BY DEF Sound, Paced, Trusted, Tireless, Talking, Tooling

LEMMA SoundAfter ==
    ASSUME \A o \in Pages : Sound(o, page'[o]), UNCHANGED given
    PROVE  PagesSound'
<1>1. \A o \in Pages : Sound(o, page[o])'
  <2> TAKE o \in Pages
  <2>1. Sound(o, page'[o])
    OBVIOUS
  <2>2. Trusted(page[o])'
    BY <2>1 DEF Sound, Trusted, Limit, Within, given
  <2>3. Tireless(page[o])'
    BY <2>1 DEF Sound, Tireless, Candidates, given
  <2>4. QED
    BY <2>1, <2>2, <2>3 DEF Sound, Bounded, Paced
<1>2. QED
  BY <1>1 DEF PagesSound

LEMMA SoundStep ==
    ASSUME Inv, PagesSound, NEW p \in Pages, NEW x, Sound(p, x),
           page' = [page EXCEPT ![p] = x], UNCHANGED given
    PROVE  PagesSound'
<1>1. \A o \in Pages : Sound(o, page'[o])
  BY DEF Inv, PagesTame, PagesSound
<1>2. QED
  BY <1>1, SoundAfter

LEMMA AwayIsSound ==
    ASSUME NEW p \in Pages
    PROVE  Sound(p, Away)
<1>1. Bounded(p, Away)
  <2>1. <<>> \in Seq(Models) /\ MaxSteps[p] \in Nat /\ MaxCalls \in Nat
    BY ChatAssumption
  <2>2. QED
    BY <2>1 DEF Bounded, Away
<1>2. QED
  BY <1>1, SilentIsSound DEF Away, Talking, Tooling

LEMMA ClosedIsSound ==
    ASSUME NEW p \in Pages, Sound(p, page[p])
    PROVE  Sound(p, Closed(p))
<1>1. Bounded(p, Away) /\ Bounded(p, page[p])
  BY AwayIsSound DEF Sound
<1>2. Bounded(p, Closed(p)) /\ Closed(p).at = "open" /\ Closed(p).refused = FALSE
  BY <1>1 DEF Bounded, Closed, Away
<1>3. QED
  BY <1>2, SilentIsSound DEF Talking, Tooling

LEMMA FinishedIsSound ==
    ASSUME NEW p \in Pages, Sound(p, page[p])
    PROVE  /\ Sound(p, [Finished(p) EXCEPT !.at = "showing"])
           /\ Sound(p, [Finished(p) EXCEPT !.at = "idle", !.question = None])
<1>1. Bounded(p, Away) /\ Bounded(p, page[p])
  BY AwayIsSound DEF Sound
<1> DEFINE x == [Finished(p) EXCEPT !.at = "showing"]
           y == [Finished(p) EXCEPT !.at = "idle", !.question = None]
<1>2. Bounded(p, x) /\ x.at = "showing" /\ x.refused = FALSE
  BY <1>1 DEF Bounded, Finished, Away
<1>3. Bounded(p, y) /\ y.at = "idle" /\ y.refused = FALSE
  BY <1>1 DEF Bounded, Finished, Away
<1> HIDE DEF x, y
<1>4. Sound(p, x) /\ Sound(p, y)
  BY <1>2, <1>3, SilentIsSound DEF Talking, Tooling
<1>5. QED
  BY <1>4 DEF x, y

(* The stream over, the page is bounded as before.                         *)
LEMMA OverIsBounded ==
    ASSUME NEW p \in Pages, Tame(page[p]), Sound(p, page[p]), page[p].at # "recording"
    PROVE  /\ Bounded(p, Over(p)) /\ Over(p).refused = FALSE /\ page[p].refused = FALSE
           /\ DOMAIN Over(p) = DOMAIN Away
           /\ Over(p).at = page[p].at /\ Over(p).step = page[p].step
           /\ Over(p).agentic = page[p].agentic /\ Over(p).calls = page[p].calls
           /\ Over(p).trust = page[p].trust /\ Over(p).document = page[p].document

<1>1. <<>> \in Seq(Models)
  OBVIOUS
<1>2. page[p].refused = FALSE
  BY DEF Sound, Tireless
<1>3. QED
  BY <1>1, <1>2 DEF Over, Bounded, Sound, Tame, Away

(* A page that is cut off, or sends on, is as sound as what it does.       *)
LEMMA NotesAreSound ==
    ASSUME Inv, PagesSound, NEW p \in Pages, NEW new, Notes(p, new), UNCHANGED given,
           DOMAIN new = DOMAIN Away, Sound(p, new), new.refused = FALSE
    PROVE  PagesSound'
<1> DEFINE x == [new EXCEPT !.at = IF page[p].reader THEN @ ELSE "finishing"]
<1>1. page' = [page EXCEPT ![p] = x]
  BY DEF Notes
<1>2. CASE page[p].reader
  <2>1. x = [new EXCEPT !.at = new.at]
    BY <1>2
  <2>2. Sound(p, x)
    BY <2>1 DEF Sound, Bounded, Paced, Trusted, Limit, Tireless, NeedsOf, Away
  <2>3. QED
    BY <1>1, <2>2, SoundStep
<1>3. CASE ~page[p].reader
  <2>1. x = [new EXCEPT !.at = "finishing"]
    BY <1>3
  <2>2. Bounded(p, x) /\ x.at = "finishing" /\ x.refused = FALSE
    BY <2>1 DEF Sound, Bounded, Away
  <2>3. Sound(p, x)
    BY <2>2, SilentIsSound DEF Talking, Tooling
  <2>4. QED
    BY <1>1, <2>3, SoundStep
<1>4. QED
  BY <1>2, <1>3

LEMMA YieldsAreSound ==
    ASSUME Inv, PagesSound, NEW p \in Pages, NEW event, NEW new, Yields(p, event, new),
           UNCHANGED given, DOMAIN new = DOMAIN Away, Sound(p, new), new.refused = FALSE
    PROVE  PagesSound'
<1> DEFINE x == [new EXCEPT !.said = Append(@, event),
                            !.at = IF page[p].reader THEN @ ELSE "finishing"]
           more == Append(new.said, event)
<1>1. page' = [page EXCEPT ![p] = x]
  BY DEF Yields
<1>2. CASE page[p].reader
  <2>1. x = [new EXCEPT !.said = more, !.at = new.at]
    BY <1>2
  <2> HIDE DEF more
  <2>2. Sound(p, x)
    BY <2>1 DEF Sound, Bounded, Paced, Trusted, Limit, Tireless, NeedsOf, Away
  <2>3. QED
    BY <1>1, <2>2, SoundStep
<1>3. CASE ~page[p].reader
  <2>1. x = [new EXCEPT !.said = more, !.at = "finishing"]
    BY <1>3
  <2> HIDE DEF more
  <2>2. Bounded(p, x) /\ x.at = "finishing" /\ x.refused = FALSE
    BY <2>1 DEF Sound, Bounded, Away
  <2>3. Sound(p, x)
    BY <2>2, SilentIsSound DEF Talking, Tooling
  <2>4. QED
    BY <1>1, <2>3, SoundStep
<1>4. QED
  BY <1>2, <1>3

LEMMA ConcludesIsSound ==
    ASSUME Inv, PagesSound, NEW p \in Pages, NEW event, Concludes(p, event), UNCHANGED given,
           page[p].at # "recording"
    PROVE  PagesSound'
<1> DEFINE more == Append(Over(p).said, event)
           x == [Over(p) EXCEPT !.at = "recording", !.said = more]
<1>1. Tame(page[p]) /\ Sound(p, page[p])
  BY DEF Inv, PagesTame, PagesSound
<1>2. Bounded(p, Over(p)) /\ Over(p).refused = FALSE /\ DOMAIN Over(p) = DOMAIN Away
  BY <1>1, OverIsBounded
<1>3. page' = [page EXCEPT ![p] = x]
  BY DEF Concludes
<1> HIDE DEF more
<1>4. Bounded(p, x) /\ x.at = "recording" /\ x.refused = FALSE
  BY <1>2 DEF Bounded, Away
<1>5. QED
  BY <1>3, <1>4, SilentIsSound, SoundStep DEF Talking, Tooling

(* The stream.                                                             *)
LEMMA StreamIsSound ==
    ASSUME Inv, PagesSound, NEW p \in Pages, Stream(p), UNCHANGED given
    PROVE  PagesSound'
<1> USE DEF At
<1>1. Tame(page[p]) /\ Sound(p, page[p]) /\ MaxSteps[p] \in Nat \ {0}
  BY ChatAssumption DEF Inv, PagesTame, PagesSound
<1>2. ASSUME page[p].at # "recording"
      PROVE  /\ Bounded(p, Over(p)) /\ Over(p).refused = FALSE /\ page[p].refused = FALSE
             /\ DOMAIN Over(p) = DOMAIN Away /\ Over(p).step = page[p].step
             /\ Over(p).trust = page[p].trust /\ Over(p).document = page[p].document
             /\ Over(p).agentic = page[p].agentic
  BY <1>1, <1>2, OverIsBounded
<1>3. CASE NextStep(p)
  <2>1. PICK resting \in SUBSET page[p].cooling :
          Quietly(p, [page[p] EXCEPT !.at = "streaming", !.step = @ + 1, !.cooling = resting,
                        !.queue = LiveFirst(Candidates(Requirements(p)), resting)])
    BY <1>3 DEF NextStep
  <2> DEFINE needs == NeedsOf(page[p])
             asking == LiveFirst(Candidates(needs), resting)
             x == [page[p] EXCEPT !.at = "streaming", !.step = @ + 1, !.cooling = resting,
                                  !.queue = asking]
  <2>2. page[p].at = "stepping" /\ Requirements(p) = needs /\ needs.trust = page[p].trust
    BY <1>1, <1>3, RequirementsAre DEF NextStep, Sound, Bounded, NeedsOf
  <2>3. Candidates(needs) \in Seq(Models) /\ Within(Candidates(needs), page[p].trust)
    BY <2>2, CandidatesAreWithin
  <2>4. asking \in Seq(Models) /\ Among(asking) = Among(Candidates(needs))
    BY <2>3, LiveFirstAsksAll
  <2>5. page' = [page EXCEPT ![p] = x]
    BY <2>1, <2>2 DEF Quietly
  <2> HIDE DEF asking, needs
  <2>6. /\ x.at = "streaming" /\ x.step = page[p].step + 1 /\ x.cooling = resting
        /\ x.queue = asking /\ x.trust = page[p].trust /\ x.document = page[p].document
        /\ x.agentic = page[p].agentic /\ x.refused = page[p].refused /\ x.on = page[p].on
        /\ x.calls = page[p].calls /\ x.preferred = page[p].preferred
    BY <1>1 DEF Tame, Away
  <2> HIDE DEF x
  <2>7. NeedsOf(x) = needs
    BY <2>6 DEF NeedsOf, needs
  <2>8. Bounded(p, x) /\ Paced(p, x)
    BY <1>1, <2>2, <2>4, <2>6 DEF Sound, Bounded, Paced, Tooling
  <2>9. Trusted(x)
    BY <1>1, <2>2, <2>3, <2>4, <2>6 DEF Sound, Trusted, Within, Limit, Talking
  <2>10. Tireless(x)
    BY <1>1, <2>2, <2>4, <2>6, <2>7 DEF Sound, Tireless
  <2>11. QED
    BY <2>5, <2>8, <2>9, <2>10, SoundStep DEF Sound
<1>4. CASE Unread(p)
  <2> DEFINE x == [Over(p) EXCEPT !.at = "finishing"]
  <2>1. page' = [page EXCEPT ![p] = x]
    BY <1>4 DEF Unread, Quietly
  <2>2. Bounded(p, x) /\ x.at = "finishing" /\ x.refused = FALSE
    BY <1>2, <1>4 DEF Unread, Bounded, Away
  <2>3. QED
    BY <2>1, <2>2, SilentIsSound, SoundStep DEF Talking, Tooling
<1>5. CASE Replace(p)
  <2> DEFINE left == Tail(page[p].queue)
             one == Asking(p)
             x == [page[p] EXCEPT !.cooling = @ \cup {one}, !.queue = left, !.tried = @ \cup {one}]
  <2>1. page[p].at = "streaming" /\ Notes(p, x) /\ page[p].queue \in Seq(Models) /\ Len(page[p].queue) > 1
    BY <1>1, <1>5 DEF Replace, Sound, Bounded
  <2>2. left \in Seq(Models) /\ one \in Models /\ Among(page[p].queue) = {one} \cup Among(left)
    BY <2>1, AmongTail DEF Asking
  <2> HIDE DEF left, one
  <2>3. /\ x.at = "streaming" /\ x.step = page[p].step /\ x.cooling = page[p].cooling \cup {one}
        /\ x.queue = left /\ x.trust = page[p].trust /\ x.document = page[p].document
        /\ x.agentic = page[p].agentic /\ x.refused = page[p].refused /\ x.on = page[p].on
        /\ x.calls = page[p].calls /\ x.preferred = page[p].preferred
        /\ x.tried = page[p].tried \cup {one} /\ DOMAIN x = DOMAIN Away
    BY <1>1, <2>1 DEF Tame, Away
  <2>4. Notes(p, x)
    BY <2>1
  <2> HIDE DEF x
  <2>5. NeedsOf(x) = NeedsOf(page[p])
    BY <2>3 DEF NeedsOf
  <2>6. Bounded(p, x) /\ Paced(p, x)
    BY <1>1, <2>1, <2>2, <2>3 DEF Sound, Bounded, Paced, Tooling
  <2>7. Trusted(x)
    BY <1>1, <2>1, <2>2, <2>3 DEF Sound, Trusted, Within, Limit, Talking
  <2>8. Tireless(x) /\ x.refused = FALSE
    BY <1>1, <1>2, <2>1, <2>2, <2>3, <2>5 DEF Sound, Tireless
  <2>9. QED
    BY <2>3, <2>4, <2>6, <2>7, <2>8, NotesAreSound DEF Sound
<1>6. CASE GiveUp(p)
  <2> DEFINE last == Among(page[p].queue)
             more == Append(page[p].said, "failure")
             x == [page[p] EXCEPT !.at = "recording", !.said = more,
                     !.queue = <<>>, !.refused = TRUE,
                     !.tried = @ \cup last, !.cooling = @ \cup last]
  <2>1. page[p].at = "streaming" /\ page' = [page EXCEPT ![p] = x]
    BY <1>6 DEF GiveUp
  <2>2. last \subseteq Models
    BY <1>1 DEF Sound, Bounded, Among
  <2> HIDE DEF last, more
  <2>3. /\ x.at = "recording" /\ x.step = page[p].step /\ x.cooling = page[p].cooling \cup last
        /\ x.queue = <<>> /\ x.trust = page[p].trust /\ x.document = page[p].document
        /\ x.agentic = page[p].agentic /\ x.refused = TRUE /\ x.on = page[p].on
        /\ x.calls = page[p].calls /\ x.preferred = page[p].preferred
        /\ x.tried = page[p].tried \cup last
    BY <1>1 DEF Tame, Away
  <2> HIDE DEF x
  <2>4. NeedsOf(x) = NeedsOf(page[p])
    BY <2>3 DEF NeedsOf
  <2>5. Bounded(p, x) /\ Paced(p, x)
    <3>1. <<>> \in Seq(Models)
      OBVIOUS
    <3>2. QED
      BY <1>1, <2>2, <2>3, <3>1 DEF Sound, Bounded, Paced, Tooling
  <2>6. Trusted(x)
    BY <2>3 DEF Trusted, Talking, Tooling
  <2>7. Tireless(x)
    BY <1>1, <2>1, <2>3, <2>4 DEF Sound, Tireless, last
  <2>8. QED
    BY <2>1, <2>5, <2>6, <2>7, SoundStep DEF Sound
<1>7. CASE BreakOff(p)
  BY <1>7, ConcludesIsSound DEF BreakOff
<1>8. CASE Overflow(p)
  <2> DEFINE x == [Over(p) EXCEPT !.at = "stepping", !.agentic = FALSE]
  <2>1. CASE page[p].agentic /\ Notes(p, x)
    <3>1. page[p].at = "streaming" /\ page[p].step <= MaxSteps[p]
      BY <1>1, <1>8, <2>1 DEF Overflow, Sound, Paced
    <3>2. /\ x.at = "stepping" /\ x.step = page[p].step /\ x.agentic = FALSE
          /\ x.trust = page[p].trust /\ x.document = page[p].document
          /\ x.refused = FALSE /\ DOMAIN x = DOMAIN Away /\ Bounded(p, x)
      BY <1>2, <3>1 DEF Bounded, Away
    <3>3. Notes(p, x)
      BY <2>1
    <3> HIDE DEF x
    <3>4. Paced(p, x)
      BY <3>1, <3>2 DEF Paced, Tooling
    <3>5. Trusted(x)
      BY <1>1, <3>1, <3>2 DEF Sound, Trusted, Limit, Talking
    <3>6. Tireless(x)
      BY <3>2 DEF Tireless
    <3>7. QED
      BY <3>2, <3>3, <3>4, <3>5, <3>6, NotesAreSound DEF Sound
  <2>2. CASE Concludes(p, "failure")
    BY <1>8, <2>2, ConcludesIsSound DEF Overflow
  <2>3. QED
    BY <1>8, <2>1, <2>2 DEF Overflow
<1>9. QED
  BY <1>3, <1>4, <1>5, <1>6, <1>7, <1>8 DEF Stream

(* The loop.                                                               *)
LEMMA LoopIsSound ==
    ASSUME Inv, PagesSound, NEW p \in Pages, Loop(p), UNCHANGED given
    PROVE  PagesSound'
<1> USE DEF At
<1>1. Tame(page[p]) /\ Sound(p, page[p]) /\ MaxSteps[p] \in Nat \ {0} /\ MaxCalls \in Nat
  BY ChatAssumption DEF Inv, PagesTame, PagesSound
<1>2. page[p].at \in {"streaming", "calling", "expanding", "between"}
  BY DEF Loop, Answer, AskToLookUp, CallTools, Expand, Result, NextCall
<1>3. /\ Bounded(p, Over(p)) /\ Over(p).refused = FALSE /\ page[p].refused = FALSE
      /\ DOMAIN Over(p) = DOMAIN Away /\ Over(p).step = page[p].step
      /\ Over(p).trust = page[p].trust /\ Over(p).document = page[p].document
      /\ Over(p).agentic = page[p].agentic /\ Over(p).calls = page[p].calls
  BY <1>1, <1>2, OverIsBounded
<1>4. ASSUME NEW x, DOMAIN x = DOMAIN Away, Bounded(p, x), x.refused = FALSE,
             x.trust = page[p].trust, x.document = page[p].document,
             x.at \in {"stepping", "calling", "between"},
             x.step < MaxSteps[p], x.at # "stepping" => x.calls >= 1
      PROVE  Sound(p, x)
  <2>1. Paced(p, x)
    BY <1>1, <1>4 DEF Bounded, Paced, Tooling
  <2>2. Trusted(x)
    BY <1>1, <1>2, <1>4 DEF Sound, Trusted, Limit, Talking, Tooling
  <2>3. QED
    BY <1>4, <2>1, <2>2 DEF Sound, Tireless
<1>5. CASE Answer(p)
  BY <1>2, <1>5, ConcludesIsSound DEF Answer
<1>6. ASSUME page[p].at = "streaming", page[p].agentic, ~IsLast(p)
      PROVE  page[p].step < MaxSteps[p]
  BY <1>1, <1>6 DEF IsLast, Sound, Bounded, Paced
<1>7. CASE AskToLookUp(p)
  <2> DEFINE x == [Over(p) EXCEPT !.at = "stepping", !.nudged = TRUE]
  <2>1. page[p].step < MaxSteps[p] /\ Notes(p, x)
    BY <1>6, <1>7 DEF AskToLookUp
  <2>2. /\ DOMAIN x = DOMAIN Away /\ Bounded(p, x) /\ x.refused = FALSE /\ x.step = page[p].step
        /\ x.trust = page[p].trust /\ x.document = page[p].document /\ x.at = "stepping"
    BY <1>3 DEF Bounded, Away
  <2> HIDE DEF x
  <2>3. Sound(p, x)
    BY <1>4, <2>1, <2>2
  <2>4. QED
    BY <2>1, <2>2, <2>3, NotesAreSound
<1>8. CASE CallTools(p)
  <2>1. PICK n \in 1..MaxCalls : Yields(p, "call", [Over(p) EXCEPT !.at = "calling", !.calls = n])
    BY <1>8 DEF CallTools
  <2> DEFINE x == [Over(p) EXCEPT !.at = "calling", !.calls = n]
  <2>2. page[p].step < MaxSteps[p] /\ Yields(p, "call", x)
    BY <1>6, <1>8, <2>1 DEF CallTools
  <2>3. /\ DOMAIN x = DOMAIN Away /\ Bounded(p, x) /\ x.refused = FALSE /\ x.step = page[p].step
        /\ x.trust = page[p].trust /\ x.document = page[p].document /\ x.at = "calling"
        /\ x.calls >= 1
    BY <1>1, <1>3 DEF Bounded, Away
  <2> HIDE DEF x
  <2>4. Sound(p, x)
    BY <1>4, <2>2, <2>3
  <2>5. QED
    BY <2>2, <2>3, <2>4, YieldsAreSound
<1>9. CASE Expand(p)
  <2> DEFINE m == Select(choice, PlainNeeds(p))
             x == [page[p] EXCEPT !.at = "expanding", !.queue = <<m>>]
  <2>1. page[p].at = "calling" /\ page' = [page EXCEPT ![p] = x]
    BY <1>9 DEF Expand, Quietly
  <2>2. m \in Models /\ (m = Local \/ choice[m].trust <= page[p].trust)
    BY SelectedIsFit DEF Satisfies, PlainNeeds
  <2> HIDE DEF m
  <2>3. <<m>> \in Seq(Models) /\ Within(<<m>>, page[p].trust)
    BY <2>2, AmongOne DEF Within
  <2>4. /\ x.at = "expanding" /\ x.step = page[p].step /\ x.cooling = page[p].cooling
        /\ x.queue = <<m>> /\ x.trust = page[p].trust /\ x.document = page[p].document
        /\ x.agentic = page[p].agentic /\ x.refused = page[p].refused /\ x.on = page[p].on
        /\ x.calls = page[p].calls
    BY <1>1 DEF Tame, Away
  <2> HIDE DEF x
  <2>5. Bounded(p, x) /\ Paced(p, x)
    BY <1>1, <2>1, <2>3, <2>4 DEF Sound, Bounded, Paced, Tooling
  <2>6. Trusted(x)
    BY <1>1, <2>1, <2>3, <2>4 DEF Sound, Trusted, Limit, Talking, Tooling
  <2>7. Tireless(x)
    BY <1>3, <2>4 DEF Tireless
  <2>8. QED
    BY <2>1, <2>5, <2>6, <2>7, SoundStep DEF Sound
<1>10. CASE Result(p)
  <2> DEFINE next == IF page[p].calls = 1 THEN "stepping" ELSE "between"
             x == [Over(p) EXCEPT !.calls = @ - 1, !.at = next]
  <2>1. page[p].step < MaxSteps[p] /\ page[p].calls \in 1..MaxCalls
    BY <1>1, <1>10 DEF Result, Sound, Bounded, Paced, Tooling
  <2>2. Yields(p, "result", x)
    BY <1>10 DEF Result
  <2>3. next \in {"stepping", "between"} /\ (next # "stepping" => page[p].calls - 1 >= 1)
    BY <2>1
  <2> HIDE DEF next
  <2>4. /\ DOMAIN x = DOMAIN Away /\ x.refused = FALSE /\ x.step = page[p].step
        /\ x.trust = page[p].trust /\ x.document = page[p].document /\ x.at = next
        /\ x.calls = page[p].calls - 1 /\ x.cooling = Over(p).cooling /\ x.queue = Over(p).queue
        /\ x.on = Over(p).on /\ x.agentic = Over(p).agentic
    BY <1>3 DEF Away
  <2> HIDE DEF x
  <2>5. Bounded(p, x)
    <3>1. x.calls \in 0..MaxCalls
      BY <1>1, <2>1, <2>4
    <3>2. x.step \in 0..(MaxSteps[p] + 1) /\ x.refused \in BOOLEAN
      BY <1>3, <2>4 DEF Bounded
    <3>3. QED
      BY <1>3, <2>4, <3>1, <3>2 DEF Bounded
  <2>6. Sound(p, x)
    BY <1>4, <2>1, <2>3, <2>4, <2>5
  <2>7. QED
    BY <2>2, <2>4, <2>6, YieldsAreSound
<1>11. CASE NextCall(p)
  <2> DEFINE x == [page[p] EXCEPT !.at = "calling"]
  <2>1. page[p].step < MaxSteps[p] /\ page[p].calls >= 1
    BY <1>1, <1>11 DEF NextCall, Sound, Paced, Tooling
  <2>2. /\ DOMAIN x = DOMAIN Away /\ Bounded(p, x) /\ x.refused = FALSE /\ x.step = page[p].step
        /\ x.trust = page[p].trust /\ x.document = page[p].document /\ x.at = "calling"
        /\ x.calls = page[p].calls
    BY <1>1, <1>3 DEF Sound, Bounded, Tame, Away
  <2>3. Yields(p, "call", x)
    BY <1>11 DEF NextCall
  <2> HIDE DEF x
  <2>4. Sound(p, x)
    BY <1>4, <2>1, <2>2
  <2>5. QED
    BY <2>2, <2>3, <2>4, YieldsAreSound
<1>12. QED
  BY <1>5, <1>7, <1>8, <1>9, <1>10, <1>11 DEF Loop

(* Requests and sockets.                                                   *)
LEMMA RequestsAreSound ==
    ASSUME Inv, PagesSound, NEW p \in Pages, Requests(p), UNCHANGED given
    PROVE  PagesSound'
<1> USE DEF At
<1>1. Tame(page[p]) /\ Sound(p, page[p])
  BY DEF Inv, PagesTame, PagesSound
<1>2. ASSUME NEW c \in Conversations, page' = [page EXCEPT ![p].at = "open", ![p].on = c],
             page[p].at # "recording"
      PROVE  PagesSound'
  <2> DEFINE x == [page[p] EXCEPT !.at = "open", !.on = c]
  <2>1. page' = [page EXCEPT ![p] = x]
    BY <1>2
  <2>2. Bounded(p, x) /\ x.at = "open" /\ x.refused = FALSE
    BY <1>1, <1>2 DEF Sound, Bounded, Tireless, Tame, Away
  <2>3. QED
    BY <2>1, <2>2, SilentIsSound, SoundStep DEF Talking, Tooling
<1>3. CASE FindEmpty(p)
  <2>1. CASE Goes(p, "starting")
    <3> DEFINE x == [page[p] EXCEPT !.at = "starting"]
    <3>1. page' = [page EXCEPT ![p] = x]
      BY <2>1 DEF Goes
    <3>2. Bounded(p, x) /\ x.at = "starting" /\ x.refused = FALSE
      BY <1>1, <1>3 DEF FindEmpty, Sound, Bounded, Tireless, Tame, Away
    <3>3. QED
      BY <3>1, <3>2, SilentIsSound, SoundStep DEF Talking, Tooling
  <2>2. CASE \E c \in Empties(p) : page' = [page EXCEPT ![p].at = "open", ![p].on = c]
    BY <1>2, <1>3, <2>2, RowOf DEF FindEmpty, Empties
  <2>3. QED
    BY <1>3, <2>1, <2>2 DEF FindEmpty
<1>4. CASE StartConversation(p)
  BY <1>2, <1>4 DEF StartConversation
<1>5. CASE OpenListed(p)
  BY <1>2, <1>5, RowOf DEF OpenListed
<1>6. ASSUME UNCHANGED page
      PROVE  PagesSound'
  BY <1>6, SoundAfter DEF PagesSound
<1>7. CASE AttachDocument(p) \/ DetachDocument(p) \/ DeleteConversation(p)
  BY <1>6, <1>7 DEF AttachDocument, DetachDocument, DeleteConversation, Changes
<1>8. QED
  BY <1>3, <1>4, <1>5, <1>7 DEF Requests

LEMMA SocketIsSound ==
    ASSUME Inv, PagesSound, NEW p \in Pages, Socket(p), UNCHANGED given
    PROVE  PagesSound'
<1> USE DEF At
<1>1. Tame(page[p]) /\ Sound(p, page[p]) /\ Sound(p, Away) /\ MaxSteps[p] \in Nat \ {0}
  BY AwayIsSound, ChatAssumption DEF Inv, PagesTame, PagesSound
<1>2. CASE Connect(p)
  <2> DEFINE x == [Away EXCEPT !.at = "idle", !.on = page[p].on, !.reader = TRUE]
  <2>1. page' = [page EXCEPT ![p] = x]
    BY <1>2 DEF Connect
  <2>2. Bounded(p, x) /\ x.at = "idle" /\ x.refused = FALSE
    BY <1>1 DEF Sound, Bounded, Away
  <2>3. QED
    BY <2>1, <2>2, SilentIsSound, SoundStep DEF Talking, Tooling
<1>3. CASE Leave(p)
  <2> DEFINE x == [page[p] EXCEPT !.reader = FALSE]
  <2>1. page' = [page EXCEPT ![p] = x]
    BY <1>3 DEF Leave
  <2>2. Sound(p, x)
    BY <1>1 DEF Sound, Bounded, Paced, Trusted, Limit, Tireless, NeedsOf, Tame, Away
  <2>3. QED
    BY <2>1, <2>2, SoundStep
<1>4. CASE Disconnect(p)
  BY <1>1, <1>4, ClosedIsSound, SoundStep DEF Disconnect
<1>5. CASE Ask(p) /\ ~(Exists(p) /\ EnsureOwn(Row(p), TenantOf[p]))
  BY <1>1, <1>5, SoundStep DEF Ask
<1>6. CASE Ask(p) /\ Exists(p) /\ EnsureOwn(Row(p), TenantOf[p])
  <2> DEFINE x == [page[p] EXCEPT
                     !.at = "stepping", !.question = asked', !.agentic = ToolsAtAll,
                     !.trust = AllowedTrust(Row(p)), !.document = Row(p).document,
                     !.preferred = Row(p).preferred, !.step = 0, !.nudged = FALSE]
             tools == ToolsAtAll
  <2>1. page' = [page EXCEPT ![p] = x] /\ page[p].at = "idle"
    BY <1>6 DEF Ask
  <2>2. Row(p) \in ConversationOf
    BY <1>6, RowOf DEF Exists, Row
  <2>3. Row(p).document \in BOOLEAN /\ tools \in BOOLEAN
    BY <2>2 DEF ConversationOf, ToolsAtAll, SupportsToolCalling
  <2> HIDE DEF tools
  <2>4. /\ x.at = "stepping" /\ x.agentic = tools /\ x.trust = AllowedTrust(Row(p))
        /\ x.document = Row(p).document /\ x.step = 0 /\ x.refused = page[p].refused
        /\ x.cooling = page[p].cooling /\ x.queue = page[p].queue /\ x.on = page[p].on
        /\ x.calls = page[p].calls
    BY <1>1 DEF Tame, Away, tools
  <2> HIDE DEF x
  <2>5. Bounded(p, x) /\ Paced(p, x)
    BY <1>1, <2>3, <2>4 DEF Sound, Bounded, Paced, Tooling
  <2>6. Trusted(x)
    BY <2>4 DEF Trusted, Limit, AllowedTrust
  <2>7. Tireless(x)
    BY <1>1, <2>1, <2>4 DEF Sound, Bounded, Tireless
  <2>8. QED
    BY <2>1, <2>5, <2>6, <2>7, SoundStep DEF Sound
<1>7. QED
  BY <1>2, <1>3, <1>4, <1>5, <1>6 DEF Socket

LEMMA RecordingIsSound ==
    ASSUME Inv, PagesSound, NEW p \in Pages, Recording(p), UNCHANGED given
    PROVE  PagesSound'
<1> USE DEF At
<1>1. Tame(page[p]) /\ Sound(p, page[p])
  BY DEF Inv, PagesTame, PagesSound
<1>2. CASE RecordFinal(p)
  BY <1>1, <1>2, ClosedIsSound, FinishedIsSound, SoundStep DEF RecordFinal
<1>3. CASE ShowFinal(p)
  <2> DEFINE x == [page[p] EXCEPT !.at = "finishing"]
  <2>1. page' = [page EXCEPT ![p] = x]
    BY <1>3 DEF ShowFinal, Goes
  <2>2. Bounded(p, x) /\ x.at = "finishing" /\ x.refused = FALSE
    BY <1>1, <1>3 DEF ShowFinal, Sound, Bounded, Tireless, Tame, Away
  <2>3. QED
    BY <2>1, <2>2, SilentIsSound, SoundStep DEF Talking, Tooling
<1>4. CASE Finally(p)
  <2>1. CASE page' = [page EXCEPT ![p] = Closed(p)]
    BY <1>1, <2>1, ClosedIsSound, SoundStep
  <2>2. CASE page' = [page EXCEPT ![p] = [Finished(p) EXCEPT !.at = "idle", !.question = None]]
    BY <1>1, <2>2, FinishedIsSound, SoundStep
  <2>3. QED
    BY <1>4, <2>1, <2>2 DEF Finally
<1>5. QED
  BY <1>2, <1>3, <1>4 DEF Recording

LEMMA NextIsSound ==
    ASSUME Inv, PagesSound, [Next]_vars
    PROVE  PagesSound'
<1>1. UNCHANGED given
  <2>1. ASSUME NEW p \in Pages, Stream(p) \/ Loop(p)
        PROVE  UNCHANGED given
    BY <2>1 DEF Stream, Loop, NextStep, Unread, Replace, GiveUp, BreakOff, Overflow, Answer,
         AskToLookUp, CallTools, Expand, Result, NextCall, Quietly, Notes, Yields, Concludes
  <2>2. ASSUME NEW p \in Pages, Recording(p) \/ Requests(p) \/ Socket(p)
        PROVE  UNCHANGED given
    BY <2>2 DEF Recording, RecordFinal, ShowFinal, Finally, Requests, FindEmpty,
         StartConversation, OpenListed, AttachDocument, DetachDocument, DeleteConversation,
         Changes, Socket, Connect, Leave, Disconnect, Ask
  <2>3. QED
    BY <2>1, <2>2 DEF Next, Task, Shutdown, vars
<1>2. CASE UNCHANGED vars
  BY <1>1, <1>2, SoundAfter DEF vars, PagesSound
<1>3. CASE Shutdown
  <2>1. ASSUME NEW o \in Pages
        PROVE  Sound(o, page'[o])
    <3>1. page'[o] \in {Away, Closed(o)}
      BY <1>3 DEF Shutdown
    <3>2. QED
      BY <3>1, AwayIsSound, ClosedIsSound DEF PagesSound
  <2>2. QED
    BY <1>1, <2>1, SoundAfter
<1>4. ASSUME NEW p \in Pages, Requests(p) \/ Socket(p) \/ Task(p)
      PROVE  PagesSound'
  BY <1>1, <1>4, StreamIsSound, LoopIsSound, RequestsAreSound, SocketIsSound, RecordingIsSound
     DEF Task
<1>5. QED
  BY <1>2, <1>3, <1>4 DEF Next
-----------------------------------------------------------------------------
(* What was said on a question and what the page that answers it kept.     *)

Opened(row, q) == About(row, q) = <<>> \/ About(row, q) = <<"question">>

Unrecorded(x) == x.at \in Talking \cup {"recording"} \/ (x.at = "finishing" /\ x.said # <<>>)

(* A question that is being answered was asked, and by one page.           *)
Numbered ==
    /\ asked \in 0..MaxQuestions
    /\ shown \subseteq (1..asked) \X Conversations
    /\ \A p \in Pages : page[p].at \in Busy => page[p].question \in 1..asked
    /\ \A p, o \in Pages : p # o /\ page[p].at \in Busy /\ page[o].at \in Busy
                           => page[p].question # page[o].question

(* Nothing is kept between two answers, and a socket is about a            *)
(* conversation that is or was there.                                      *)
Standing ==
    \A p \in Pages :
        /\ page[p].at \in {"idle", "showing"} => page[p].said = <<>>
        /\ page[p].at \in Busy \cup {"open", "idle"} => conversations[page[p].on] # None

(* Until it is recorded, a page keeps all that happened, and of the        *)
(* question no conversation has more than the question.                    *)
Keeping ==
    \A p \in Pages : Unrecorded(page[p]) =>
        /\ page[p].said = happened[page[p].question]
        /\ \A c \in Conversations : conversations[c] \in ConversationOf =>
              /\ Opened(conversations[c], page[p].question)
              /\ c = page[p].on => About(conversations[c], page[p].question) = <<"question">>

Unasked ==
    \A q \in Questions : q > asked =>
        /\ happened[q] = <<>>
        /\ \A c \in Conversations : conversations[c] \in ConversationOf =>
              About(conversations[c], q) = <<>>

RecordedOnce ==
    \A c \in Conversations, q \in Questions : conversations[c] \in ConversationOf =>
        \/ Opened(conversations[c], q)
        \/ About(conversations[c], q) = <<"question">> \o happened[q]

EventsInv ==
    /\ happened \in [Questions -> Seq(EventKinds)]
    /\ Numbered /\ Standing /\ Keeping /\ Unasked /\ RecordedOnce

LEMMA RowsAre ==
    ASSUME Inv, NEW c
    PROVE  c \in Rows <=> c \in Conversations /\ conversations[c] \in ConversationOf
  BY NoRowAssumption DEF Inv, RowsTyped, Rows

(* A page keeps what it kept, or keeps no more.                            *)
Follows(x, y) ==
    /\ y.at \in Busy => x.at \in Busy /\ y.question = x.question
    /\ Unrecorded(y) => Unrecorded(x) /\ y.said = x.said /\ y.on = x.on
    /\ y.at \in {"idle", "showing"} => y.said = <<>>

Stands(x) == x.at \in Busy \cup {"open", "idle"} => conversations'[x.on] # None

(* Nothing was said in a row that was there, and a new one is empty.       *)
RowsSame ==
    \A c \in Conversations :
        /\ conversations[c] # None => conversations'[c] # None
        /\ conversations'[c] \in ConversationOf =>
              \/ /\ conversations[c] \in ConversationOf
                 /\ \A q : About(conversations'[c], q) = About(conversations[c], q)
              \/ /\ conversations[c] = None
                 /\ \A q : About(conversations'[c], q) = <<>>

LEMMA UnrecordedAreBusy ==
    ASSUME NEW x, Unrecorded(x)
    PROVE  x.at \in Busy
  BY DEF Unrecorded, Talking, Tooling, Busy, Working

LEMMA EventsFollow ==
    ASSUME Inv, EventsInv, UNCHANGED <<asked, happened>>,
           shown' \subseteq (1..asked) \X Conversations,
           \A p \in Pages : Follows(page[p], page'[p]) /\ Stands(page'[p]),
           RowsSame
    PROVE  EventsInv'
<1>1. Numbered'
  BY DEF EventsInv, Numbered, Follows
<1>2. Standing'
  BY DEF Standing, Follows, Stands
<1>3. ASSUME NEW p \in Pages, Unrecorded(page'[p])
      PROVE  /\ page'[p].said = happened[page'[p].question]
             /\ \A c \in Conversations : conversations'[c] \in ConversationOf =>
                   /\ Opened(conversations'[c], page'[p].question)
                   /\ c = page'[p].on => About(conversations'[c], page'[p].question) = <<"question">>
  <2>1. /\ Unrecorded(page[p]) /\ page'[p].said = page[p].said /\ page'[p].on = page[p].on
        /\ page'[p].question = page[p].question /\ page[p].at \in Busy
    BY <1>3, UnrecordedAreBusy DEF Follows
  <2>2. page[p].said = happened[page[p].question] /\ conversations[page[p].on] # None
    BY <2>1 DEF EventsInv, Keeping, Standing
  <2>3. ASSUME NEW c \in Conversations, conversations'[c] \in ConversationOf
        PROVE  /\ Opened(conversations'[c], page[p].question)
               /\ c = page[p].on => About(conversations'[c], page[p].question) = <<"question">>
    <3>1. CASE /\ conversations[c] \in ConversationOf
               /\ \A q : About(conversations'[c], q) = About(conversations[c], q)
      BY <2>1, <3>1 DEF EventsInv, Keeping, Opened
    <3>2. CASE conversations[c] = None /\ \A q : About(conversations'[c], q) = <<>>
      BY <2>2, <3>2 DEF Opened
    <3>3. QED
      BY <2>3, <3>1, <3>2 DEF RowsSame
  <2>4. QED
    BY <2>1, <2>2, <2>3
<1>4. Keeping'
  BY <1>3 DEF Keeping, Unrecorded, Opened
<1>5. ASSUME NEW q \in Questions, q > asked
      PROVE  /\ happened[q] = <<>>
             /\ \A c \in Conversations : conversations'[c] \in ConversationOf =>
                   About(conversations'[c], q) = <<>>
  BY <1>5 DEF EventsInv, Unasked, RowsSame
<1>6. ASSUME NEW c \in Conversations, NEW q \in Questions, conversations'[c] \in ConversationOf
      PROVE  \/ Opened(conversations'[c], q)
             \/ About(conversations'[c], q) = <<"question">> \o happened[q]
  BY <1>6 DEF EventsInv, RecordedOnce, RowsSame, Opened
<1>7. Unasked' /\ RecordedOnce'
  BY <1>5, <1>6 DEF Unasked, RecordedOnce, Opened
<1>8. QED
  BY <1>1, <1>2, <1>4, <1>7 DEF EventsInv

LEMMA SameRowsSame ==
    ASSUME Inv, UNCHANGED conversations
    PROVE  RowsSame
  BY DEF RowsSame

LEMMA OnePageFollows ==
    ASSUME Inv, EventsInv, NEW p \in Pages, NEW x, page' = [page EXCEPT ![p] = x],
           UNCHANGED <<asked, happened>>, shown' \subseteq (1..asked) \X Conversations,
           Follows(page[p], x), Stands(x), RowsSame
    PROVE  EventsInv'
<1>1. page'[p] = x /\ \A o \in Pages : o # p => page'[o] = page[o]
  BY DEF Inv, PagesTame
<1>2. ASSUME NEW o \in Pages, o # p
      PROVE  Follows(page[o], page'[o]) /\ Stands(page'[o])
  <2>1. page'[o] = page[o] /\ Tame(page[o])
    BY <1>1, <1>2 DEF Inv, PagesTame
  <2>2. Follows(page[o], page[o])
    BY DEF EventsInv, Standing, Follows
  <2>3. Stands(page[o])
    BY <2>1 DEF EventsInv, Standing, Stands, RowsSame, Tame
  <2>4. QED
    BY <2>1, <2>2, <2>3
<1>3. \A o \in Pages : Follows(page[o], page'[o]) /\ Stands(page'[o])
  BY <1>1, <1>2
<1>4. QED
  BY <1>3, EventsFollow

(* The agent does something more on the question.                          *)
LEMMA EventsHappen ==
    ASSUME Inv, EventsInv, NEW p \in Pages, NEW x, NEW event \in EventKinds,
           page' = [page EXCEPT ![p] = x],
           happened' = [happened EXCEPT ![page[p].question] = Append(@, event)],
           UNCHANGED <<conversations, asked, shown>>,
           Unrecorded(page[p]), x.at \in Talking \cup {"recording", "finishing"},
           x.question = page[p].question, x.on = page[p].on,
           x.said = Append(page[p].said, event)
    PROVE  EventsInv'
<1> DEFINE mine == page[p].question
<1>1. page'[p] = x /\ \A o \in Pages : o # p => page'[o] = page[o]
  BY DEF Inv, PagesTame
<1>2. page[p].at \in Busy /\ x.at \in Busy /\ mine \in 1..asked /\ mine \in Questions
      /\ page[p].on \in Conversations
  BY UnrecordedAreBusy DEF EventsInv, Numbered, Inv, PagesTame, Tame, Talking, Tooling, Busy, Working
<1>3. /\ happened' \in [Questions -> Seq(EventKinds)]
      /\ happened'[mine] = Append(happened[mine], event)
      /\ \A q \in Questions : q # mine => happened'[q] = happened[q]
  BY <1>2 DEF EventsInv
<1>4. Numbered'
  BY <1>1, <1>2 DEF EventsInv, Numbered
<1>5. Standing'
  BY <1>1, <1>2 DEF EventsInv, Standing, Talking, Tooling
<1>6. ASSUME NEW o \in Pages, Unrecorded(page'[o])
      PROVE  /\ page'[o].said = happened'[page'[o].question]
             /\ \A c \in Conversations : conversations[c] \in ConversationOf =>
                   /\ Opened(conversations[c], page'[o].question)
                   /\ c = page'[o].on => About(conversations[c], page'[o].question) = <<"question">>
  <2>1. CASE o = p
    <3>1. page'[o] = x /\ x.question = mine /\ x.on = page[p].on
      BY <1>1, <2>1
    <3>2. page[p].said = happened[mine]
      BY DEF EventsInv, Keeping
    <3>3. x.said = happened'[mine]
      BY <1>3, <3>2
    <3>4. \A c \in Conversations : conversations[c] \in ConversationOf =>
             /\ Opened(conversations[c], mine)
             /\ c = page[p].on => About(conversations[c], mine) = <<"question">>
      BY DEF EventsInv, Keeping
    <3> HIDE DEF mine
    <3>5. QED
      BY <3>1, <3>3, <3>4
  <2>2. CASE o # p
    <3>1. page'[o] = page[o] /\ page[o].at \in Busy /\ page[o].question \in Questions
      BY <1>1, <1>6, <2>2, UnrecordedAreBusy DEF Inv, PagesTame, Tame
    <3>2. page[o].question # mine
      BY <1>2, <2>2, <3>1 DEF EventsInv, Numbered
    <3>3. QED
      BY <1>3, <1>6, <3>1, <3>2 DEF EventsInv, Keeping
  <2>3. QED
    BY <2>1, <2>2
<1>7. Keeping'
  BY <1>6 DEF Keeping, Unrecorded, Opened
<1>8. Unasked'
  <2>1. \A q \in Questions : q > asked => q # mine
    BY <1>2 DEF EventsInv, Numbered
  <2>2. QED
    BY <1>3, <2>1 DEF EventsInv, Unasked
<1>9. ASSUME NEW c \in Conversations, NEW q \in Questions, conversations[c] \in ConversationOf
      PROVE  \/ Opened(conversations[c], q)
             \/ About(conversations[c], q) = <<"question">> \o happened'[q]
  <2>1. CASE q = mine
    BY <1>9, <2>1 DEF EventsInv, Keeping
  <2>2. CASE q # mine
    BY <1>3, <1>9, <2>2 DEF EventsInv, RecordedOnce
  <2>3. QED
    BY <2>1, <2>2
<1>10. RecordedOnce'
  BY <1>9 DEF RecordedOnce, Opened
<1>11. QED
  BY <1>3, <1>4, <1>5, <1>7, <1>8, <1>10 DEF EventsInv

LEMMA QuestionIsAsked ==
    ASSUME Inv, EventsInv, NEW p \in Pages, NEW x, NEW q,
           page[p].at = "idle", Exists(p), q = asked + 1, q \in Questions, asked' = q,
           conversations' = [conversations EXCEPT ![page[p].on] = Asked(Row(p), q)],
           page' = [page EXCEPT ![p] = x], UNCHANGED <<happened, shown>>,
           x.at = "stepping", x.question = q, x.said = page[p].said, x.on = page[p].on
    PROVE  EventsInv'
<1> DEFINE here == page[p].on
           new == Asked(Row(p), q)
<1>1. page'[p] = x /\ \A o \in Pages : o # p => page'[o] = page[o]
  BY DEF Inv, PagesTame
<1>2. asked \in Nat /\ q \in 1..MaxQuestions /\ q \in Nat /\ q > asked
  BY DEF EventsInv, Numbered, Questions
<1>3. here \in Conversations /\ conversations[here] \in ConversationOf /\ Row(p) = conversations[here]
  BY RowOf DEF Exists, Row
<1>4. About(new, q) = About(conversations[here], q) \o <<"question">>
      /\ \A r : r # q => About(new, r) = About(conversations[here], r)
  BY <1>3, AboutAsked
<1>5. happened[q] = <<>> /\ \A c \in Conversations : conversations[c] \in ConversationOf =>
         About(conversations[c], q) = <<>>
  BY <1>2 DEF EventsInv, Unasked
<1>6. About(new, q) = <<"question">>
  BY <1>3, <1>4, <1>5
<1>7. new \in ConversationOf
  BY <1>3, AppendedContinues DEF Asked, Roles, Continues
<1>8. /\ conversations'[here] = new
      /\ \A c \in Conversations : c # here => conversations'[c] = conversations[c]
  BY <1>3 DEF Inv, RowsTyped
<1> HIDE DEF new
<1>9. Numbered'
  <2>1. asked' \in 0..MaxQuestions /\ shown' \subseteq (1..asked') \X Conversations
    BY <1>2 DEF EventsInv, Numbered
  <2>2. \A o \in Pages : o # p /\ page'[o].at \in Busy => page'[o].question \in 1..asked
    BY <1>1 DEF EventsInv, Numbered
  <2>3. page'[p].question = q /\ q \notin 1..asked /\ q \in 1..asked' /\ 1..asked \subseteq 1..asked'
    BY <1>1, <1>2
  <2>4. \A o \in Pages : page'[o].at \in Busy => page'[o].question \in 1..asked'
    BY <2>2, <2>3
  <2>5. \A a, o \in Pages : a # o /\ page'[a].at \in Busy /\ page'[o].at \in Busy
                           => page'[a].question # page'[o].question
    <3> TAKE a, o \in Pages
    <3>1. CASE a # p /\ o # p
      BY <1>1, <3>1 DEF EventsInv, Numbered
    <3>2. CASE a = p \/ o = p
      BY <2>2, <2>3, <3>2
    <3>3. QED
      BY <3>1, <3>2
  <2>6. QED
    BY <2>1, <2>4, <2>5 DEF Numbered
<1>10. new # None
  BY <1>7, NoRowAssumption
<1>11. Standing'
  <2>1. ASSUME NEW o \in Pages
        PROVE  /\ page'[o].at \in {"idle", "showing"} => page'[o].said = <<>>
               /\ page'[o].at \in Busy \cup {"open", "idle"} => conversations'[page'[o].on] # None
    <3>1. CASE o = p
      BY <1>1, <1>8, <1>10, <3>1
    <3>2. CASE o # p
      <4>1. page'[o] = page[o] /\ Tame(page[o])
        BY <1>1, <3>2 DEF Inv, PagesTame
      <4>2. page[o].at \in Busy \cup {"open", "idle"} => page[o].on \in Conversations
        BY <4>1 DEF Tame
      <4>3. QED
        BY <1>8, <1>10, <4>1, <4>2 DEF EventsInv, Standing
    <3>3. QED
      BY <3>1, <3>2
  <2>2. QED
    BY <2>1 DEF Standing
<1>12. ASSUME NEW o \in Pages, Unrecorded(page'[o])
       PROVE  /\ page'[o].said = happened[page'[o].question]
              /\ \A c \in Conversations : conversations'[c] \in ConversationOf =>
                    /\ Opened(conversations'[c], page'[o].question)
                    /\ c = page'[o].on => About(conversations'[c], page'[o].question) = <<"question">>
  <2>1. CASE o = p
    <3>1. page'[o] = x /\ x.said = <<>>
      BY <1>1, <2>1 DEF EventsInv, Standing
    <3>2. \A c \in Conversations : conversations'[c] \in ConversationOf =>
             /\ Opened(conversations'[c], q)
             /\ c = here => About(conversations'[c], q) = <<"question">>
      BY <1>5, <1>6, <1>8 DEF Opened
    <3>3. QED
      BY <1>5, <3>1, <3>2
  <2>2. CASE o # p
    <3>1. page'[o] = page[o] /\ page[o].at \in Busy /\ page[o].question \in 1..asked
      BY <1>1, <1>12, <2>2, UnrecordedAreBusy DEF EventsInv, Numbered
    <3>2. page[o].question # q
      BY <1>2, <3>1
    <3>3. /\ page[o].said = happened[page[o].question]
          /\ \A c \in Conversations : conversations[c] \in ConversationOf =>
                /\ Opened(conversations[c], page[o].question)
                /\ c = page[o].on => About(conversations[c], page[o].question) = <<"question">>
      BY <1>12, <3>1 DEF EventsInv, Keeping
    <3>4. \A c \in Conversations : conversations'[c] \in ConversationOf =>
             /\ conversations[c] \in ConversationOf
             /\ About(conversations'[c], page[o].question) = About(conversations[c], page[o].question)
      BY <1>3, <1>4, <1>8, <3>2
    <3>5. QED
      BY <3>1, <3>3, <3>4 DEF Opened
  <2>3. QED
    BY <2>1, <2>2
<1>13. Keeping'
  BY <1>12 DEF Keeping, Unrecorded, Opened
<1>14. ASSUME NEW r \in Questions, r > asked'
       PROVE  /\ happened[r] = <<>>
              /\ \A c \in Conversations : conversations'[c] \in ConversationOf =>
                    About(conversations'[c], r) = <<>>
  <2>1. r # q /\ r > asked
    BY <1>2, <1>14 DEF Questions
  <2>2. QED
    BY <1>3, <1>4, <1>8, <2>1 DEF EventsInv, Unasked
<1>15. ASSUME NEW c \in Conversations, NEW r \in Questions, conversations'[c] \in ConversationOf
       PROVE  \/ Opened(conversations'[c], r)
              \/ About(conversations'[c], r) = <<"question">> \o happened[r]
  <2>1. CASE r = q
    BY <1>5, <1>6, <1>8, <1>15, <2>1 DEF Opened
  <2>2. CASE r # q
    <3>1. /\ conversations[c] \in ConversationOf
          /\ About(conversations'[c], r) = About(conversations[c], r)
      BY <1>3, <1>4, <1>8, <1>15, <2>2
    <3>2. QED
      BY <3>1 DEF EventsInv, RecordedOnce, Opened
  <2>3. QED
    BY <2>1, <2>2
<1>16. Unasked' /\ RecordedOnce'
  BY <1>14, <1>15 DEF Unasked, RecordedOnce, Opened
<1>17. QED
  BY <1>9, <1>11, <1>13, <1>16 DEF EventsInv

(* What was kept is recorded, and kept no longer.                          *)
LEMMA AnswerIsRecorded ==
    ASSUME Inv, EventsInv, NEW p \in Pages, NEW x, Unrecorded(page[p]), Exists(p), Recorded(p),
           page' = [page EXCEPT ![p] = x], UNCHANGED <<asked, happened, shown>>,
           x.at \in {"showing", "idle", "open"}, x.on = page[p].on, x.said = <<>>,
           x.at = "showing" => x.question = page[p].question
    PROVE  EventsInv'
<1> DEFINE here == page[p].on
           mine == page[p].question
           new == ApplyChanges(Row(p), page[p].said, mine)
<1>1. page'[p] = x /\ \A o \in Pages : o # p => page'[o] = page[o]
  BY DEF Inv, PagesTame
<1>2. /\ page[p].at \in Busy /\ mine \in 1..asked /\ mine \in Questions
      /\ page[p].said \in Seq(EventKinds) /\ page[p].said = happened[mine]
  BY UnrecordedAreBusy DEF EventsInv, Numbered, Keeping, Inv, PagesTame, Tame
<1>3. here \in Conversations /\ conversations[here] \in ConversationOf /\ Row(p) = conversations[here]
  BY RowOf DEF Exists, Row
<1>4. About(new, mine) = About(conversations[here], mine) \o page[p].said
      /\ \A r : r # mine => About(new, r) = About(conversations[here], r)
  <2> DEFINE row == conversations[here]
             events == page[p].said
  <2>1. row \in ConversationOf /\ events \in Seq(EventKinds) /\ mine \in Questions
    BY <1>2, <1>3
  <2>2. new = ApplyChanges(row, events, mine)
    BY <1>3
  <2> HIDE DEF row, events, mine, new
  <2>3. /\ About(ApplyChanges(row, events, mine), mine) = About(row, mine) \o events
        /\ \A r : r # mine => About(ApplyChanges(row, events, mine), r) = About(row, r)
    BY <2>1, AboutRecorded
  <2>4. About(new, mine) = About(row, mine) \o events
        /\ \A r : r # mine => About(new, r) = About(row, r)
    BY <2>2, <2>3
  <2>5. QED
    BY <2>4 DEF row, events
<1>5. About(conversations[here], mine) = <<"question">>
  BY <1>3 DEF EventsInv, Keeping
<1>6. About(new, mine) = <<"question">> \o happened[mine]
  BY <1>2, <1>4, <1>5
<1>7. new \in ConversationOf
  BY <1>2, <1>3, RecordedContinues DEF Continues
<1>8. /\ conversations'[here] = new
      /\ \A c \in Conversations : c # here => conversations'[c] = conversations[c]
  BY <1>3 DEF Inv, RowsTyped, Recorded
<1> HIDE DEF new
<1>9. new # None
  BY <1>7, NoRowAssumption
<1>10. Numbered'
  BY <1>1, <1>2 DEF EventsInv, Numbered, Busy, Working
<1>11. Standing'
  <2>1. ASSUME NEW o \in Pages
        PROVE  /\ page'[o].at \in {"idle", "showing"} => page'[o].said = <<>>
               /\ page'[o].at \in Busy \cup {"open", "idle"} => conversations'[page'[o].on] # None
    <3>1. CASE o = p
      BY <1>1, <1>8, <1>9, <3>1
    <3>2. CASE o # p
      <4>1. page'[o] = page[o] /\ Tame(page[o])
        BY <1>1, <3>2 DEF Inv, PagesTame
      <4>2. page[o].at \in Busy \cup {"open", "idle"} => page[o].on \in Conversations
        BY <4>1 DEF Tame
      <4>3. QED
        BY <1>8, <1>9, <4>1, <4>2 DEF EventsInv, Standing
    <3>3. QED
      BY <3>1, <3>2
  <2>2. QED
    BY <2>1 DEF Standing
<1>12. ASSUME NEW o \in Pages, Unrecorded(page'[o])
       PROVE  /\ page'[o].said = happened[page'[o].question]
              /\ \A c \in Conversations : conversations'[c] \in ConversationOf =>
                    /\ Opened(conversations'[c], page'[o].question)
                    /\ c = page'[o].on => About(conversations'[c], page'[o].question) = <<"question">>
  <2>1. o # p
    BY <1>1, <1>12 DEF Unrecorded, Talking, Tooling
  <2>2. page'[o] = page[o] /\ page[o].at \in Busy
    BY <1>1, <1>12, <2>1, UnrecordedAreBusy
  <2>3. page[o].question # mine
    BY <1>2, <2>1, <2>2 DEF EventsInv, Numbered
  <2>4. /\ page[o].said = happened[page[o].question]
        /\ \A c \in Conversations : conversations[c] \in ConversationOf =>
              /\ Opened(conversations[c], page[o].question)
              /\ c = page[o].on => About(conversations[c], page[o].question) = <<"question">>
    BY <1>12, <2>2 DEF EventsInv, Keeping
  <2>5. \A c \in Conversations : conversations'[c] \in ConversationOf =>
           /\ conversations[c] \in ConversationOf
           /\ About(conversations'[c], page[o].question) = About(conversations[c], page[o].question)
    BY <1>3, <1>4, <1>8, <2>3
  <2>6. QED
    BY <2>2, <2>4, <2>5 DEF Opened
<1>13. Keeping'
  BY <1>12 DEF Keeping, Unrecorded, Opened
<1>14. ASSUME NEW r \in Questions, r > asked
       PROVE  /\ happened[r] = <<>>
              /\ \A c \in Conversations : conversations'[c] \in ConversationOf =>
                    About(conversations'[c], r) = <<>>
  <2>1. r # mine
    BY <1>2, <1>14 DEF EventsInv, Numbered, Questions
  <2>2. QED
    BY <1>3, <1>4, <1>8, <1>14, <2>1 DEF EventsInv, Unasked
<1>15. ASSUME NEW c \in Conversations, NEW r \in Questions, conversations'[c] \in ConversationOf
       PROVE  \/ Opened(conversations'[c], r)
              \/ About(conversations'[c], r) = <<"question">> \o happened[r]
  <2>1. CASE r = mine /\ c = here
    BY <1>6, <1>8, <2>1
  <2>2. CASE r # mine \/ c # here
    <3>1. /\ conversations[c] \in ConversationOf
          /\ About(conversations'[c], r) = About(conversations[c], r)
      BY <1>3, <1>4, <1>8, <1>15, <2>2
    <3>2. QED
      BY <3>1 DEF EventsInv, RecordedOnce, Opened
  <2>3. QED
    BY <2>1, <2>2
<1>16. Unasked' /\ RecordedOnce'
  BY <1>14, <1>15 DEF Unasked, RecordedOnce, Opened
<1>17. QED
  BY <1>10, <1>11, <1>13, <1>16 DEF EventsInv

(* A step in which the agent only goes on, or is cut off.                  *)
LEMMA WorkFollows ==
    ASSUME Inv, EventsInv, NEW p \in Pages, NEW x, page' = [page EXCEPT ![p] = x],
           Unrecorded(page[p]), x.at \in Talking \cup {"finishing"},
           x.question = page[p].question, x.on = page[p].on, x.said = page[p].said,
           UNCHANGED <<conversations, asked, happened, shown>>
    PROVE  EventsInv'
<1>1. page[p].at \in Busy
  BY UnrecordedAreBusy
<1>2. Follows(page[p], x)
  BY <1>1 DEF Follows, Talking, Tooling
<1>3. Stands(x)
  BY <1>1 DEF Stands, EventsInv, Standing
<1>4. QED
  BY <1>2, <1>3, OnePageFollows, SameRowsSame DEF EventsInv, Numbered

LEMMA NotesFollow ==
    ASSUME Inv, EventsInv, NEW p \in Pages, NEW new, Notes(p, new), DOMAIN new = DOMAIN Away,
           Unrecorded(page[p]), new.at \in Talking,
           new.question = page[p].question, new.on = page[p].on, new.said = page[p].said
    PROVE  EventsInv'
<1> DEFINE x == [new EXCEPT !.at = IF page[p].reader THEN @ ELSE "finishing"]
<1>1. page' = [page EXCEPT ![p] = x] /\ UNCHANGED <<conversations, asked, happened, shown>>
  BY DEF Notes
<1>2. x.at \in Talking \cup {"finishing"} /\ x.question = page[p].question
      /\ x.on = page[p].on /\ x.said = page[p].said
  BY DEF Away
<1>3. QED
  BY <1>1, <1>2, WorkFollows

LEMMA YieldsHappen ==
    ASSUME Inv, EventsInv, NEW p \in Pages, NEW event \in EventKinds, NEW new,
           Yields(p, event, new), DOMAIN new = DOMAIN Away,
           Unrecorded(page[p]), new.at \in Talking,
           new.question = page[p].question, new.on = page[p].on, new.said = page[p].said
    PROVE  EventsInv'
<1> DEFINE more == Append(new.said, event)
           x == [new EXCEPT !.said = Append(@, event),
                            !.at = IF page[p].reader THEN @ ELSE "finishing"]
<1>1. /\ page' = [page EXCEPT ![p] = x] /\ UNCHANGED <<conversations, asked, shown>>
      /\ happened' = [happened EXCEPT ![page[p].question] = Append(@, event)]
  BY DEF Yields
<1>2. x = [new EXCEPT !.said = more, !.at = IF page[p].reader THEN @ ELSE "finishing"]
  OBVIOUS
<1>3. more = Append(page[p].said, event)
  OBVIOUS
<1> HIDE DEF more
<1>4. x.at \in Talking \cup {"recording", "finishing"} /\ x.question = page[p].question
      /\ x.on = page[p].on /\ x.said = Append(page[p].said, event)
  BY <1>2, <1>3 DEF Away
<1> HIDE DEF x
<1>5. QED
  BY <1>1, <1>4, EventsHappen

LEMMA OverSays ==
    ASSUME Inv, NEW p \in Pages
    PROVE  /\ DOMAIN Over(p) = DOMAIN Away /\ Over(p).said = page[p].said
           /\ Over(p).question = page[p].question /\ Over(p).on = page[p].on
           /\ DOMAIN page[p] = DOMAIN Away
  BY DEF Inv, PagesTame, Tame, Over, Away

LEMMA ConcludesHappen ==
    ASSUME Inv, EventsInv, NEW p \in Pages, NEW event \in EventKinds, Concludes(p, event),
           Unrecorded(page[p])
    PROVE  EventsInv'
<1> DEFINE more == Append(Over(p).said, event)
           x == [Over(p) EXCEPT !.at = "recording", !.said = more]
<1>1. /\ page' = [page EXCEPT ![p] = x] /\ UNCHANGED <<conversations, asked, shown>>
      /\ happened' = [happened EXCEPT ![page[p].question] = Append(@, event)]
  BY DEF Concludes
<1>2. more = Append(page[p].said, event)
  BY OverSays
<1> HIDE DEF more
<1>3. x.at = "recording" /\ x.question = page[p].question
      /\ x.on = page[p].on /\ x.said = Append(page[p].said, event)
  BY <1>2, OverSays DEF Away
<1> HIDE DEF x
<1>4. QED
  BY <1>1, <1>3, EventsHappen

LEMMA TaskKeepsEvents ==
    ASSUME Inv, EventsInv, NEW p \in Pages, Stream(p) \/ Loop(p)
    PROVE  EventsInv'
<1> USE DEF At
<1>1. page[p].at \in Talking /\ Unrecorded(page[p])
  BY DEF Stream, Loop, NextStep, Unread, Replace, GiveUp, BreakOff, Overflow, Answer,
     AskToLookUp, CallTools, Expand, Result, NextCall, Talking, Tooling, Unrecorded
<1>2. /\ DOMAIN Over(p) = DOMAIN Away /\ Over(p).said = page[p].said
      /\ Over(p).question = page[p].question /\ Over(p).on = page[p].on
      /\ DOMAIN page[p] = DOMAIN Away
  BY OverSays
<1>3. /\ \A k \in {"call", "result", "answer", "failure"} : k \in EventKinds
      /\ \A at \in {"stepping", "streaming", "calling", "expanding", "between"} : at \in Talking
  BY DEF EventKinds, Talking, Tooling
<1>4. CASE NextStep(p)
  <2>1. PICK resting \in SUBSET page[p].cooling :
          Quietly(p, [page[p] EXCEPT !.at = "streaming", !.step = @ + 1, !.cooling = resting,
                        !.queue = LiveFirst(Candidates(Requirements(p)), resting)])
    BY <1>4 DEF NextStep
  <2> DEFINE asking == LiveFirst(Candidates(Requirements(p)), resting)
             x == [page[p] EXCEPT !.at = "streaming", !.step = @ + 1, !.cooling = resting,
                                  !.queue = asking]
  <2>2. page' = [page EXCEPT ![p] = x] /\ UNCHANGED <<conversations, asked, happened, shown>>
    BY <2>1 DEF Quietly
  <2> HIDE DEF asking
  <2>3. x.at = "streaming" /\ x.question = page[p].question /\ x.on = page[p].on
        /\ x.said = page[p].said
    BY <1>2 DEF Away
  <2> HIDE DEF x
  <2>4. QED
    BY <1>1, <1>3, <2>2, <2>3, WorkFollows
<1>5. CASE Unread(p)
  <2> DEFINE x == [Over(p) EXCEPT !.at = "finishing"]
  <2>1. page' = [page EXCEPT ![p] = x] /\ UNCHANGED <<conversations, asked, happened, shown>>
    BY <1>5 DEF Unread, Quietly
  <2>2. x.at = "finishing" /\ x.question = page[p].question /\ x.on = page[p].on
        /\ x.said = page[p].said
    BY <1>2 DEF Away
  <2> HIDE DEF x
  <2>3. QED
    BY <1>1, <2>1, <2>2, WorkFollows
<1>6. CASE Replace(p)
  <2> DEFINE left == Tail(page[p].queue)
             one == Asking(p)
             x == [page[p] EXCEPT !.cooling = @ \cup {one}, !.queue = left, !.tried = @ \cup {one}]
  <2>1. Notes(p, x)
    BY <1>6 DEF Replace
  <2> HIDE DEF left, one
  <2>2. x.at = page[p].at /\ x.question = page[p].question /\ x.on = page[p].on
        /\ x.said = page[p].said /\ DOMAIN x = DOMAIN Away
    BY <1>2 DEF Away
  <2> HIDE DEF x
  <2>3. QED
    BY <1>1, <2>1, <2>2, NotesFollow
<1>7. CASE GiveUp(p)
  <2> DEFINE last == Among(page[p].queue)
             more == Append(page[p].said, "failure")
             x == [page[p] EXCEPT !.at = "recording", !.said = more,
                     !.queue = <<>>, !.refused = TRUE,
                     !.tried = @ \cup last, !.cooling = @ \cup last]
  <2>1. /\ page' = [page EXCEPT ![p] = x] /\ UNCHANGED <<conversations, asked, shown>>
        /\ happened' = [happened EXCEPT ![page[p].question] = Append(@, "failure")]
    BY <1>7 DEF GiveUp
  <2> HIDE DEF last, more
  <2>2. x.at = "recording" /\ x.question = page[p].question /\ x.on = page[p].on /\ x.said = more
    BY <1>2 DEF Away
  <2> HIDE DEF x
  <2>3. QED
    BY <1>1, <1>3, <2>1, <2>2, EventsHappen DEF more
<1>8. CASE BreakOff(p) \/ Answer(p)
  BY <1>1, <1>3, <1>8, ConcludesHappen DEF BreakOff, Answer
<1>9. CASE Overflow(p)
  <2> DEFINE x == [Over(p) EXCEPT !.at = "stepping", !.agentic = FALSE]
  <2>1. CASE Notes(p, x)
    <3>1. x.at = "stepping" /\ x.question = page[p].question /\ x.on = page[p].on
          /\ x.said = page[p].said /\ DOMAIN x = DOMAIN Away
      BY <1>2 DEF Away
    <3>2. Notes(p, x)
      BY <2>1
    <3> HIDE DEF x
    <3>3. QED
      BY <1>1, <1>3, <3>1, <3>2, NotesFollow
  <2>2. CASE Concludes(p, "failure")
    BY <1>1, <1>3, <2>2, ConcludesHappen
  <2>3. QED
    BY <1>9, <2>1, <2>2 DEF Overflow
<1>10. CASE AskToLookUp(p)
  <2> DEFINE x == [Over(p) EXCEPT !.at = "stepping", !.nudged = TRUE]
  <2>1. Notes(p, x)
    BY <1>10 DEF AskToLookUp
  <2>2. x.at = "stepping" /\ x.question = page[p].question /\ x.on = page[p].on
        /\ x.said = page[p].said /\ DOMAIN x = DOMAIN Away
    BY <1>2 DEF Away
  <2> HIDE DEF x
  <2>3. QED
    BY <1>1, <1>3, <2>1, <2>2, NotesFollow
<1>11. CASE CallTools(p)
  <2>1. PICK n \in 1..MaxCalls : Yields(p, "call", [Over(p) EXCEPT !.at = "calling", !.calls = n])
    BY <1>11 DEF CallTools
  <2> DEFINE x == [Over(p) EXCEPT !.at = "calling", !.calls = n]
  <2>2. Yields(p, "call", x)
    BY <2>1
  <2>3. x.at = "calling" /\ x.question = page[p].question /\ x.on = page[p].on
        /\ x.said = page[p].said /\ DOMAIN x = DOMAIN Away
    BY <1>2 DEF Away
  <2> HIDE DEF x
  <2>4. QED
    BY <1>1, <1>3, <2>2, <2>3, YieldsHappen
<1>12. CASE Expand(p)
  <2> DEFINE asking == <<Select(choice, PlainNeeds(p))>>
             x == [page[p] EXCEPT !.at = "expanding", !.queue = asking]
  <2>1. page' = [page EXCEPT ![p] = x] /\ UNCHANGED <<conversations, asked, happened, shown>>
    BY <1>12 DEF Expand, Quietly
  <2> HIDE DEF asking
  <2>2. x.at = "expanding" /\ x.question = page[p].question /\ x.on = page[p].on
        /\ x.said = page[p].said
    BY <1>2 DEF Away
  <2> HIDE DEF x
  <2>3. QED
    BY <1>1, <1>3, <2>1, <2>2, WorkFollows
<1>13. CASE Result(p)
  <2> DEFINE next == IF page[p].calls = 1 THEN "stepping" ELSE "between"
             x == [Over(p) EXCEPT !.calls = @ - 1, !.at = next]
  <2>1. Yields(p, "result", x)
    BY <1>13 DEF Result
  <2>2. next \in Talking
    BY <1>3
  <2> HIDE DEF next
  <2>3. x.at = next /\ x.question = page[p].question /\ x.on = page[p].on
        /\ x.said = page[p].said /\ DOMAIN x = DOMAIN Away
    BY <1>2 DEF Away
  <2> HIDE DEF x
  <2>4. QED
    BY <1>1, <1>3, <2>1, <2>2, <2>3, YieldsHappen
<1>14. CASE NextCall(p)
  <2> DEFINE x == [page[p] EXCEPT !.at = "calling"]
  <2>1. Yields(p, "call", x)
    BY <1>14 DEF NextCall
  <2>2. x.at = "calling" /\ x.question = page[p].question /\ x.on = page[p].on
        /\ x.said = page[p].said /\ DOMAIN x = DOMAIN Away
    BY <1>2 DEF Away
  <2> HIDE DEF x
  <2>3. QED
    BY <1>1, <1>3, <2>1, <2>2, YieldsHappen
<1>15. QED
  BY <1>4, <1>5, <1>6, <1>7, <1>8, <1>9, <1>10, <1>11, <1>12, <1>13, <1>14 DEF Stream, Loop

(* A page that answers no question keeps nothing.                          *)
LEMMA RestFollows ==
    ASSUME NEW old, NEW x, x.at \in {"home", "starting", "open", "idle"},
           x.at = "idle" => x.said = <<>>
    PROVE  Follows(old, x)
  BY DEF Follows, Unrecorded, Talking, Tooling, Busy, Working

LEMMA ClosedSays ==
    ASSUME NEW p
    PROVE  Closed(p).at = "open" /\ Closed(p).on = page[p].on /\ Away.at = "home"
  BY DEF Closed, Away

LEMMA RequestsKeepEvents ==
    ASSUME Inv, EventsInv, NEW p \in Pages, Requests(p)
    PROVE  EventsInv'
<1> USE DEF At
<1>1. DOMAIN page[p] = DOMAIN Away /\ page[p].said \in Seq(EventKinds)
  BY DEF Inv, PagesTame, Tame
<1>2. shown \subseteq (1..asked) \X Conversations
  BY DEF EventsInv, Numbered
<1>3. ASSUME NEW c \in Conversations, conversations'[c] # None, RowsSame,
             page' = [page EXCEPT ![p].at = "open", ![p].on = c],
             UNCHANGED <<asked, happened, shown>>
      PROVE  EventsInv'
  <2> DEFINE x == [page[p] EXCEPT !.at = "open", !.on = c]
  <2>1. page' = [page EXCEPT ![p] = x]
    BY <1>3
  <2>2. x.at = "open" /\ x.on = c
    BY <1>1 DEF Away
  <2> HIDE DEF x
  <2>3. Follows(page[p], x) /\ Stands(x)
    BY <1>3, <2>2, RestFollows DEF Stands
  <2>4. QED
    BY <1>2, <1>3, <2>1, <2>3, OnePageFollows
<1>4. ASSUME NEW c \in Rows, page' = [page EXCEPT ![p].at = "open", ![p].on = c],
             UNCHANGED <<conversations, asked, happened, shown>>
      PROVE  EventsInv'
  <2>1. c \in Conversations /\ conversations'[c] # None
    BY <1>4, RowOf, NoRowAssumption
  <2>2. QED
    BY <1>3, <1>4, <2>1, SameRowsSame
<1>5. CASE FindEmpty(p)
  <2>1. CASE Goes(p, "starting")
    <3> DEFINE x == [page[p] EXCEPT !.at = "starting"]
    <3>1. page' = [page EXCEPT ![p] = x] /\ UNCHANGED <<conversations, asked, happened, shown>>
      BY <1>5, <2>1 DEF FindEmpty, Goes
    <3>2. x.at = "starting"
      BY <1>1 DEF Away
    <3> HIDE DEF x
    <3>3. Follows(page[p], x) /\ Stands(x)
      BY <3>2, RestFollows DEF Stands, Busy, Working
    <3>4. QED
      BY <1>2, <3>1, <3>3, OnePageFollows, SameRowsSame
  <2>2. CASE \E c \in Empties(p) : page' = [page EXCEPT ![p].at = "open", ![p].on = c]
    BY <1>4, <1>5, <2>2 DEF FindEmpty, Empties
  <2>3. QED
    BY <1>5, <2>1, <2>2 DEF FindEmpty
<1>6. CASE StartConversation(p)
  <2>1. PICK c \in Conversations, m \in Preferences :
          /\ conversations[c] = None
          /\ conversations' = [conversations EXCEPT ![c] = Start(TenantOf[p], m)]
          /\ page' = [page EXCEPT ![p].at = "open", ![p].on = c]
    BY <1>6 DEF StartConversation
  <2> DEFINE new == Start(TenantOf[p], m)
  <2>2. new \in ConversationOf /\ new.messages = <<>>
    BY ChatAssumption DEF Start, ConversationOf
  <2> HIDE DEF new
  <2>3. \A q : About(new, q) = <<>>
    BY <2>2, AboutNothing
  <2>4. /\ conversations'[c] = new
        /\ \A o \in Conversations : o # c => conversations'[o] = conversations[o]
    BY <2>1 DEF Inv, RowsTyped, new
  <2>5. new # None
    BY <2>2, NoRowAssumption
  <2>6. RowsSame
    BY <2>1, <2>3, <2>4, <2>5 DEF RowsSame
  <2>7. QED
    BY <1>3, <1>6, <2>1, <2>4, <2>5, <2>6 DEF StartConversation
<1>7. CASE OpenListed(p)
  BY <1>4, <1>7 DEF OpenListed
<1>8. ASSUME NEW new, Changes(p, new), new # None,
             new \in ConversationOf => \A q : About(new, q) = About(Row(p), q)
      PROVE  EventsInv'
  <2>1. /\ page[p].on \in Conversations /\ conversations[page[p].on] \in ConversationOf
        /\ Row(p) = conversations[page[p].on]
    BY <1>8, RowOf DEF Changes, Exists, Row
  <2>2. /\ conversations'[page[p].on] = new
        /\ \A o \in Conversations : o # page[p].on => conversations'[o] = conversations[o]
    BY <1>8, <2>1 DEF Inv, RowsTyped, Changes
  <2>3. RowsSame
    BY <1>8, <2>1, <2>2 DEF RowsSame
  <2>4. UNCHANGED <<page, asked, happened, shown>>
    BY <1>8 DEF Changes
  <2>5. ASSUME NEW o \in Pages
        PROVE  Follows(page[o], page'[o]) /\ Stands(page'[o])
    <3>1. Tame(page[o])
      BY DEF Inv, PagesTame
    <3>2. Follows(page[o], page[o])
      BY DEF EventsInv, Standing, Follows
    <3>3. Stands(page[o])
      BY <2>3, <3>1 DEF EventsInv, Standing, Stands, RowsSame, Tame
    <3>4. QED
      BY <2>4, <3>2, <3>3
  <2>6. QED
    BY <1>2, <2>3, <2>4, <2>5, EventsFollow
<1>9. ASSUME NEW b \in BOOLEAN, NEW new, new = [Row(p) EXCEPT !.document = b], Changes(p, new)
      PROVE  EventsInv'
  <2>1. Row(p) \in ConversationOf
    BY <1>9, RowOf DEF Changes, Exists, Row
  <2>2. new \in ConversationOf /\ new.messages = Row(p).messages
    BY <1>9, <2>1 DEF ConversationOf
  <2>3. \A q : About(new, q) = About(Row(p), q)
    BY <2>2, AboutIs
  <2>4. QED
    BY <1>8, <1>9, <2>2, <2>3, NoRowAssumption
<1>10. CASE AttachDocument(p)
  BY <1>9, <1>10 DEF AttachDocument, Attached
<1>11. CASE DetachDocument(p)
  BY <1>9, <1>11 DEF DetachDocument, Detached
<1>12. CASE DeleteConversation(p)
  BY <1>8, <1>12, NoRowAssumption, ChatAssumption DEF DeleteConversation
<1>13. QED
  BY <1>5, <1>6, <1>7, <1>10, <1>11, <1>12 DEF Requests

LEMMA SocketKeepsEvents ==
    ASSUME Inv, EventsInv, NEW p \in Pages, Socket(p)
    PROVE  EventsInv'
<1> USE DEF At
<1>1. DOMAIN page[p] = DOMAIN Away /\ Tame(page[p])
  BY DEF Inv, PagesTame, Tame
<1>2. shown \subseteq (1..asked) \X Conversations
  BY DEF EventsInv, Numbered
<1>3. page[p].at \in Busy \cup {"open", "idle"} => conversations[page[p].on] # None
  BY DEF EventsInv, Standing
<1>4. CASE Connect(p)
  <2> DEFINE x == [Away EXCEPT !.at = "idle", !.on = page[p].on, !.reader = TRUE]
  <2>1. /\ page' = [page EXCEPT ![p] = x] /\ page[p].at = "open"
        /\ UNCHANGED <<conversations, asked, happened, shown>>
    BY <1>4 DEF Connect
  <2>2. x.at = "idle" /\ x.on = page[p].on /\ x.said = <<>>
    BY DEF Away
  <2> HIDE DEF x
  <2>3. Follows(page[p], x) /\ Stands(x)
    BY <1>3, <2>1, <2>2, RestFollows DEF Stands
  <2>4. QED
    BY <1>2, <2>1, <2>3, OnePageFollows, SameRowsSame
<1>5. CASE Leave(p)
  <2> DEFINE x == [page[p] EXCEPT !.reader = FALSE]
  <2>1. page' = [page EXCEPT ![p] = x] /\ UNCHANGED <<conversations, asked, happened, shown>>
    BY <1>5 DEF Leave
  <2>2. x.at = page[p].at /\ x.on = page[p].on /\ x.said = page[p].said
        /\ x.question = page[p].question
    BY <1>1 DEF Away
  <2> HIDE DEF x
  <2>3. Follows(page[p], x) /\ Stands(x)
    BY <1>3, <2>1, <2>2 DEF Follows, Stands, Unrecorded, EventsInv, Standing
  <2>4. QED
    BY <1>2, <2>1, <2>3, OnePageFollows, SameRowsSame
<1>6. CASE Disconnect(p)
  <2>1. /\ page' = [page EXCEPT ![p] = Closed(p)] /\ page[p].at = "idle"
        /\ UNCHANGED <<conversations, asked, happened, shown>>
    BY <1>6 DEF Disconnect
  <2>2. Follows(page[p], Closed(p)) /\ Stands(Closed(p))
    BY <1>3, <2>1, ClosedSays, RestFollows DEF Stands
  <2>3. QED
    BY <1>2, <2>1, <2>2, OnePageFollows, SameRowsSame
<1>7. CASE Ask(p) /\ ~(Exists(p) /\ EnsureOwn(Row(p), TenantOf[p]))
  <2>1. /\ page' = [page EXCEPT ![p] = Away]
        /\ UNCHANGED <<conversations, asked, happened, shown>>
    BY <1>7 DEF Ask
  <2>2. Follows(page[p], Away) /\ Stands(Away)
    BY ClosedSays, RestFollows DEF Stands, Busy, Working
  <2>3. QED
    BY <1>2, <2>1, <2>2, OnePageFollows, SameRowsSame
<1>8. CASE Ask(p) /\ Exists(p) /\ EnsureOwn(Row(p), TenantOf[p])
  <2> DEFINE x == [page[p] EXCEPT
                     !.at = "stepping", !.question = asked', !.agentic = ToolsAtAll,
                     !.trust = AllowedTrust(Row(p)), !.document = Row(p).document,
                     !.preferred = Row(p).preferred, !.step = 0, !.nudged = FALSE]
  <2>1. /\ page[p].at = "idle" /\ asked' = asked + 1 /\ asked' \in Questions
        /\ conversations' = [conversations EXCEPT ![page[p].on] = Asked(Row(p), asked')]
        /\ page' = [page EXCEPT ![p] = x] /\ UNCHANGED <<happened, shown>>
    BY <1>8 DEF Ask, Row
  <2>2. x.at = "stepping" /\ x.question = asked' /\ x.said = page[p].said /\ x.on = page[p].on
    BY <1>1 DEF Away
  <2> HIDE DEF x
  <2>3. QED
    BY <1>8, <2>1, <2>2, QuestionIsAsked
<1>9. QED
  BY <1>4, <1>5, <1>6, <1>7, <1>8 DEF Socket

LEMMA RecordingKeepsEvents ==
    ASSUME Inv, EventsInv, NEW p \in Pages, Recording(p)
    PROVE  EventsInv'
<1> USE DEF At
<1>1. DOMAIN page[p] = DOMAIN Away /\ Tame(page[p])
  BY DEF Inv, PagesTame, Tame
<1>2. shown \subseteq (1..asked) \X Conversations
  BY DEF EventsInv, Numbered
<1>3. page[p].at \in Busy
  BY DEF Recording, RecordFinal, ShowFinal, Finally, Busy, Working
<1>4. /\ conversations[page[p].on] # None /\ page[p].on \in Conversations
      /\ page[p].question \in 1..asked
  BY <1>1, <1>3 DEF EventsInv, Standing, Numbered, Tame
<1>5. ASSUME page' = [page EXCEPT ![p] = Closed(p)],
             UNCHANGED <<conversations, asked, happened, shown>>
      PROVE  EventsInv'
  <2>1. Follows(page[p], Closed(p)) /\ Stands(Closed(p))
    BY <1>4, <1>5, ClosedSays, RestFollows DEF Stands
  <2>2. QED
    BY <1>2, <1>5, <2>1, OnePageFollows, SameRowsSame
<1>6. CASE RecordFinal(p) /\ Exists(p)
  <2> DEFINE x == [Finished(p) EXCEPT !.at = "showing"]
  <2>1. /\ page' = [page EXCEPT ![p] = x] /\ Recorded(p) /\ Unrecorded(page[p])
        /\ UNCHANGED <<asked, happened, shown>>
    BY <1>6 DEF RecordFinal, Unrecorded
  <2>2. x.at = "showing" /\ x.on = page[p].on /\ x.said = <<>> /\ x.question = page[p].question
    BY DEF Finished, Away
  <2> HIDE DEF x
  <2>3. QED
    BY <1>6, <2>1, <2>2, AnswerIsRecorded
<1>7. CASE RecordFinal(p) /\ ~Exists(p)
  BY <1>5, <1>7 DEF RecordFinal
<1>8. CASE ShowFinal(p)
  <2> DEFINE x == [page[p] EXCEPT !.at = "finishing"]
  <2>1. /\ page' = [page EXCEPT ![p] = x] /\ page[p].at = "showing"
        /\ UNCHANGED <<conversations, asked, happened>>
    BY <1>8 DEF ShowFinal, Goes
  <2>2. x.at = "finishing" /\ x.on = page[p].on /\ x.said = <<>> /\ x.question = page[p].question
    BY <1>1, <2>1 DEF Away, EventsInv, Standing
  <2> HIDE DEF x
  <2>3. Follows(page[p], x) /\ Stands(x)
    BY <1>3, <1>4, <2>1, <2>2 DEF Follows, Stands, Unrecorded, Talking, Tooling
  <2>4. shown' \subseteq (1..asked) \X Conversations
    BY <1>2, <1>4, <1>8 DEF ShowFinal
  <2>5. QED
    BY <2>1, <2>3, <2>4, OnePageFollows, SameRowsSame
<1>9. CASE Finally(p)
  <2> DEFINE x == IF page[p].reader /\ (page[p].said = <<>> \/ Exists(p))
                  THEN [Finished(p) EXCEPT !.at = "idle", !.question = None]
                  ELSE Closed(p)
  <2>1. /\ page' = [page EXCEPT ![p] = x] /\ page[p].at = "finishing"
        /\ UNCHANGED <<asked, happened, shown>>
        /\ IF page[p].said # <<>> /\ Exists(p) THEN Recorded(p) ELSE UNCHANGED conversations
    BY <1>9 DEF Finally
  <2>2. x.at \in {"idle", "open"} /\ x.on = page[p].on /\ x.said = <<>>
    BY DEF Finished, Closed, Away
  <2> HIDE DEF x
  <2>3. CASE page[p].said # <<>> /\ Exists(p)
    <3>1. Unrecorded(page[p])
      BY <2>1, <2>3 DEF Unrecorded
    <3>2. QED
      BY <2>1, <2>2, <2>3, <3>1, AnswerIsRecorded
  <2>4. CASE ~(page[p].said # <<>> /\ Exists(p))
    <3>1. UNCHANGED conversations
      BY <2>1, <2>4
    <3>2. Follows(page[p], x) /\ Stands(x)
      BY <1>4, <2>2, <3>1, RestFollows DEF Stands
    <3>3. QED
      BY <1>2, <2>1, <3>1, <3>2, OnePageFollows, SameRowsSame
  <2>5. QED
    BY <2>3, <2>4
<1>10. QED
  BY <1>6, <1>7, <1>8, <1>9 DEF Recording

LEMMA ShutdownKeepsEvents ==
    ASSUME Inv, EventsInv, Shutdown
    PROVE  EventsInv'
<1>1. ASSUME NEW o \in Pages
      PROVE  Follows(page[o], page'[o]) /\ Stands(page'[o])
  <2>1. CASE page[o].at \in {"home", "starting"}
    <3>1. page'[o] = Away
      BY <2>1 DEF Shutdown
    <3>2. Follows(page[o], Away) /\ Stands(Away)
      BY ClosedSays, RestFollows DEF Stands, Busy, Working
    <3>3. QED
      BY <3>1, <3>2
  <2>2. CASE page[o].at \notin {"home", "starting"}
    <3>1. page'[o] = Closed(o) /\ UNCHANGED conversations
      BY <2>2 DEF Shutdown
    <3>2. page[o].at \in Busy \cup {"open", "idle"}
      BY <2>2 DEF Inv, PagesTame, Tame, Phases, Busy, Working
    <3>3. Follows(page[o], Closed(o)) /\ Stands(Closed(o))
      BY <3>1, <3>2, ClosedSays, RestFollows DEF Stands, EventsInv, Standing
    <3>4. QED
      BY <3>1, <3>3
  <2>3. QED
    BY <2>1, <2>2
<1>2. UNCHANGED <<conversations, asked, happened, shown>>
  BY DEF Shutdown
<1>3. shown' \subseteq (1..asked) \X Conversations
  BY <1>2 DEF EventsInv, Numbered
<1>4. QED
  BY <1>1, <1>2, <1>3, EventsFollow, SameRowsSame

LEMMA NextKeepsEvents ==
    ASSUME Inv, EventsInv, [Next]_vars
    PROVE  EventsInv'
<1>1. CASE UNCHANGED vars
  BY <1>1 DEF vars, EventsInv, Numbered, Standing, Keeping, Unasked, RecordedOnce, Unrecorded, Opened
<1>2. CASE Shutdown
  BY <1>2, ShutdownKeepsEvents
<1>3. ASSUME NEW p \in Pages, Requests(p) \/ Socket(p) \/ Task(p)
      PROVE  EventsInv'
  BY <1>3, RequestsKeepEvents, SocketKeepsEvents, TaskKeepsEvents, RecordingKeepsEvents DEF Task
<1>4. QED
  BY <1>1, <1>2, <1>3 DEF Next

LEMMA InitEvents ==
    ASSUME Init
    PROVE  EventsInv /\ PagesSound
<1>1. /\ conversations = [c \in Conversations |-> None] /\ page = [p \in Pages |-> Away]
      /\ asked = 0 /\ shown = {} /\ happened = [q \in Questions |-> <<>>]
  BY DEF Init, InitWith
<1>2. Away.at = "home"
  BY DEF Away
<1>3. \A p \in Pages : page[p] = Away
  BY <1>1
<1>4. \A p \in Pages : page[p].at \notin Busy \cup {"open", "idle", "showing"} /\ ~Unrecorded(page[p])
  BY <1>2, <1>3 DEF Busy, Working, Unrecorded, Talking, Tooling
<1>5. PagesSound
  BY <1>3, AwayIsSound DEF PagesSound
<1>6. \A c \in Conversations : conversations[c] \notin ConversationOf
  BY <1>1, NoRowAssumption
<1>7. happened \in [Questions -> Seq(EventKinds)] /\ \A q \in Questions : happened[q] = <<>>
  BY <1>1
<1>8. Numbered
  BY <1>1, <1>4, ChatAssumption DEF Numbered
<1>9. Standing
  BY <1>4 DEF Standing
<1>10. QED
  BY <1>4, <1>5, <1>6, <1>7, <1>8, <1>9 DEF EventsInv, Keeping, Unasked, RecordedOnce
-----------------------------------------------------------------------------
(* The theorems.                                                           *)

(* An answer that a person has seen is in the conversation until it is     *)
(* deleted, whoever else speaks in it, whichever pages close and whenever  *)
(* the server ends (AskQuestion._converse).                                *)
THEOREM ShownAnswersStay == Spec => []ShownAnswersAreRecorded
<1>1. Inv => ShownAnswersAreRecorded
  BY DEF Inv
<1>2. QED
  BY <1>1, InitInv, NextKeepsInv, PTL DEF Spec

(* The three invariants hold together.                                     *)
LEMMA AllHold == Spec => [](Inv /\ PagesSound /\ EventsInv)
<1>1. Init => Inv /\ PagesSound /\ EventsInv
  BY InitInv, InitEvents
<1>2. Inv /\ PagesSound /\ EventsInv /\ [Next]_vars => (Inv /\ PagesSound /\ EventsInv)'
  BY NextKeepsInv, NextIsSound, NextKeepsEvents
<1>3. QED
  BY <1>1, <1>2, PTL DEF Spec

(* Rows stay conversations and the loop stays within its budget of steps   *)
(* and calls, in the loop and in the one pass it falls back to             *)
(* (AgenticChatAgent.answer, LiteLlmClient.stream).                        *)
THEOREM ChatIsTyped == Spec => []TypeOK
<1>1. Inv /\ PagesSound /\ EventsInv => TypeOK
  <2> SUFFICES ASSUME Inv, PagesSound, EventsInv PROVE TypeOK
    OBVIOUS
  <2>1. ASSUME NEW c \in Rows
        PROVE  /\ DOMAIN conversations[c] = {"tenant", "messages", "document", "preferred"}
               /\ \A i \in DOMAIN conversations[c].messages :
                     conversations[c].messages[i] \in ChatMessage
    <3>1. conversations[c] \in ConversationOf
      BY RowOf
    <3>2. conversations[c].messages \in Seq(ChatMessage)
      BY <3>1 DEF ConversationOf
    <3>3. \A i \in DOMAIN conversations[c].messages : conversations[c].messages[i] \in ChatMessage
      BY <3>2
    <3>4. QED
      BY <3>1, <3>3 DEF ConversationOf
  <2>2. ASSUME NEW p \in Pages
        PROVE  /\ page[p].at \in Phases /\ page[p].on \in Conversations \cup {None}
               /\ page[p].cooling \subseteq Models /\ Among(page[p].queue) \subseteq Models
               /\ page[p].step \in 0..(MaxSteps[p] + 1) /\ page[p].calls \in 0..MaxCalls
               /\ Among(page[p].said) \subseteq EventKinds
    <3>1. Tame(page[p]) /\ Bounded(p, page[p])
      BY DEF Inv, PagesTame, PagesSound, Sound
    <3>2. Among(page[p].queue) \subseteq Models /\ Among(page[p].said) \subseteq EventKinds
      BY <3>1 DEF Tame, Bounded, Among
    <3>3. QED
      BY <3>1, <3>2 DEF Tame, Bounded
  <2>3. shown \subseteq (1..asked) \X Conversations /\ asked \in 0..MaxQuestions
    BY DEF EventsInv, Numbered
  <2>4. QED
    BY <2>1, <2>2, <2>3 DEF TypeOK
<1>2. QED
  BY <1>1, AllHold, PTL

(* With any models, any preference and any refusals, no request of a       *)
(* conversation goes further than the repository allows, and none leaves   *)
(* the installation when a document was attached as the question was asked *)
(* (AskQuestion._allowed_trust, LiteLlmClient.stream).                     *)
THEOREM StreamKeepsPolicy == Spec => []StreamStaysWithinPolicy
<1>1. Inv /\ PagesSound /\ EventsInv => StreamStaysWithinPolicy
  <2> SUFFICES ASSUME PagesSound, NEW p \in Pages,
                      page[p].at \in {"streaming", "expanding"}, page[p].queue # <<>>,
                      Asking(p) # Local
               PROVE  choice[Asking(p)].trust <=
                        (IF page[p].document THEN 0 ELSE MaxTrust[policy])
    BY DEF StreamStaysWithinPolicy
  <2>1. page[p].queue \in Seq(Models) /\ Len(page[p].queue) > 0
    BY DEF PagesSound, Sound, Bounded
  <2>2. Asking(p) \in Among(page[p].queue)
    BY <2>1, AmongTail DEF Asking
  <2>3. choice[Asking(p)].trust <= page[p].trust /\ page[p].trust = Limit(page[p])
    BY <2>2 DEF PagesSound, Sound, Trusted, Within, Talking, Tooling
  <2>4. QED
    BY <2>3 DEF Limit
<1>2. QED
  BY <1>1, AllHold, PTL

(* Whatever rests and recovers, a refusal is final only after every model  *)
(* that may answer was asked (LiteLlmClient.stream, _live_first).          *)
THEOREM RefusalMeansAllWereAsked == Spec => []RefusedOnlyWhenAllWereAsked
<1>1. Inv /\ PagesSound /\ EventsInv => RefusedOnlyWhenAllWereAsked
  <2> SUFFICES ASSUME PagesSound, NEW p \in Pages, page[p].refused
               PROVE  Among(Candidates(Requirements(p))) \subseteq page[p].tried
    BY DEF RefusedOnlyWhenAllWereAsked
  <2>1. page[p].agentic \in BOOLEAN /\ Among(Candidates(NeedsOf(page[p]))) \subseteq page[p].tried
    BY DEF PagesSound, Sound, Bounded, Tireless
  <2>2. QED
    BY <2>1, RequirementsAre
<1>2. QED
  BY <1>1, AllHold, PTL

(* Several pages may answer in one conversation and each may be cut off    *)
(* anywhere: what was done on a question is recorded whole, once and in    *)
(* its order, or not at all (AskQuestion._record, mapper.apply_changes).   *)
THEOREM AnswersAreRecordedOnce == Spec => []EventsAreRecordedOnce
<1>1. Inv /\ PagesSound /\ EventsInv => EventsAreRecordedOnce
  <2> SUFFICES ASSUME Inv, EventsInv, NEW c \in Rows, NEW q \in 1..asked
               PROVE  \/ About(conversations[c], q) \in {<<>>, <<"question">>}
                      \/ About(conversations[c], q) = <<"question">> \o happened[q]
    BY DEF EventsAreRecordedOnce
  <2>1. c \in Conversations /\ conversations[c] \in ConversationOf /\ q \in Questions
    <3>1. asked \in 0..MaxQuestions /\ MaxQuestions \in Nat
      BY ChatAssumption DEF EventsInv, Numbered
    <3>2. q \in Questions
      BY <3>1 DEF Questions
    <3>3. QED
      BY <3>2, RowOf
  <2>2. QED
    BY <2>1 DEF EventsInv, RecordedOnce, Opened
<1>2. QED
  BY <1>1, AllHold, PTL
-----------------------------------------------------------------------------
(* Refinement.  The rows as Transcript sees them.                          *)

LEMMA LogIs ==
    ASSUME Inv, NEW c
    PROVE  /\ DOMAIN Log = Conversations
           /\ c \in Begun \ Gone <=> c \in Rows
           /\ c \in Rows => /\ c \in Conversations /\ conversations[c] \in ConversationOf
                            /\ Log[c] = conversations[c].messages /\ Log[c] \in Seq(ChatMessage)
<1>1. c \in Begun \ Gone <=> c \in Rows
  BY DEF Begun, Gone, Rows
<1>2. ASSUME c \in Rows
      PROVE  /\ c \in Conversations /\ conversations[c] \in ConversationOf
             /\ Log[c] = conversations[c].messages /\ Log[c] \in Seq(ChatMessage)
  <2>1. c \in Conversations /\ conversations[c] \in ConversationOf
    BY <1>2, RowOf
  <2>2. Log[c] = conversations[c].messages
    BY <1>2, <2>1 DEF Log
  <2>3. QED
    BY <2>1, <2>2 DEF ConversationOf
<1>3. QED
  BY <1>1, <1>2 DEF Log

(* A row is opened, continued or deleted and the others stay.              *)
LEMMA LogOpens ==
    ASSUME Inv, NEW c \in Conversations, conversations[c] = None,
           NEW row \in ConversationOf, row.messages = <<>>,
           conversations' = [conversations EXCEPT ![c] = row]
    PROVE  c \notin Begun /\ Begun' = Begun \cup {c} /\ Gone' = Gone /\ Log' = Log
<1>1. /\ conversations'[c] = row
      /\ \A o \in Conversations : o # c => conversations'[o] = conversations[o]
  BY DEF Inv, RowsTyped
<1>2. row \notin {None, Deleted} /\ None # Deleted
  BY NoRowAssumption, ChatAssumption
<1>3. \A o \in Conversations : Log'[o] = Log[o]
  BY <1>1, <1>2 DEF Log, Rows
<1>4. QED
  BY <1>1, <1>2, <1>3 DEF Begun, Gone, Log

LEMMA LogGrows ==
    ASSUME Inv, NEW c \in Rows, NEW row \in ConversationOf,
           conversations' = [conversations EXCEPT ![c] = row]
    PROVE  Begun' = Begun /\ Gone' = Gone /\ Log' = [Log EXCEPT ![c] = row.messages]
<1>1. /\ c \in Conversations /\ conversations[c] \in ConversationOf /\ conversations'[c] = row
      /\ \A o \in Conversations : o # c => conversations'[o] = conversations[o]
  BY RowOf DEF Inv, RowsTyped
<1>2. row \notin {None, Deleted} /\ conversations[c] \notin {None, Deleted}
  BY <1>1, NoRowAssumption
<1>3. Begun' = Begun /\ Gone' = Gone
  BY <1>1, <1>2 DEF Begun, Gone
<1>4. Log'[c] = row.messages /\ \A o \in Conversations : o # c => Log'[o] = Log[o]
  BY <1>1, <1>2 DEF Log, Rows
<1>5. QED
  BY <1>1, <1>3, <1>4 DEF Log

LEMMA LogGoes ==
    ASSUME Inv, NEW c \in Rows, conversations' = [conversations EXCEPT ![c] = Deleted]
    PROVE  Begun' = Begun /\ Gone' = Gone \cup {c} /\ Log' = [Log EXCEPT ![c] = <<>>]
<1>1. /\ c \in Conversations /\ conversations[c] \in ConversationOf /\ conversations'[c] = Deleted
      /\ \A o \in Conversations : o # c => conversations'[o] = conversations[o]
  BY RowOf DEF Inv, RowsTyped
<1>2. conversations[c] \notin {None, Deleted} /\ None # Deleted
  BY <1>1, NoRowAssumption, ChatAssumption
<1>3. Begun' = Begun /\ Gone' = Gone \cup {c}
  BY <1>1, <1>2 DEF Begun, Gone
<1>4. Log'[c] = <<>> /\ \A o \in Conversations : o # c => Log'[o] = Log[o]
  BY <1>1, <1>2 DEF Log, Rows
<1>5. QED
  BY <1>1, <1>3, <1>4 DEF Log

(* What a selection says of a question is said in the row.                 *)
LEMMA SaidInRow ==
    ASSUME NEW row \in ConversationOf, NEW q
    PROVE  /\ Opened(row, q) => \A i \in DOMAIN row.messages :
                 row.messages[i].of = q => row.messages[i].kind = "question"
           /\ About(row, q) = <<"question">> =>
                 \E i \in DOMAIN row.messages : row.messages[i].of = q
<1> DEFINE s == row.messages
           k == Only(s, SaidOn(q))
<1>1. s \in Seq(ChatMessage) /\ \A i \in DOMAIN s : s[i] \in ChatMessage
  BY DEF ConversationOf
<1>2. k \in Seq(ChatMessage) /\ Among(k) = Among(s) \cap SaidOn(q)
  BY <1>1, OnlyKeeps
<1>3. About(row, q) = KindsOf(k)
  BY AboutIs
<1>4. DOMAIN KindsOf(k) = DOMAIN k /\ \A i \in DOMAIN k : KindsOf(k)[i] = k[i].kind
  BY DEF KindsOf
<1>5. DOMAIN <<"question">> = {1} /\ <<"question">>[1] = "question" /\ DOMAIN <<>> = {}
  OBVIOUS
<1>6. \A i \in DOMAIN s : s[i].of = q => s[i] \in Among(k)
  BY <1>1, <1>2 DEF Among, SaidOn
<1> HIDE DEF s, k
<1>7. ASSUME Opened(row, q), NEW i \in DOMAIN s, s[i].of = q
      PROVE  s[i].kind = "question"
  <2>1. PICK j \in DOMAIN k : s[i] = k[j]
    BY <1>6, <1>7 DEF Among
  <2>2. j \in DOMAIN About(row, q) /\ About(row, q)[j] = k[j].kind
    BY <1>3, <1>4
  <2>3. About(row, q) = <<"question">>
    BY <1>5, <1>7, <2>2 DEF Opened
  <2>4. j = 1
    BY <1>5, <2>2, <2>3
  <2>5. QED
    BY <1>5, <2>1, <2>2, <2>3, <2>4
<1>8. ASSUME About(row, q) = <<"question">>
      PROVE  \E i \in DOMAIN s : s[i].of = q
  <2>1. 1 \in DOMAIN k
    BY <1>3, <1>4, <1>5, <1>8
  <2>2. k[1] \in Among(s) /\ k[1] \in SaidOn(q)
    BY <1>2, <2>1 DEF Among
  <2>3. QED
    BY <2>2 DEF Among, SaidOn
<1>9. QED
  BY <1>7, <1>8 DEF s

LEMMA RowSaysOf ==
    ASSUME Inv, NEW c \in Rows, NEW q
    PROVE  /\ Opened(conversations[c], q) => Promise!Unanswered(c, q)
           /\ About(conversations[c], q) = <<"question">> => Promise!Mentions(c, q) # {}
<1>1. conversations[c] \in ConversationOf /\ Log[c] = conversations[c].messages
  BY LogIs
<1>2. Promise!Mentions(c, q) = {i \in DOMAIN conversations[c].messages :
                                   conversations[c].messages[i].of = q}
  BY <1>1 DEF Promise!Mentions
<1>3. QED
  BY <1>1, <1>2, SaidInRow DEF Promise!Unanswered

LEMMA HoldsIsEnded ==
    ASSUME Inv, NEW c \in Conversations, NEW q, Holds(c, q)
    PROVE  c \in Gone \/ Promise!Ended(c, q)
<1>1. CASE conversations[c] = Deleted
  BY <1>1 DEF Gone
<1>2. CASE c \in Rows
  <2>1. Log[c] = conversations[c].messages /\ conversations[c] # Deleted
    BY <1>2, LogIs DEF Rows
  <2>2. QED
    BY <2>1 DEF Holds, Promise!Ended, Promise!Mentions
<1>3. QED
  BY <1>1, <1>2 DEF Holds
-----------------------------------------------------------------------------
(* What the agent does on a question is kept and happens, or is nothing.   *)

(* No end of a question among the events.                                  *)
Unended(events) == \A i \in DOMAIN events : events[i] \notin FinalKinds

(* Until it is about to record, the agent goes on and ended nothing.       *)
Ongoing == \A p \in Pages : page[p].at \in Talking => Unended(page[p].said)

GoesOn(p) == page'[p].at \in Talking => page[p].at \in Talking /\ page'[p].said = page[p].said

Does(p, event) ==
    /\ happened' = [happened EXCEPT ![page[p].question] = Append(@, event)]
    /\ UNCHANGED <<conversations, asked, shown>>
    /\ page'[p].at \in Talking => /\ event \notin FinalKinds
                                  /\ page'[p].said = Append(page[p].said, event)

Works(p) ==
    \/ GoesOn(p) /\ UNCHANGED <<conversations, asked, happened, shown>>
    \/ \E event \in EventKinds : Does(p, event)

LEMMA UnendedMore ==
    ASSUME NEW events \in Seq(EventKinds), NEW event \in EventKinds \ FinalKinds, Unended(events)
    PROVE  Unended(Append(events, event))
<1> DEFINE more == Append(events, event)
<1>1. /\ DOMAIN more = DOMAIN events \cup {Len(events) + 1}
      /\ \A i \in DOMAIN events : more[i] = events[i]
      /\ more[Len(events) + 1] = event
  OBVIOUS
<1> HIDE DEF more
<1>2. Unended(more)
  BY <1>1 DEF Unended
<1>3. QED
  BY <1>2 DEF more

LEMMA NotesWork ==
    ASSUME Inv, NEW p \in Pages, NEW new, DOMAIN new = DOMAIN Away,
           Notes(p, new) \/ Quietly(p, new), page[p].at \in Talking, new.said = page[p].said
    PROVE  Works(p)
<1>1. page'[p].said = page[p].said
  BY DEF Notes, Quietly, Inv, PagesTame, Away
<1>2. QED
  BY <1>1 DEF Works, GoesOn, Notes, Quietly

LEMMA YieldsWork ==
    ASSUME Inv, NEW p \in Pages, NEW event \in EventKinds \ FinalKinds, NEW new,
           DOMAIN new = DOMAIN Away, Yields(p, event, new), new.said = page[p].said
    PROVE  Works(p)
<1> DEFINE more == Append(new.said, event)
           x == [new EXCEPT !.said = more, !.at = IF page[p].reader THEN @ ELSE "finishing"]
<1>1. page'[p] = x /\ more = Append(page[p].said, event)
  BY DEF Yields, Inv, PagesTame
<1> HIDE DEF more
<1>2. x.said = more
  BY DEF Away
<1>3. QED
  BY <1>1, <1>2 DEF Works, Does, Yields

LEMMA ConcludesWork ==
    ASSUME Inv, NEW p \in Pages, NEW event \in EventKinds, Concludes(p, event)
    PROVE  Works(p)
<1> DEFINE more == Append(Over(p).said, event)
           x == [Over(p) EXCEPT !.at = "recording", !.said = more]
<1>1. page'[p] = x
  BY DEF Concludes, Inv, PagesTame
<1> HIDE DEF more
<1>2. x.at = "recording"
  BY OverSays DEF Away
<1>3. QED
  BY <1>1, <1>2 DEF Works, Does, Concludes, Talking, Tooling

LEMMA TaskWorks ==
    ASSUME Inv, NEW p \in Pages, Stream(p) \/ Loop(p)
    PROVE  Works(p) /\ page[p].at \in Talking
<1> USE DEF At
<1>1. page[p].at \in Talking
  BY DEF Stream, Loop, NextStep, Unread, Replace, GiveUp, BreakOff, Overflow, Answer,
     AskToLookUp, CallTools, Expand, Result, NextCall, Talking, Tooling
<1>2. /\ DOMAIN Over(p) = DOMAIN Away /\ Over(p).said = page[p].said
      /\ DOMAIN page[p] = DOMAIN Away
  BY OverSays
<1>3. /\ "answer" \in EventKinds /\ "failure" \in EventKinds
      /\ "call" \in EventKinds \ FinalKinds /\ "result" \in EventKinds \ FinalKinds
  BY DEF EventKinds, FinalKinds
<1>4. CASE NextStep(p)
  <2>1. PICK resting \in SUBSET page[p].cooling :
          Quietly(p, [page[p] EXCEPT !.at = "streaming", !.step = @ + 1, !.cooling = resting,
                        !.queue = LiveFirst(Candidates(Requirements(p)), resting)])
    BY <1>4 DEF NextStep
  <2> DEFINE asking == LiveFirst(Candidates(Requirements(p)), resting)
             x == [page[p] EXCEPT !.at = "streaming", !.step = @ + 1, !.cooling = resting,
                                  !.queue = asking]
  <2>2. Quietly(p, x)
    BY <2>1
  <2> HIDE DEF asking
  <2>3. x.said = page[p].said /\ DOMAIN x = DOMAIN Away
    BY <1>2 DEF Away
  <2> HIDE DEF x
  <2>4. QED
    BY <1>1, <2>2, <2>3, NotesWork
<1>5. CASE Unread(p)
  <2> DEFINE x == [Over(p) EXCEPT !.at = "finishing"]
  <2>1. Quietly(p, x)
    BY <1>5 DEF Unread
  <2>2. x.said = page[p].said /\ DOMAIN x = DOMAIN Away
    BY <1>2 DEF Away
  <2> HIDE DEF x
  <2>3. QED
    BY <1>1, <2>1, <2>2, NotesWork
<1>6. CASE Replace(p)
  <2> DEFINE left == Tail(page[p].queue)
             one == Asking(p)
             x == [page[p] EXCEPT !.cooling = @ \cup {one}, !.queue = left, !.tried = @ \cup {one}]
  <2>1. Notes(p, x)
    BY <1>6 DEF Replace
  <2> HIDE DEF left, one
  <2>2. x.said = page[p].said /\ DOMAIN x = DOMAIN Away
    BY <1>2 DEF Away
  <2> HIDE DEF x
  <2>3. QED
    BY <1>1, <2>1, <2>2, NotesWork
<1>7. CASE GiveUp(p)
  <2> DEFINE last == Among(page[p].queue)
             more == Append(page[p].said, "failure")
             x == [page[p] EXCEPT !.at = "recording", !.said = more,
                     !.queue = <<>>, !.refused = TRUE,
                     !.tried = @ \cup last, !.cooling = @ \cup last]
  <2>1. page'[p] = x /\ UNCHANGED <<conversations, asked, shown>>
        /\ happened' = [happened EXCEPT ![page[p].question] = Append(@, "failure")]
    BY <1>7 DEF GiveUp, Inv, PagesTame
  <2> HIDE DEF last, more
  <2>2. x.at = "recording"
    BY <1>2 DEF Away
  <2> HIDE DEF x
  <2>3. Does(p, "failure")
    BY <2>1, <2>2 DEF Does, Talking, Tooling
  <2>4. QED
    BY <1>1, <1>3, <2>3 DEF Works
<1>8. CASE BreakOff(p) \/ Answer(p)
  BY <1>1, <1>3, <1>8, ConcludesWork DEF BreakOff, Answer
<1>9. CASE Overflow(p)
  <2> DEFINE x == [Over(p) EXCEPT !.at = "stepping", !.agentic = FALSE]
  <2>1. x.said = page[p].said /\ DOMAIN x = DOMAIN Away
    BY <1>2 DEF Away
  <2>2. Notes(p, x) \/ Concludes(p, "failure")
    BY <1>9 DEF Overflow
  <2> HIDE DEF x
  <2>3. QED
    BY <1>1, <1>3, <2>1, <2>2, NotesWork, ConcludesWork
<1>10. CASE AskToLookUp(p)
  <2> DEFINE x == [Over(p) EXCEPT !.at = "stepping", !.nudged = TRUE]
  <2>1. Notes(p, x)
    BY <1>10 DEF AskToLookUp
  <2>2. x.said = page[p].said /\ DOMAIN x = DOMAIN Away
    BY <1>2 DEF Away
  <2> HIDE DEF x
  <2>3. QED
    BY <1>1, <2>1, <2>2, NotesWork
<1>11. CASE CallTools(p)
  <2>1. PICK n \in 1..MaxCalls : Yields(p, "call", [Over(p) EXCEPT !.at = "calling", !.calls = n])
    BY <1>11 DEF CallTools
  <2> DEFINE x == [Over(p) EXCEPT !.at = "calling", !.calls = n]
  <2>2. Yields(p, "call", x)
    BY <2>1
  <2>3. x.said = page[p].said /\ DOMAIN x = DOMAIN Away
    BY <1>2 DEF Away
  <2> HIDE DEF x
  <2>4. QED
    BY <1>1, <1>3, <2>2, <2>3, YieldsWork
<1>12. CASE Expand(p)
  <2> DEFINE asking == <<Select(choice, PlainNeeds(p))>>
             x == [page[p] EXCEPT !.at = "expanding", !.queue = asking]
  <2>1. Quietly(p, x)
    BY <1>12 DEF Expand
  <2> HIDE DEF asking
  <2>2. x.said = page[p].said /\ DOMAIN x = DOMAIN Away
    BY <1>2 DEF Away
  <2> HIDE DEF x
  <2>3. QED
    BY <1>1, <2>1, <2>2, NotesWork
<1>13. CASE Result(p)
  <2> DEFINE next == IF page[p].calls = 1 THEN "stepping" ELSE "between"
             x == [Over(p) EXCEPT !.calls = @ - 1, !.at = next]
  <2>1. Yields(p, "result", x)
    BY <1>13 DEF Result
  <2> HIDE DEF next
  <2>2. x.said = page[p].said /\ DOMAIN x = DOMAIN Away
    BY <1>2 DEF Away
  <2> HIDE DEF x
  <2>3. QED
    BY <1>1, <1>3, <2>1, <2>2, YieldsWork
<1>14. CASE NextCall(p)
  <2> DEFINE x == [page[p] EXCEPT !.at = "calling"]
  <2>1. Yields(p, "call", x)
    BY <1>14 DEF NextCall
  <2>2. x.said = page[p].said /\ DOMAIN x = DOMAIN Away
    BY <1>2 DEF Away
  <2> HIDE DEF x
  <2>3. QED
    BY <1>1, <1>3, <2>1, <2>2, YieldsWork
<1>15. QED
  BY <1>1, <1>4, <1>5, <1>6, <1>7, <1>8, <1>9, <1>10, <1>11, <1>12, <1>13, <1>14 DEF Stream, Loop

(* What else a page does leaves its answer alone, or begins with none.     *)
Rests(p) == page'[p].at \in Talking =>
               \/ page[p].at \in Talking /\ page'[p].said = page[p].said
               \/ page'[p].said = <<>>

LEMMA OthersRest ==
    ASSUME Inv, EventsInv, NEW p \in Pages, Requests(p) \/ Socket(p) \/ Recording(p)
    PROVE  Rests(p)
<1> USE DEF At
<1>1. DOMAIN page[p] = DOMAIN Away /\ DOMAIN page = Pages
  BY DEF Inv, PagesTame, Tame
<1>2. Talking \cap {"home", "starting", "open", "idle", "showing", "finishing"} = {}
  BY DEF Talking, Tooling
<1>3. CASE FindEmpty(p) \/ StartConversation(p) \/ OpenListed(p)
  <2>1. page'[p].at \in {"open", "starting"}
    BY <1>1, <1>3 DEF FindEmpty, StartConversation, OpenListed, Goes, Away
  <2>2. QED
    BY <1>2, <2>1 DEF Rests
<1>4. CASE AttachDocument(p) \/ DetachDocument(p) \/ DeleteConversation(p)
  BY <1>4 DEF AttachDocument, DetachDocument, DeleteConversation, Changes, Rests
<1>5. CASE Connect(p)
  BY <1>1, <1>2, <1>5 DEF Connect, Rests, Away
<1>6. CASE Leave(p)
  BY <1>1, <1>6 DEF Leave, Rests, Away
<1>7. CASE Disconnect(p)
  BY <1>1, <1>2, <1>7, ClosedSays DEF Disconnect, Rests
<1>8. CASE Ask(p)
  <2>1. page[p].said = <<>>
    BY <1>8 DEF Ask, EventsInv, Standing
  <2>2. CASE Exists(p) /\ EnsureOwn(Row(p), TenantOf[p])
    <3> DEFINE x == [page[p] EXCEPT
                       !.at = "stepping", !.question = asked', !.agentic = ToolsAtAll,
                       !.trust = AllowedTrust(Row(p)), !.document = Row(p).document,
                       !.preferred = Row(p).preferred, !.step = 0, !.nudged = FALSE]
    <3>1. page'[p] = x
      BY <1>1, <1>8, <2>2 DEF Ask
    <3>2. x.said = page[p].said
      BY <1>1 DEF Away
    <3> HIDE DEF x
    <3>3. QED
      BY <2>1, <3>1, <3>2 DEF Rests
  <2>3. CASE ~(Exists(p) /\ EnsureOwn(Row(p), TenantOf[p]))
    <3>1. page'[p] = Away
      BY <1>1, <1>8, <2>3 DEF Ask
    <3>2. QED
      BY <1>2, <3>1, ClosedSays DEF Rests
  <2>4. QED
    BY <2>2, <2>3
<1>9. CASE Recording(p)
  <2>1. CASE RecordFinal(p)
    <3>1. page'[p] = Closed(p) \/ page'[p] = [Finished(p) EXCEPT !.at = "showing"]
      BY <1>1, <2>1 DEF RecordFinal
    <3>2. page'[p].at \in {"open", "showing"}
      BY <3>1, ClosedSays DEF Finished, Away
    <3>3. QED
      BY <1>2, <3>2 DEF Rests
  <2>2. CASE ShowFinal(p)
    BY <1>1, <1>2, <2>2 DEF ShowFinal, Goes, Away, Rests
  <2>3. CASE Finally(p)
    <3>1. page'[p] = Closed(p) \/ page'[p] = [Finished(p) EXCEPT !.at = "idle", !.question = None]
      BY <1>1, <2>3 DEF Finally
    <3>2. page'[p].at \in {"open", "idle"}
      BY <3>1, ClosedSays DEF Finished, Away
    <3>3. QED
      BY <1>2, <3>2 DEF Rests
  <2>4. QED
    BY <1>9, <2>1, <2>2, <2>3 DEF Recording
<1>10. QED
  BY <1>3, <1>4, <1>5, <1>6, <1>7, <1>8, <1>9 DEF Requests, Socket

LEMMA OngoingStays ==
    ASSUME Inv, EventsInv, Ongoing, [Next]_vars
    PROVE  Ongoing'
<1>1. Unended(<<>>)
  BY DEF Unended
<1>2. CASE UNCHANGED vars
  BY <1>2 DEF vars, Ongoing
<1>3. CASE Shutdown
  <2>1. \A p \in Pages : page'[p].at \in {"home", "open"}
    BY <1>3, ClosedSays DEF Shutdown
  <2>2. QED
    BY <2>1 DEF Ongoing, Talking, Tooling
<1>4. ASSUME NEW p \in Pages, Requests(p) \/ Socket(p) \/ Task(p)
      PROVE  Ongoing'
  <2>1. \A o \in Pages : o # p => page'[o] = page[o]
    <3>1. DOMAIN page = Pages
      BY DEF Inv, PagesTame
    <3>2. CASE Stream(p) \/ Loop(p)
      BY <3>1, <3>2, StreamIsQuiet, LoopIsQuiet DEF Quiet
    <3>3. CASE Requests(p)
      BY <3>1, <3>3 DEF Requests, FindEmpty, StartConversation, OpenListed, AttachDocument,
         DetachDocument, DeleteConversation, Changes, Goes
    <3>4. CASE Socket(p)
      BY <3>1, <3>4 DEF Socket, Connect, Leave, Disconnect, Ask
    <3>5. CASE Recording(p)
      BY <3>1, <3>5 DEF Recording, RecordFinal, ShowFinal, Finally, Goes
    <3>6. QED
      BY <1>4, <3>2, <3>3, <3>4, <3>5 DEF Task
  <2>2. ASSUME page'[p].at \in Talking
        PROVE  Unended(page'[p].said)
    <3>1. CASE Stream(p) \/ Loop(p)
      <4>1. Works(p) /\ page[p].at \in Talking
        BY <3>1, TaskWorks
      <4>2. Unended(page[p].said) /\ page[p].said \in Seq(EventKinds)
        BY <4>1 DEF Ongoing, Inv, PagesTame, Tame
      <4>3. QED
        BY <2>2, <4>1, <4>2, UnendedMore DEF Works, GoesOn, Does
    <3>2. CASE Recording(p) \/ Requests(p) \/ Socket(p)
      BY <1>1, <2>2, <3>2, OthersRest DEF Rests, Ongoing
    <3>3. QED
      BY <1>4, <3>1, <3>2 DEF Task
  <2>3. QED
    BY <2>1, <2>2 DEF Ongoing
<1>5. QED
  BY <1>2, <1>3, <1>4 DEF Next
-----------------------------------------------------------------------------
(* Every step is one of Transcript's or leaves what it shows alone.        *)

LEMMA SameLog ==
    ASSUME UNCHANGED conversations
    PROVE  UNCHANGED <<Begun, Gone, Log>>
  BY DEF Begun, Gone, Log, Rows

LEMMA NothingShown ==
    ASSUME UNCHANGED <<conversations, asked, happened, shown>>
    PROVE  [Promise!Next]_(Promise!vars)
  BY SameLog DEF Promise!vars

LEMMA EventIsAct ==
    ASSUME Inv, EventsInv, Ongoing, NEW p \in Pages, page[p].at \in Talking,
           NEW event \in EventKinds, Does(p, event)
    PROVE  Promise!Next
<1> DEFINE q == page[p].question
<1>1. Unrecorded(page[p]) /\ page[p].at \in Busy
  BY UnrecordedAreBusy DEF Unrecorded
<1>2. q \in Questions /\ q <= asked
  BY <1>1 DEF EventsInv, Numbered, Inv, PagesTame, Tame
<1>3. page[p].said = happened[q] /\ Unended(page[p].said)
  BY <1>1 DEF EventsInv, Keeping, Ongoing
<1>4. \A c \in Rows : Promise!Unanswered(c, q)
  BY <1>1, RowOf, RowSaysOf DEF EventsInv, Keeping
<1>5. \A c \in Promise!There : Promise!Unanswered(c, q)
  BY <1>4, LogIs DEF Promise!There
<1>6. happened' = [happened EXCEPT ![q] = Append(@, event)] /\ UNCHANGED <<Begun, Gone, Log, asked, shown>>
  BY SameLog DEF Does
<1> HIDE DEF q
<1>7. Promise!Act(q, event)
  BY <1>2, <1>3, <1>5, <1>6 DEF Promise!Act, Unended
<1>8. QED
  BY <1>2, <1>7 DEF Promise!Next

LEMMA AnswerIsRecord ==
    ASSUME Inv, EventsInv, NEW p \in Pages, Unrecorded(page[p]), page[p].said # <<>>,
           Exists(p), Recorded(p), UNCHANGED <<asked, happened, shown>>
    PROVE  Promise!Next
<1> DEFINE c == page[p].on
           q == page[p].question
           row == ApplyChanges(conversations[c], page[p].said, q)
<1>1. c \in Rows /\ c \in Conversations /\ conversations[c] \in ConversationOf
  BY RowOf DEF Exists
<1>2. page[p].said \in Seq(EventKinds) /\ page[p].said = happened[q] /\ q \in Questions
  BY UnrecordedAreBusy DEF EventsInv, Keeping, Inv, PagesTame, Tame
<1>3. About(conversations[c], q) = <<"question">>
  BY <1>1 DEF EventsInv, Keeping
<1>4. Promise!Mentions(c, q) # {} /\ Promise!Unanswered(c, q)
  BY <1>1, <1>3, RowSaysOf DEF Opened
<1>5. row \in ConversationOf
  BY <1>1, <1>2, RecordedContinues DEF Continues
<1>6. row.messages = Log[c] \o Replayed(happened[q], q)
  BY <1>1, <1>2, LogIs DEF ApplyChanges, ConversationOf
<1>7. conversations' = [conversations EXCEPT ![c] = row]
  BY DEF Recorded
<1> HIDE DEF row
<1>8. Begun' = Begun /\ Gone' = Gone /\ Log' = [Log EXCEPT ![c] = row.messages]
  BY <1>1, <1>5, <1>7, LogGrows
<1>9. Log' = [Log EXCEPT ![c] = @ \o Replayed(happened[q], q)]
  BY <1>6, <1>8
<1>10. c \in Promise!There
  BY <1>1, LogIs DEF Promise!There
<1> HIDE DEF c, q
<1>11. happened[q] # <<>>
  BY <1>2
<1>12. Promise!Record(c, q)
  BY <1>4, <1>8, <1>9, <1>10, <1>11 DEF Promise!Record, Replayed
<1>13. QED
  BY <1>1, <1>2, <1>12 DEF Promise!Next

LEMMA RequestsAreShown ==
    ASSUME Inv, NEW p \in Pages, Requests(p)
    PROVE  [Promise!Next]_(Promise!vars)
<1>1. CASE FindEmpty(p) \/ OpenListed(p)
  BY <1>1, NothingShown DEF FindEmpty, OpenListed
<1>2. CASE StartConversation(p)
  <2>1. PICK c \in Conversations, m \in Preferences :
          /\ conversations[c] = None
          /\ conversations' = [conversations EXCEPT ![c] = Start(TenantOf[p], m)]
    BY <1>2 DEF StartConversation
  <2> DEFINE row == Start(TenantOf[p], m)
  <2>2. row \in ConversationOf /\ row.messages = <<>>
    BY ChatAssumption DEF Start, ConversationOf
  <2>3. c \notin Begun /\ Begun' = Begun \cup {c} /\ Gone' = Gone /\ Log' = Log
    BY <2>1, <2>2, LogOpens
  <2>4. Promise!Open(c)
    BY <1>2, <2>3 DEF StartConversation, Promise!Open
  <2>5. QED
    BY <2>4 DEF Promise!Next
<1>3. ASSUME NEW new, Changes(p, new)
      PROVE  /\ page[p].on \in Rows /\ page[p].on \in Conversations
             /\ Row(p) = conversations[page[p].on] /\ Row(p) \in ConversationOf
             /\ conversations' = [conversations EXCEPT ![page[p].on] = new]
             /\ UNCHANGED <<asked, happened, shown>>
  BY <1>3, RowOf DEF Changes, Exists, Row
<1>4. ASSUME NEW b \in BOOLEAN, NEW new, new = [Row(p) EXCEPT !.document = b], Changes(p, new)
      PROVE  [Promise!Next]_(Promise!vars)
  <2>1. /\ page[p].on \in Rows
        /\ Row(p) = conversations[page[p].on] /\ Row(p) \in ConversationOf
        /\ conversations' = [conversations EXCEPT ![page[p].on] = new]
        /\ UNCHANGED <<asked, happened, shown>>
    BY <1>3, <1>4
  <2>2. new \in ConversationOf /\ new.messages = Log[page[p].on]
    BY <1>4, <2>1, LogIs DEF ConversationOf
  <2>3. Begun' = Begun /\ Gone' = Gone /\ Log' = [Log EXCEPT ![page[p].on] = new.messages]
    BY <2>1, <2>2, LogGrows
  <2>4. Log' = Log
    BY <2>2, <2>3 DEF Log
  <2>5. QED
    BY <2>1, <2>3, <2>4 DEF Promise!vars
<1>5. CASE AttachDocument(p)
  BY <1>4, <1>5 DEF AttachDocument, Attached
<1>6. CASE DetachDocument(p)
  BY <1>4, <1>6 DEF DetachDocument, Detached
<1>7. CASE DeleteConversation(p)
  <2> DEFINE c == page[p].on
  <2>1. /\ c \in Rows /\ c \in Conversations
        /\ conversations' = [conversations EXCEPT ![c] = Deleted]
        /\ UNCHANGED <<asked, happened, shown>>
    BY <1>3, <1>7 DEF DeleteConversation
  <2> HIDE DEF c
  <2>2. Begun' = Begun /\ Gone' = Gone \cup {c} /\ Log' = [Log EXCEPT ![c] = <<>>]
    BY <2>1, LogGoes
  <2>3. Promise!Delete(c)
    BY <2>1, <2>2, LogIs DEF Promise!Delete, Promise!There
  <2>4. QED
    BY <2>1, <2>3 DEF Promise!Next
<1>8. QED
  BY <1>1, <1>2, <1>5, <1>6, <1>7 DEF Requests

LEMMA SocketIsShown ==
    ASSUME Inv, NEW p \in Pages, Socket(p)
    PROVE  [Promise!Next]_(Promise!vars)
<1>1. CASE Connect(p) \/ Leave(p) \/ Disconnect(p)
  BY <1>1, NothingShown DEF Connect, Leave, Disconnect
<1>2. CASE Ask(p) /\ ~(Exists(p) /\ EnsureOwn(Row(p), TenantOf[p]))
  BY <1>2, NothingShown DEF Ask
<1>3. CASE Ask(p) /\ Exists(p) /\ EnsureOwn(Row(p), TenantOf[p])
  <2> DEFINE c == page[p].on
             row == Asked(conversations[c], asked')
  <2>1. /\ asked' = asked + 1 /\ asked' \in Questions
        /\ conversations' = [conversations EXCEPT ![c] = row]
        /\ UNCHANGED <<happened, shown>>
    BY <1>3 DEF Ask
  <2>2. c \in Rows /\ c \in Conversations /\ conversations[c] \in ConversationOf
    BY <1>3, RowOf DEF Exists
  <2>3. row \in ConversationOf
    BY <2>1, <2>2, AppendedContinues DEF Asked, Roles, Continues
  <2>4. row.messages = Append(Log[c], [kind |-> "question", of |-> asked'])
    BY <2>2, LogIs DEF Asked, Appended, ConversationOf
  <2> HIDE DEF c, row
  <2>5. Begun' = Begun /\ Gone' = Gone /\ Log' = [Log EXCEPT ![c] = row.messages]
    BY <2>1, <2>2, <2>3, LogGrows
  <2>6. Promise!Question(c)
    BY <2>1, <2>2, <2>4, <2>5, LogIs DEF Promise!Question, Promise!There
  <2>7. QED
    BY <2>2, <2>6 DEF Promise!Next
<1>4. QED
  BY <1>1, <1>2, <1>3 DEF Socket

LEMMA RecordingIsShown ==
    ASSUME Inv, EventsInv, NEW p \in Pages, Recording(p)
    PROVE  [Promise!Next]_(Promise!vars)
<1> USE DEF At
<1>1. CASE RecordFinal(p) /\ Exists(p)
  <2>1. Unrecorded(page[p]) /\ page[p].said # <<>>
    BY <1>1 DEF RecordFinal, Unrecorded, Inv, PagesTame, Tame, EndsWell
  <2>2. QED
    BY <1>1, <2>1, AnswerIsRecord DEF RecordFinal
<1>2. CASE RecordFinal(p) /\ ~Exists(p)
  BY <1>2, NothingShown DEF RecordFinal
<1>3. CASE ShowFinal(p) /\ ~page[p].reader
  BY <1>3, NothingShown DEF ShowFinal
<1>4. CASE ShowFinal(p) /\ page[p].reader
  <2> DEFINE c == page[p].on
             q == page[p].question
  <2>1. c \in Conversations /\ q \in Questions /\ Holds(c, q)
    BY <1>4 DEF ShowFinal, Inv, PagesTame, Tame, Busy
  <2>2. shown' = shown \cup {<<q, c>>} /\ UNCHANGED <<conversations, asked, happened>>
    BY <1>4 DEF ShowFinal
  <2> HIDE DEF c, q
  <2>3. Promise!Show(c, q)
    BY <2>1, <2>2, HoldsIsEnded, SameLog DEF Promise!Show
  <2>4. QED
    BY <2>1, <2>3 DEF Promise!Next
<1>5. CASE Finally(p) /\ page[p].said # <<>> /\ Exists(p)
  <2>1. Unrecorded(page[p])
    BY <1>5 DEF Finally, Unrecorded
  <2>2. QED
    BY <1>5, <2>1, AnswerIsRecord DEF Finally
<1>6. CASE Finally(p) /\ ~(page[p].said # <<>> /\ Exists(p))
  BY <1>6, NothingShown DEF Finally
<1>7. QED
  BY <1>1, <1>2, <1>3, <1>4, <1>5, <1>6 DEF Recording

LEMMA StepIsShown ==
    ASSUME Inv, EventsInv, Ongoing, [Next]_vars
    PROVE  [Promise!Next]_(Promise!vars)
<1>1. CASE UNCHANGED vars
  BY <1>1, NothingShown DEF vars
<1>2. CASE Shutdown
  BY <1>2, NothingShown DEF Shutdown
<1>3. ASSUME NEW p \in Pages, Stream(p) \/ Loop(p)
      PROVE  [Promise!Next]_(Promise!vars)
  <2>1. Works(p) /\ page[p].at \in Talking
    BY <1>3, TaskWorks
  <2>2. QED
    BY <2>1, NothingShown, EventIsAct DEF Works
<1>4. QED
  BY <1>1, <1>2, <1>3, RequestsAreShown, SocketIsShown, RecordingIsShown DEF Next, Task

LEMMA InitIsShown ==
    ASSUME Init
    PROVE  Promise!Init /\ Ongoing
<1>1. /\ conversations = [c \in Conversations |-> None] /\ page = [p \in Pages |-> Away]
      /\ asked = 0 /\ happened = [q \in Questions |-> <<>>] /\ shown = {}
  BY DEF Init, InitWith
<1>2. Begun = {} /\ Gone = {} /\ Log = [c \in Conversations |-> <<>>]
  BY <1>1, ChatAssumption DEF Begun, Gone, Log, Rows
<1>3. Ongoing
  BY <1>1, ClosedSays DEF Ongoing, Talking, Tooling
<1>4. QED
  BY <1>1, <1>2, <1>3 DEF Promise!Init

(* Behind the agents, the loops, the replaced models and the pages that    *)
(* close there is only this: questions, answers that appear whole and at   *)
(* once, nothing done after an end, and no end shown that cannot be read   *)
(* again (AskQuestion.execute, _converse, _record; mapper.apply_changes).  *)
THEOREM ChatImplementsTranscript == Spec => TranscriptHolds
<1>1. Init => Promise!Init /\ Ongoing
  BY InitIsShown
<1>2. Inv /\ EventsInv /\ Ongoing /\ [Next]_vars => Ongoing' /\ [Promise!Next]_(Promise!vars)
  BY OngoingStays, StepIsShown
<1>3. QED
  BY <1>1, <1>2, AllHold, PTL DEF Spec, TranscriptHolds, Promise!Spec
=============================================================================
