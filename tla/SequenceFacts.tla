--------------------------- MODULE SequenceFacts ---------------------------
(***************************************************************************)
(* Induction and recursion over the natural numbers, stated over sets and  *)
(* functions, and what the sequence operators of the specifications do.    *)
(***************************************************************************)
EXTENDS Integers, Sequences, SequencesExt, SequenceTheorems, WellFoundedInduction, TLAPS

\* Every non-empty set of natural numbers has a least element.
LEMMA Least ==
    ASSUME NEW T \in SUBSET Nat, T # {}
    PROVE  \E x \in T : \A y \in T : x <= y
  <1>1. IsWellFoundedOn(OpToRel(<, Nat), Nat)
    BY NatLessThanWellFounded
  <1>2. PICK x \in T : \A y \in T : ~(<<y, x>> \in OpToRel(<, Nat))
    BY <1>1, WFMin
  <1>3. OpToRel(<, Nat) = {ss \in Nat \X Nat : ss[1] < ss[2]}
    BY DEF OpToRel
  <1>4. \A y \in T : y < x => <<y, x>> \in OpToRel(<, Nat)
    BY <1>3
  <1>5. \A y \in T : ~(y < x)
    BY <1>2, <1>4
  <1> QED
    BY <1>5

\* Induction: a set of naturals with 0 and closed under successor has them all.
LEMMA SetInduction ==
    ASSUME NEW S \in SUBSET Nat, 0 \in S, \A n \in Nat : n \in S => n + 1 \in S
    PROVE  S = Nat
  <1> SUFFICES ASSUME Nat \ S # {} PROVE FALSE
    OBVIOUS
  <1>1. PICK x \in Nat \ S : \A y \in Nat \ S : x <= y
    BY Least
  <1>2. x - 1 \in S
    BY <1>1
  <1> QED
    BY <1>1, <1>2

-----------------------------------------------------------------------------
\* The functions that follow the recursion v, step as far as n.
Upto(n, V, v, step) ==
    {f \in [0..n -> V] : f[0] = v /\ \A k \in 1..n : f[k] = step[k][f[k - 1]]}

\* A recursion can be followed as far as any n.
LEMMA UptoExists ==
    ASSUME NEW V, NEW v \in V, NEW step \in [Nat -> [V -> V]], NEW n \in Nat
    PROVE  Upto(n, V, v, step) # {}
  <1> DEFINE S == {m \in Nat : Upto(m, V, v, step) # {}}
  <1>1. 0 \in S
    <2>1. [k \in 0..0 |-> v] \in Upto(0, V, v, step)
      BY DEF Upto
    <2> QED
      BY <2>1
  <1>2. ASSUME NEW m \in Nat, m \in S PROVE m + 1 \in S
    <2>1. PICK f : f \in Upto(m, V, v, step)
      BY <1>2
    <2>2. f \in [0..m -> V] /\ f[0] = v /\ \A k \in 1..m : f[k] = step[k][f[k - 1]]
      BY <2>1 DEF Upto
    <2> DEFINE g == [k \in 0..(m + 1) |-> IF k = m + 1 THEN step[m + 1][f[m]] ELSE f[k]]
    <2>3. step[m + 1][f[m]] \in V
      BY <2>2
    <2>4. g \in [0..(m + 1) -> V]
      BY <2>2, <2>3
    <2>5. g[0] = v
      BY <2>2
    <2>6. \A k \in 1..(m + 1) : g[k] = step[k][g[k - 1]]
      BY <2>2
    <2> HIDE DEF g
    <2>7. g \in Upto(m + 1, V, v, step)
      BY <2>4, <2>5, <2>6 DEF Upto
    <2> QED
      BY <2>7
  <1>3. S \in SUBSET Nat
    OBVIOUS
  <1> HIDE DEF S
  <1>4. S = Nat
    BY <1>1, <1>2, <1>3, SetInduction
  <1> QED
    BY <1>4 DEF S

-----------------------------------------------------------------------------
\* A sequence over a set is one over any larger set.
LEMMA SeqOfMore ==
    ASSUME NEW S, NEW T, S \subseteq T, NEW q \in Seq(S)
    PROVE  q \in Seq(T)
  OBVIOUS

\* Front is all but the last element.
LEMMA FrontFacts ==
    ASSUME NEW S, NEW q \in Seq(S), q # <<>>
    PROVE  /\ Front(q) \in Seq(S) /\ Len(Front(q)) = Len(q) - 1
           /\ \A j \in 1..(Len(q) - 1) : Front(q)[j] = q[j]
  <1>1. PICK k \in 1..Len(q) : k = Len(q)
    OBVIOUS
  <1> DEFINE a == SubSeq(q, 1, k - 1)
  <1>2. /\ a \in Seq(S) /\ Len(a) = k - 1 /\ \A j \in 1..(k - 1) : a[j] = q[j]
    OBVIOUS
  <1> QED
    BY <1>1, <1>2 DEF Front

\* RemoveAt closes the gap: what came after position k moves down by one.
LEMMA RemoveAtFacts ==
    ASSUME NEW S, NEW q \in Seq(S), NEW k \in 1..Len(q)
    PROVE  /\ RemoveAt(q, k) \in Seq(S)
           /\ Len(RemoveAt(q, k)) = Len(q) - 1
           /\ \A j \in 1..(Len(q) - 1) : RemoveAt(q, k)[j] = IF j < k THEN q[j] ELSE q[j + 1]
  <1> DEFINE a == SubSeq(q, 1, k - 1)
             b == SubSeq(q, k + 1, Len(q))
  <1>1. /\ a \in Seq(S) /\ Len(a) = k - 1 /\ \A j \in 1..(k - 1) : a[j] = q[j]
    OBVIOUS
  <1>2. /\ b \in Seq(S) /\ Len(b) = Len(q) - k
        /\ \A j \in 1..(Len(q) - k) : b[j] = q[j + k]
    OBVIOUS
  <1> HIDE DEF a, b
  <1>3. /\ a \o b \in Seq(S)
        /\ Len(a \o b) = Len(a) + Len(b)
        /\ \A j \in 1..(Len(a) + Len(b)) :
              (a \o b)[j] = IF j <= Len(a) THEN a[j] ELSE b[j - Len(a)]
    BY <1>1, <1>2, ConcatProperties
  <1>4. Len(a) + Len(b) = Len(q) - 1
    BY <1>1, <1>2
  <1>5. \A j \in 1..(Len(q) - 1) : (a \o b)[j] = IF j < k THEN q[j] ELSE q[j + 1]
    <2> SUFFICES ASSUME NEW j \in 1..(Len(q) - 1)
                 PROVE  (a \o b)[j] = IF j < k THEN q[j] ELSE q[j + 1]
      OBVIOUS
    <2>1. CASE j < k
      BY <2>1, <1>1, <1>3, <1>4
    <2>2. CASE ~(j < k)
      <3>1. (a \o b)[j] = b[j - (k - 1)]
        BY <2>2, <1>1, <1>3, <1>4
      <3>2. b[j - (k - 1)] = q[(j - (k - 1)) + k]
        BY <2>2, <1>2
      <3>3. (j - (k - 1)) + k = j + 1
        OBVIOUS
      <3> QED
        BY <2>2, <3>1, <3>2, <3>3
    <2> QED
      BY <2>1, <2>2
  <1> QED
    BY <1>3, <1>4, <1>5 DEF RemoveAt, a, b

\* What being a sequence over a set means.
LEMMA SeqFacts ==
    ASSUME NEW S, NEW q \in Seq(S)
    PROVE  Len(q) \in Nat /\ DOMAIN q = 1..Len(q) /\ \A i \in 1..Len(q) : q[i] \in S
  OBVIOUS

\* Sequences put together from sequences over a set are over that set.
LEMMA ConcatType ==
    ASSUME NEW S, NEW a \in Seq(S), NEW b \in Seq(S)
    PROVE  a \o b \in Seq(S)
  BY ConcatProperties

-----------------------------------------------------------------------------
(* Recursion over a sequence. *)

\* The sequences a recursion along ss glues together, one after the other.
Glued(S, ss) ==
    {F \in [0..Len(ss) -> Seq(S)] :
        F[0] = <<>> /\ \A k \in 1..Len(ss) : F[k] = F[k - 1] \o ss[k]}

\* The recursion can be followed to the end.
LEMMA GluedExists ==
    ASSUME NEW S, NEW ss \in Seq(Seq(S))
    PROVE  Glued(S, ss) # {}
  <1> DEFINE N == Len(ss)
             V == Seq(S)
             step == [n \in Nat |-> [q \in V |-> IF n \in 1..N THEN q \o ss[n] ELSE q]]
  <1>1. N \in Nat /\ \A n \in 1..N : ss[n] \in V
    OBVIOUS
  <1>2. <<>> \in V
    OBVIOUS
  <1> HIDE DEF N
  <1>3. ASSUME NEW n \in 1..N, NEW q \in V PROVE q \o ss[n] \in V
    BY <1>1, ConcatProperties
  <1> HIDE DEF V
  <1>4. ASSUME NEW n \in Nat, NEW q \in V PROVE step[n][q] \in V
    <2>1. step[n][q] = IF n \in 1..N THEN q \o ss[n] ELSE q
      OBVIOUS
    <2> HIDE DEF step
    <2> QED
      BY <1>3, <2>1
  <1>5. step \in [Nat -> [V -> V]]
    BY <1>4
  <1>6. \A n \in 1..N : \A q \in V : step[n][q] = q \o ss[n]
    BY <1>1
  <1> HIDE DEF step
  <1>7. Upto(N, V, <<>>, step) # {}
    BY <1>1, <1>2, <1>5, UptoExists
  <1>8. PICK g : g \in Upto(N, V, <<>>, step)
    BY <1>7
  <1>9. g \in [0..N -> V] /\ g[0] = <<>> /\ \A n \in 1..N : g[n] = step[n][g[n - 1]]
    BY <1>8 DEF Upto
  <1>10. ASSUME NEW n \in 1..N PROVE g[n] = g[n - 1] \o ss[n]
    <2>1. g[n - 1] \in V
      BY <1>1, <1>9
    <2> QED
      BY <1>6, <1>9, <2>1
  <1>11. g \in Glued(S, ss)
    BY <1>9, <1>10 DEF Glued, N, V
  <1> QED
    BY <1>11

\* FlattenSeq is where it ends.
LEMMA FlattenIsGlued ==
    ASSUME NEW S, NEW ss \in Seq(Seq(S)), NEW F \in Glued(S, ss)
    PROVE  FlattenSeq(ss) = F[Len(ss)]
  <1> DEFINE N == Len(ss)
             Body(g) == [i \in 1..N |-> IF i = 1 THEN ss[i] ELSE g[i - 1] \o ss[i]]
             g == CHOOSE h : h = Body(h)
             h0 == [i \in 1..N |-> F[i]]
  <1>1. N \in Nat /\ \A n \in 1..N : ss[n] \in Seq(S)
    OBVIOUS
  <1>2. FlattenSeq(ss) = IF N = 0 THEN ss ELSE g[N]
    BY DEF FlattenSeq
  <1>3. F \in [0..N -> Seq(S)] /\ F[0] = <<>> /\ \A n \in 1..N : F[n] = F[n - 1] \o ss[n]
    BY DEF Glued
  <1>4. N = 0 => ss = <<>>
    OBVIOUS
  <1>5. \A q \in Seq(S) : <<>> \o q = q
    OBVIOUS
  <1> HIDE DEF N
  <1>6. ASSUME NEW n \in 1..N PROVE F[n] = IF n = 1 THEN ss[n] ELSE h0[n - 1] \o ss[n]
    <2>1. CASE n = 1
      <3>1. F[1] = F[1 - 1] \o ss[1] /\ ss[1] \in Seq(S)
        BY <2>1, <1>1, <1>3
      <3>2. 1 - 1 = 0
        OBVIOUS
      <3>3. F[1] = ss[1]
        BY <3>1, <3>2, <1>3, <1>5
      <3> QED
        BY <2>1, <3>3
    <2>2. CASE n # 1
      <3>1. n - 1 \in 1..N
        BY <2>2, <1>1
      <3> QED
        BY <2>2, <3>1, <1>3
    <2> QED
      BY <2>1, <2>2
  <1>7. h0 = Body(h0)
    BY <1>6
  <1>8. g = Body(g)
    BY <1>7
  <1>9. \A n \in 1..N : g[n] = IF n = 1 THEN ss[n] ELSE g[n - 1] \o ss[n]
    BY <1>8
  <1> HIDE DEF g, h0, Body
  <1> DEFINE T == {n \in Nat : n \in 1..N => g[n] = F[n]}
  <1>10. 0 \in T
    OBVIOUS
  <1>11. ASSUME NEW n \in Nat, n \in T PROVE n + 1 \in T
    <2> SUFFICES ASSUME n + 1 \in 1..N PROVE g[n + 1] = F[n + 1]
      OBVIOUS
    <2>0. (n + 1) - 1 = n
      OBVIOUS
    <2>1. F[n + 1] = F[n] \o ss[n + 1]
      <3>1. F[n + 1] = F[(n + 1) - 1] \o ss[n + 1]
        BY <1>3
      <3> QED
        BY <3>1, <2>0
    <2>2. CASE n = 0
      <3>1. n + 1 = 1
        BY <2>2
      <3>2. g[n + 1] = ss[n + 1] /\ ss[n + 1] \in Seq(S)
        BY <3>1, <1>1, <1>9
      <3>3. F[n] = <<>>
        BY <2>2, <1>3
      <3> QED
        BY <2>1, <3>2, <3>3, <1>5
    <2>3. CASE n # 0
      <3>1. n \in 1..N /\ g[n] = F[n]
        BY <2>3, <1>1, <1>11
      <3>2. g[n + 1] = g[n] \o ss[n + 1]
        <4>1. n + 1 # 1
          BY <2>3
        <4>2. g[n + 1] = g[(n + 1) - 1] \o ss[n + 1]
          BY <4>1, <1>9
        <4> QED
          BY <4>2, <2>0
      <3> QED
        BY <2>1, <3>1, <3>2
    <2> QED
      BY <2>2, <2>3
  <1>12. T \in SUBSET Nat
    OBVIOUS
  <1> HIDE DEF T
  <1>13. T = Nat
    BY <1>10, <1>11, <1>12, SetInduction
  <1>14. N # 0 => g[N] = F[N]
    BY <1>13, <1>1 DEF T
  <1> QED
    BY <1>1, <1>2, <1>3, <1>4, <1>14 DEF N

\* A loop that emits over S for each element emits over S.
LEMMA FlattenType ==
    ASSUME NEW S, NEW ss \in Seq(Seq(S))
    PROVE  FlattenSeq(ss) \in Seq(S)
  <1>1. PICK F : F \in Glued(S, ss)
    BY GluedExists
  <1>2. FlattenSeq(ss) = F[Len(ss)]
    BY <1>1, FlattenIsGlued
  <1>3. F \in [0..Len(ss) -> Seq(S)] /\ Len(ss) \in 0..Len(ss)
    BY <1>1 DEF Glued
  <1> QED
    BY <1>2, <1>3

\* Every non-empty set of naturals that has a bound has a greatest element.
LEMMA Greatest ==
    ASSUME NEW b \in Int, NEW T \in SUBSET Int, T # {}, \A t \in T : t <= b
    PROVE  \E x \in T : \A y \in T : x >= y
  <1> DEFINE U == {b - t : t \in T}
  <1>1. U \in SUBSET Nat /\ U # {}
    <2>1. \A t \in T : b - t \in Nat
      OBVIOUS
    <2>2. PICK t0 : t0 \in T
      OBVIOUS
    <2>3. b - t0 \in U
      BY <2>2
    <2> QED
      BY <2>1, <2>3
  <1>2. PICK u \in U : \A v \in U : u <= v
    BY <1>1, Least
  <1>3. PICK x \in T : u = b - x
    OBVIOUS
  <1>4. \A y \in T : u <= b - y
    BY <1>2
  <1> QED
    BY <1>3, <1>4

\* The values of a sequence of numbers have a bound.
LEMMA ValuesBounded ==
    ASSUME NEW s \in Seq(Int)
    PROVE  \E b \in Int : \A i \in 1..Len(s) : s[i] <= b /\ -s[i] <= b
  <1>1. PICK N \in Nat : N = Len(s)
    OBVIOUS
  <1>2. \A i \in 1..N : s[i] \in Int
    BY <1>1
  <1> DEFINE T == {n \in Nat : n <= N => \E b \in Int : \A i \in 1..n : s[i] <= b /\ -s[i] <= b}
  <1>3. 0 \in T
    <2>1. \A i \in 1..0 : s[i] <= 0 /\ -s[i] <= 0
      OBVIOUS
    <2> QED
      BY <2>1
  <1>4. ASSUME NEW n \in Nat, n \in T PROVE n + 1 \in T
    <2> SUFFICES ASSUME n + 1 <= N
                 PROVE  \E b \in Int : \A i \in 1..(n + 1) : s[i] <= b /\ -s[i] <= b
      OBVIOUS
    <2>1. PICK b \in Int : \A i \in 1..n : s[i] <= b /\ -s[i] <= b
      BY <1>4
    <2>2. PICK c \in Int : c = s[n + 1]
      BY <1>2
    <2>3. PICK d \in Int : d >= b /\ d >= c /\ d >= -c
      <3>1. CASE b >= c /\ b >= -c
        <4> WITNESS b \in Int
        <4> QED
          BY <3>1
      <3>2. CASE c >= b /\ c >= -c
        <4> WITNESS c \in Int
        <4> QED
          BY <3>2
      <3>3. CASE -c >= b /\ -c >= c
        <4> WITNESS -c \in Int
        <4> QED
          BY <3>3
      <3> QED
        BY <3>1, <3>2, <3>3
    <2>4. ASSUME NEW i \in 1..(n + 1) PROVE s[i] <= d /\ -s[i] <= d
      <3>1. CASE i = n + 1
        BY <3>1, <2>2, <2>3
      <3>2. CASE i # n + 1
        <4>1. i \in 1..n /\ s[i] \in Int
          BY <3>2, <1>2
        <4> QED
          BY <4>1, <2>1, <2>3
      <3> QED
        BY <3>1, <3>2
    <2> QED
      BY <2>4
  <1>5. T \in SUBSET Nat
    OBVIOUS
  <1> HIDE DEF T
  <1>6. T = Nat
    BY <1>3, <1>4, <1>5, SetInduction
  <1>7. N \in T /\ N <= N
    BY <1>6
  <1>8. \E b \in Int : \A i \in 1..N : s[i] <= b /\ -s[i] <= b
    BY <1>7 DEF T
  <1> QED
    BY <1>1, <1>8

\* A loop whose rounds emit into a set of sequences that is closed emits into it.
LEMMA FlattenClosed ==
    ASSUME NEW S, NEW W \in SUBSET Seq(S), <<>> \in W, \A a, b \in W : a \o b \in W,
           NEW ss \in Seq(W)
    PROVE  FlattenSeq(ss) \in W
  <1>1. PICK N \in Nat : N = Len(ss)
    BY SeqFacts
  <1>2. \A n \in 1..N : ss[n] \in W
    BY <1>1, SeqFacts
  <1>3. ss \in Seq(Seq(S))
    BY <1>1, <1>2
  <1>4. PICK F : F \in Glued(S, ss)
    BY <1>3, GluedExists
  <1>5. F[0] = <<>> /\ \A k \in 1..N : F[k] = F[k - 1] \o ss[k]
    BY <1>1, <1>4 DEF Glued
  <1>6. FlattenSeq(ss) = F[N]
    BY <1>1, <1>3, <1>4, FlattenIsGlued
  <1> DEFINE T == {n \in Nat : n <= N => F[n] \in W}
  <1>7. 0 \in T
    BY <1>5
  <1>8. ASSUME NEW n \in Nat, n \in T PROVE n + 1 \in T
    <2> SUFFICES ASSUME n + 1 <= N PROVE F[n + 1] \in W
      OBVIOUS
    <2>1. F[n] \in W /\ n + 1 \in 1..N
      BY <1>8
    <2>2. F[n + 1] = F[(n + 1) - 1] \o ss[n + 1]
      BY <2>1, <1>5
    <2>3. (n + 1) - 1 = n
      OBVIOUS
    <2>4. F[n + 1] = F[n] \o ss[n + 1]
      BY <2>2, <2>3
    <2> QED
      BY <2>1, <2>4, <1>2
  <1>9. T \in SUBSET Nat
    OBVIOUS
  <1> HIDE DEF T
  <1>10. T = Nat
    BY <1>7, <1>8, <1>9, SetInduction
  <1>11. F[N] \in W
    BY <1>10 DEF T
  <1> QED
    BY <1>6, <1>11

\* The sequences that begin with a and go on over U.
Led(a, U) == {a \o q : q \in Seq(U)}

\* What is added behind is added to what follows.
LEMMA LeadGrows ==
    ASSUME NEW S, NEW U \in SUBSET S, NEW a \in Seq(S), NEW x \in Led(a, U), NEW u \in Seq(U)
    PROVE  x \o u \in Led(a, U)
  <1>1. PICK r \in Seq(U) : x = a \o r
    BY DEF Led
  <1>2. r \in Seq(S) /\ u \in Seq(S)
    <2>1. U \subseteq S
      OBVIOUS
    <2> QED
      BY <2>1, SeqOfMore
  <1>3. x \o u = a \o (r \o u)
    BY <1>1, <1>2, ConcatAssociative
  <1>4. r \o u \in Seq(U)
    BY ConcatType
  <1> QED
    BY <1>3, <1>4 DEF Led

\* What the first round of a loop emits comes first.
LEMMA FlattenLead ==
    ASSUME NEW S, NEW U \in SUBSET S, NEW ss \in Seq(Seq(S)), Len(ss) >= 1,
           \A k \in 2..Len(ss) : ss[k] \in Seq(U)
    PROVE  \E r \in Seq(U) : FlattenSeq(ss) = ss[1] \o r
  <1>1. PICK N \in Nat : N = Len(ss)
    BY SeqFacts
  <1>2. N >= 1 /\ (\A n \in 1..N : ss[n] \in Seq(S)) /\ \A n \in 2..N : ss[n] \in Seq(U)
    BY <1>1, SeqFacts
  <1>3. PICK F : F \in Glued(S, ss)
    BY GluedExists
  <1>4. F[0] = <<>> /\ \A k \in 1..N : F[k] = F[k - 1] \o ss[k]
    BY <1>1, <1>3 DEF Glued
  <1>5. FlattenSeq(ss) = F[N]
    BY <1>1, <1>3, FlattenIsGlued
  <1>6. <<>> \in Seq(U)
    OBVIOUS
  <1>7. PICK a \in Seq(S) : a = ss[1] /\ F[1] = a /\ a \o <<>> = a
    <2>1. 1 \in 1..N /\ 1 - 1 = 0
      BY <1>2
    <2>2. ss[1] \in Seq(S)
      BY <2>1, <1>2
    <2>3. F[1] = F[1 - 1] \o ss[1]
      BY <2>1, <1>4
    <2>4. F[1] = <<>> \o ss[1]
      BY <2>1, <2>3, <1>4
    <2>5. <<>> \o ss[1] = ss[1] /\ ss[1] \o <<>> = ss[1]
      BY <2>2, ConcatEmptySeq
    <2> QED
      BY <2>2, <2>4, <2>5
  <1> DEFINE T == {n \in Nat : n + 1 <= N => F[n + 1] \in Led(a, U)}
  <1>8. 0 \in T
    <2>1. F[0 + 1] = a \o <<>>
      <3>1. 0 + 1 = 1
        OBVIOUS
      <3> QED
        BY <3>1, <1>7
    <2>2. F[0 + 1] \in Led(a, U)
      BY <2>1, <1>6 DEF Led
    <2> QED
      BY <2>2
  <1>9. ASSUME NEW n \in Nat, n \in T PROVE n + 1 \in T
    <2>0. n + 1 \in Nat
      OBVIOUS
    <2> SUFFICES ASSUME (n + 1) + 1 <= N PROVE F[(n + 1) + 1] \in Led(a, U)
      BY <2>0, Zenon
    <2>1. n + 1 <= N
      BY <1>1
    <2>2. PICK x \in Led(a, U) : x = F[n + 1]
      BY <2>1, <1>9
    <2> HIDE DEF T
    <2>3. PICK m \in 2..N : m = (n + 1) + 1
      BY <1>1
    <2>4. m - 1 = n + 1 /\ m \in 1..N
      BY <2>3, <1>1
    <2>5. PICK u \in Seq(U) : u = ss[m]
      BY <1>2
    <2>6. F[m] = F[m - 1] \o u
      BY <2>4, <2>5, <1>4
    <2>7. F[m] = x \o u
      BY <2>2, <2>4, <2>6
    <2>8. x \o u \in Led(a, U)
      BY LeadGrows
    <2> QED
      BY <2>3, <2>7, <2>8
  <1>10. T \in SUBSET Nat
    OBVIOUS
  <1> HIDE DEF T
  <1>11. T = Nat
    BY <1>8, <1>9, <1>10, SetInduction
  <1>12. PICK p \in Nat : p + 1 = N
    <2>1. N - 1 \in Nat /\ (N - 1) + 1 = N
      BY <1>1, <1>2
    <2> QED
      BY <2>1
  <1>13. F[p + 1] \in Led(a, U)
    <2>1. p \in T /\ p + 1 <= N
      BY <1>1, <1>11, <1>12
    <2> QED
      BY <2>1 DEF T
  <1>14. F[N] = F[p + 1]
    BY <1>12
  <1> QED
    BY <1>5, <1>7, <1>13, <1>14 DEF Led
=============================================================================
