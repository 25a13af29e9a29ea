-------------------------- MODULE SshSessionProofs --------------------------
(***************************************************************************)
(* Proofs about SshSession, for any batches, outputs, chunks, limits and   *)
(* deadlines: the types and the bound on the buffer; that looking for the  *)
(* terminator in the tail of the reply misses none; and that a batch's     *)
(* answers are its own.                                                    *)
(*                                                                         *)
(* The last one rests on a layout: where the begin and end lines of every  *)
(* frame stand in all that the shell has said since the batch was sent.    *)
(* Each command of the script adds to the layout, noise may come anywhere, *)
(* and decode of a whole one finds every frame.                            *)
(***************************************************************************)
EXTENDS SshSession, SequenceFacts

-----------------------------------------------------------------------------
(* Leaving members of a sequence out.                                      *)

(* What the recursion of Without computes on the way.                      *)
Passes(S, s, D) ==
  {up \in [0..Len(s) -> Seq(S \ D)] :
     /\ up[0] = <<>>
     /\ \A n \in 1..Len(s) :
          up[n] = IF s[n] \in D THEN up[n - 1] ELSE Append(up[n - 1], s[n])}

(* The recursion can be followed to the end.                               *)
LEMMA PassesExist ==
  ASSUME NEW S, NEW D, NEW s \in Seq(S)
  PROVE  Passes(S, s, D) # {}
<1> DEFINE N == Len(s)
           V == Seq(S \ D)
           step == [n \in Nat |-> [q \in V |->
                      IF n \in 1..N /\ s[n] \notin D THEN Append(q, s[n]) ELSE q]]
<1>1. N \in Nat /\ \A n \in 1..N : s[n] \in S
  OBVIOUS
<1>2. <<>> \in V
  OBVIOUS
<1> HIDE DEF N
<1>3. ASSUME NEW n \in 1..N, s[n] \notin D, NEW q \in V PROVE Append(q, s[n]) \in V
  BY <1>1, <1>3
<1> HIDE DEF V
<1>4. ASSUME NEW n \in Nat, NEW q \in V PROVE step[n][q] \in V
  <2>1. step[n][q] = IF n \in 1..N /\ s[n] \notin D THEN Append(q, s[n]) ELSE q
    OBVIOUS
  <2> HIDE DEF step
  <2> QED
    BY <1>3, <2>1
<1>5. step \in [Nat -> [V -> V]]
  BY <1>4
<1>6. \A n \in 1..N : \A q \in V : step[n][q] = IF s[n] \in D THEN q ELSE Append(q, s[n])
  BY <1>1
<1> HIDE DEF step
<1>7. Upto(N, V, <<>>, step) # {}
  BY <1>1, <1>2, <1>5, UptoExists
<1>8. PICK g : g \in Upto(N, V, <<>>, step)
  BY <1>7
<1>9. g \in [0..N -> V] /\ g[0] = <<>> /\ \A n \in 1..N : g[n] = step[n][g[n - 1]]
  BY <1>8 DEF Upto
<1>10. ASSUME NEW n \in 1..N
       PROVE  g[n] = IF s[n] \in D THEN g[n - 1] ELSE Append(g[n - 1], s[n])
  <2>1. g[n - 1] \in V
    BY <1>1, <1>9
  <2> QED
    BY <1>6, <1>9, <2>1
<1>11. g \in Passes(S, s, D)
  BY <1>9, <1>10 DEF Passes, N, V
<1> QED
  BY <1>11

(* Without is where the recursion ends, however it is written down.        *)
LEMMA WithoutEnds ==
  ASSUME NEW S, NEW D, NEW s \in Seq(S), NEW up \in Passes(S, s, D)
  PROVE  Without(s, D) = up[Len(s)] /\ Without(s, D) \in Seq(S \ D)
<1> DEFINE N == Len(s)
           Body(g) == [n \in 0..N |-> IF n = 0 THEN <<>>
                         ELSE IF s[n] \in D THEN g[n - 1] ELSE Append(g[n - 1], s[n])]
           g == CHOOSE h : h = Body(h)
<1>1. N \in Nat
  OBVIOUS
<1>2. Without(s, D) = g[N]
  BY DEF Without
<1>3. up \in [0..N -> Seq(S \ D)] /\ up[0] = <<>>
      /\ \A n \in 1..N : up[n] = IF s[n] \in D THEN up[n - 1] ELSE Append(up[n - 1], s[n])
  BY DEF Passes
<1> HIDE DEF N
<1>4. up = Body(up)
  <2>1. ASSUME NEW n \in 0..N PROVE Body(up)[n] = up[n]
    <3>1. n = 0 \/ n \in 1..N
      BY <1>1
    <3> QED
      BY <1>3, <3>1
  <2> QED
    BY <1>3, <2>1
<1>5. g = Body(g)
  <2> HIDE DEF Body
  <2> QED
    BY <1>4
<1> HIDE DEF g
<1> DEFINE K == {n \in Nat : n <= N => g[n] = up[n]}
<1>6. 0 \in K
  BY <1>1, <1>3, <1>5
<1>7. ASSUME NEW n \in Nat, n \in K PROVE n + 1 \in K
  <2> SUFFICES ASSUME n + 1 <= N PROVE g[n + 1] = up[n + 1]
    OBVIOUS
  <2>1. g[n] = up[n]
    BY <1>1, <1>7
  <2>2. n + 1 \in 0..N /\ n + 1 # 0 /\ (n + 1) - 1 = n /\ n + 1 \in 1..N
    BY <1>1
  <2>3. g[n + 1] = IF s[n + 1] \in D THEN g[n] ELSE Append(g[n], s[n + 1])
    BY <1>5, <2>2
  <2> QED
    BY <1>3, <2>1, <2>2, <2>3
<1>8. K \in SUBSET Nat
  OBVIOUS
<1> HIDE DEF K
<1>9. K = Nat
  BY <1>6, <1>7, <1>8, SetInduction
<1>10. N \in K /\ N <= N
  BY <1>1, <1>9
<1>11. g[N] = up[N] /\ up[N] \in Seq(S \ D)
  BY <1>1, <1>3, <1>10 DEF K
<1> QED
  BY <1>2, <1>11 DEF N

(* What is left has none of the members that were to go.                   *)
LEMMA WithoutType ==
  ASSUME NEW S, NEW D, NEW s \in Seq(S)
  PROVE  Without(s, D) \in Seq(S \ D) /\ Without(s, D) \in Seq(S)
<1>1. PICK up : up \in Passes(S, s, D)
  BY PassesExist
<1>2. Without(s, D) \in Seq(S \ D)
  BY <1>1, WithoutEnds
<1> QED
  BY <1>2, SeqOfMore

(* Nothing goes when there is nothing to go, everything when all is.       *)
LEMMA WithoutNone ==
  ASSUME NEW S, NEW D, NEW s \in Seq(S), \A i \in 1..Len(s) : s[i] \notin D
  PROVE  Without(s, D) = s
<1> DEFINE up == [n \in 0..Len(s) |-> SubSeq(s, 1, n)]
<1>1. s \in Seq(S \ D)
  <2>1. s = [i \in 1..Len(s) |-> s[i]] /\ \A i \in 1..Len(s) : s[i] \in S \ D
    OBVIOUS
  <2> QED
    BY <2>1
<1>2. ASSUME NEW n \in 0..Len(s) PROVE SubSeq(s, 1, n) \in Seq(S \ D)
  BY <1>1
<1>3. ASSUME NEW n \in 1..Len(s)
      PROVE  SubSeq(s, 1, n) = Append(SubSeq(s, 1, n - 1), s[n])
  OBVIOUS
<1>4. SubSeq(s, 1, 0) = <<>> /\ SubSeq(s, 1, Len(s)) = s
  OBVIOUS
<1>5. up \in Passes(S, s, D)
  <2>1. up \in [0..Len(s) -> Seq(S \ D)]
    BY <1>2
  <2>2. up[0] = <<>>
    BY <1>4
  <2>3. ASSUME NEW n \in 1..Len(s)
        PROVE  up[n] = IF s[n] \in D THEN up[n - 1] ELSE Append(up[n - 1], s[n])
    <3>1. up[n] = SubSeq(s, 1, n) /\ up[n - 1] = SubSeq(s, 1, n - 1)
      OBVIOUS
    <3> HIDE DEF up
    <3> QED
      BY <1>3, <3>1
  <2> HIDE DEF up
  <2> QED
    BY <2>1, <2>2, <2>3 DEF Passes
<1>6. up[Len(s)] = s
  BY <1>4
<1> HIDE DEF up
<1>7. Without(s, D) = up[Len(s)]
  BY <1>5, WithoutEnds
<1> QED
  BY <1>6, <1>7

(* All of it goes when every member is to go.                              *)
LEMMA WithoutAll ==
  ASSUME NEW S, NEW D, NEW s \in Seq(S), \A i \in 1..Len(s) : s[i] \in D
  PROVE  Without(s, D) = <<>>
<1> DEFINE up == [n \in 0..Len(s) |-> <<>>]
<1>1. up \in Passes(S, s, D)
  BY DEF Passes
<1>2. up[Len(s)] = <<>>
  OBVIOUS
<1> HIDE DEF up
<1> QED
  BY <1>1, <1>2, WithoutEnds

(* One member more.                                                        *)
LEMMA WithoutAppend ==
  ASSUME NEW S, NEW D, NEW s \in Seq(S), NEW x \in S
  PROVE  Without(Append(s, x), D) =
           IF x \in D THEN Without(s, D) ELSE Append(Without(s, D), x)
<1>1. PICK up : up \in Passes(S, s, D)
  BY PassesExist
<1> DEFINE N == Len(s)
           last == IF x \in D THEN up[N] ELSE Append(up[N], x)
           more == [n \in 0..(N + 1) |-> IF n = N + 1 THEN last ELSE up[n]]
<1>2. N \in Nat /\ Append(s, x) \in Seq(S) /\ Len(Append(s, x)) = N + 1
      /\ Append(s, x)[N + 1] = x /\ \A n \in 1..N : Append(s, x)[n] = s[n]
  OBVIOUS
<1>3. up \in [0..N -> Seq(S \ D)] /\ up[0] = <<>>
      /\ \A n \in 1..N : up[n] = IF s[n] \in D THEN up[n - 1] ELSE Append(up[n - 1], s[n])
  BY <1>1 DEF Passes
<1> HIDE DEF N
<1>4. last \in Seq(S \ D)
  <2>1. up[N] \in Seq(S \ D)
    BY <1>2, <1>3
  <2> QED
    BY <2>1
<1>5. more \in [0..(N + 1) -> Seq(S \ D)]
  BY <1>2, <1>3, <1>4
<1>6. more[0] = <<>> /\ more[N + 1] = last
  BY <1>2, <1>3
<1>7. ASSUME NEW n \in 1..(N + 1)
      PROVE  more[n] = IF Append(s, x)[n] \in D THEN more[n - 1]
                       ELSE Append(more[n - 1], Append(s, x)[n])
  <2>1. CASE n = N + 1
    <3>1. more[n - 1] = up[N]
      BY <1>2, <2>1
    <3>2. more[n] = last
      BY <1>2, <2>1
    <3> HIDE DEF more
    <3> QED
      BY <1>2, <2>1, <3>1, <3>2
  <2>2. CASE n # N + 1
    <3>1. n \in 1..N /\ n - 1 \in 0..(N + 1) /\ n - 1 # N + 1 /\ n \in 0..(N + 1)
      BY <1>2, <2>2
    <3>2. more[n - 1] = up[n - 1] /\ more[n] = up[n]
      BY <2>2, <3>1
    <3> HIDE DEF more
    <3> QED
      BY <1>2, <1>3, <3>1, <3>2
  <2> QED
    BY <2>1, <2>2
<1> HIDE DEF more
<1>8. more \in Passes(S, Append(s, x), D)
  BY <1>2, <1>5, <1>6, <1>7 DEF Passes
<1> HIDE DEF last
<1>9. Without(Append(s, x), D) = last
  <2>1. PICK t \in Seq(S) : t = Append(s, x)
    BY <1>2
  <2>2. more \in Passes(S, t, D) /\ more[Len(t)] = last
    BY <1>2, <1>6, <1>8, <2>1
  <2>3. Without(t, D) = more[Len(t)]
    BY <2>2, WithoutEnds
  <2> QED
    BY <2>1, <2>2, <2>3
<1>10. Without(s, D) = up[N]
  BY <1>1, WithoutEnds DEF N
<1> QED
  BY <1>9, <1>10 DEF last

(* It goes through a sequence part by part.                                *)
LEMMA WithoutConcat ==
  ASSUME NEW S, NEW D, NEW s \in Seq(S), NEW t \in Seq(S)
  PROVE  Without(s \o t, D) = Without(s, D) \o Without(t, D)
<1> DEFINE W(q) == Without(q, D)
           K == {n \in Nat : \A q \in Seq(S) : Len(q) = n => W(s \o q) = W(s) \o W(q)}
<1>1. \A q \in Seq(S) : W(q) \in Seq(S)
  BY WithoutType
<1>2. 0 \in K
  <2>1. W(<<>>) = <<>>
    <3>1. <<>> \in Seq(S) /\ \A i \in 1..Len(<<>>) : <<>>[i] \in D
      OBVIOUS
    <3> QED
      BY <3>1, WithoutAll
  <2>2. ASSUME NEW q \in Seq(S), Len(q) = 0 PROVE q = <<>>
    BY <2>2
  <2>3. s \o <<>> = s /\ W(s) \o <<>> = W(s)
    BY <1>1
  <2> HIDE DEF W
  <2> QED
    BY <2>1, <2>2, <2>3
<1>3. ASSUME NEW n \in Nat, n \in K PROVE n + 1 \in K
  <2> SUFFICES ASSUME NEW q \in Seq(S), Len(q) = n + 1 PROVE W(s \o q) = W(s) \o W(q)
    OBVIOUS
  <2>1. PICK p \in Seq(S), x \in S : q = Append(p, x) /\ Len(p) = n
    <3>1. SubSeq(q, 1, n) \in Seq(S) /\ q[n + 1] \in S
          /\ q = Append(SubSeq(q, 1, n), q[n + 1]) /\ Len(SubSeq(q, 1, n)) = n
      OBVIOUS
    <3> QED
      BY <3>1
  <2>2. W(s \o p) = W(s) \o W(p)
    BY <1>3, <2>1
  <2>3. s \o p \in Seq(S) /\ s \o q = Append(s \o p, x)
    BY <2>1
  <2>4. W(s \o q) = IF x \in D THEN W(s \o p) ELSE Append(W(s \o p), x)
    <3>1. PICK sp \in Seq(S) : sp = s \o p
      BY <2>3
    <3>2. Without(Append(sp, x), D) = IF x \in D THEN Without(sp, D) ELSE Append(Without(sp, D), x)
      BY WithoutAppend
    <3> QED
      BY <2>3, <3>1, <3>2
  <2>5. W(q) = IF x \in D THEN W(p) ELSE Append(W(p), x)
    BY <2>1, WithoutAppend
  <2>6. W(s) \in Seq(S) /\ W(p) \in Seq(S)
    BY <1>1, <2>1
  <2> HIDE DEF W
  <2>7. W(s) \o Append(W(p), x) = Append(W(s) \o W(p), x)
    BY <2>6
  <2> QED
    BY <2>2, <2>4, <2>5, <2>7
<1>4. K \in SUBSET Nat
  OBVIOUS
<1> HIDE DEF K
<1>5. K = Nat
  BY <1>2, <1>3, <1>4, SetInduction
<1>6. Len(t) \in K
  BY <1>5
<1> QED
  BY <1>6 DEF K

-----------------------------------------------------------------------------
(* The operators.                                                          *)

(* A list in which nothing stands twice.                                   *)
Distinct(l) == \A i, j \in 1..Len(l) : l[i] = l[j] => i = j

(* It stays so when something new is added.                              *)
LEMMA DistinctAppend ==
  ASSUME NEW S, NEW s \in Seq(S), Distinct(s), NEW x \in S, \A i \in 1..Len(s) : s[i] # x
  PROVE  Distinct(Append(s, x))
<1>1. /\ Append(s, x) \in Seq(S) /\ Len(Append(s, x)) = Len(s) + 1 /\ Len(s) \in Nat
      /\ \A i \in 1..Len(s) : Append(s, x)[i] = s[i] /\ Append(s, x)[Len(s) + 1] = x
  BY AppendProperties
<1>2. PICK t \in Seq(S) : t = Append(s, x)
  BY <1>1
<1>3. Len(t) = Len(s) + 1 /\ t[Len(s) + 1] = x /\ \A i \in 1..Len(s) : t[i] = s[i]
  BY <1>1, <1>2
<1>4. ASSUME NEW i \in 1..Len(t), NEW j \in 1..Len(t), t[i] = t[j] PROVE i = j
  <2>1. /\ i = Len(s) + 1 \/ i \in 1..Len(s)
        /\ j = Len(s) + 1 \/ j \in 1..Len(s)
    BY <1>1, <1>3
  <2>2. CASE i \in 1..Len(s) /\ j \in 1..Len(s)
    BY <1>3, <1>4, <2>2 DEF Distinct
  <2>3. CASE i = Len(s) + 1 /\ j \in 1..Len(s)
    BY <1>3, <1>4, <2>3
  <2>4. CASE i \in 1..Len(s) /\ j = Len(s) + 1
    BY <1>3, <1>4, <2>4
  <2> QED
    BY <2>1, <2>2, <2>3, <2>4
<1> QED
  BY <1>2, <1>4 DEF Distinct

(* frames keeps requests of the batch, each once.                          *)
LEMMA FramesFacts ==
  ASSUME NEW requests \in Seq(Requests)
  PROVE  frames(requests) \in Seq(Requests) /\ Distinct(frames(requests))
<1> DEFINE N == Len(requests)
           V == Seq(Requests)
           new(n) == command_for(requests[n]) /\ \A j \in 1..(n - 1) : requests[j] # requests[n]
           step == [n \in Nat |-> [q \in V |->
                      IF n \in 1..N /\ new(n) THEN Append(q, requests[n]) ELSE q]]
           Body(g) == [n \in 0..N |-> IF n = 0 THEN <<>>
                         ELSE IF new(n) THEN Append(g[n - 1], requests[n]) ELSE g[n - 1]]
           upTo == CHOOSE g : g = Body(g)
<1>1. N \in Nat /\ \A n \in 1..N : requests[n] \in Requests
  OBVIOUS
<1>2. frames(requests) = upTo[N]
  BY DEF frames
<1> HIDE DEF N, new
<1>3. <<>> \in V
  OBVIOUS
<1>4. ASSUME NEW n \in 1..N, NEW q \in V PROVE Append(q, requests[n]) \in V
  BY <1>1
<1> HIDE DEF V
<1>5. PICK h \in [0..N -> V] : h[0] = <<>> /\ \A n \in 1..N : h[n] = step[n][h[n - 1]]
  <2>1. ASSUME NEW n \in Nat, NEW q \in V PROVE step[n][q] \in V
    <3>1. step[n][q] = IF n \in 1..N /\ new(n) THEN Append(q, requests[n]) ELSE q
      OBVIOUS
    <3> HIDE DEF step
    <3> QED
      BY <1>4, <3>1
  <2>2. step \in [Nat -> [V -> V]]
    BY <2>1
  <2> HIDE DEF step
  <2>3. Upto(N, V, <<>>, step) # {}
    BY <1>1, <1>3, <2>2, UptoExists
  <2>4. PICK g : g \in Upto(N, V, <<>>, step)
    BY <2>3
  <2> QED
    BY <2>4 DEF Upto
<1>6. ASSUME NEW n \in 1..N
      PROVE  h[n] = IF new(n) THEN Append(h[n - 1], requests[n]) ELSE h[n - 1]
  <2>1. n \in Nat /\ n - 1 \in 0..N
    BY <1>1
  <2> QED
    BY <1>5, <2>1
<1>7. h = Body(h)
  <2>1. ASSUME NEW n \in 0..N PROVE Body(h)[n] = h[n]
    <3>1. n = 0 \/ n \in 1..N
      BY <1>1
    <3>2. h[0] = <<>>
      BY <1>5
    <3> HIDE DEF step
    <3> QED
      BY <1>6, <3>1, <3>2
  <2> QED
    BY <1>5, <2>1
<1>8. upTo = Body(upTo)
  <2> HIDE DEF Body
  <2> QED
    BY <1>7
<1> HIDE DEF upTo
<1> DEFINE Taken(q, n) == \A i \in 1..Len(q) : \E j \in 1..n : q[i] = requests[j]
           Good(q, n) == q \in V /\ Distinct(q) /\ Taken(q, n)
           K == {n \in Nat : n <= N => Good(upTo[n], n)}
<1>a. ASSUME NEW n \in Nat, n + 1 <= N, NEW q, Good(q, n) PROVE Good(q, n + 1)
  BY <1>a
<1>b. ASSUME NEW n \in Nat, n + 1 <= N, new(n + 1), NEW q, Good(q, n)
      PROVE  Good(Append(q, requests[n + 1]), n + 1)
  <2> DEFINE x == requests[n + 1]
  <2>1. q \in Seq(Requests) /\ Distinct(q) /\ Taken(q, n)
    BY <1>b DEF V
  <2>2. x \in Requests /\ \A j \in 1..n : requests[j] # x
    <3>1. n + 1 \in 1..N /\ (n + 1) - 1 = n
      BY <1>1, <1>b
    <3> QED
      BY <1>1, <1>b, <3>1 DEF new
  <2> HIDE DEF x
  <2>3. \A i \in 1..Len(q) : q[i] # x
    BY <2>1, <2>2
  <2>4. Distinct(Append(q, x))
    BY <2>1, <2>2, <2>3, DistinctAppend
  <2>5. /\ Append(q, x) \in Seq(Requests) /\ Len(Append(q, x)) = Len(q) + 1
        /\ \A i \in 1..Len(q) : Append(q, x)[i] = q[i] /\ Append(q, x)[Len(q) + 1] = x
    BY <2>1, <2>2, AppendProperties
  <2>6. PICK r \in Seq(Requests) : r = Append(q, x)
    BY <2>5
  <2>7. Len(q) \in Nat /\ Len(r) = Len(q) + 1 /\ r[Len(q) + 1] = x
        /\ \A i \in 1..Len(q) : r[i] = q[i]
    BY <2>1, <2>5, <2>6
  <2>8. ASSUME NEW i \in 1..Len(r) PROVE \E j \in 1..(n + 1) : r[i] = requests[j]
    <3>1. i = Len(q) + 1 \/ i \in 1..Len(q)
      BY <2>7
    <3>2. CASE i = Len(q) + 1
      BY <2>7, <3>2 DEF x
    <3>3. CASE i \in 1..Len(q)
      <4>1. PICK j \in 1..n : q[i] = requests[j]
        BY <2>1, <3>3
      <4> QED
        BY <2>7, <3>3, <4>1
    <3> QED
      BY <3>1, <3>2, <3>3
  <2> QED
    BY <2>4, <2>6, <2>8 DEF V, x
<1>9. 0 \in K
  <2>1. upTo[0] = <<>>
    BY <1>1, <1>8
  <2>2. Distinct(<<>>) /\ Taken(<<>>, 0)
    BY DEF Distinct
  <2> QED
    BY <1>3, <2>1, <2>2
<1> HIDE DEF Good
<1>10. ASSUME NEW n \in Nat, n \in K PROVE n + 1 \in K
  <2> SUFFICES ASSUME n + 1 <= N PROVE Good(upTo[n + 1], n + 1)
    OBVIOUS
  <2>1. Good(upTo[n], n)
    BY <1>1, <1>10
  <2>2. n + 1 \in 0..N /\ n + 1 # 0 /\ (n + 1) - 1 = n /\ n + 1 \in 1..N
    BY <1>1
  <2>3. upTo[n + 1] = IF new(n + 1) THEN Append(upTo[n], requests[n + 1]) ELSE upTo[n]
    BY <1>8, <2>2
  <2> QED
    BY <1>a, <1>b, <2>1, <2>3
<1>11. K \in SUBSET Nat
  OBVIOUS
<1> HIDE DEF K
<1>12. K = Nat
  BY <1>9, <1>10, <1>11, SetInduction
<1>13. N \in K /\ N <= N
  BY <1>1, <1>12
<1>14. Good(upTo[N], N)
  BY <1>13 DEF K
<1>15. upTo[N] \in V /\ Distinct(upTo[N])
  BY <1>14 DEF Good
<1> QED
  BY <1>2, <1>15 DEF V

(* The script of a batch.                                                  *)
LEMMA EncodeFacts ==
  ASSUME NEW list \in Seq(Requests)
  PROVE  encode(list) \in Seq(Steps)
<1> DEFINE N == Len(list)
           d(n) == ((n - 1) % 3) + 1
           p(n) == ((n - 1) \div 3) + 1
           at(n) == IF n > 3 * N THEN [do |-> "terminate"]
                    ELSE [do |-> <<"begin", "run", "end">>[d(n)], id |-> list[p(n)]]
<1>1. N \in Nat
  OBVIOUS
<1> HIDE DEF N
<1>2. ASSUME NEW n \in 1..(3 * N + 1) PROVE at(n) \in Steps
  <2>1. CASE n > 3 * N
    BY <2>1 DEF Steps
  <2>2. CASE ~(n > 3 * N)
    <3>1. p(n) \in 1..N
      BY <1>1, <2>2
    <3>2. d(n) \in {1, 2, 3}
      BY <1>1
    <3> HIDE DEF d, p
    <3>3. list[p(n)] \in Requests
      BY <3>1 DEF N
    <3>4. <<"begin", "run", "end">>[d(n)] \in {"begin", "run", "end"}
      BY <3>2
    <3>5. [do |-> <<"begin", "run", "end">>[d(n)], id |-> list[p(n)]] \in Steps
      BY <3>3, <3>4 DEF Steps
    <3> QED
      BY <2>2, <3>5
  <2> QED
    BY <2>1, <2>2
<1>3. encode(list) = [n \in 1..(3 * N + 1) |-> at(n)]
  BY DEF encode, N
<1> HIDE DEF at
<1>4. 3 * N + 1 \in Nat
  BY <1>1
<1> QED
  BY <1>2, <1>3, <1>4

(* What find answers.                                                      *)
Stands(needle, s, i) ==
  i + Len(needle) - 1 <= Len(s) /\ \A j \in 1..Len(needle) : s[i + j - 1] = needle[j]

(* It answers 0 when the needle stands nowhere.                          *)
LEMMA FindNothing ==
  ASSUME NEW S, NEW needle \in Seq(S), NEW s \in Seq(S), NEW from \in Nat \ {0}
  PROVE  find(needle, s, from) = 0 <=> \A i \in Nat : i >= from => ~Stands(needle, s, i)
<1> DEFINE at == {i \in from..(Len(s) - Len(needle) + 1) :
                    \A j \in DOMAIN needle : s[i + j - 1] = needle[j]}
<1>1. at \in SUBSET Nat /\ 0 \notin at /\ DOMAIN needle = 1..Len(needle)
      /\ Len(s) \in Nat /\ Len(needle) \in Nat
  OBVIOUS
<1>2. at # {} => (CHOOSE i \in at : \A j \in at : i <= j) \in at
  <2>1. at # {} => \E i \in at : \A j \in at : i <= j
    BY <1>1, Least
  <2> HIDE DEF at
  <2> QED
    BY <2>1
<1>3. find(needle, s, from) = IF at = {} THEN 0 ELSE CHOOSE i \in at : \A j \in at : i <= j
  BY DEF find
<1>4. find(needle, s, from) = 0 <=> at = {}
  <2> HIDE DEF at
  <2> QED
    BY <1>1, <1>2, <1>3
<1>5. \A i \in Nat : i >= from => (i \in at <=> Stands(needle, s, i))
  BY <1>1 DEF Stands
<1>6. \A i \in at : i \in Nat /\ i >= from
  OBVIOUS
<1> HIDE DEF at
<1> QED
  BY <1>4, <1>5, <1>6

(* The overlap of the search is enough: when the needle stood nowhere in   *)
(* what had come, and stands nowhere in the end of it with the new data,   *)
(* it stands nowhere.                                                      *)
LEMMA TailSearch ==
  ASSUME NEW S, NEW needle \in Seq(S), NEW old \in Seq(S), NEW new \in Seq(S),
         NEW from \in Nat \ {0},
         from = IF Len(old) > Len(needle) THEN Len(old) - Len(needle) + 1 ELSE 1,
         find(needle, old, 1) = 0, find(needle, old \o new, from) = 0
  PROVE  find(needle, old \o new, 1) = 0
<1>1. /\ old \o new \in Seq(S)
      /\ Len(old \o new) = Len(old) + Len(new)
      /\ \A j \in 1..(Len(old) + Len(new)) :
           (old \o new)[j] = IF j <= Len(old) THEN old[j] ELSE new[j - Len(old)]
  BY ConcatProperties
<1>2. Len(old) \in Nat /\ Len(new) \in Nat /\ Len(needle) \in Nat /\ 1 \in Nat \ {0}
  OBVIOUS
<1>3. \A i \in Nat : i >= 1 => ~Stands(needle, old, i)
  BY <1>2, FindNothing
<1>4. \A i \in Nat : i >= from => ~Stands(needle, old \o new, i)
  BY <1>1, FindNothing
<1>5. ASSUME NEW i \in Nat, i >= 1 PROVE ~Stands(needle, old \o new, i)
  <2>1. CASE i >= from
    BY <1>4, <2>1
  <2>2. CASE i < from
    <3>1. i + Len(needle) - 1 <= Len(old)
      BY <1>2, <1>5, <2>2
    <3>2. PICK j \in 1..Len(needle) : old[i + j - 1] # needle[j]
      BY <1>3, <1>5, <3>1 DEF Stands
    <3>3. i + j - 1 \in 1..(Len(old) + Len(new)) /\ i + j - 1 <= Len(old)
      BY <1>2, <1>5, <3>1
    <3>4. (old \o new)[i + j - 1] = old[i + j - 1]
      BY <1>1, <3>3
    <3> QED
      BY <3>2, <3>4 DEF Stands
  <2> QED
    BY <1>5, <2>1, <2>2
<1> QED
  BY <1>1, <1>2, <1>5, FindNothing

(* The first part of a sequence, when nothing of T stands in it.           *)
LEMMA ChunkFacts ==
  ASSUME NEW S, NEW T, NEW w \in Seq(S \union T), NEW k \in Nat, k <= Len(w),
         \A i \in 1..k : w[i] \notin T
  PROVE  /\ SubSeq(w, 1, k) \in Seq(S) /\ Len(SubSeq(w, 1, k)) = k
         /\ SubSeq(w, k + 1, Len(w)) \in Seq(S \union T)
<1>1. /\ SubSeq(w, 1, k) \in Seq(S \union T) /\ Len(SubSeq(w, 1, k)) = k
      /\ \A i \in 1..k : SubSeq(w, 1, k)[i] = w[i]
  OBVIOUS
<1>2. SubSeq(w, 1, k) = [i \in 1..k |-> w[i]]
  BY <1>1
<1>3. \A i \in 1..k : w[i] \in S
  OBVIOUS
<1>4. SubSeq(w, 1, k) \in Seq(S)
  BY <1>2, <1>3
<1>5. SubSeq(w, k + 1, Len(w)) \in Seq(S \union T)
  OBVIOUS
<1> QED
  BY <1>1, <1>4, <1>5

(* What the host writes is made of tokens.                                 *)
LEMMA Written ==
  /\ terminator \in Seq(Tokens) /\ Len(terminator) = 3
  /\ \A id \in Requests : begin(id) \in Seq(Tokens) /\ end_prefix(id) \in Seq(Tokens)
  /\ <<"nl">> \in Seq(Tokens)
  /\ Tokens \subseteq Tokens \union Signals
  /\ Codes \subseteq Tokens /\ {"x", "nl"} \subseteq Tokens
<1>1. /\ {"nl", "Z", "B", "E", "sp", "x", "noise"} \subseteq Tokens
      /\ Requests \subseteq Tokens /\ Codes \subseteq Tokens
  BY DEF Tokens, Marks
<1> QED
  BY <1>1 DEF terminator, begin, end_prefix

(* Where the search starts.                                                *)
LEMMA SearchFromFacts ==
  ASSUME buf \in Seq(Tokens)
  PROVE  SearchFrom \in Nat \ {0}
<1>1. Len(buf) \in Nat /\ Len(terminator) = 3
  BY Written
<1>2. CASE Len(buf) > Len(terminator)
  <2>1. SearchFrom = Len(buf) - Len(terminator) + 1
    BY <1>2 DEF SearchFrom
  <2>2. PICK n \in Nat : n = Len(buf)
    BY <1>1
  <2>3. SearchFrom = n - 3 + 1 /\ n > 3
    BY <1>1, <1>2, <2>1, <2>2
  <2> QED
    BY <2>3
<1>3. CASE ~(Len(buf) > Len(terminator))
  <2>1. SearchFrom = 1
    BY <1>3 DEF SearchFrom
  <2> QED
    BY <2>1
<1> QED
  BY <1>2, <1>3

-----------------------------------------------------------------------------
(* The invariant.                                                          *)

(* A batch that is being written has received nothing yet; one that waits  *)
(* has not received its terminator.                                        *)
IInv ==
  /\ TypeOK
  /\ phase = "writing" => buf = <<>>
  /\ TerminatorNotMissed

(* In an empty buffer there is no terminator.                              *)
LEMMA EmptyHasNone == find(terminator, <<>>, 1) = 0
<1>1. \A i \in Nat : i >= 1 => ~Stands(terminator, <<>>, i)
  BY Written DEF Stands
<1>2. <<>> \in Seq(Tokens) /\ 1 \in Nat \ {0}
  OBVIOUS
<1> QED
  BY <1>1, <1>2, Written, FindNothing

(* The first state.                                                        *)
LEMMA InitIInv == Init => IInv
  BY BatchAssumption
  DEF Init, IInv, TypeOK, TerminatorNotMissed, Phases, Returned, NoResponses

(* Whatever fails, the batch's buffer and channel go.                      *)
LEMMA FailStep ==
  ASSUME IInv, NEW error \in Errors, drop(error)
  PROVE  IInv'
<1>1. result'.kind = error
  BY DEF drop, Fail, Returned
<1>2. /\ phase' = "down" /\ buf' = <<>> /\ script' = <<>> /\ wire' = <<>>
      /\ UNCHANGED <<ids, clock, sg, printed>>
  BY DEF drop, Fail
<1>3. <<>> \in Seq(Tokens) /\ Len(<<>>) <= MAX_BATCH_BYTES /\ <<>> \in Seq(Steps)
      /\ <<>> \in Seq(Tokens \union Signals)
  BY BatchAssumption
<1>4. TypeOK'
  BY <1>1, <1>2, <1>3 DEF IInv, TypeOK, Phases
<1> QED
  BY <1>2, <1>4 DEF IInv, TerminatorNotMissed

(* The caller's steps.                                                     *)
LEMMA CallerStep ==
  ASSUME IInv, connect \/ Caller \/ time_passes
  PROVE  IInv'
<1>0. <<>> \in Seq(Tokens) /\ Len(<<>>) <= MAX_BATCH_BYTES /\ <<>> \in Seq(Steps)
      /\ <<>> \in Seq(Tokens \union Signals) /\ 0 \in 0..Deadline
  BY BatchAssumption
<1>1. CASE connect
  BY <1>0, <1>1 DEF IInv, TypeOK, TerminatorNotMissed, connect, Phases
<1>2. ASSUME NEW requests \in Batches, batch(requests) PROVE IInv'
  <2>1. frames(requests) \in Seq(Requests)
    BY BatchAssumption, FramesFacts
  <2>2. result'.kind \in {"none", "Ok"}
    BY <1>2 DEF batch, Returned
  <2>3. phase' \in {"idle", "writing"}
    BY <1>2 DEF batch
  <2>4. /\ ids' = frames(requests) /\ printed' = NoResponses /\ buf' = <<>> /\ clock' = 0
        /\ UNCHANGED <<script, sg, wire>>
    BY <1>2 DEF batch
  <2>5. DOMAIN printed' \subseteq Requests
    BY <2>4 DEF NoResponses
  <2>6. TypeOK'
    BY <1>0, <2>1, <2>2, <2>3, <2>4, <2>5 DEF IInv, TypeOK, Phases
  <2> QED
    BY <2>3, <2>4, <2>6 DEF IInv, TerminatorNotMissed
<1>3. CASE raw_write
  <2>1. encode(ids) \in Seq(Steps)
    BY EncodeFacts DEF IInv, TypeOK
  <2>2. buf' = <<>>
    BY <1>3 DEF IInv, raw_write
  <2>3. TypeOK'
    BY <1>3, <2>1 DEF IInv, TypeOK, raw_write, Phases
  <2> QED
    BY <1>3, <2>2, <2>3, EmptyHasNone DEF IInv, TerminatorNotMissed, raw_write
<1>4. CASE write_failed
  BY <1>4, FailStep DEF write_failed, Errors
<1>5. CASE timed_out
  BY <1>5, FailStep DEF timed_out, Errors
<1>6. CASE time_passes
  <2>1. clock' \in 0..Deadline
    BY <1>6, BatchAssumption DEF IInv, TypeOK, time_passes
  <2> QED
    BY <1>6, <2>1 DEF IInv, TypeOK, TerminatorNotMissed, time_passes, remote
<1> QED
  BY <1>1, <1>2, <1>3, <1>4, <1>5, <1>6 DEF Caller

(* What the batch receives: the bound, and the terminator it looks for.    *)
LEMMA ReceiveStep ==
  ASSUME IInv, receive
  PROVE  IInv'
<1>1. ASSUME NEW k \in Chunks, data(k) PROVE IInv'
  <2>1. CASE TooLarge(k)
    BY <1>1, <2>1, FailStep DEF data, Errors
  <2>2. CASE ~TooLarge(k)
    <3> DEFINE chunk == SubSeq(wire, 1, k)
    <3>1. k \in Nat /\ k <= Len(wire) /\ \A i \in 1..k : wire[i] \notin Signals
      BY <1>1, BatchAssumption DEF data
    <3>2. wire \in Seq(Tokens \union Signals) /\ buf \in Seq(Tokens)
      BY DEF IInv, TypeOK
    <3>3. /\ chunk \in Seq(Tokens) /\ Len(chunk) = k
          /\ SubSeq(wire, k + 1, Len(wire)) \in Seq(Tokens \union Signals)
      BY <3>1, <3>2, ChunkFacts
    <3> HIDE DEF chunk
    <3>4. PICK reply \in Seq(Tokens) : reply = buf \o chunk /\ Len(reply) = Len(buf) + k
      BY <3>2, <3>3, ConcatProperties
    <3>5. /\ wire' = SubSeq(wire, k + 1, Len(wire)) /\ phase = "waiting"
          /\ UNCHANGED <<ids, clock, script, sg, printed>>
      BY <1>1, <2>2 DEF data
    <3>6. IF find(terminator, reply, SearchFrom) = 0
          THEN buf' = reply /\ UNCHANGED <<phase, result>>
          ELSE buf' = <<>> /\ phase' = "idle" /\ result' = Returned("Ok", decode(reply))
      BY <1>1, <2>2, <3>4 DEF data, chunk
    <3>7. Len(reply) <= MAX_BATCH_BYTES
      BY <2>2, <3>1, <3>2, <3>4, BatchAssumption DEF TooLarge
    <3>8. CASE find(terminator, reply, SearchFrom) = 0
      <4>1. TypeOK'
        BY <3>3, <3>4, <3>5, <3>6, <3>7, <3>8 DEF IInv, TypeOK
      <4>2. find(terminator, buf, 1) = 0
        BY <3>5 DEF IInv, TerminatorNotMissed
      <4>3. SearchFrom \in Nat \ {0}
        BY <3>2, SearchFromFacts
      <4>4. find(terminator, buf \o chunk, 1) = 0
        BY <3>2, <3>3, <3>4, <3>8, <4>2, <4>3, Written, TailSearch DEF SearchFrom
      <4> QED
        BY <3>4, <3>5, <3>6, <3>8, <4>1, <4>4 DEF IInv, TerminatorNotMissed
    <3>9. CASE find(terminator, reply, SearchFrom) # 0
      <4>1. buf' = <<>> /\ phase' = "idle" /\ result'.kind = "Ok"
        BY <3>6, <3>9 DEF Returned
      <4>2. <<>> \in Seq(Tokens) /\ Len(<<>>) <= MAX_BATCH_BYTES
        BY BatchAssumption
      <4>3. TypeOK'
        BY <3>3, <3>5, <4>1, <4>2 DEF IInv, TypeOK, Phases
      <4> QED
        BY <4>1, <4>3 DEF IInv, TerminatorNotMissed
    <3> QED
      BY <3>8, <3>9
  <2> QED
    BY <2>1, <2>2
<1>2. CASE extended_data
  <2>1. Tail(wire) \in Seq(Tokens \union Signals)
    BY <1>2 DEF IInv, TypeOK, extended_data
  <2> QED
    BY <1>2, <2>1 DEF IInv, TypeOK, TerminatorNotMissed, extended_data, client
<1>3. CASE closed
  BY <1>3, FailStep DEF closed, Errors
<1> QED
  BY <1>1, <1>2, <1>3 DEF receive

(* What the host does touches its script and the wire only.                *)
LEMMA HostStep ==
  ASSUME IInv, Host
  PROVE  IInv'
<1> DEFINE W == Seq(Tokens \union Signals)
<1>0. /\ wire \in W /\ script \in Seq(Steps) /\ sg \in Seq(Codes)
      /\ DOMAIN printed \subseteq Requests
  BY DEF IInv, TypeOK
<1>1. ASSUME NEW tokens \in W, Write(tokens) PROVE wire' \in W
  BY <1>0, <1>1, ConcatProperties DEF Write
<1>2. ASSUME UNCHANGED client, wire' \in W, script' \in Seq(Steps), sg' \in Seq(Codes),
             DOMAIN printed' \subseteq Requests
      PROVE  IInv'
  BY <1>2 DEF IInv, TypeOK, TerminatorNotMissed, client
<1>3. ASSUME NEW step, Do(step)
      PROVE  /\ UNCHANGED client /\ script' \in Seq(Steps)
             /\ step # "terminate" => Head(script).id \in Requests
  <2>1. script # <<>> /\ Head(script).do = step /\ script' = Tail(script) /\ UNCHANGED client
    BY <1>3 DEF Do
  <2>2. Head(script) \in Steps /\ Tail(script) \in Seq(Steps)
    BY <1>0, <2>1
  <2>3. step # "terminate" => Head(script).id \in Requests
    BY <2>1, <2>2 DEF Steps
  <2> QED
    BY <2>1, <2>2, <2>3
<1>4. \A q \in Seq(Tokens) : q \in W
  OBVIOUS
<1>5. CASE print_begin
  <2>1. Do("begin") /\ Write(begin(Head(script).id)) /\ UNCHANGED <<sg, printed>>
    BY <1>5 DEF print_begin
  <2>2. begin(Head(script).id) \in W
    BY <1>3, <1>4, <2>1, Written
  <2> HIDE DEF W
  <2> QED
    BY <1>0, <1>1, <1>2, <1>3, <2>1, <2>2
<1>6. ASSUME NEW output \in Outputs, run_command(output) PROVE IInv'
  <2>1. /\ Do("run") /\ Write(output.body) /\ sg' = output.exit_code
        /\ printed' = Put(printed, Head(script).id, output)
    BY <1>6 DEF run_command
  <2>2. output \in [body : Seq({"x", "nl"}), exit_code : Seq(Codes)]
    BY BatchAssumption
  <2>3. output.body \in Seq({"x", "nl"}) /\ output.exit_code \in Seq(Codes)
    BY <2>2
  <2>4. output.body \in W
    BY <1>4, <2>3, Written, SeqOfMore
  <2>5. DOMAIN printed' = DOMAIN printed \union {Head(script).id}
    BY <2>1 DEF Put
  <2>6. DOMAIN printed' \subseteq Requests
    BY <1>0, <1>3, <2>1, <2>5
  <2> HIDE DEF W
  <2> QED
    BY <1>0, <1>1, <1>2, <1>3, <2>1, <2>3, <2>4, <2>6
<1>7. CASE print_end
  <2>1. /\ Do("end") /\ UNCHANGED <<sg, printed>>
        /\ Write(end_prefix(Head(script).id) \o sg \o <<"nl">>)
    BY <1>7 DEF print_end
  <2>2. end_prefix(Head(script).id) \in Seq(Tokens)
    BY <1>3, <2>1, Written
  <2>3. sg \in Seq(Tokens) /\ <<"nl">> \in Seq(Tokens)
    BY <1>0, Written, SeqOfMore
  <2>4. end_prefix(Head(script).id) \o sg \in Seq(Tokens)
    BY <2>2, <2>3, ConcatProperties
  <2>5. end_prefix(Head(script).id) \o sg \o <<"nl">> \in Seq(Tokens)
    BY <2>3, <2>4, ConcatProperties
  <2>6. end_prefix(Head(script).id) \o sg \o <<"nl">> \in W
    BY <1>4, <2>5
  <2> HIDE DEF W
  <2> QED
    BY <1>0, <1>1, <1>2, <1>3, <2>1, <2>6
<1>8. CASE print_terminator
  <2>1. Do("terminate") /\ Write(terminator) /\ UNCHANGED <<sg, printed>>
    BY <1>8 DEF print_terminator
  <2>2. terminator \in W
    BY <1>4, Written
  <2> HIDE DEF W
  <2> QED
    BY <1>0, <1>1, <1>2, <1>3, <2>1, <2>2
<1>9. CASE shell_dies
  <2>1. Write(<<"Closed">>) /\ script' = <<>> /\ UNCHANGED <<client, sg, printed>>
    BY <1>9 DEF shell_dies
  <2>2. <<"Closed">> \in W /\ <<>> \in Seq(Steps)
    BY DEF Signals
  <2> HIDE DEF W
  <2> QED
    BY <1>0, <1>1, <1>2, <2>1, <2>2
<1>10. CASE background_prints
  <2>1. PICK token \in {"noise", "ExtendedData"} : Write(<<token>>)
    BY <1>10 DEF background_prints
  <2>2. <<token>> \in W
    BY DEF Tokens, Marks, Signals
  <2>3. UNCHANGED <<client, script, sg, printed>>
    BY <1>10 DEF background_prints
  <2> HIDE DEF W
  <2> QED
    BY <1>0, <1>1, <1>2, <2>1, <2>2, <2>3
<1> QED
  BY <1>5, <1>6, <1>7, <1>8, <1>9, <1>10 DEF Host

-----------------------------------------------------------------------------
(* Every step keeps it.                                                  *)
LEMMA SessionStep == IInv /\ [Next]_vars => IInv'
<1> SUFFICES ASSUME IInv, [Next]_vars PROVE IInv'
  OBVIOUS
<1>1. CASE Next
  BY <1>1, CallerStep, ReceiveStep, HostStep DEF Next
<1>2. CASE UNCHANGED vars
  BY <1>2 DEF IInv, TypeOK, TerminatorNotMissed, vars, client, remote
<1> QED
  BY <1>1, <1>2

(* The session's invariant: whatever the host prints, however the channel  *)
(* cuts it, and whenever it breaks.                                        *)
THEOREM SessionInvariant == Spec => []IInv
  BY InitIInv, SessionStep, PTL DEF Spec

(* batch's buffer holds tokens of the host's output, never its signals,    *)
(* and at most MAX_BATCH_BYTES of them; the clock stays within the         *)
(* deadline.                                                               *)
THEOREM SessionTypes == Spec => []TypeOK
<1>1. IInv => TypeOK
  BY DEF IInv
<1> QED
  BY <1>1, SessionInvariant, PTL

(* A batch that goes on waiting has not received its terminator, however   *)
(* the reply was cut: the overlap of batch's search is long enough.        *)
THEOREM TerminatorIsFound == Spec => []TerminatorNotMissed
<1>1. IInv => TerminatorNotMissed
  BY DEF IInv
<1> QED
  BY <1>1, SessionInvariant, PTL

-----------------------------------------------------------------------------
(* The stream of a batch.                                                  *)

(* What find chooses from.                                                 *)
LEMMA FindAt ==
  ASSUME NEW S, NEW needle \in Seq(S), NEW s \in Seq(S), NEW from \in Nat \ {0}
  PROVE  \E at \in SUBSET Nat :
           /\ find(needle, s, from) =
                IF at = {} THEN 0 ELSE CHOOSE i \in at : \A j \in at : i <= j
           /\ \A i \in Nat : i \in at <=> i >= from /\ Stands(needle, s, i)
<1> DEFINE at == {i \in from..(Len(s) - Len(needle) + 1) :
                    \A j \in DOMAIN needle : s[i + j - 1] = needle[j]}
<1>1. at \in SUBSET Nat /\ DOMAIN needle = 1..Len(needle)
      /\ Len(s) \in Nat /\ Len(needle) \in Nat
  OBVIOUS
<1>2. \A i \in Nat : i \in at <=> i >= from /\ Stands(needle, s, i)
  BY <1>1 DEF Stands
<1>3. find(needle, s, from) = IF at = {} THEN 0 ELSE CHOOSE i \in at : \A j \in at : i <= j
  BY DEF find
<1> HIDE DEF at
<1> QED
  BY <1>1, <1>2, <1>3

(* The first place where a needle stands is the one find answers.          *)
FirstAt(needle, s, from, p) ==
  p >= from /\ Stands(needle, s, p) /\ \A i \in Nat : i >= from /\ Stands(needle, s, i) => p <= i

(* find answers it.                                                      *)
LEMMA FindFirst ==
  ASSUME NEW S, NEW needle \in Seq(S), NEW s \in Seq(S), NEW from \in Nat \ {0},
         NEW p \in Nat, FirstAt(needle, s, from, p)
  PROVE  find(needle, s, from) = p
<1>1. PICK at \in SUBSET Nat :
         /\ find(needle, s, from) = IF at = {} THEN 0 ELSE CHOOSE i \in at : \A j \in at : i <= j
         /\ \A i \in Nat : i \in at <=> i >= from /\ Stands(needle, s, i)
  BY FindAt
<1>2. p \in at /\ \A j \in at : p <= j
  BY <1>1 DEF FirstAt
<1>3. \A i \in at : (\A j \in at : i <= j) => i = p
  BY <1>2
<1>4. (CHOOSE i \in at : \A j \in at : i <= j) = p
  BY <1>2, <1>3
<1> QED
  BY <1>1, <1>2, <1>4

(* A begin line, an end line and the terminator, where they stand.         *)
BeginsAt(F, id, p) ==
  p + 3 <= Len(F) /\ F[p] = "nl" /\ F[p + 1] = "B" /\ F[p + 2] = id /\ F[p + 3] = "nl"
EndsAt(F, id, code, p) ==
  /\ p + 4 + Len(code) <= Len(F)
  /\ F[p] = "nl" /\ F[p + 1] = "E" /\ F[p + 2] = id /\ F[p + 3] = "sp"
  /\ \A j \in 1..Len(code) : F[p + 3 + j] = code[j]
  /\ F[p + 4 + Len(code)] = "nl"
ClosesAt(F, p) == p + 2 <= Len(F) /\ F[p] = "nl" /\ F[p + 1] = "Z" /\ F[p + 2] = "nl"

Results == [body : Seq({"x", "nl"}), exit_code : Seq(Codes)]

(* Where the shell is after q commands of the script for l, of which each  *)
(* frame has three: F is what it has written, b and e are where the begin  *)
(* and end lines of the frames stand, t where the terminator does.         *)
Ran(l, outs, q) ==
  \A i \in 1..Len(l) : q >= 3 * i - 1 => l[i] \in DOMAIN outs /\ outs[l[i]] \in Results
CodeOf(l, outs, i) == outs[l[i]].exit_code
After(l, outs, e, i) == e[i] + 5 + Len(CodeOf(l, outs, i))

Begun(F, l, q, b) ==
  \A i \in 1..Len(l) : q >= 3 * i - 2 => b[i] >= 1 /\ BeginsAt(F, l[i], b[i])
Ended(F, l, outs, q, b, e) ==
  \A i \in 1..Len(l) : q >= 3 * i =>
    /\ b[i] + 4 <= e[i] /\ EndsAt(F, l[i], CodeOf(l, outs, i), e[i])
    /\ Own(SubSeq(F, b[i] + 4, e[i] - 1)) = outs[l[i]].body
Ordered(l, outs, q, b, e) ==
  \A j \in 1..Len(l) : q >= 3 * j - 2 => \A i \in 1..(j - 1) : After(l, outs, e, i) <= b[j]
Current(F, l, outs, q, b) ==
  \A i \in 1..Len(l) :
    /\ q = 3 * i - 2 => Own(SubSeq(F, b[i] + 4, Len(F))) = <<>>
    /\ q = 3 * i - 1 => Own(SubSeq(F, b[i] + 4, Len(F))) = outs[l[i]].body
Closes(F, l, outs, q, e, t) ==
  q = 3 * Len(l) + 1 =>
    /\ t >= 1 /\ ClosesAt(F, t)
    /\ \A i \in 1..Len(l) : After(l, outs, e, i) <= t
    /\ \A p \in 1..Len(F) : p > t + 2 => F[p] = "noise"
(* There are no other marks.                                               *)
Marked(token, p, l, q, b, e, t) ==
  /\ token = "B" => \E i \in 1..Len(l) : q >= 3 * i - 2 /\ p = b[i] + 1
  /\ token = "E" => \E i \in 1..Len(l) : q >= 3 * i /\ p = e[i] + 1
  /\ token = "Z" => q = 3 * Len(l) + 1 /\ p = t + 1
OnlyMarks(F, l, q, b, e, t) == \A p \in 1..Len(F) : Marked(F[p], p, l, q, b, e, t)

Places(F, l, q, b, e, t) ==
  /\ F \in Seq(Tokens) /\ l \in Seq(Requests) /\ Distinct(l)
  /\ q \in 0..(3 * Len(l) + 1)
  /\ b \in [1..Len(l) -> Nat] /\ e \in [1..Len(l) -> Nat] /\ t \in Nat

Layout(F, l, outs, q, b, e, t) ==
  /\ Places(F, l, q, b, e, t)
  /\ Ran(l, outs, q)
  /\ Begun(F, l, q, b)
  /\ Ended(F, l, outs, q, b, e)
  /\ Ordered(l, outs, q, b, e)
  /\ Current(F, l, outs, q, b)
  /\ Closes(F, l, outs, q, e, t)
  /\ OnlyMarks(F, l, q, b, e, t)

(* What more output leaves as it was.                                      *)
Longer(F, x, G) ==
  /\ G \in Seq(Tokens) /\ Len(G) = Len(F) + Len(x) /\ Len(F) \in Nat /\ Len(x) \in Nat
  /\ \A p \in 1..Len(F) : G[p] = F[p]
  /\ \A p \in 1..Len(x) : G[Len(F) + p] = x[p]
  /\ \A p \in 1..Len(G) : p > Len(F) => p - Len(F) \in 1..Len(x) /\ G[p] = x[p - Len(F)]
  /\ \A id : \A p \in Nat : p >= 1 /\ BeginsAt(F, id, p) => BeginsAt(G, id, p)
  /\ \A id : \A p \in Nat : \A code \in Seq(Codes) :
       p >= 1 /\ EndsAt(F, id, code, p) => EndsAt(G, id, code, p)
  /\ \A p \in Nat : p >= 1 /\ ClosesAt(F, p) => ClosesAt(G, p)

(* So it is with what is appended.                                       *)
LEMMA Grown ==
  ASSUME NEW F \in Seq(Tokens), NEW x \in Seq(Tokens), NEW G, G = F \o x
  PROVE  Longer(F, x, G)
<1>1. /\ G \in Seq(Tokens) /\ Len(G) = Len(F) + Len(x) /\ Len(F) \in Nat /\ Len(x) \in Nat
      /\ \A p \in 1..Len(G) : G[p] = IF p <= Len(F) THEN F[p] ELSE x[p - Len(F)]
  BY ConcatProperties
<1>2. \A p \in 1..Len(F) : G[p] = F[p]
  BY <1>1
<1>3. \A p \in 1..Len(x) : G[Len(F) + p] = x[p]
  <2> TAKE p \in 1..Len(x)
  <2>1. Len(F) + p \in 1..Len(G) /\ ~(Len(F) + p <= Len(F)) /\ Len(F) + p - Len(F) = p
    BY <1>1
  <2> QED
    BY <1>1, <2>1
<1>4. \A p \in 1..Len(G) : p > Len(F) => p - Len(F) \in 1..Len(x) /\ G[p] = x[p - Len(F)]
  BY <1>1
<1>5. ASSUME NEW id, NEW p \in Nat, p >= 1, BeginsAt(F, id, p) PROVE BeginsAt(G, id, p)
  <2>1. p \in 1..Len(F) /\ p + 1 \in 1..Len(F) /\ p + 2 \in 1..Len(F) /\ p + 3 \in 1..Len(F)
    BY <1>1, <1>5 DEF BeginsAt
  <2> QED
    BY <1>1, <1>2, <1>5, <2>1 DEF BeginsAt
<1>6. ASSUME NEW id, NEW p \in Nat, NEW code \in Seq(Codes), p >= 1, EndsAt(F, id, code, p)
      PROVE  EndsAt(G, id, code, p)
  <2>1. Len(code) \in Nat
    OBVIOUS
  <2>2. /\ p \in 1..Len(F) /\ p + 1 \in 1..Len(F) /\ p + 2 \in 1..Len(F) /\ p + 3 \in 1..Len(F)
        /\ p + 4 + Len(code) \in 1..Len(F) /\ \A j \in 1..Len(code) : p + 3 + j \in 1..Len(F)
    BY <1>1, <1>6, <2>1 DEF EndsAt
  <2>3. p + 4 + Len(code) <= Len(G)
    BY <1>1, <1>6, <2>1 DEF EndsAt
  <2> QED
    BY <1>2, <1>6, <2>2, <2>3 DEF EndsAt
<1>7. ASSUME NEW p \in Nat, p >= 1, ClosesAt(F, p) PROVE ClosesAt(G, p)
  <2>1. p \in 1..Len(F) /\ p + 1 \in 1..Len(F) /\ p + 2 \in 1..Len(F)
    BY <1>1, <1>7 DEF ClosesAt
  <2> QED
    BY <1>1, <1>2, <1>7, <2>1 DEF ClosesAt
<1> QED
  BY <1>1, <1>2, <1>3, <1>4, <1>5, <1>6, <1>7 DEF Longer

(* Parts of it that were there before, and the rest of it.                 *)
PartsStay(F, x, G) ==
  /\ \A a, c \in Nat : a >= 1 /\ c <= Len(F) => SubSeq(G, a, c) = SubSeq(F, a, c)
  /\ \A a \in Nat : a >= 1 /\ a <= Len(F) + 1 =>
       SubSeq(G, a, Len(G)) = SubSeq(F, a, Len(F)) \o x

(* So it is with what is appended.                                       *)
LEMMA GrownParts ==
  ASSUME NEW F \in Seq(Tokens), NEW x \in Seq(Tokens), NEW G, Longer(F, x, G)
  PROVE  PartsStay(F, x, G)
<1>1. /\ G \in Seq(Tokens) /\ Len(G) = Len(F) + Len(x) /\ Len(F) \in Nat /\ Len(x) \in Nat
      /\ \A p \in 1..Len(F) : G[p] = F[p]
      /\ \A p \in 1..Len(G) : p > Len(F) => p - Len(F) \in 1..Len(x) /\ G[p] = x[p - Len(F)]
  BY DEF Longer
<1>2. ASSUME NEW a \in Nat, NEW c \in Nat, a >= 1, c <= Len(F)
      PROVE  SubSeq(G, a, c) = SubSeq(F, a, c)
  <2>1. \A p \in a..c : p \in 1..Len(F) /\ p \in 1..Len(G)
    BY <1>1, <1>2
  <2>2. /\ SubSeq(G, a, c) \in Seq(Tokens)
        /\ Len(SubSeq(G, a, c)) = IF a <= c THEN c - a + 1 ELSE 0
        /\ \A i \in 1..(c - a + 1) : SubSeq(G, a, c)[i] = G[a + i - 1]
    BY <1>1, <2>1, SubSeqProperties
  <2>3. /\ SubSeq(F, a, c) \in Seq(Tokens)
        /\ Len(SubSeq(F, a, c)) = IF a <= c THEN c - a + 1 ELSE 0
        /\ \A i \in 1..(c - a + 1) : SubSeq(F, a, c)[i] = F[a + i - 1]
    BY <1>1, <2>1, SubSeqProperties
  <2>4. \A i \in 1..(c - a + 1) : a + i - 1 \in 1..Len(F)
    BY <1>1, <1>2
  <2>5. PICK g \in Seq(Tokens) : g = SubSeq(G, a, c)
    BY <2>2
  <2>6. PICK f \in Seq(Tokens) : f = SubSeq(F, a, c)
    BY <2>3
  <2>7. Len(g) = Len(f) /\ \A i \in 1..Len(g) : i \in 1..(c - a + 1)
    BY <2>2, <2>3, <2>5, <2>6
  <2>8. ASSUME NEW i \in 1..Len(g) PROVE g[i] = f[i]
    <3>1. i \in 1..(c - a + 1) /\ a + i - 1 \in 1..Len(F)
      BY <2>4, <2>7
    <3>2. g[i] = G[a + i - 1]
      BY <2>2, <2>5, <3>1
    <3>3. f[i] = F[a + i - 1]
      BY <2>3, <2>6, <3>1
    <3> QED
      BY <1>1, <3>1, <3>2, <3>3
  <2> QED
    BY <2>5, <2>6, <2>7, <2>8, SeqEqual
<1>3. ASSUME NEW a \in Nat, a >= 1, a <= Len(F) + 1
      PROVE  SubSeq(G, a, Len(G)) = SubSeq(F, a, Len(F)) \o x
  <2>1. /\ SubSeq(G, a, Len(G)) \in Seq(Tokens)
        /\ Len(SubSeq(G, a, Len(G))) = IF a <= Len(G) THEN Len(G) - a + 1 ELSE 0
        /\ \A i \in 1..(Len(G) - a + 1) : SubSeq(G, a, Len(G))[i] = G[a + i - 1]
    BY <1>1, <1>3, SubSeqProperties
  <2>2. /\ SubSeq(F, a, Len(F)) \in Seq(Tokens)
        /\ Len(SubSeq(F, a, Len(F))) = IF a <= Len(F) THEN Len(F) - a + 1 ELSE 0
        /\ \A i \in 1..(Len(F) - a + 1) : SubSeq(F, a, Len(F))[i] = F[a + i - 1]
    BY <1>1, <1>3, SubSeqProperties
  <2>3. PICK f \in Seq(Tokens) : f = SubSeq(F, a, Len(F))
    BY <2>2
  <2>4. Len(f) = Len(F) - a + 1 /\ \A i \in 1..Len(f) : f[i] = F[a + i - 1]
    BY <1>1, <1>3, <2>2, <2>3
  <2>5. PICK g \in Seq(Tokens) : g = SubSeq(G, a, Len(G))
    BY <2>1
  <2>6. Len(g) = Len(F) + Len(x) - a + 1 /\ \A i \in 1..Len(g) : g[i] = G[a + i - 1]
    BY <1>1, <1>3, <2>1, <2>5
  <2>7. /\ f \o x \in Seq(Tokens) /\ Len(f \o x) = Len(f) + Len(x)
        /\ \A i \in 1..(Len(f) + Len(x)) : (f \o x)[i] = IF i <= Len(f) THEN f[i] ELSE x[i - Len(f)]
    BY ConcatProperties
  <2>8. Len(f \o x) = Len(g)
    BY <1>1, <1>3, <2>4, <2>6, <2>7
  <2>9. ASSUME NEW i \in 1..Len(g) PROVE g[i] = (f \o x)[i]
    <3>1. g[i] = G[a + i - 1]
      BY <2>6
    <3>2. CASE i <= Len(f)
      <4>1. i \in 1..Len(f) /\ a + i - 1 \in 1..Len(F) /\ i \in 1..(Len(f) + Len(x))
        BY <1>1, <1>3, <2>4, <2>6, <3>2
      <4> QED
        BY <1>1, <2>4, <2>7, <3>1, <3>2, <4>1
    <3>3. CASE ~(i <= Len(f))
      <4>1. /\ a + i - 1 \in 1..Len(G) /\ a + i - 1 > Len(F) /\ i \in 1..(Len(f) + Len(x))
            /\ a + i - 1 - Len(F) = i - Len(f)
        BY <1>1, <1>3, <2>4, <2>6, <3>3
      <4>2. G[a + i - 1] = x[a + i - 1 - Len(F)]
        BY <1>1, <4>1
      <4> QED
        BY <2>7, <3>1, <3>3, <4>1, <4>2
    <3> QED
      BY <3>2, <3>3
  <2>10. g = f \o x
    BY <2>7, <2>8, <2>9, SeqEqual
  <2> QED
    BY <2>3, <2>5, <2>10
<1> QED
  BY <1>2, <1>3 DEF PartsStay

-----------------------------------------------------------------------------
(* decode.                                                                 *)

(* Where a needle is found it lies within the sequence.                    *)
LEMMA FindWithin ==
  ASSUME NEW S, NEW needle \in Seq(S), NEW s \in Seq(S), NEW from \in Nat \ {0},
         find(needle, s, from) # 0
  PROVE  /\ find(needle, s, from) \in Nat /\ find(needle, s, from) >= from
         /\ find(needle, s, from) + Len(needle) <= Len(s) + 1
<1>1. PICK at \in SUBSET Nat :
         /\ find(needle, s, from) = IF at = {} THEN 0 ELSE CHOOSE i \in at : \A j \in at : i <= j
         /\ \A i \in Nat : i \in at <=> i >= from /\ Stands(needle, s, i)
  BY FindAt
<1>2. at # {} => (CHOOSE i \in at : \A j \in at : i <= j) \in at
  <2>1. at # {} => \E i \in at : \A j \in at : i <= j
    BY Least
  <2> QED
    BY <2>1
<1>3. PICK i \in Nat : i = find(needle, s, from) /\ i >= from /\ Stands(needle, s, i)
  BY <1>1, <1>2
<1>4. Len(s) \in Nat /\ Len(needle) \in Nat /\ i + Len(needle) - 1 <= Len(s)
  BY <1>3 DEF Stands
<1> QED
  BY <1>3, <1>4

(* A round needs of the later rounds only what begins after its cursor.    *)
LEMMA FrameLocal ==
  ASSUME NEW stream \in Seq(Tokens), NEW c \in 1..(Len(stream) + 1), NEW f, NEW g,
         \A p \in (c + 1)..(Len(stream) + 1) : f[p] = g[p]
  PROVE  Frame(stream, f, c) = Frame(stream, g, c)
<1> DEFINE N  == Len(stream)
           b  == find(<<"nl", "B">>, stream, c)
           l  == find(<<"nl">>, stream, b + 2)
           id == SubSeq(stream, b + 2, l - 1)
           needle == <<"nl", "E">> \o id \o <<"sp">>
           e  == find(needle, stream, l + 1)
           n  == e + 3 + Len(id)
           z  == find(<<"nl">>, stream, n)
           a  == [exit_code |-> SubSeq(stream, n, z - 1), body |-> SubSeq(stream, l + 1, e - 1)]
           F(h) == IF b = 0 \/ l = 0 THEN NoResponses
                   ELSE IF e = 0 THEN h[l + 1]
                   ELSE IF z = 0 THEN NoResponses
                   ELSE IF id \in DOMAIN h[z + 1] THEN h[z + 1]
                   ELSE Put(h[z + 1], id, a)
<1>1. Frame(stream, f, c) = F(f) /\ Frame(stream, g, c) = F(g)
  BY DEF Frame
<1>2. /\ N \in Nat /\ <<"nl">> \in Seq(Tokens) /\ <<"nl", "B">> \in Seq(Tokens)
      /\ <<"nl", "E">> \in Seq(Tokens) /\ <<"sp">> \in Seq(Tokens) /\ c \in Nat \ {0}
  BY DEF Tokens, Marks
<1>3. b # 0 => b \in Nat /\ b >= c /\ b + 2 <= N + 1
  <2>1. Len(<<"nl", "B">>) = 2
    OBVIOUS
  <2> HIDE DEF N
  <2> QED
    BY <1>2, <2>1, FindWithin DEF N
<1> HIDE DEF b
<1>4. b # 0 /\ l # 0 => l \in Nat /\ l >= b + 2 /\ l <= N
  <2> SUFFICES ASSUME b # 0, l # 0 PROVE l \in Nat /\ l >= b + 2 /\ l <= N
    OBVIOUS
  <2>1. b + 2 \in Nat \ {0} /\ Len(<<"nl">>) = 1
    BY <1>3
  <2>2. l \in Nat /\ l >= b + 2 /\ l + Len(<<"nl">>) <= Len(stream) + 1
    BY <1>2, <2>1, FindWithin
  <2> HIDE DEF l
  <2> QED
    BY <2>1, <2>2
<1> HIDE DEF l
<1>5. b # 0 /\ l # 0 => id \in Seq(Tokens) /\ needle \in Seq(Tokens) /\ Len(needle) = Len(id) + 3
  <2> SUFFICES ASSUME b # 0, l # 0
               PROVE  id \in Seq(Tokens) /\ needle \in Seq(Tokens) /\ Len(needle) = Len(id) + 3
    OBVIOUS
  <2>1. id \in Seq(Tokens)
    BY <1>2, <1>3, <1>4
  <2> HIDE DEF id
  <2>a. Len(<<"nl", "E">>) = 2 /\ Len(id) \in Nat
    BY <2>1
  <2>b. /\ <<"nl", "E">> \o id \in Seq(Tokens)
        /\ Len(<<"nl", "E">> \o id) = Len(<<"nl", "E">>) + Len(id)
    BY <1>2, <2>1, ConcatProperties
  <2>c. PICK h \in Seq(Tokens) : h = <<"nl", "E">> \o id
    BY <2>b
  <2>2. h = <<"nl", "E">> \o id /\ Len(h) = Len(id) + 2
    BY <2>a, <2>b, <2>c
  <2>3. needle = h \o <<"sp">> /\ Len(<<"sp">>) = 1
    BY <2>2
  <2>4. h \o <<"sp">> \in Seq(Tokens) /\ Len(h \o <<"sp">>) = Len(h) + Len(<<"sp">>)
    BY <1>2, <2>2, ConcatProperties
  <2> QED
    BY <2>1, <2>2, <2>3, <2>4
<1> HIDE DEF needle, id
<1>6. b # 0 /\ l # 0 /\ e # 0 => e \in Nat /\ e >= l + 1
  <2> SUFFICES ASSUME b # 0, l # 0, e # 0 PROVE e \in Nat /\ e >= l + 1
    OBVIOUS
  <2>1. l + 1 \in Nat \ {0}
    BY <1>3, <1>4
  <2> QED
    BY <1>5, <2>1, FindWithin
<1> HIDE DEF e
<1>7. b # 0 /\ l # 0 /\ e # 0 /\ z # 0 => z \in Nat /\ z >= e + 3 /\ z <= N
  <2> SUFFICES ASSUME b # 0, l # 0, e # 0, z # 0 PROVE z \in Nat /\ z >= e + 3 /\ z <= N
    OBVIOUS
  <2>1. n \in Nat \ {0} /\ n >= e + 3 /\ Len(<<"nl">>) = 1
    BY <1>5, <1>6
  <2> HIDE DEF n
  <2>2. z \in Nat /\ z >= n /\ z + Len(<<"nl">>) <= Len(stream) + 1
    BY <1>2, <2>1, FindWithin
  <2> HIDE DEF z
  <2> QED
    BY <1>6, <2>1, <2>2
<1> HIDE DEF z, a
<1>8. b # 0 /\ l # 0 => f[l + 1] = g[l + 1]
  <2> SUFFICES ASSUME b # 0, l # 0 PROVE l + 1 \in (c + 1)..(Len(stream) + 1)
    OBVIOUS
  <2> QED
    BY <1>2, <1>3, <1>4
<1>9. b # 0 /\ l # 0 /\ e # 0 /\ z # 0 => f[z + 1] = g[z + 1]
  <2> SUFFICES ASSUME b # 0, l # 0, e # 0, z # 0 PROVE z + 1 \in (c + 1)..(Len(stream) + 1)
    OBVIOUS
  <2> QED
    BY <1>2, <1>3, <1>4, <1>6, <1>7
<1> QED
  BY <1>1, <1>8, <1>9

(* decode's recursion has a value at every cursor.                         *)
LEMMA DecodeFrom ==
  ASSUME NEW stream \in Seq(Tokens)
  PROVE  \E from : /\ decode(stream) = from[1]
                   /\ \A c \in 1..(Len(stream) + 1) : from[c] = Frame(stream, from, c)
<1> DEFINE N == Len(stream) + 1
           Body(g) == [c \in 1..N |-> Frame(stream, g, c)]
           from == CHOOSE g : g = Body(g)
           Good(h, m) == /\ h = [c \in 1..N |-> h[c]]
                         /\ \A c \in (N + 1 - m)..N : c >= 1 => h[c] = Frame(stream, h, c)
           K == {m \in Nat : m <= N => \E h : Good(h, m)}
<1>1. N \in Nat /\ N >= 1
  OBVIOUS
<1>2. decode(stream) = from[1]
  BY DEF decode
<1>3. ASSUME NEW c \in 1..N, NEW f, NEW g, \A p \in (c + 1)..N : f[p] = g[p]
      PROVE  Frame(stream, f, c) = Frame(stream, g, c)
  BY <1>3, FrameLocal
<1> HIDE DEF N
<1>4. 0 \in K
  <2> DEFINE h == [c \in 1..N |-> c]
  <2>1. Good(h, 0)
    BY <1>1
  <2> HIDE DEF h, Good
  <2> QED
    BY <2>1
<1>5. ASSUME NEW m \in Nat, m \in K PROVE m + 1 \in K
  <2> SUFFICES ASSUME m + 1 <= N PROVE \E h : Good(h, m + 1)
    OBVIOUS
  <2>1. \E h : Good(h, m)
    BY <1>1, <1>5
  <2>2. PICK h : Good(h, m)
    BY <2>1
  <2>3. PICK d \in 1..N : d = N - m
    BY <1>1
  <2> DEFINE v == Frame(stream, h, d)
             k == [c \in 1..N |-> IF c = d THEN v ELSE h[c]]
  <2>4. k = [c \in 1..N |-> k[c]] /\ k[d] = v /\ \A c \in 1..N : c # d => k[c] = h[c]
    OBVIOUS
  <2> HIDE DEF k
  <2>5. ASSUME NEW c \in (N + 1 - (m + 1))..N, c >= 1 PROVE k[c] = Frame(stream, k, c)
    <3>1. c \in 1..N /\ c >= d
      BY <1>1, <2>3, <2>5
    <3>2. \A p \in (c + 1)..N : k[p] = h[p]
      BY <1>1, <2>3, <2>4, <3>1
    <3>3. Frame(stream, k, c) = Frame(stream, h, c)
      BY <1>3, <3>1, <3>2
    <3>4. CASE c = d
      BY <2>4, <3>3, <3>4
    <3>5. CASE c # d
      <4>1. c \in (N + 1 - m)..N
        BY <1>1, <2>3, <3>1, <3>5
      <4>2. h[c] = Frame(stream, h, c)
        BY <2>2, <2>5, <4>1
      <4> QED
        BY <2>4, <3>1, <3>3, <3>5, <4>2
    <3> QED
      BY <3>4, <3>5
  <2>6. Good(k, m + 1)
    BY <2>4, <2>5
  <2> HIDE DEF Good
  <2> QED
    BY <2>6
<1>6. K \in SUBSET Nat
  OBVIOUS
<1> HIDE DEF K
<1>7. K = Nat
  BY <1>4, <1>5, <1>6, SetInduction
<1>8. N \in K /\ N <= N
  BY <1>1, <1>7
<1>9. \E h : Good(h, N)
  BY <1>8 DEF K
<1>10. PICK h : Good(h, N)
  BY <1>9
<1>11. \A c \in 1..N : c \in (N + 1 - N)..N /\ c >= 1
  BY <1>1
<1>12. h = [c \in 1..N |-> h[c]] /\ \A c \in 1..N : h[c] = Frame(stream, h, c)
  BY <1>10, <1>11
<1>13. h = Body(h)
  BY <1>12
<1>14. from = Body(from)
  <2> HIDE DEF Body
  <2> QED
    BY <1>13
<1> HIDE DEF from
<1>15. \A c \in 1..N : from[c] = Frame(stream, from, c)
  BY <1>14
<1> QED
  BY <1>2, <1>15 DEF N

(* A tuple with one member more.                                           *)
LEMMA TupleAppend ==
  ASSUME NEW S, NEW x \in S, NEW y \in S, NEW v \in S, NEW w \in S
  PROVE  Append(<<x, y>>, v) = <<x, y, v>> /\ Append(<<x, y, v>>, w) = <<x, y, v, w>>
<1>1. /\ <<x, y>> \in Seq(S) /\ Len(<<x, y>>) = 2 /\ <<x, y>>[1] = x /\ <<x, y>>[2] = y
  OBVIOUS
<1>2. /\ <<x, y, v>> \in Seq(S) /\ Len(<<x, y, v>>) = 3
      /\ <<x, y, v>>[1] = x /\ <<x, y, v>>[2] = y /\ <<x, y, v>>[3] = v
  OBVIOUS
<1>3. /\ <<x, y, v, w>> \in Seq(S) /\ Len(<<x, y, v, w>>) = 4
      /\ <<x, y, v, w>>[1] = x /\ <<x, y, v, w>>[2] = y
      /\ <<x, y, v, w>>[3] = v /\ <<x, y, v, w>>[4] = w
  OBVIOUS
<1>4. PICK s \in Seq(S) : s = <<x, y>>
  BY <1>1
<1>5. PICK t \in Seq(S) : t = <<x, y, v>>
  BY <1>2
<1>6. PICK u \in Seq(S) : u = <<x, y, v, w>>
  BY <1>3
<1>7. Len(s) = 2 /\ s[1] = x /\ s[2] = y
  BY <1>1, <1>4
<1>8. Len(t) = 3 /\ t[1] = x /\ t[2] = y /\ t[3] = v
  BY <1>2, <1>5
<1>9. Len(u) = 4 /\ u[1] = x /\ u[2] = y /\ u[3] = v /\ u[4] = w
  BY <1>3, <1>6
<1>10. Append(s, v) = t
  <2>0. /\ Append(s, v) \in Seq(S) /\ Len(Append(s, v)) = Len(s) + 1
        /\ \A i \in 1..Len(s) : Append(s, v)[i] = s[i] /\ Append(s, v)[Len(s) + 1] = v
    BY AppendProperties
  <2>1. PICK a \in Seq(S) : a = Append(s, v)
    BY <2>0
  <2>2. Len(a) = 3 /\ a[1] = x /\ a[2] = y /\ a[3] = v
    BY <1>7, <2>0, <2>1
  <2>3. ASSUME NEW i \in 1..Len(a) PROVE a[i] = t[i]
    <3>1. i = 1 \/ i = 2 \/ i = 3
      BY <2>2
    <3> QED
      BY <1>8, <2>2, <3>1
  <2>4. a = t
    BY <1>8, <2>2, <2>3, SeqEqual
  <2> QED
    BY <2>1, <2>4
<1>11. Append(t, w) = u
  <2>0. /\ Append(t, w) \in Seq(S) /\ Len(Append(t, w)) = Len(t) + 1
        /\ \A i \in 1..Len(t) : Append(t, w)[i] = t[i] /\ Append(t, w)[Len(t) + 1] = w
    BY AppendProperties
  <2>1. PICK a \in Seq(S) : a = Append(t, w)
    BY <2>0
  <2>2. Len(a) = 4 /\ a[1] = x /\ a[2] = y /\ a[3] = v /\ a[4] = w
    BY <1>8, <2>0, <2>1
  <2>3. ASSUME NEW i \in 1..Len(a) PROVE a[i] = u[i]
    <3>1. i = 1 \/ i = 2 \/ i = 3 \/ i = 4
      BY <2>2
    <3> QED
      BY <1>9, <2>2, <3>1
  <2>4. a = u
    BY <1>9, <2>2, <2>3, SeqEqual
  <2> QED
    BY <2>1, <2>4
<1> QED
  BY <1>4, <1>5, <1>6, <1>10, <1>11

(* The part of a sequence at one place.                                    *)
LEMMA PartOfOne ==
  ASSUME NEW S, NEW s \in Seq(S), NEW n \in 1..Len(s)
  PROVE  SubSeq(s, n, n) = <<s[n]>>
<1>1. Len(s) \in Nat /\ s[n] \in S /\ \A i \in n..n : s[i] \in S
  OBVIOUS
<1>2. /\ SubSeq(s, n, n) \in Seq(S)
      /\ Len(SubSeq(s, n, n)) = IF n <= n THEN n - n + 1 ELSE 0
      /\ \A j \in 1..(n - n + 1) : SubSeq(s, n, n)[j] = s[n + j - 1]
  BY <1>1, SubSeqProperties
<1>3. PICK q \in Seq(S) : q = SubSeq(s, n, n)
  BY <1>2
<1>4. Len(q) = 1 /\ q[1] = s[n]
  BY <1>2, <1>3
<1>5. <<s[n]>> \in Seq(S) /\ Len(<<s[n]>>) = 1 /\ <<s[n]>>[1] = s[n]
  BY <1>1
<1>6. q = <<s[n]>>
  BY <1>4, <1>5, SeqEqual
<1> QED
  BY <1>3, <1>6

(* Short needles.                                                          *)
LEMMA StandsOne ==
  ASSUME NEW R \in Seq(Tokens), NEW p \in Nat, NEW x
  PROVE  Stands(<<x>>, R, p) <=> p <= Len(R) /\ R[p] = x
<1>1. Len(<<x>>) = 1 /\ <<x>>[1] = x /\ p + 1 - 1 = p /\ 1..1 = {1}
  OBVIOUS
<1> QED
  BY <1>1 DEF Stands

(* A needle of two tokens.                                               *)
LEMMA StandsTwo ==
  ASSUME NEW R \in Seq(Tokens), NEW p \in Nat, NEW x, NEW y
  PROVE  Stands(<<x, y>>, R, p) <=> p + 1 <= Len(R) /\ R[p] = x /\ R[p + 1] = y
<1>1. Len(<<x, y>>) = 2 /\ <<x, y>>[1] = x /\ <<x, y>>[2] = y /\ 1..2 = {1, 2}
  OBVIOUS
<1>2. p + 1 - 1 = p /\ p + 2 - 1 = p + 1
  OBVIOUS
<1> QED
  BY <1>1, <1>2 DEF Stands

(* A needle of four tokens.                                              *)
LEMMA StandsFour ==
  ASSUME NEW R \in Seq(Tokens), NEW p \in Nat, NEW x, NEW y, NEW v, NEW w
  PROVE  Stands(<<x, y, v, w>>, R, p) <=>
           p + 3 <= Len(R) /\ R[p] = x /\ R[p + 1] = y /\ R[p + 2] = v /\ R[p + 3] = w
<1>1. /\ Len(<<x, y, v, w>>) = 4 /\ 1..4 = {1, 2, 3, 4}
      /\ <<x, y, v, w>>[1] = x /\ <<x, y, v, w>>[2] = y
      /\ <<x, y, v, w>>[3] = v /\ <<x, y, v, w>>[4] = w
  OBVIOUS
<1>2. p + 1 - 1 = p /\ p + 2 - 1 = p + 1 /\ p + 3 - 1 = p + 2 /\ p + 4 - 1 = p + 3
  OBVIOUS
<1> QED
  BY <1>1, <1>2 DEF Stands

(* No id and no digit of an exit code is a mark.                           *)
LEMMA NoMarks ==
  /\ \A r \in Requests : r \notin Marks /\ r \in Tokens
  /\ \A x \in Codes : x \notin Marks /\ x \in Tokens
  BY BatchAssumption DEF Tokens

(* The whole reply of a batch.                                             *)
Complete(R, l, outs, b, e, t) == Layout(R, l, outs, 3 * Len(l) + 1, b, e, t)

(* One of its frames.                                                      *)
FrameOf(R, l, outs, b, e, i) ==
  /\ outs[l[i]] \in Results /\ l[i] \in Requests
  /\ b[i] \in Nat /\ b[i] >= 1 /\ BeginsAt(R, l[i], b[i])
  /\ e[i] \in Nat /\ b[i] + 4 <= e[i] /\ EndsAt(R, l[i], CodeOf(l, outs, i), e[i])
  /\ Own(SubSeq(R, b[i] + 4, e[i] - 1)) = outs[l[i]].body
  /\ CodeOf(l, outs, i) \in Seq(Codes) /\ Len(CodeOf(l, outs, i)) \in Nat
  /\ After(l, outs, e, i) \in Nat /\ After(l, outs, e, i) > e[i] + 4
  /\ After(l, outs, e, i) <= Len(R) + 1

(* A whole reply has every frame, in order, and no other marks.          *)
LEMMA CompleteFacts ==
  ASSUME NEW R, NEW l, NEW outs, NEW b, NEW e, NEW t, Complete(R, l, outs, b, e, t)
  PROVE  /\ R \in Seq(Tokens) /\ l \in Seq(Requests) /\ Len(l) \in Nat /\ Len(R) \in Nat
         /\ \A i \in 1..Len(l) : FrameOf(R, l, outs, b, e, i)
         /\ \A j \in 1..Len(l) : \A i \in 1..(j - 1) : After(l, outs, e, i) <= b[j]
         /\ \A p \in 1..Len(R) :
              /\ R[p] = "B" => \E i \in 1..Len(l) : p = b[i] + 1
              /\ R[p] = "E" => \E i \in 1..Len(l) : p = e[i] + 1
         /\ \A i, j \in 1..Len(l) : l[i] = l[j] => i = j
<1> DEFINE q == 3 * Len(l) + 1
<1>1. /\ R \in Seq(Tokens) /\ l \in Seq(Requests) /\ Distinct(l)
      /\ b \in [1..Len(l) -> Nat] /\ e \in [1..Len(l) -> Nat]
  BY DEF Complete, Layout, Places
<1>2. /\ Ran(l, outs, q) /\ Begun(R, l, q, b) /\ Ended(R, l, outs, q, b, e)
      /\ Ordered(l, outs, q, b, e) /\ OnlyMarks(R, l, q, b, e, t)
  BY DEF Complete, Layout
<1>3. /\ Len(l) \in Nat /\ Len(R) \in Nat
      /\ \A i \in 1..Len(l) : l[i] \in Requests /\ b[i] \in Nat /\ e[i] \in Nat
  BY <1>1
<1>4. \A i \in 1..Len(l) : q >= 3 * i - 2 /\ q >= 3 * i - 1 /\ q >= 3 * i
  BY <1>3
<1> HIDE DEF q
<1>5. ASSUME NEW i \in 1..Len(l) PROVE FrameOf(R, l, outs, b, e, i)
  <2>1. outs[l[i]] \in Results
    BY <1>2, <1>4 DEF Ran
  <2>2. CodeOf(l, outs, i) \in Seq(Codes) /\ Len(CodeOf(l, outs, i)) \in Nat
    BY <2>1 DEF CodeOf, Results
  <2>3. b[i] >= 1 /\ BeginsAt(R, l[i], b[i])
    BY <1>2, <1>4 DEF Begun
  <2>4. /\ b[i] + 4 <= e[i] /\ EndsAt(R, l[i], CodeOf(l, outs, i), e[i])
        /\ Own(SubSeq(R, b[i] + 4, e[i] - 1)) = outs[l[i]].body
    BY <1>2, <1>4 DEF Ended
  <2>5. e[i] + 4 + Len(CodeOf(l, outs, i)) <= Len(R)
    BY <2>4 DEF EndsAt
  <2>6. After(l, outs, e, i) = e[i] + 5 + Len(CodeOf(l, outs, i))
    BY DEF After
  <2>7. /\ After(l, outs, e, i) \in Nat /\ After(l, outs, e, i) > e[i] + 4
        /\ After(l, outs, e, i) <= Len(R) + 1
    BY <1>3, <2>2, <2>5, <2>6
  <2> QED
    BY <1>3, <2>1, <2>2, <2>3, <2>4, <2>7 DEF FrameOf
<1>6. \A j \in 1..Len(l) : \A i \in 1..(j - 1) : After(l, outs, e, i) <= b[j]
  BY <1>2, <1>4 DEF Ordered
<1>7. \A p \in 1..Len(R) :
         /\ R[p] = "B" => \E i \in 1..Len(l) : p = b[i] + 1
         /\ R[p] = "E" => \E i \in 1..Len(l) : p = e[i] + 1
  BY <1>2 DEF OnlyMarks, Marked
<1> QED
  BY <1>1, <1>3, <1>5, <1>6, <1>7 DEF Distinct

(* What decode answers for a frame.                                        *)
Answer(R, l, outs, b, e, i) ==
  [exit_code |-> CodeOf(l, outs, i), body |-> SubSeq(R, b[i] + 4, e[i] - 1)]

(* No round begins after the last frame.                                   *)
LEMMA FrameEnd ==
  ASSUME NEW R, NEW l, NEW outs, NEW b, NEW e, NEW t, Complete(R, l, outs, b, e, t),
         NEW rest, NEW c \in Nat \ {0}, \A k \in 1..Len(l) : b[k] < c
  PROVE  Frame(R, rest, c) = NoResponses
<1>1. /\ R \in Seq(Tokens) /\ Len(R) \in Nat
      /\ \A p \in 1..Len(R) : R[p] = "B" => \E i \in 1..Len(l) : p = b[i] + 1
      /\ \A i \in 1..Len(l) : b[i] \in Nat
  BY CompleteFacts DEF FrameOf
<1>2. <<"nl", "B">> \in Seq(Tokens)
  BY DEF Tokens, Marks
<1>3. ASSUME NEW p \in Nat, p >= c, Stands(<<"nl", "B">>, R, p) PROVE FALSE
  <2>1. p + 1 <= Len(R) /\ R[p + 1] = "B"
    BY <1>1, <1>3, StandsTwo
  <2>2. PICK i \in 1..Len(l) : p + 1 = b[i] + 1
    BY <1>1, <2>1
  <2> QED
    BY <1>1, <1>3, <2>2
<1>4. find(<<"nl", "B">>, R, c) = 0
  BY <1>1, <1>2, <1>3, FindNothing
<1> QED
  BY <1>4 DEF Frame

(* A frame that stands at p and m is the first one from c on, and the only *)
(* one of its id.                                                          *)
FrameFrom(R, id, code, c, p, m) ==
  /\ c <= p /\ p + 4 <= m /\ BeginsAt(R, id, p) /\ EndsAt(R, id, code, m)
  /\ \A k \in Nat : k >= c /\ k + 1 <= Len(R) /\ R[k + 1] = "B" => p <= k
  /\ \A k \in Nat : k + 2 <= Len(R) /\ R[k + 1] = "E" /\ R[k + 2] = id => m <= k

(* A response beside those of the later frames.                            *)
Joined(r, id, answer) == IF id \in DOMAIN r THEN r ELSE Put(r, id, answer)

Answers(R, rest, c, id, code, p, m) ==
  Frame(R, rest, c) = Joined(rest[m + 5 + Len(code)], <<id>>,
                             [exit_code |-> code, body |-> SubSeq(R, p + 4, m - 1)])

(* The round that starts at c answers it.                                  *)
LEMMA FrameOn ==
  ASSUME NEW R \in Seq(Tokens), NEW id \in Requests, NEW code \in Seq(Codes), NEW rest,
         NEW c \in Nat \ {0}, NEW p \in Nat, NEW m \in Nat, FrameFrom(R, id, code, c, p, m)
  PROVE  Answers(R, rest, c, id, code, p, m)
<1>1. Len(R) \in Nat /\ Len(code) \in Nat
  OBVIOUS
<1>c. c <= p /\ p + 4 <= m
  BY DEF FrameFrom
<1>2. /\ p + 3 <= Len(R) /\ R[p] = "nl" /\ R[p + 1] = "B" /\ R[p + 2] = id
      /\ R[p + 3] = "nl"
  BY DEF FrameFrom, BeginsAt
<1>3. /\ m + 4 + Len(code) <= Len(R)
      /\ R[m] = "nl" /\ R[m + 1] = "E" /\ R[m + 2] = id /\ R[m + 3] = "sp"
      /\ \A j \in 1..Len(code) : R[m + 3 + j] = code[j]
      /\ R[m + 4 + Len(code)] = "nl"
  BY DEF FrameFrom, EndsAt
<1>4. id # "nl" /\ id \in Tokens /\ \A x \in Codes : x # "nl" /\ x \in Tokens
  BY NoMarks DEF Marks
<1>5. /\ <<"nl">> \in Seq(Tokens) /\ <<"nl", "B">> \in Seq(Tokens)
      /\ <<"nl", "E", id, "sp">> \in Seq(Tokens)
  <2>1. {"nl", "B", "E", "sp", id} \subseteq Tokens
    BY <1>4 DEF Tokens, Marks
  <2> QED
    BY <2>1
<1>6. find(<<"nl", "B">>, R, c) = p
  <2>1. Stands(<<"nl", "B">>, R, p)
    BY <1>1, <1>2, StandsTwo
  <2>2. ASSUME NEW k \in Nat, k >= c, Stands(<<"nl", "B">>, R, k) PROVE p <= k
    <3>1. k + 1 <= Len(R) /\ R[k + 1] = "B"
      BY <2>2, StandsTwo
    <3> QED
      BY <2>2, <3>1 DEF FrameFrom
  <2>3. FirstAt(<<"nl", "B">>, R, c, p)
    BY <1>c, <2>1, <2>2 DEF FirstAt
  <2> QED
    BY <1>5, <2>3, FindFirst
<1>7. find(<<"nl">>, R, p + 2) = p + 3
  <2>1. p + 3 \in Nat /\ p + 2 \in Nat \ {0} /\ p + 3 >= p + 2
    OBVIOUS
  <2>2. Stands(<<"nl">>, R, p + 3)
    BY <1>2, <2>1, StandsOne
  <2>3. ASSUME NEW k \in Nat, k >= p + 2, Stands(<<"nl">>, R, k) PROVE p + 3 <= k
    <3>1. R[k] = "nl"
      BY <2>3, StandsOne
    <3>2. k # p + 2
      BY <1>2, <1>4, <3>1
    <3> QED
      BY <2>3, <3>2
  <2>4. FirstAt(<<"nl">>, R, p + 2, p + 3)
    BY <2>1, <2>2, <2>3 DEF FirstAt
  <2> QED
    BY <1>5, <2>1, <2>4, FindFirst
<1>8. SubSeq(R, p + 2, (p + 3) - 1) = <<id>>
  <2>1. PICK n \in Nat : n = p + 2
    OBVIOUS
  <2>2. (p + 3) - 1 = n /\ n \in 1..Len(R) /\ R[n] = id
    BY <1>1, <1>2, <2>1
  <2>3. SubSeq(R, n, n) = <<id>>
    BY <2>2, PartOfOne
  <2> QED
    BY <2>1, <2>2, <2>3
<1>9. <<"nl", "E">> \o <<id>> \o <<"sp">> = <<"nl", "E", id, "sp">> /\ Len(<<id>>) = 1
  <2>1. Len(<<id>>) = 1
    OBVIOUS
  <2>3. {"nl", "E", id, "sp"} \subseteq Tokens
    BY <1>4 DEF Tokens, Marks
  <2>4. <<"nl", "E">> \in Seq(Tokens) /\ <<"nl", "E", id>> \in Seq(Tokens)
    BY <2>3
  <2>2. Append(<<"nl", "E">>, id) = <<"nl", "E", id>>
        /\ Append(<<"nl", "E", id>>, "sp") = <<"nl", "E", id, "sp">>
    BY <2>3, TupleAppend
  <2>5. <<"nl", "E">> \o <<id>> = Append(<<"nl", "E">>, id)
    BY <2>3, <2>4, AppendIsConcat
  <2>6. <<"nl", "E", id>> \o <<"sp">> = Append(<<"nl", "E", id>>, "sp")
    BY <2>3, <2>4, AppendIsConcat
  <2> QED
    BY <2>1, <2>2, <2>5, <2>6
<1>10. find(<<"nl", "E", id, "sp">>, R, (p + 3) + 1) = m
  <2>1. (p + 3) + 1 \in Nat \ {0} /\ m >= (p + 3) + 1
    BY <1>c
  <2>2. m + 3 <= Len(R)
    BY <1>1, <1>3
  <2>3. Stands(<<"nl", "E", id, "sp">>, R, m)
    BY <1>3, <2>2, StandsFour
  <2>4. ASSUME NEW k \in Nat, Stands(<<"nl", "E", id, "sp">>, R, k) PROVE m <= k
    <3>1. k + 3 <= Len(R) /\ R[k + 1] = "E" /\ R[k + 2] = id
      BY <2>4, StandsFour
    <3>2. k + 2 <= Len(R)
      BY <1>1, <3>1
    <3> QED
      BY <3>1, <3>2 DEF FrameFrom
  <2>5. FirstAt(<<"nl", "E", id, "sp">>, R, (p + 3) + 1, m)
    BY <2>1, <2>3, <2>4 DEF FirstAt
  <2> QED
    BY <1>5, <2>1, <2>5, FindFirst
<1>11. PICK z \in Nat : z = m + 4 + Len(code)
  BY <1>1
<1>12. find(<<"nl">>, R, m + 4) = z
  <2>1. m + 4 \in Nat \ {0} /\ z >= m + 4
    BY <1>1, <1>11
  <2>2. Stands(<<"nl">>, R, z)
    BY <1>3, <1>11, StandsOne
  <2>3. ASSUME NEW k \in Nat, k >= m + 4, Stands(<<"nl">>, R, k) PROVE z <= k
    <3>1. R[k] = "nl"
      BY <2>3, StandsOne
    <3>2. SUFFICES ASSUME k < z PROVE FALSE
      OBVIOUS
    <3>3. PICK j \in 1..Len(code) : k = m + 3 + j
      <4>1. k - m - 3 \in 1..Len(code) /\ k = m + 3 + (k - m - 3)
        BY <1>1, <1>11, <2>3, <3>2
      <4> QED
        BY <4>1
    <3>4. code[j] \in Codes /\ R[k] = code[j]
      BY <1>3, <3>3
    <3> QED
      BY <1>4, <3>1, <3>4
  <2>4. FirstAt(<<"nl">>, R, m + 4, z)
    BY <2>1, <2>2, <2>3 DEF FirstAt
  <2> QED
    BY <1>5, <2>1, <2>4, FindFirst
<1>13. SubSeq(R, m + 4, z - 1) = code
  <2>1. PICK h \in Nat : h = m + 4
    OBVIOUS
  <2>z. z >= 4
    BY <1>1, <1>11
  <2>a. PICK n \in Nat : n = z - 1
    BY <2>z
  <2>2. h >= 1 /\ n <= Len(R) /\ n - h + 1 = Len(code)
    BY <1>1, <1>3, <1>11, <2>1, <2>a
  <2>b. \A k \in h..n : R[k] \in Tokens
    BY <1>1, <2>2
  <2>c. /\ SubSeq(R, h, n) \in Seq(Tokens)
        /\ Len(SubSeq(R, h, n)) = IF h <= n THEN n - h + 1 ELSE 0
        /\ \A j \in 1..(n - h + 1) : SubSeq(R, h, n)[j] = R[h + j - 1]
    <3>1. h \in Int /\ n \in Int
      OBVIOUS
    <3> QED
      BY <2>b, <3>1, SubSeqProperties
  <2>3. PICK s \in Seq(Tokens) : s = SubSeq(R, h, n)
    BY <2>c
  <2>4. Len(s) = Len(code) /\ \A j \in 1..Len(code) : s[j] = R[h + j - 1]
    BY <1>1, <2>2, <2>3, <2>c
  <2>5. \A j \in 1..Len(code) : h + j - 1 = m + 3 + j
    BY <1>1, <2>1
  <2>6. \A j \in 1..Len(s) : s[j] = code[j]
    <3> TAKE j \in 1..Len(s)
    <3>1. j \in 1..Len(code) /\ s[j] = R[h + j - 1]
      BY <2>4
    <3>2. h + j - 1 = m + 3 + j /\ R[m + 3 + j] = code[j]
      BY <1>3, <2>5, <3>1
    <3> QED
      BY <3>1, <3>2
  <2>7. Codes \subseteq Tokens
    BY <1>4
  <2>8. code \in Seq(Tokens)
    BY <2>7, SeqOfMore
  <2>9. s = code
    BY <2>4, <2>6, <2>8, SeqEqual
  <2> QED
    BY <2>1, <2>a, <2>3, <2>9
<1>14. /\ m + 3 + 1 = m + 4 /\ p # 0 /\ p + 3 # 0 /\ m # 0 /\ z # 0
       /\ (p + 3) + 1 = p + 4 /\ z + 1 = m + 5 + Len(code)
  BY <1>1, <1>c, <1>11
<1> DEFINE fb  == find(<<"nl", "B">>, R, c)
           fl  == find(<<"nl">>, R, fb + 2)
           fid == SubSeq(R, fb + 2, fl - 1)
           fe  == find(<<"nl", "E">> \o fid \o <<"sp">>, R, fl + 1)
           fn  == fe + 3 + Len(fid)
           fz  == find(<<"nl">>, R, fn)
<1>15. fb = p
  BY <1>6
<1>16. fl = p + 3
  BY <1>7, <1>15
<1>17. Frame(R, rest, c) =
         IF fb = 0 \/ fl = 0 THEN NoResponses
         ELSE IF fe = 0 THEN rest[fl + 1]
         ELSE IF fz = 0 THEN NoResponses
         ELSE IF fid \in DOMAIN rest[fz + 1] THEN rest[fz + 1]
         ELSE Put(rest[fz + 1], fid, [exit_code |-> SubSeq(R, fn, fz - 1),
                                      body |-> SubSeq(R, fl + 1, fe - 1)])
  BY DEF Frame
<1> HIDE DEF fb, fl
<1>18. fid = <<id>>
  BY <1>8, <1>15, <1>16
<1> HIDE DEF fid
<1>19. fe = m
  BY <1>9, <1>10, <1>16, <1>18
<1> HIDE DEF fe
<1>20. fn = m + 4
  BY <1>9, <1>14, <1>18, <1>19
<1> HIDE DEF fn
<1>21. fz = z
  BY <1>12, <1>20
<1> HIDE DEF fz
<1>22. Frame(R, rest, c) =
         IF fid \in DOMAIN rest[fz + 1] THEN rest[fz + 1]
         ELSE Put(rest[fz + 1], fid, [exit_code |-> SubSeq(R, fn, fz - 1),
                                      body |-> SubSeq(R, fl + 1, fe - 1)])
  BY <1>14, <1>15, <1>16, <1>17, <1>19, <1>21
<1>23. /\ fz + 1 = m + 5 + Len(code) /\ SubSeq(R, fn, fz - 1) = code
       /\ fl + 1 = p + 4
  BY <1>13, <1>14, <1>16, <1>20, <1>21
<1> QED
  BY <1>18, <1>19, <1>22, <1>23 DEF Answers, Joined

(* Where the round for frame j starts.                                     *)
Cursor(l, outs, e, j) == IF j = 1 THEN 1 ELSE After(l, outs, e, j - 1)

(* It lies after the earlier frames and before the later ones.           *)
LEMMA CursorFacts ==
  ASSUME NEW R, NEW l, NEW outs, NEW b, NEW e, NEW t, Complete(R, l, outs, b, e, t),
         NEW j \in 1..(Len(l) + 1)
  PROVE  /\ Cursor(l, outs, e, j) \in 1..(Len(R) + 1)
         /\ j <= Len(l) => Cursor(l, outs, e, j) <= b[j]
         /\ \A k \in 1..(j - 1) : b[k] < Cursor(l, outs, e, j)
<1>1. Len(l) \in Nat /\ Len(R) \in Nat
  BY CompleteFacts
<1>2. \A k \in 1..Len(l) :
         /\ b[k] \in Nat /\ b[k] >= 1 /\ b[k] < After(l, outs, e, k)
         /\ After(l, outs, e, k) \in Nat /\ After(l, outs, e, k) <= Len(R) + 1
  <2> TAKE k \in 1..Len(l)
  <2>1. FrameOf(R, l, outs, b, e, k)
    BY CompleteFacts
  <2>2. /\ b[k] \in Nat /\ b[k] >= 1 /\ e[k] \in Nat /\ b[k] + 4 <= e[k]
        /\ After(l, outs, e, k) \in Nat /\ After(l, outs, e, k) > e[k] + 4
        /\ After(l, outs, e, k) <= Len(R) + 1
    BY <2>1 DEF FrameOf
  <2> QED
    BY <2>2
<1>3. \A n \in 1..Len(l) : \A k \in 1..(n - 1) : After(l, outs, e, k) <= b[n]
  BY CompleteFacts
<1>4. CASE j = 1
  <2>1. Cursor(l, outs, e, j) = 1
    BY <1>4 DEF Cursor
  <2> QED
    BY <1>1, <1>2, <1>4, <2>1
<1>5. CASE j # 1
  <2>1. PICK h \in 1..Len(l) : h = j - 1
    BY <1>1, <1>5
  <2>2. Cursor(l, outs, e, j) = After(l, outs, e, h)
    BY <1>5, <2>1 DEF Cursor
  <2>3. Cursor(l, outs, e, j) \in 1..(Len(R) + 1)
    BY <1>1, <1>2, <2>2
  <2>4. j <= Len(l) => Cursor(l, outs, e, j) <= b[j]
    BY <1>1, <1>3, <2>1, <2>2
  <2>5. ASSUME NEW k \in 1..(j - 1) PROVE b[k] < After(l, outs, e, h)
    <3>1. k \in 1..Len(l) /\ (k = h \/ k \in 1..(h - 1))
      BY <1>1, <2>1
    <3>2. CASE k = h
      BY <1>2, <3>2
    <3>3. CASE k \in 1..(h - 1)
      <4>1. After(l, outs, e, k) <= b[h]
        BY <1>3, <3>3
      <4>2. /\ b[k] < After(l, outs, e, k) /\ b[h] < After(l, outs, e, h)
            /\ {b[k], b[h], After(l, outs, e, k), After(l, outs, e, h)} \subseteq Nat
        BY <1>2, <3>1
      <4> QED
        BY <4>1, <4>2
    <3> QED
      BY <3>1, <3>2, <3>3
  <2> QED
    BY <2>2, <2>3, <2>4, <2>5
<1> QED
  BY <1>4, <1>5

(* The round for frame i.                                                  *)
LEMMA FrameAt ==
  ASSUME NEW R, NEW l, NEW outs, NEW b, NEW e, NEW t, Complete(R, l, outs, b, e, t),
         NEW rest, NEW i \in 1..Len(l)
  PROVE  Frame(R, rest, Cursor(l, outs, e, i)) =
           Joined(rest[After(l, outs, e, i)], <<l[i]>>, Answer(R, l, outs, b, e, i))
<1>1. /\ R \in Seq(Tokens) /\ Len(R) \in Nat /\ Len(l) \in Nat
      /\ \A k \in 1..Len(l) : FrameOf(R, l, outs, b, e, k)
      /\ \A n \in 1..Len(l) : \A k \in 1..(n - 1) : After(l, outs, e, k) <= b[n]
      /\ \A p \in 1..Len(R) :
           /\ R[p] = "B" => \E k \in 1..Len(l) : p = b[k] + 1
           /\ R[p] = "E" => \E k \in 1..Len(l) : p = e[k] + 1
      /\ \A k, j \in 1..Len(l) : l[k] = l[j] => k = j
  BY CompleteFacts
<1>2. FrameOf(R, l, outs, b, e, i)
  BY <1>1
<1>3. PICK p \in Nat : p = b[i]
  BY <1>2 DEF FrameOf
<1>4. PICK m \in Nat : m = e[i]
  BY <1>2 DEF FrameOf
<1>5. PICK code \in Seq(Codes) : code = CodeOf(l, outs, i)
  BY <1>2 DEF FrameOf
<1>6. PICK id \in Requests : id = l[i]
  BY <1>2 DEF FrameOf
<1>7. i \in 1..(Len(l) + 1) /\ i <= Len(l)
  BY <1>1
<1>8. PICK c \in Nat \ {0} : c = Cursor(l, outs, e, i)
  <2>1. Cursor(l, outs, e, i) \in 1..(Len(R) + 1)
    BY <1>7, CursorFacts
  <2> QED
    BY <2>1
<1>9. c <= p /\ \A k \in 1..(i - 1) : b[k] < c
  BY <1>3, <1>7, <1>8, CursorFacts
<1>10. p + 4 <= m /\ BeginsAt(R, id, p) /\ EndsAt(R, id, code, m)
  BY <1>2, <1>3, <1>4, <1>5, <1>6 DEF FrameOf
<1>11. \A k \in 1..Len(l) : b[k] \in Nat /\ e[k] \in Nat /\ R[e[k] + 2] = l[k]
  BY <1>1 DEF FrameOf, EndsAt
<1>12. ASSUME NEW k \in Nat, k >= c, k + 1 <= Len(R), R[k + 1] = "B" PROVE p <= k
  <2>1. PICK n \in 1..Len(l) : k + 1 = b[n] + 1
    BY <1>1, <1>12
  <2>2. k = b[n]
    BY <1>11, <2>1
  <2>3. n = i \/ i \in 1..(n - 1)
    BY <1>1, <1>9, <1>11, <1>12, <2>2
  <2>4. CASE i \in 1..(n - 1)
    <3>1. After(l, outs, e, i) <= b[n]
      BY <1>1, <2>4
    <3>2. After(l, outs, e, i) \in Nat /\ After(l, outs, e, i) > m + 4
      BY <1>2, <1>4 DEF FrameOf
    <3> QED
      BY <1>10, <2>2, <3>1, <3>2
  <2> QED
    BY <1>3, <2>2, <2>3, <2>4
<1>13. ASSUME NEW k \in Nat, k + 2 <= Len(R), R[k + 1] = "E", R[k + 2] = id PROVE m <= k
  <2>1. PICK n \in 1..Len(l) : k + 1 = e[n] + 1
    BY <1>1, <1>13
  <2>2. k = e[n]
    BY <1>11, <2>1
  <2>3. l[n] = l[i]
    BY <1>6, <1>11, <1>13, <2>2
  <2> QED
    BY <1>1, <1>4, <2>2, <2>3
<1>14. After(l, outs, e, i) = m + 5 + Len(code)
  BY <1>4, <1>5 DEF After
<1>15. Answers(R, rest, c, id, code, p, m)
  <2>1. FrameFrom(R, id, code, c, p, m)
    BY <1>9, <1>10, <1>12, <1>13 DEF FrameFrom
  <2>2. R \in Seq(Tokens)
    BY <1>1
  <2> QED
    BY <2>1, <2>2, FrameOn
<1>16. Answer(R, l, outs, b, e, i) = [exit_code |-> code, body |-> SubSeq(R, p + 4, m - 1)]
  BY <1>3, <1>4, <1>5 DEF Answer
<1> QED
  BY <1>6, <1>8, <1>14, <1>15, <1>16 DEF Answers

(* What decode has found from frame j on.                                  *)
Found(r, R, l, outs, b, e, j) ==
  /\ DOMAIN r = {<<l[i]>> : i \in j..Len(l)}
  /\ \A i \in j..Len(l) : r[<<l[i]>>] = Answer(R, l, outs, b, e, i)

(* decode finds every frame of a whole reply, and only those.              *)
LEMMA Decoded ==
  ASSUME NEW R, NEW l, NEW outs, NEW b, NEW e, NEW t, Complete(R, l, outs, b, e, t)
  PROVE  Found(decode(R), R, l, outs, b, e, 1)
<1>1. /\ R \in Seq(Tokens) /\ Len(R) \in Nat /\ Len(l) \in Nat
      /\ \A k, j \in 1..Len(l) : l[k] = l[j] => k = j
  BY CompleteFacts
<1>2. PICK from : /\ decode(R) = from[1]
                  /\ \A c \in 1..(Len(R) + 1) : from[c] = Frame(R, from, c)
  BY <1>1, DecodeFrom
<1> DEFINE L == Len(l)
           Cur(j) == Cursor(l, outs, e, j)
           F(j) == Found(from[Cur(j)], R, l, outs, b, e, j)
           K == {m \in Nat : m <= L => F(L + 1 - m)}
<1>3. \A j \in 1..(L + 1) : from[Cur(j)] = Frame(R, from, Cur(j))
  BY <1>2, CursorFacts
<1>4. F(L + 1)
  <2>1. PICK j \in 1..(L + 1) : j = L + 1
    BY <1>1
  <2>2. PICK c \in 1..(Len(R) + 1) : c = Cur(j)
    BY CursorFacts
  <2>3. \A k \in 1..Len(l) : b[k] < c
    <3>1. \A k \in 1..(j - 1) : b[k] < c
      BY <2>2, CursorFacts
    <3> QED
      BY <1>1, <2>1, <3>1
  <2>4. c \in Nat \ {0}
    BY <1>1
  <2>5. Frame(R, from, c) = NoResponses
    BY <2>3, <2>4, FrameEnd
  <2>6. from[Cur(j)] = NoResponses
    BY <1>2, <2>2, <2>5
  <2>7. \A i : ~(i \in j..Len(l))
    BY <1>1, <2>1
  <2>8. Found(NoResponses, R, l, outs, b, e, j)
    BY <2>7 DEF Found, NoResponses
  <2> HIDE DEF L, Cur
  <2> QED
    BY <2>1, <2>6, <2>8
<1>5. ASSUME NEW i \in 1..L, F(i + 1) PROVE F(i)
  <2> DEFINE id == <<l[i]>>
             r == from[Cur(i + 1)]
             a == Answer(R, l, outs, b, e, i)
  <2>1. Cur(i + 1) = After(l, outs, e, i)
    <3>1. i + 1 # 1 /\ (i + 1) - 1 = i
      OBVIOUS
    <3> QED
      BY <3>1 DEF Cursor
  <2>2. from[Cur(i)] = Joined(r, id, a)
    <3>1. i \in 1..(L + 1)
      BY <1>1
    <3>2. from[Cur(i)] = Frame(R, from, Cur(i))
      BY <1>3, <3>1
    <3> QED
      BY <2>1, <3>2, FrameAt
  <2> HIDE DEF Cur
  <2>3. /\ DOMAIN r = {<<l[k]>> : k \in (i + 1)..L}
        /\ \A k \in (i + 1)..L : r[<<l[k]>>] = Answer(R, l, outs, b, e, k)
    BY <1>5 DEF Found
  <2> HIDE DEF r, a
  <2>4. \A k \in (i + 1)..L : <<l[k]>> # id
    <3> TAKE k \in (i + 1)..L
    <3>1. k \in 1..L /\ k # i
      BY <1>1
    <3>2. l[k] # l[i]
      BY <1>1, <3>1
    <3> QED
      BY <3>2
  <2>5. id \notin DOMAIN r
    BY <2>3, <2>4
  <2>6. from[Cur(i)] = Put(r, id, a)
    BY <2>2, <2>5 DEF Joined
  <2> HIDE DEF id
  <2>7. DOMAIN Put(r, id, a) = DOMAIN r \union {id} /\ Put(r, id, a)[id] = a
        /\ \A x \in DOMAIN r : x # id => Put(r, id, a)[x] = r[x]
    BY DEF Put
  <2>8. \A k : k \in i..L <=> k = i \/ k \in (i + 1)..L
    BY <1>1
  <2>9. DOMAIN Put(r, id, a) = {<<l[k]>> : k \in i..L}
    BY <2>3, <2>7, <2>8 DEF id
  <2>10. ASSUME NEW k \in i..L PROVE Put(r, id, a)[<<l[k]>>] = Answer(R, l, outs, b, e, k)
    <3>1. CASE k = i
      BY <2>7, <3>1 DEF id, a
    <3>2. CASE k \in (i + 1)..L
      <4>1. <<l[k]>> \in DOMAIN r /\ <<l[k]>> # id
        BY <2>3, <2>4, <3>2
      <4> QED
        BY <2>3, <2>7, <3>2, <4>1
    <3> QED
      BY <2>8, <3>1, <3>2
  <2>11. Found(Put(r, id, a), R, l, outs, b, e, i)
    BY <2>9, <2>10 DEF Found
  <2> QED
    BY <2>6, <2>11
<1> HIDE DEF F
<1>6. 0 \in K
  <2>1. L + 1 - 0 = L + 1
    BY <1>1
  <2> QED
    BY <1>4, <2>1
<1>7. ASSUME NEW m \in Nat, m \in K PROVE m + 1 \in K
  <2> SUFFICES ASSUME m + 1 <= L PROVE F(L + 1 - (m + 1))
    OBVIOUS
  <2>1. F(L + 1 - m)
    BY <1>1, <1>7
  <2>2. PICK i \in 1..L : i = L - m
    BY <1>1
  <2>3. L + 1 - m = i + 1 /\ L + 1 - (m + 1) = i
    BY <1>1, <2>2
  <2> HIDE DEF L
  <2> QED
    BY <1>5, <2>1, <2>3
<1>8. K \in SUBSET Nat
  OBVIOUS
<1> HIDE DEF K
<1>9. K = Nat
  BY <1>6, <1>7, <1>8, SetInduction
<1>10. L \in K /\ L <= L /\ L + 1 - L = 1
  BY <1>1, <1>9
<1>11. F(1)
  <2>1. F(L + 1 - L)
    BY <1>10 DEF K
  <2> QED
    BY <1>10, <2>1
<1>12. Cur(1) = 1
  BY DEF Cursor
<1> QED
  BY <1>2, <1>11, <1>12 DEF F

-----------------------------------------------------------------------------
(* The layout as the shell goes on.                                        *)

(* A command's own part of what is written.                                *)
LEMMA OwnFacts ==
  /\ \A s \in Seq(Tokens) : Own(s) \in Seq(Tokens)
  /\ \A s, x \in Seq(Tokens) : Own(s \o x) = Own(s) \o Own(x)
  /\ Own(<<"noise">>) = <<>> /\ Own(<<>>) = <<>>
  /\ \A body \in Seq({"x", "nl"}) : Own(body) = body
  /\ \A s \in Seq(Tokens) : Own(s) \o <<>> = Own(s)
<1>1. \A s \in Seq(Tokens) : Own(s) \in Seq(Tokens)
  BY WithoutType DEF Own
<1>2. \A s, x \in Seq(Tokens) : Own(s \o x) = Own(s) \o Own(x)
  BY WithoutConcat DEF Own
<1>3. Own(<<"noise">>) = <<>>
  <2>1. /\ <<"noise">> \in Seq({"noise"})
        /\ \A i \in 1..Len(<<"noise">>) : <<"noise">>[i] \in {"noise"}
    OBVIOUS
  <2> QED
    BY <2>1, WithoutAll DEF Own
<1>4. Own(<<>>) = <<>>
  <2>1. <<>> \in Seq(Tokens) /\ \A i \in 1..Len(<<>>) : <<>>[i] \in {"noise"}
    OBVIOUS
  <2> QED
    BY <2>1, WithoutAll DEF Own
<1>5. ASSUME NEW body \in Seq({"x", "nl"}) PROVE Own(body) = body
  <2>1. \A i \in 1..Len(body) : body[i] \in {"x", "nl"}
    OBVIOUS
  <2>2. \A i \in 1..Len(body) : body[i] \notin {"noise"}
    BY <2>1
  <2> QED
    BY <2>2, WithoutNone DEF Own
<1>6. \A s \in Seq(Tokens) : Own(s) \o <<>> = Own(s)
  BY <1>1, ConcatEmptySeq
<1> QED
  BY <1>1, <1>2, <1>3, <1>4, <1>5, <1>6

(* Where the marks of a layout are.                                        *)
LEMMA LayoutTypes ==
  ASSUME NEW F, NEW l, NEW outs, NEW q, NEW b, NEW e, NEW t, Layout(F, l, outs, q, b, e, t)
  PROVE  /\ F \in Seq(Tokens) /\ Len(F) \in Nat /\ l \in Seq(Requests) /\ Len(l) \in Nat
         /\ q \in Nat /\ q <= 3 * Len(l) + 1 /\ t \in Nat
         /\ b \in [1..Len(l) -> Nat] /\ e \in [1..Len(l) -> Nat]
         /\ \A i \in 1..Len(l) : l[i] \in Requests /\ b[i] \in Nat /\ e[i] \in Nat
         /\ \A i, j \in 1..Len(l) : l[i] = l[j] => i = j
         /\ \A i \in 1..Len(l) : q >= 3 * i - 2 => b[i] >= 1 /\ b[i] + 3 <= Len(F)
         /\ \A i \in 1..Len(l) : q >= 3 * i - 1 =>
              /\ CodeOf(l, outs, i) \in Seq(Codes) /\ Len(CodeOf(l, outs, i)) \in Nat
         /\ \A i \in 1..Len(l) : q >= 3 * i =>
              /\ e[i] >= 1 /\ e[i] + 4 + Len(CodeOf(l, outs, i)) <= Len(F)
              /\ After(l, outs, e, i) \in Nat /\ After(l, outs, e, i) <= Len(F) + 1
<1>1. /\ F \in Seq(Tokens) /\ l \in Seq(Requests) /\ Distinct(l)
      /\ q \in 0..(3 * Len(l) + 1)
      /\ b \in [1..Len(l) -> Nat] /\ e \in [1..Len(l) -> Nat] /\ t \in Nat
  BY DEF Layout, Places
<1>2. /\ Len(F) \in Nat /\ Len(l) \in Nat /\ q \in Nat /\ q <= 3 * Len(l) + 1
      /\ \A i \in 1..Len(l) : l[i] \in Requests /\ b[i] \in Nat /\ e[i] \in Nat
  BY <1>1
<1>3. \A i, j \in 1..Len(l) : l[i] = l[j] => i = j
  BY <1>1 DEF Distinct
<1>4. \A i \in 1..Len(l) : q >= 3 * i - 2 => b[i] >= 1 /\ b[i] + 3 <= Len(F)
  BY DEF Layout, Begun, BeginsAt
<1>5. \A i \in 1..Len(l) : q >= 3 * i - 1 =>
         CodeOf(l, outs, i) \in Seq(Codes) /\ Len(CodeOf(l, outs, i)) \in Nat
  BY DEF Layout, Ran, Results, CodeOf
<1>6. ASSUME NEW i \in 1..Len(l), q >= 3 * i
      PROVE  /\ e[i] >= 1 /\ e[i] + 4 + Len(CodeOf(l, outs, i)) <= Len(F)
             /\ After(l, outs, e, i) \in Nat /\ After(l, outs, e, i) <= Len(F) + 1
  <2>1. q >= 3 * i - 2 /\ q >= 3 * i - 1
    BY <1>2, <1>6
  <2>2. b[i] + 4 <= e[i] /\ e[i] + 4 + Len(CodeOf(l, outs, i)) <= Len(F)
    BY <1>6 DEF Layout, Ended, EndsAt
  <2>3. b[i] \in Nat /\ e[i] \in Nat /\ Len(CodeOf(l, outs, i)) \in Nat
    BY <1>2, <1>5, <2>1
  <2>4. After(l, outs, e, i) = e[i] + 5 + Len(CodeOf(l, outs, i))
    BY DEF After
  <2>5. PICK n \in Nat : n = Len(CodeOf(l, outs, i))
    BY <2>3
  <2>6. PICK m \in Nat : m = e[i]
    BY <2>3
  <2>7. m >= 1 /\ m + 4 + n <= Len(F) /\ m + 5 + n \in Nat /\ m + 5 + n <= Len(F) + 1
    <3>1. PICK k \in Nat : k = b[i]
      BY <2>3
    <3>2. k + 4 <= m /\ m + 4 + n <= Len(F)
      BY <2>2, <2>5, <2>6, <3>1
    <3>3. Len(F) \in Nat
      BY <1>2
    <3> QED
      BY <3>2, <3>3
  <2> QED
    BY <2>4, <2>5, <2>6, <2>7
<1> QED
  BY <1>1, <1>2, <1>3, <1>4, <1>5, <1>6

(* What stays when more is written.                                        *)
Stays(F, l, outs, q, b, e, t, x, G) ==
  /\ Begun(G, l, q, b) /\ Ended(G, l, outs, q, b, e)
  /\ \A i \in 1..Len(l) : q = 3 * i - 2 \/ q = 3 * i - 1 =>
       Own(SubSeq(G, b[i] + 4, Len(G))) = Own(SubSeq(F, b[i] + 4, Len(F))) \o Own(x)
  /\ \A p \in 1..Len(G) : p <= Len(F) => Marked(G[p], p, l, q, b, e, t)

(* The frames so far stay where they are.                                *)
LEMMA Kept ==
  ASSUME NEW F \in Seq(Tokens), NEW l, NEW outs, NEW q, NEW b, NEW e, NEW t,
         Layout(F, l, outs, q, b, e, t), NEW x \in Seq(Tokens), NEW G, Longer(F, x, G)
  PROVE  Stays(F, l, outs, q, b, e, t, x, G)
<1>1. /\ F \in Seq(Tokens) /\ Len(F) \in Nat /\ Len(l) \in Nat /\ q \in Nat
      /\ \A i \in 1..Len(l) : l[i] \in Requests /\ b[i] \in Nat /\ e[i] \in Nat
      /\ \A i \in 1..Len(l) : q >= 3 * i - 2 => b[i] >= 1 /\ b[i] + 3 <= Len(F)
      /\ \A i \in 1..Len(l) : q >= 3 * i - 1 =>
           CodeOf(l, outs, i) \in Seq(Codes) /\ Len(CodeOf(l, outs, i)) \in Nat
      /\ \A i \in 1..Len(l) : q >= 3 * i =>
           e[i] >= 1 /\ e[i] + 4 + Len(CodeOf(l, outs, i)) <= Len(F)
  BY LayoutTypes
<1>2. /\ G \in Seq(Tokens) /\ Len(G) = Len(F) + Len(x) /\ Len(x) \in Nat
      /\ \A p \in 1..Len(F) : G[p] = F[p]
      /\ \A p \in 1..Len(G) : p > Len(F) => p - Len(F) \in 1..Len(x) /\ G[p] = x[p - Len(F)]
  BY DEF Longer
<1>3. Begun(G, l, q, b)
  <2> SUFFICES ASSUME NEW i \in 1..Len(l), q >= 3 * i - 2
               PROVE  b[i] >= 1 /\ BeginsAt(G, l[i], b[i])
    BY DEF Begun
  <2>1. b[i] >= 1 /\ BeginsAt(F, l[i], b[i]) /\ b[i] \in Nat
    BY <1>1 DEF Layout, Begun
  <2> QED
    BY <2>1 DEF Longer
<1>4. Ended(G, l, outs, q, b, e)
  <2> SUFFICES ASSUME NEW i \in 1..Len(l), q >= 3 * i
               PROVE  /\ b[i] + 4 <= e[i] /\ EndsAt(G, l[i], CodeOf(l, outs, i), e[i])
                      /\ Own(SubSeq(G, b[i] + 4, e[i] - 1)) = outs[l[i]].body
    BY DEF Ended
  <2>1. /\ b[i] + 4 <= e[i] /\ EndsAt(F, l[i], CodeOf(l, outs, i), e[i])
        /\ Own(SubSeq(F, b[i] + 4, e[i] - 1)) = outs[l[i]].body
    BY DEF Layout, Ended
  <2>2. q >= 3 * i - 1
    BY <1>1
  <2>3. /\ e[i] \in Nat /\ e[i] >= 1 /\ b[i] \in Nat /\ CodeOf(l, outs, i) \in Seq(Codes)
        /\ e[i] + 4 + Len(CodeOf(l, outs, i)) <= Len(F) /\ Len(CodeOf(l, outs, i)) \in Nat
    BY <1>1, <2>2
  <2>4. EndsAt(G, l[i], CodeOf(l, outs, i), e[i])
    BY <2>1, <2>3 DEF Longer
  <2>5. PICK m \in Nat : m = b[i] + 4 /\ m >= 1
    BY <2>3
  <2>6. PICK n \in Nat : n = e[i] - 1 /\ n <= Len(F)
    BY <1>1, <2>3
  <2>a. PartsStay(F, x, G)
    BY GrownParts
  <2>7. SubSeq(G, m, n) = SubSeq(F, m, n)
    BY <2>5, <2>6, <2>a DEF PartsStay
  <2> QED
    BY <2>1, <2>4, <2>5, <2>6, <2>7
<1>5. ASSUME NEW i \in 1..Len(l), q = 3 * i - 2 \/ q = 3 * i - 1
      PROVE  Own(SubSeq(G, b[i] + 4, Len(G))) = Own(SubSeq(F, b[i] + 4, Len(F))) \o Own(x)
  <2>1. q >= 3 * i - 2
    BY <1>1, <1>5
  <2>a. b[i] \in Nat /\ b[i] >= 1 /\ b[i] + 3 <= Len(F)
    BY <1>1, <2>1
  <2>2. PICK m \in Nat : m = b[i] + 4 /\ m >= 1 /\ m <= Len(F) + 1
    BY <1>1, <2>a
  <2>b. PartsStay(F, x, G)
    BY GrownParts
  <2>3. SubSeq(G, m, Len(G)) = SubSeq(F, m, Len(F)) \o x
    BY <2>2, <2>b DEF PartsStay
  <2>4. SubSeq(F, m, Len(F)) \in Seq(Tokens)
    BY <1>1, <2>2
  <2>5. Own(SubSeq(F, m, Len(F)) \o x) = Own(SubSeq(F, m, Len(F))) \o Own(x)
    BY <2>4, OwnFacts
  <2> QED
    BY <2>2, <2>3, <2>5
<1>6. \A p \in 1..Len(G) : p <= Len(F) => Marked(G[p], p, l, q, b, e, t)
  <2> SUFFICES ASSUME NEW p \in 1..Len(G), p <= Len(F)
               PROVE  Marked(G[p], p, l, q, b, e, t)
    OBVIOUS
  <2>1. p \in 1..Len(F)
    BY <1>1, <1>2
  <2> QED
    BY <1>2, <2>1 DEF Layout, OnlyMarks
<1> QED
  BY <1>3, <1>4, <1>5, <1>6 DEF Stays

(* Noise may come at any time.                                             *)
LEMMA NoiseLayout ==
  ASSUME NEW F \in Seq(Tokens), NEW l, NEW outs, NEW q, NEW b, NEW e, NEW t,
         Layout(F, l, outs, q, b, e, t),
         NEW x \in Seq(Tokens), x = <<"noise">>, NEW G, Longer(F, x, G)
  PROVE  Layout(G, l, outs, q, b, e, t)
<1>2. Len(x) = 1 /\ \A i \in 1..Len(x) : x[i] = "noise"
  OBVIOUS
<1>1. /\ G \in Seq(Tokens) /\ Len(G) = Len(F) + Len(x) /\ Len(x) \in Nat
      /\ \A p \in 1..Len(G) : p > Len(F) => p - Len(F) \in 1..Len(x) /\ G[p] = x[p - Len(F)]
  BY DEF Longer
<1>3. Stays(F, l, outs, q, b, e, t, x, G)
  BY Kept
<1>4. \A p \in 1..Len(G) : p > Len(F) => G[p] = "noise"
  BY <1>1, <1>2
<1>5. /\ Len(F) \in Nat /\ F \in Seq(Tokens) /\ Len(l) \in Nat /\ t \in Nat
      /\ \A i \in 1..Len(l) : b[i] \in Nat
      /\ \A i \in 1..Len(l) : q >= 3 * i - 2 => b[i] >= 1 /\ b[i] + 3 <= Len(F)
      /\ q \in Nat
  BY LayoutTypes
<1>6. Current(G, l, outs, q, b)
  <2>1. ASSUME NEW i \in 1..Len(l), q = 3 * i - 2 \/ q = 3 * i - 1
        PROVE  Own(SubSeq(G, b[i] + 4, Len(G))) = Own(SubSeq(F, b[i] + 4, Len(F)))
    <3>1. q >= 3 * i - 2
      BY <1>5, <2>1
    <3>2. PICK m \in Nat : m = b[i] + 4 /\ m >= 1
      BY <1>5, <3>1
    <3>3. SubSeq(F, m, Len(F)) \in Seq(Tokens)
      BY <1>5, <3>2
    <3>4. Own(SubSeq(F, m, Len(F))) \o <<>> = Own(SubSeq(F, m, Len(F)))
      BY <3>3, OwnFacts
    <3> QED
      BY <1>3, <2>1, <3>2, <3>4, OwnFacts DEF Stays
  <2>2. Current(F, l, outs, q, b)
    BY DEF Layout
  <2> QED
    BY <2>1, <2>2 DEF Current
<1>7. Closes(G, l, outs, q, e, t)
  <2>1. SUFFICES ASSUME q = 3 * Len(l) + 1
                 PROVE  /\ t >= 1 /\ ClosesAt(G, t)
                        /\ \A i \in 1..Len(l) : After(l, outs, e, i) <= t
                        /\ \A p \in 1..Len(G) : p > t + 2 => G[p] = "noise"
    BY DEF Closes
  <2>2. /\ t >= 1 /\ ClosesAt(F, t)
        /\ \A i \in 1..Len(l) : After(l, outs, e, i) <= t
        /\ \A p \in 1..Len(F) : p > t + 2 => F[p] = "noise"
    BY <2>1 DEF Layout, Closes
  <2>3. ClosesAt(G, t) /\ \A p \in 1..Len(F) : G[p] = F[p]
    BY <1>5, <2>2 DEF Longer
  <2>4. \A p \in 1..Len(G) : p \in 1..Len(F) \/ p > Len(F)
    BY <1>1, <1>5
  <2> QED
    BY <1>4, <2>2, <2>3, <2>4
<1>8. OnlyMarks(G, l, q, b, e, t)
  <2>1. ASSUME NEW p \in 1..Len(G) PROVE Marked(G[p], p, l, q, b, e, t)
    <3>1. CASE p <= Len(F)
      BY <1>3, <3>1 DEF Stays
    <3>2. CASE p > Len(F)
      BY <1>4, <3>2 DEF Marked
    <3> QED
      BY <1>1, <1>5, <3>1, <3>2
  <2> QED
    BY <2>1 DEF OnlyMarks
<1> QED
  BY <1>1, <1>3, <1>6, <1>7, <1>8 DEF Layout, Places, Stays

(* The next command of the script changes only what had no place yet.      *)
Agrees(l, q, outs, b, e, outs2, b2, e2) ==
  \A i \in 1..Len(l) :
    /\ q >= 3 * i - 2 => b2[i] = b[i]
    /\ q >= 3 * i - 1 => l[i] \in DOMAIN outs2 /\ outs2[l[i]] = outs[l[i]]
    /\ q >= 3 * i => e2[i] = e[i]

Carried(F, x, G, l, outs, q, b, outs2, b2, e2) ==
  /\ Ran(l, outs2, q) /\ Begun(G, l, q, b2) /\ Ended(G, l, outs2, q, b2, e2)
  /\ Ordered(l, outs2, q, b2, e2)
  /\ \A i \in 1..Len(l) : q = 3 * i - 2 \/ q = 3 * i - 1 =>
       Own(SubSeq(G, b2[i] + 4, Len(G))) = Own(SubSeq(F, b[i] + 4, Len(F))) \o Own(x)
  /\ \A i \in 1..Len(l) : q >= 3 * i =>
       After(l, outs2, e2, i) \in Nat /\ After(l, outs2, e2, i) <= Len(F) + 1
  /\ \A p \in 1..Len(G) : p <= Len(F) => \A t2 : Marked(G[p], p, l, q, b2, e2, t2)

(* So the frames so far are still in the layout.                         *)
LEMMA Carry ==
  ASSUME NEW F \in Seq(Tokens), NEW l, NEW outs, NEW q, NEW b, NEW e, NEW t,
         Layout(F, l, outs, q, b, e, t), q # 3 * Len(l) + 1,
         NEW x \in Seq(Tokens), NEW G, Longer(F, x, G),
         NEW outs2, NEW b2, NEW e2, Agrees(l, q, outs, b, e, outs2, b2, e2)
  PROVE  Carried(F, x, G, l, outs, q, b, outs2, b2, e2)
<1>1. Stays(F, l, outs, q, b, e, t, x, G)
  BY Kept
<1>2. /\ Len(l) \in Nat /\ q \in Nat
      /\ \A i \in 1..Len(l) : q >= 3 * i =>
           After(l, outs, e, i) \in Nat /\ After(l, outs, e, i) <= Len(F) + 1
  BY LayoutTypes
<1>3. Ran(l, outs, q) /\ Ordered(l, outs, q, b, e)
  BY DEF Layout
<1>4. Ran(l, outs2, q)
  BY <1>3 DEF Ran, Agrees
<1>5. Begun(G, l, q, b2)
  BY <1>1 DEF Stays, Begun, Agrees
<1>6. \A i \in 1..Len(l) : q >= 3 * i => q >= 3 * i - 1 /\ q >= 3 * i - 2
  BY <1>2
<1>7. ASSUME NEW i \in 1..Len(l), q >= 3 * i
      PROVE  /\ CodeOf(l, outs2, i) = CodeOf(l, outs, i)
             /\ After(l, outs2, e2, i) = After(l, outs, e, i)
             /\ b2[i] = b[i] /\ e2[i] = e[i] /\ outs2[l[i]] = outs[l[i]]
  <2>1. b2[i] = b[i] /\ e2[i] = e[i] /\ outs2[l[i]] = outs[l[i]]
    BY <1>6, <1>7 DEF Agrees
  <2> QED
    BY <2>1 DEF CodeOf, After
<1>8. Ended(G, l, outs2, q, b2, e2)
  <2> SUFFICES ASSUME NEW i \in 1..Len(l), q >= 3 * i
               PROVE  /\ b2[i] + 4 <= e2[i] /\ EndsAt(G, l[i], CodeOf(l, outs2, i), e2[i])
                      /\ Own(SubSeq(G, b2[i] + 4, e2[i] - 1)) = outs2[l[i]].body
    BY DEF Ended
  <2>1. /\ b[i] + 4 <= e[i] /\ EndsAt(G, l[i], CodeOf(l, outs, i), e[i])
        /\ Own(SubSeq(G, b[i] + 4, e[i] - 1)) = outs[l[i]].body
    BY <1>1 DEF Stays, Ended
  <2> QED
    BY <1>7, <2>1
<1>9. Ordered(l, outs2, q, b2, e2)
  <2> SUFFICES ASSUME NEW j \in 1..Len(l), q >= 3 * j - 2, NEW i \in 1..(j - 1)
               PROVE  After(l, outs2, e2, i) <= b2[j]
    BY DEF Ordered
  <2>1. i \in 1..Len(l) /\ q >= 3 * i
    BY <1>2
  <2>2. After(l, outs, e, i) <= b[j]
    BY <1>3 DEF Ordered
  <2>3. b2[j] = b[j]
    BY DEF Agrees
  <2> QED
    BY <1>7, <2>1, <2>2, <2>3
<1>10. ASSUME NEW i \in 1..Len(l), q = 3 * i - 2 \/ q = 3 * i - 1
       PROVE  Own(SubSeq(G, b2[i] + 4, Len(G))) = Own(SubSeq(F, b[i] + 4, Len(F))) \o Own(x)
  <2>1. q >= 3 * i - 2
    BY <1>2, <1>10
  <2>2. b2[i] = b[i]
    BY <2>1 DEF Agrees
  <2> QED
    BY <1>1, <1>10, <2>2 DEF Stays
<1>11. \A i \in 1..Len(l) : q >= 3 * i =>
         After(l, outs2, e2, i) \in Nat /\ After(l, outs2, e2, i) <= Len(F) + 1
  BY <1>2, <1>7
<1>12. ASSUME NEW p \in 1..Len(G), p <= Len(F), NEW t2
       PROVE  Marked(G[p], p, l, q, b2, e2, t2)
  <2>1. Marked(G[p], p, l, q, b, e, t)
    BY <1>1, <1>12 DEF Stays
  <2>2. G[p] # "Z"
    BY <2>1 DEF Marked
  <2>3. G[p] = "B" => \E i \in 1..Len(l) : q >= 3 * i - 2 /\ p = b2[i] + 1
    BY <2>1 DEF Marked, Agrees
  <2>4. G[p] = "E" => \E i \in 1..Len(l) : q >= 3 * i /\ p = e2[i] + 1
    BY <2>1 DEF Marked, Agrees
  <2> QED
    BY <2>2, <2>3, <2>4 DEF Marked
<1> QED
  BY <1>4, <1>5, <1>8, <1>9, <1>10, <1>11, <1>12 DEF Carried

(* What is new among the marks.                                            *)
NewMarks(F, G, l, r, b2, e2, t2) ==
  \A p \in 1..Len(G) : p > Len(F) => Marked(G[p], p, l, r, b2, e2, t2)

(* With the new ones, these are all the marks.                           *)
LEMMA AllMarks ==
  ASSUME NEW F \in Seq(Tokens), NEW x \in Seq(Tokens), NEW G, Longer(F, x, G),
         NEW l \in Seq(Requests), NEW outs, NEW q \in Nat, NEW b, NEW outs2, NEW b2, NEW e2,
         NEW t2, Carried(F, x, G, l, outs, q, b, outs2, b2, e2), q < 3 * Len(l) + 1,
         NewMarks(F, G, l, q + 1, b2, e2, t2)
  PROVE  OnlyMarks(G, l, q + 1, b2, e2, t2)
<1>1. Len(F) \in Nat /\ Len(G) \in Nat /\ Len(l) \in Nat
  BY DEF Longer
<1>2. ASSUME NEW p \in 1..Len(G) PROVE Marked(G[p], p, l, q + 1, b2, e2, t2)
  <2>1. CASE p > Len(F)
    BY <2>1 DEF NewMarks
  <2>2. CASE p <= Len(F)
    <3>1. Marked(G[p], p, l, q, b2, e2, t2)
      BY <2>2 DEF Carried
    <3>2. \A i \in 1..Len(l) : /\ q >= 3 * i - 2 => q + 1 >= 3 * i - 2
                               /\ q >= 3 * i => q + 1 >= 3 * i
      BY <1>1
    <3>3. G[p] # "Z"
      BY <1>1, <3>1 DEF Marked
    <3> QED
      BY <3>1, <3>2, <3>3 DEF Marked
  <2> QED
    BY <1>1, <2>1, <2>2
<1> QED
  BY <1>2 DEF OnlyMarks

(* A frame begins.                                                         *)
LEMMA BeginLayout ==
  ASSUME NEW F \in Seq(Tokens), NEW l, NEW outs, NEW q, NEW b, NEW e, NEW t,
         Layout(F, l, outs, q, b, e, t), NEW i \in 1..Len(l), q = 3 * i - 3,
         NEW x \in Seq(Tokens), x = begin(l[i]), NEW G, Longer(F, x, G),
         NEW b2, b2 = [b EXCEPT ![i] = Len(F) + 1]
  PROVE  Layout(G, l, outs, q + 1, b2, e, t)
<1>1. /\ Len(F) \in Nat /\ l \in Seq(Requests) /\ Len(l) \in Nat /\ q \in Nat /\ t \in Nat
      /\ b \in [1..Len(l) -> Nat] /\ e \in [1..Len(l) -> Nat] /\ l[i] \in Requests
  BY LayoutTypes
<1>2. /\ Len(x) = 4 /\ x[1] = "nl" /\ x[2] = "B" /\ x[3] = l[i] /\ x[4] = "nl"
  BY DEF begin
<1>3. l[i] \notin {"B", "E", "Z"}
  BY <1>1, NoMarks DEF Marks
<1>4. /\ G \in Seq(Tokens) /\ Len(G) = Len(F) + 4
      /\ \A p \in 1..4 : G[Len(F) + p] = x[p]
      /\ \A p \in 1..Len(G) : p > Len(F) => p - Len(F) \in 1..4 /\ G[p] = x[p - Len(F)]
  BY <1>2 DEF Longer
<1>5. /\ b2 \in [1..Len(l) -> Nat] /\ b2[i] = Len(F) + 1
      /\ \A j \in 1..Len(l) : j # i => b2[j] = b[j]
  BY <1>1
<1>6. Agrees(l, q, outs, b, e, outs, b2, e)
  <2>1. \A j \in 1..Len(l) : q >= 3 * j - 2 => j # i
    BY <1>1
  <2>2. \A j \in 1..Len(l) : q >= 3 * j - 1 => l[j] \in DOMAIN outs
    BY DEF Layout, Ran
  <2> QED
    BY <1>5, <2>1, <2>2 DEF Agrees
<1>7. q # 3 * Len(l) + 1 /\ q < 3 * Len(l) + 1 /\ q + 1 \in 0..(3 * Len(l) + 1)
      /\ q + 1 # 3 * Len(l) + 1
  BY <1>1
<1>8. Carried(F, x, G, l, outs, q, b, outs, b2, e)
  BY <1>6, <1>7, Carry
<1>9. \A j \in 1..Len(l) : /\ q + 1 >= 3 * j - 2 <=> j = i \/ q >= 3 * j - 2
                           /\ q + 1 >= 3 * j - 1 <=> q >= 3 * j - 1
                           /\ q + 1 >= 3 * j <=> q >= 3 * j
                           /\ q + 1 = 3 * j - 2 <=> j = i
                           /\ q + 1 # 3 * j - 1
  BY <1>1
<1>10. Ran(l, outs, q + 1)
  BY <1>8, <1>9 DEF Carried, Ran
<1>11. Begun(G, l, q + 1, b2)
  <2>1. PICK m \in Nat : m = Len(F) + 1
    BY <1>1
  <2>2. m >= 1 /\ BeginsAt(G, l[i], m)
    <3>1. /\ m = Len(F) + 1 /\ m + 1 = Len(F) + 2 /\ m + 2 = Len(F) + 3 /\ m + 3 = Len(F) + 4
          /\ m + 3 <= Len(G) /\ m >= 1
      BY <1>1, <1>4, <2>1
    <3>2. /\ G[Len(F) + 1] = "nl" /\ G[Len(F) + 2] = "B" /\ G[Len(F) + 3] = l[i]
          /\ G[Len(F) + 4] = "nl"
      BY <1>2, <1>4
    <3> QED
      BY <3>1, <3>2 DEF BeginsAt
  <2>3. b2[i] = m
    BY <1>5, <2>1
  <2> QED
    BY <1>8, <1>9, <2>2, <2>3 DEF Carried, Begun
<1>12. Ended(G, l, outs, q + 1, b2, e)
  BY <1>8, <1>9 DEF Carried, Ended
<1>13. Ordered(l, outs, q + 1, b2, e)
  <2> SUFFICES ASSUME NEW j \in 1..Len(l), q + 1 >= 3 * j - 2, NEW k \in 1..(j - 1)
               PROVE  After(l, outs, e, k) <= b2[j]
    BY DEF Ordered
  <2>1. CASE j = i
    <3>1. k \in 1..Len(l) /\ q >= 3 * k
      BY <1>1, <2>1
    <3> QED
      BY <1>5, <1>8, <2>1, <3>1 DEF Carried
  <2>2. CASE q >= 3 * j - 2
    BY <1>8, <2>2 DEF Carried, Ordered
  <2> QED
    BY <1>9, <2>1, <2>2
<1>14. Current(G, l, outs, q + 1, b2)
  <2>1. PICK m \in Nat : m = b2[i] + 4 /\ m = Len(G) + 1
    BY <1>1, <1>4, <1>5
  <2>2. SubSeq(G, m, Len(G)) = <<>>
    BY <1>4, <2>1
  <2>3. Own(SubSeq(G, b2[i] + 4, Len(G))) = <<>>
    BY <2>1, <2>2, OwnFacts
  <2> QED
    BY <1>9, <2>3 DEF Current
<1>15. Closes(G, l, outs, q + 1, e, t)
  BY <1>7 DEF Closes
<1>16. NewMarks(F, G, l, q + 1, b2, e, t)
  <2> SUFFICES ASSUME NEW p \in 1..Len(G), p > Len(F) PROVE Marked(G[p], p, l, q + 1, b2, e, t)
    BY DEF NewMarks
  <2>1. PICK k \in 1..4 : k = p - Len(F)
    BY <1>4
  <2>2. G[p] = x[k]
    BY <1>4, <2>1
  <2>3. k = 1 \/ k = 2 \/ k = 3 \/ k = 4
    OBVIOUS
  <2>4. CASE k = 2
    <3>1. p = b2[i] + 1 /\ q + 1 >= 3 * i - 2
      BY <1>1, <1>5, <1>9, <2>1, <2>4
    <3> QED
      BY <1>2, <2>2, <2>4, <3>1 DEF Marked
  <2>5. CASE k # 2
    BY <1>2, <1>3, <2>2, <2>3, <2>5 DEF Marked
  <2> QED
    BY <2>4, <2>5
<1>17. OnlyMarks(G, l, q + 1, b2, e, t)
  BY <1>1, <1>7, <1>8, <1>16, AllMarks
<1>18. Places(G, l, q + 1, b2, e, t)
  BY <1>1, <1>4, <1>5, <1>7 DEF Layout, Places
<1> QED
  BY <1>10, <1>11, <1>12, <1>13, <1>14, <1>15, <1>17, <1>18 DEF Layout

(* A command runs.                                                         *)
LEMMA RunLayout ==
  ASSUME NEW F \in Seq(Tokens), NEW l, NEW outs, NEW q, NEW b, NEW e, NEW t,
         Layout(F, l, outs, q, b, e, t), NEW i \in 1..Len(l), q = 3 * i - 2,
         NEW output \in Results, NEW x \in Seq(Tokens), x = output.body,
         NEW G, Longer(F, x, G),
         NEW outs2, outs2 = Put(outs, l[i], output)
  PROVE  Layout(G, l, outs2, q + 1, b, e, t)
<1>1. /\ Len(F) \in Nat /\ l \in Seq(Requests) /\ Len(l) \in Nat /\ q \in Nat /\ t \in Nat
      /\ b \in [1..Len(l) -> Nat] /\ e \in [1..Len(l) -> Nat] /\ l[i] \in Requests
      /\ \A j, k \in 1..Len(l) : l[j] = l[k] => j = k
      /\ \A j \in 1..Len(l) : q >= 3 * j - 2 => b[j] >= 1 /\ b[j] + 3 <= Len(F)
  BY LayoutTypes
<1>2. x \in Seq({"x", "nl"}) /\ \A p \in 1..Len(x) : x[p] \in {"x", "nl"}
  BY DEF Results
<1>3. /\ G \in Seq(Tokens) /\ Len(G) = Len(F) + Len(x) /\ Len(x) \in Nat
      /\ \A p \in 1..Len(G) : p > Len(F) => p - Len(F) \in 1..Len(x) /\ G[p] = x[p - Len(F)]
  BY DEF Longer
<1>4. /\ l[i] \in DOMAIN outs2 /\ outs2[l[i]] = output
      /\ \A r \in DOMAIN outs : r # l[i] => r \in DOMAIN outs2 /\ outs2[r] = outs[r]
  BY DEF Put
<1>5. Agrees(l, q, outs, b, e, outs2, b, e)
  <2> SUFFICES ASSUME NEW j \in 1..Len(l), q >= 3 * j - 1
               PROVE  l[j] \in DOMAIN outs2 /\ outs2[l[j]] = outs[l[j]]
    BY DEF Agrees
  <2>1. j # i
    BY <1>1
  <2>2. l[j] # l[i] /\ l[j] \in DOMAIN outs
    BY <1>1, <2>1 DEF Layout, Ran
  <2> QED
    BY <1>4, <2>2
<1>6. q # 3 * Len(l) + 1 /\ q < 3 * Len(l) + 1 /\ q + 1 \in 0..(3 * Len(l) + 1)
      /\ q + 1 # 3 * Len(l) + 1
  BY <1>1
<1>7. Carried(F, x, G, l, outs, q, b, outs2, b, e)
  BY <1>5, <1>6, Carry
<1>8. \A j \in 1..Len(l) : /\ q + 1 >= 3 * j - 2 <=> q >= 3 * j - 2
                           /\ q + 1 >= 3 * j - 1 <=> j = i \/ q >= 3 * j - 1
                           /\ q + 1 >= 3 * j <=> q >= 3 * j
                           /\ q + 1 = 3 * j - 1 <=> j = i
                           /\ q + 1 # 3 * j - 2
  BY <1>1
<1>9. Ran(l, outs2, q + 1)
  BY <1>4, <1>7, <1>8 DEF Carried, Ran
<1>10. Begun(G, l, q + 1, b)
  BY <1>7, <1>8 DEF Carried, Begun
<1>11. Ended(G, l, outs2, q + 1, b, e)
  BY <1>7, <1>8 DEF Carried, Ended
<1>12. Ordered(l, outs2, q + 1, b, e)
  BY <1>7, <1>8 DEF Carried, Ordered
<1>13. Current(G, l, outs2, q + 1, b)
  <2>1. Own(SubSeq(G, b[i] + 4, Len(G))) = Own(SubSeq(F, b[i] + 4, Len(F))) \o Own(x)
    BY <1>7 DEF Carried
  <2>2. Own(SubSeq(F, b[i] + 4, Len(F))) = <<>>
    BY DEF Layout, Current
  <2>3. Own(x) = x
    BY <1>2, OwnFacts
  <2>4. <<>> \o x = x
    BY ConcatEmptySeq
  <2>5. Own(SubSeq(G, b[i] + 4, Len(G))) = outs2[l[i]].body
    BY <1>4, <2>1, <2>2, <2>3, <2>4
  <2> QED
    BY <1>8, <2>5 DEF Current
<1>14. Closes(G, l, outs2, q + 1, e, t)
  BY <1>6 DEF Closes
<1>15. NewMarks(F, G, l, q + 1, b, e, t)
  <2> SUFFICES ASSUME NEW p \in 1..Len(G), p > Len(F) PROVE Marked(G[p], p, l, q + 1, b, e, t)
    BY DEF NewMarks
  <2>1. G[p] \in {"x", "nl"}
    BY <1>2, <1>3
  <2> QED
    BY <2>1 DEF Marked
<1>16. OnlyMarks(G, l, q + 1, b, e, t)
  BY <1>1, <1>6, <1>7, <1>15, AllMarks
<1>17. Places(G, l, q + 1, b, e, t)
  BY <1>1, <1>3, <1>6 DEF Layout, Places
<1> QED
  BY <1>9, <1>10, <1>11, <1>12, <1>13, <1>14, <1>16, <1>17 DEF Layout

(* The end line of a frame.                                                *)
EndLine(x, id, code) ==
  /\ Len(x) = 5 + Len(code)
  /\ x[1] = "nl" /\ x[2] = "E" /\ x[3] = id /\ x[4] = "sp"
  /\ \A j \in 1..Len(code) : x[4 + j] = code[j]
  /\ x[5 + Len(code)] = "nl"

(* What print_end writes is one.                                         *)
LEMMA EndLineOf ==
  ASSUME NEW id \in Requests, NEW code \in Seq(Codes)
  PROVE  EndLine(end_prefix(id) \o code \o <<"nl">>, id, code)
<1>1. code \in Seq(Tokens) /\ end_prefix(id) \in Seq(Tokens) /\ <<"nl">> \in Seq(Tokens)
  BY Written, SeqOfMore
<1>2. PICK a \in Seq(Tokens) : a = end_prefix(id)
  BY <1>1
<1>3. Len(a) = 4 /\ a[1] = "nl" /\ a[2] = "E" /\ a[3] = id /\ a[4] = "sp"
  BY <1>2 DEF end_prefix
<1>4. PICK z \in Seq(Tokens) : z = <<"nl">> /\ Len(z) = 1 /\ z[1] = "nl"
  BY <1>1
<1>5. PICK n \in Nat : n = Len(code)
  OBVIOUS
<1>6. /\ a \o code \in Seq(Tokens) /\ Len(a \o code) = Len(a) + Len(code)
      /\ \A j \in 1..(Len(a) + Len(code)) :
           (a \o code)[j] = IF j <= Len(a) THEN a[j] ELSE code[j - Len(a)]
  BY <1>1, ConcatProperties
<1>7. PICK c \in Seq(Tokens) : c = a \o code
  BY <1>6
<1>8. /\ Len(c) = 4 + n /\ c[1] = "nl" /\ c[2] = "E" /\ c[3] = id /\ c[4] = "sp"
  BY <1>3, <1>5, <1>6, <1>7
<1>9. ASSUME NEW j \in 1..n PROVE c[4 + j] = code[j]
  <2>1. 4 + j \in 1..(Len(a) + Len(code)) /\ ~(4 + j <= Len(a)) /\ 4 + j - Len(a) = j
    BY <1>3, <1>5
  <2> QED
    BY <1>6, <1>7, <2>1
<1>10. /\ c \o z \in Seq(Tokens) /\ Len(c \o z) = Len(c) + Len(z)
       /\ \A j \in 1..(Len(c) + Len(z)) :
            (c \o z)[j] = IF j <= Len(c) THEN c[j] ELSE z[j - Len(c)]
  BY ConcatProperties
<1>11. PICK x \in Seq(Tokens) : x = c \o z
  BY <1>10
<1>12. Len(x) = 5 + n /\ \A j \in 1..(4 + n) : x[j] = c[j]
  BY <1>4, <1>8, <1>10, <1>11
<1>13. x[1] = "nl" /\ x[2] = "E" /\ x[3] = id /\ x[4] = "sp"
  BY <1>8, <1>12
<1>14. \A j \in 1..n : x[4 + j] = code[j]
  <2> TAKE j \in 1..n
  <2>1. 4 + j \in 1..(4 + n)
    OBVIOUS
  <2> QED
    BY <1>9, <1>12, <2>1
<1>15. x[5 + n] = "nl"
  <2>1. 5 + n \in 1..(Len(c) + Len(z)) /\ ~(5 + n <= Len(c)) /\ 5 + n - Len(c) = 1
    BY <1>4, <1>8
  <2> QED
    BY <1>4, <1>10, <1>11, <2>1
<1>16. EndLine(x, id, code)
  BY <1>5, <1>12, <1>13, <1>14, <1>15 DEF EndLine
<1> QED
  BY <1>2, <1>4, <1>7, <1>11, <1>16

(* A frame ends.                                                           *)
LEMMA EndLayout ==
  ASSUME NEW F \in Seq(Tokens), NEW l, NEW outs, NEW q, NEW b, NEW e, NEW t,
         Layout(F, l, outs, q, b, e, t), NEW i \in 1..Len(l), q = 3 * i - 1,
         NEW x \in Seq(Tokens), EndLine(x, l[i], CodeOf(l, outs, i)),
         NEW G, Longer(F, x, G),
         NEW e2, e2 = [e EXCEPT ![i] = Len(F) + 1]
  PROVE  Layout(G, l, outs, q + 1, b, e2, t)
<1>1. /\ Len(F) \in Nat /\ l \in Seq(Requests) /\ Len(l) \in Nat /\ q \in Nat /\ t \in Nat
      /\ b \in [1..Len(l) -> Nat] /\ e \in [1..Len(l) -> Nat] /\ l[i] \in Requests
      /\ \A j \in 1..Len(l) : q >= 3 * j - 2 => b[j] >= 1 /\ b[j] + 3 <= Len(F)
      /\ \A j \in 1..Len(l) : q >= 3 * j - 1 =>
           CodeOf(l, outs, j) \in Seq(Codes) /\ Len(CodeOf(l, outs, j)) \in Nat
  BY LayoutTypes
<1>2. q >= 3 * i - 2 /\ q >= 3 * i - 1
  BY <1>1
<1>3. PICK code \in Seq(Codes) : code = CodeOf(l, outs, i)
  BY <1>1, <1>2
<1>4. PICK n \in Nat : n = Len(code)
  OBVIOUS
<1>5. /\ Len(x) = 5 + n /\ x[1] = "nl" /\ x[2] = "E" /\ x[3] = l[i] /\ x[4] = "sp"
      /\ \A j \in 1..n : x[4 + j] = code[j]
      /\ x[5 + n] = "nl"
  BY <1>3, <1>4 DEF EndLine
<1>6. l[i] \notin {"B", "E", "Z"} /\ \A j \in 1..n : code[j] \notin {"B", "E", "Z"}
  BY <1>1, <1>4, NoMarks DEF Marks
<1>7. /\ G \in Seq(Tokens) /\ Len(G) = Len(F) + (5 + n)
      /\ \A p \in 1..(5 + n) : G[Len(F) + p] = x[p]
      /\ \A p \in 1..Len(G) : p > Len(F) => p - Len(F) \in 1..(5 + n) /\ G[p] = x[p - Len(F)]
  BY <1>5 DEF Longer
<1>8. /\ e2 \in [1..Len(l) -> Nat] /\ e2[i] = Len(F) + 1
      /\ \A j \in 1..Len(l) : j # i => e2[j] = e[j]
  BY <1>1
<1>9. Agrees(l, q, outs, b, e, outs, b, e2)
  <2>1. \A j \in 1..Len(l) : q >= 3 * j => j # i
    BY <1>1
  <2>2. \A j \in 1..Len(l) : q >= 3 * j - 1 => l[j] \in DOMAIN outs
    BY DEF Layout, Ran
  <2> QED
    BY <1>8, <2>1, <2>2 DEF Agrees
<1>10. q # 3 * Len(l) + 1 /\ q < 3 * Len(l) + 1 /\ q + 1 \in 0..(3 * Len(l) + 1)
       /\ q + 1 # 3 * Len(l) + 1
  BY <1>1
<1>11. Carried(F, x, G, l, outs, q, b, outs, b, e2)
  BY <1>9, <1>10, Carry
<1>12. \A j \in 1..Len(l) : /\ q + 1 >= 3 * j - 2 <=> q >= 3 * j - 2
                            /\ q + 1 >= 3 * j - 1 <=> q >= 3 * j - 1
                            /\ q + 1 >= 3 * j <=> j = i \/ q >= 3 * j
                            /\ q + 1 # 3 * j - 2 /\ q + 1 # 3 * j - 1
  BY <1>1
<1>13. Ran(l, outs, q + 1)
  BY <1>11, <1>12 DEF Carried, Ran
<1>14. Begun(G, l, q + 1, b)
  BY <1>11, <1>12 DEF Carried, Begun
<1>15. PICK m \in Nat : m = Len(F) + 1 /\ m = e2[i] /\ m >= 1
  BY <1>1, <1>8
<1>16. EndsAt(G, l[i], code, m)
  <2>1. m + 4 + n <= Len(G)
    BY <1>1, <1>7, <1>15
  <2>2. m = Len(F) + 1 /\ m + 1 = Len(F) + 2 /\ m + 2 = Len(F) + 3 /\ m + 3 = Len(F) + 4
        /\ m + 4 + n = Len(F) + (5 + n)
    BY <1>1, <1>15
  <2>3. 1 \in 1..(5 + n) /\ 2 \in 1..(5 + n) /\ 3 \in 1..(5 + n) /\ 4 \in 1..(5 + n)
        /\ 5 + n \in 1..(5 + n)
    OBVIOUS
  <2>4. /\ G[m] = "nl" /\ G[m + 1] = "E" /\ G[m + 2] = l[i] /\ G[m + 3] = "sp"
        /\ G[m + 4 + n] = "nl"
    BY <1>5, <1>7, <2>2, <2>3
  <2>5. ASSUME NEW j \in 1..n PROVE G[m + 3 + j] = code[j]
    <3>1. m + 3 + j = Len(F) + (4 + j) /\ 4 + j \in 1..(5 + n)
      BY <1>1, <1>15
    <3> QED
      BY <1>5, <1>7, <3>1
  <2> QED
    BY <1>4, <2>1, <2>4, <2>5 DEF EndsAt
<1>17. PICK a \in Nat : a = b[i] + 4 /\ a <= m /\ a >= 1
  <2>1. b[i] \in Nat /\ b[i] >= 1 /\ b[i] + 3 <= Len(F)
    BY <1>1, <1>2
  <2> QED
    BY <1>1, <1>15, <2>1
<1>18. Own(SubSeq(G, a, m - 1)) = outs[l[i]].body
  <2>1. PartsStay(F, x, G)
    BY GrownParts
  <2>2. m - 1 = Len(F) /\ Len(F) <= Len(F)
    BY <1>1, <1>15
  <2>3. SubSeq(G, a, Len(F)) = SubSeq(F, a, Len(F))
    BY <1>1, <1>17, <2>1, <2>2 DEF PartsStay
  <2>4. Own(SubSeq(F, b[i] + 4, Len(F))) = outs[l[i]].body
    BY DEF Layout, Current
  <2> QED
    BY <1>17, <2>2, <2>3, <2>4
<1>19. Ended(G, l, outs, q + 1, b, e2)
  <2> SUFFICES ASSUME NEW j \in 1..Len(l), q + 1 >= 3 * j
               PROVE  /\ b[j] + 4 <= e2[j] /\ EndsAt(G, l[j], CodeOf(l, outs, j), e2[j])
                      /\ Own(SubSeq(G, b[j] + 4, e2[j] - 1)) = outs[l[j]].body
    BY DEF Ended
  <2>1. CASE j = i
    BY <1>3, <1>15, <1>16, <1>17, <1>18, <2>1
  <2>2. CASE q >= 3 * j
    BY <1>11, <2>2 DEF Carried, Ended
  <2> QED
    BY <1>12, <2>1, <2>2
<1>20. Ordered(l, outs, q + 1, b, e2)
  BY <1>11, <1>12 DEF Carried, Ordered
<1>21. Current(G, l, outs, q + 1, b)
  BY <1>12 DEF Current
<1>22. Closes(G, l, outs, q + 1, e2, t)
  BY <1>10 DEF Closes
<1>23. NewMarks(F, G, l, q + 1, b, e2, t)
  <2> SUFFICES ASSUME NEW p \in 1..Len(G), p > Len(F) PROVE Marked(G[p], p, l, q + 1, b, e2, t)
    BY DEF NewMarks
  <2>1. PICK k \in 1..(5 + n) : k = p - Len(F)
    BY <1>7
  <2>2. G[p] = x[k]
    BY <1>7, <2>1
  <2>3. CASE k = 2
    <3>1. p = e2[i] + 1 /\ q + 1 >= 3 * i
      BY <1>1, <1>8, <1>12, <2>1, <2>3
    <3> QED
      BY <1>5, <2>2, <2>3, <3>1 DEF Marked
  <2>4. CASE k # 2
    <3>1. x[k] \notin {"B", "E", "Z"}
      <4>1. k = 1 \/ k = 3 \/ k = 4 \/ k = 5 + n \/ k \in 5..(4 + n)
        BY <2>4
      <4>2. CASE k \in 5..(4 + n)
        <5>1. PICK j \in 1..n : k = 4 + j
          <6>1. k - 4 \in 1..n /\ k = 4 + (k - 4)
            BY <4>2
          <6> QED
            BY <6>1
        <5> QED
          BY <1>5, <1>6, <5>1
      <4> QED
        BY <1>5, <1>6, <4>1, <4>2
    <3> QED
      BY <2>2, <3>1 DEF Marked
  <2> QED
    BY <2>3, <2>4
<1>24. OnlyMarks(G, l, q + 1, b, e2, t)
  BY <1>1, <1>10, <1>11, <1>23, AllMarks
<1>25. Places(G, l, q + 1, b, e2, t)
  BY <1>1, <1>7, <1>8, <1>10 DEF Layout, Places
<1> QED
  BY <1>13, <1>14, <1>19, <1>20, <1>21, <1>22, <1>24, <1>25 DEF Layout

(* The terminator.                                                         *)
LEMMA TerminatorLayout ==
  ASSUME NEW F \in Seq(Tokens), NEW l, NEW outs, NEW q, NEW b, NEW e, NEW t,
         Layout(F, l, outs, q, b, e, t), q = 3 * Len(l),
         NEW x \in Seq(Tokens), x = terminator, NEW G, Longer(F, x, G),
         NEW t2 \in Nat, t2 = Len(F) + 1
  PROVE  Layout(G, l, outs, q + 1, b, e, t2)
<1>1. /\ Len(F) \in Nat /\ l \in Seq(Requests) /\ Len(l) \in Nat /\ q \in Nat
      /\ b \in [1..Len(l) -> Nat] /\ e \in [1..Len(l) -> Nat]
  BY LayoutTypes
<1>2. Len(x) = 3 /\ x[1] = "nl" /\ x[2] = "Z" /\ x[3] = "nl"
  BY DEF terminator
<1>3. /\ G \in Seq(Tokens) /\ Len(G) = Len(F) + 3
      /\ \A p \in 1..3 : G[Len(F) + p] = x[p]
      /\ \A p \in 1..Len(G) : p > Len(F) => p - Len(F) \in 1..3 /\ G[p] = x[p - Len(F)]
  BY <1>2 DEF Longer
<1>4. Agrees(l, q, outs, b, e, outs, b, e)
  BY DEF Layout, Ran, Agrees
<1>5. q # 3 * Len(l) + 1 /\ q < 3 * Len(l) + 1 /\ q + 1 \in 0..(3 * Len(l) + 1)
      /\ q + 1 = 3 * Len(l) + 1
  BY <1>1
<1>6. Carried(F, x, G, l, outs, q, b, outs, b, e)
  BY <1>4, <1>5, Carry
<1>7. \A j \in 1..Len(l) : /\ q >= 3 * j - 2 /\ q >= 3 * j - 1 /\ q >= 3 * j
                           /\ q + 1 # 3 * j - 2 /\ q + 1 # 3 * j - 1
  BY <1>1
<1>8. Ran(l, outs, q + 1) /\ Begun(G, l, q + 1, b)
  BY <1>6, <1>7 DEF Carried, Ran, Begun
<1>9. Ended(G, l, outs, q + 1, b, e)
  BY <1>6, <1>7 DEF Carried, Ended
<1>10. Ordered(l, outs, q + 1, b, e)
  BY <1>6, <1>7 DEF Carried, Ordered
<1>11. Current(G, l, outs, q + 1, b)
  BY <1>7 DEF Current
<1>12. Closes(G, l, outs, q + 1, e, t2)
  <2>1. ClosesAt(G, t2) /\ t2 >= 1
    <3>1. t2 + 2 <= Len(G) /\ t2 + 1 = Len(F) + 2 /\ t2 + 2 = Len(F) + 3 /\ t2 >= 1
      BY <1>1, <1>3
    <3> QED
      BY <1>2, <1>3, <3>1 DEF ClosesAt
  <2>2. \A i \in 1..Len(l) : After(l, outs, e, i) <= t2
    BY <1>6, <1>7 DEF Carried
  <2>3. \A p \in 1..Len(G) : ~(p > t2 + 2)
    BY <1>1, <1>3
  <2> QED
    BY <2>1, <2>2, <2>3 DEF Closes
<1>13. NewMarks(F, G, l, q + 1, b, e, t2)
  <2> SUFFICES ASSUME NEW p \in 1..Len(G), p > Len(F) PROVE Marked(G[p], p, l, q + 1, b, e, t2)
    BY DEF NewMarks
  <2>1. PICK k \in 1..3 : k = p - Len(F)
    BY <1>3
  <2>2. G[p] = x[k]
    BY <1>3, <2>1
  <2>3. CASE k = 2
    <3>1. p = t2 + 1
      BY <1>1, <2>1, <2>3
    <3> QED
      BY <1>2, <1>5, <2>2, <2>3, <3>1 DEF Marked
  <2>4. CASE k # 2
    <3>1. x[k] = "nl"
      BY <1>2, <2>4
    <3> QED
      BY <2>2, <3>1 DEF Marked
  <2> QED
    BY <2>3, <2>4
<1>14. OnlyMarks(G, l, q + 1, b, e, t2)
  BY <1>1, <1>5, <1>6, <1>13, AllMarks
<1>15. Places(G, l, q + 1, b, e, t2)
  BY <1>1, <1>3, <1>5 DEF Layout, Places
<1> QED
  BY <1>8, <1>9, <1>10, <1>11, <1>12, <1>14, <1>15 DEF Layout

(* A batch that has received the terminator has received the whole reply,  *)
(* and what is still to come is noise.                                     *)
LEMMA Received ==
  ASSUME NEW R \in Seq(Tokens), NEW w \in Seq(Tokens), NEW F \in Seq(Tokens), Longer(R, w, F),
         NEW l, NEW outs, NEW q, NEW b, NEW e, NEW t, Layout(F, l, outs, q, b, e, t),
         NEW p \in Nat, p >= 1, Stands(terminator, R, p)
  PROVE  /\ q = 3 * Len(l) + 1 /\ Complete(R, l, outs, b, e, t)
         /\ \A k \in 1..Len(w) : w[k] = "noise"
<1>1. /\ Len(F) = Len(R) + Len(w) /\ Len(R) \in Nat /\ Len(w) \in Nat /\ Len(F) \in Nat
      /\ \A k \in 1..Len(R) : F[k] = R[k]
      /\ \A k \in 1..Len(w) : F[Len(R) + k] = w[k]
  BY DEF Longer
<1>2. /\ Len(l) \in Nat /\ q \in Nat /\ t \in Nat
      /\ \A i \in 1..Len(l) : l[i] \in Requests /\ b[i] \in Nat /\ e[i] \in Nat
      /\ \A i \in 1..Len(l) : q >= 3 * i - 2 => b[i] >= 1
      /\ \A i \in 1..Len(l) : q >= 3 * i - 1 => Len(CodeOf(l, outs, i)) \in Nat
  BY LayoutTypes
<1>3. p + 2 <= Len(R) /\ R[p + 1] = "Z"
  <2>1. Len(terminator) = 3 /\ terminator[2] = "Z" /\ 2 \in 1..3
    BY DEF terminator
  <2>2. p + 3 - 1 <= Len(R) /\ R[p + 2 - 1] = "Z"
    BY <2>1 DEF Stands
  <2>3. p + 3 - 1 = p + 2 /\ p + 2 - 1 = p + 1
    OBVIOUS
  <2> QED
    BY <2>2, <2>3
<1>4. q = 3 * Len(l) + 1 /\ p = t
  <2>1. p + 1 \in 1..Len(R) /\ p + 1 \in 1..Len(F)
    BY <1>1, <1>3
  <2>2. F[p + 1] = "Z"
    BY <1>1, <1>3, <2>1
  <2>3. q = 3 * Len(l) + 1 /\ p + 1 = t + 1
    BY <2>1, <2>2 DEF Layout, OnlyMarks, Marked
  <2> QED
    BY <1>2, <2>3
<1>5. /\ t >= 1 /\ ClosesAt(F, t) /\ t + 2 <= Len(R)
      /\ \A i \in 1..Len(l) : After(l, outs, e, i) <= t
      /\ \A k \in 1..Len(F) : k > t + 2 => F[k] = "noise"
  BY <1>3, <1>4 DEF Layout, Closes
<1>6. \A i \in 1..Len(l) : /\ q >= 3 * i - 2 /\ q >= 3 * i - 1 /\ q >= 3 * i
                           /\ q # 3 * i - 2 /\ q # 3 * i - 1
  BY <1>2, <1>4
<1>7. ASSUME NEW i \in 1..Len(l)
      PROVE  /\ BeginsAt(R, l[i], b[i]) /\ b[i] >= 1 /\ b[i] + 4 <= e[i]
             /\ EndsAt(R, l[i], CodeOf(l, outs, i), e[i])
             /\ Own(SubSeq(R, b[i] + 4, e[i] - 1)) = outs[l[i]].body
  <2>1. PICK m \in Nat : m = b[i] /\ m >= 1
    BY <1>2, <1>6
  <2>2. PICK k \in Nat : k = e[i]
    BY <1>2
  <2>3. PICK n \in Nat : n = Len(CodeOf(l, outs, i))
    BY <1>2, <1>6
  <2>4. BeginsAt(F, l[i], m)
    BY <1>6, <2>1 DEF Layout, Begun
  <2>5. /\ m + 4 <= k /\ EndsAt(F, l[i], CodeOf(l, outs, i), k)
        /\ Own(SubSeq(F, m + 4, k - 1)) = outs[l[i]].body
    BY <1>6, <2>1, <2>2 DEF Layout, Ended
  <2>6. k + 5 + n <= t
    BY <1>5, <2>2, <2>3 DEF After
  <2>7. k + 4 + n <= Len(R) /\ m + 3 <= Len(R)
    <3>1. t + 2 <= Len(R) /\ Len(R) \in Nat /\ t \in Nat
      BY <1>1, <1>2, <1>5
    <3>2. m + 4 <= k
      BY <2>5
    <3> QED
      BY <2>6, <3>1, <3>2
  <2>8. BeginsAt(R, l[i], m)
    <3>1. m \in 1..Len(R) /\ m + 1 \in 1..Len(R) /\ m + 2 \in 1..Len(R) /\ m + 3 \in 1..Len(R)
      <4>1. m >= 1 /\ m + 3 <= Len(R) /\ Len(R) \in Nat
        BY <1>1, <2>1, <2>7
      <4> QED
        BY <4>1
    <3> QED
      BY <1>1, <2>4, <2>7, <3>1 DEF BeginsAt
  <2>9. EndsAt(R, l[i], CodeOf(l, outs, i), k)
    <3>1. /\ k \in 1..Len(R) /\ k + 1 \in 1..Len(R) /\ k + 2 \in 1..Len(R)
          /\ k + 3 \in 1..Len(R) /\ k + 4 + n \in 1..Len(R)
          /\ \A j \in 1..n : k + 3 + j \in 1..Len(R)
      BY <1>1, <2>5, <2>7
    <3>2. /\ F[k] = "nl" /\ F[k + 1] = "E" /\ F[k + 2] = l[i] /\ F[k + 3] = "sp"
          /\ \A j \in 1..n : F[k + 3 + j] = CodeOf(l, outs, i)[j]
          /\ F[k + 4 + n] = "nl"
      BY <2>3, <2>5 DEF EndsAt
    <3> QED
      BY <1>1, <2>3, <2>7, <3>1, <3>2 DEF EndsAt
  <2>10. SubSeq(R, m + 4, k - 1) = SubSeq(F, m + 4, k - 1)
    <3>1. PartsStay(R, w, F)
      BY GrownParts
    <3>2. PICK c \in Nat : c = k - 1 /\ c <= Len(R)
      BY <1>1, <2>5, <2>7
    <3>3. PICK a \in Nat : a = m + 4 /\ a >= 1
      OBVIOUS
    <3>4. SubSeq(F, a, c) = SubSeq(R, a, c)
      BY <3>1, <3>2, <3>3 DEF PartsStay
    <3> QED
      BY <3>2, <3>3, <3>4
  <2> QED
    BY <2>1, <2>2, <2>5, <2>8, <2>9, <2>10
<1>8. Ran(l, outs, q) /\ Ordered(l, outs, q, b, e)
  BY DEF Layout
<1>9. Begun(R, l, q, b) /\ Ended(R, l, outs, q, b, e)
  BY <1>7 DEF Begun, Ended
<1>10. Current(R, l, outs, q, b)
  BY <1>6 DEF Current
<1>11. Closes(R, l, outs, q, e, t)
  <2>1. ClosesAt(R, t)
    <3>1. t \in 1..Len(R) /\ t + 1 \in 1..Len(R) /\ t + 2 \in 1..Len(R)
      BY <1>1, <1>2, <1>5
    <3> QED
      BY <1>1, <1>5, <3>1 DEF ClosesAt
  <2>2. \A k \in 1..Len(R) : k > t + 2 => R[k] = "noise"
    BY <1>1, <1>5
  <2> QED
    BY <1>5, <2>1, <2>2 DEF Closes
<1>12. OnlyMarks(R, l, q, b, e, t)
  <2> SUFFICES ASSUME NEW k \in 1..Len(R) PROVE Marked(R[k], k, l, q, b, e, t)
    BY DEF OnlyMarks
  <2>1. k \in 1..Len(F) /\ F[k] = R[k]
    BY <1>1
  <2>2. Marked(F[k], k, l, q, b, e, t)
    BY <2>1 DEF Layout, OnlyMarks
  <2> QED
    BY <2>1, <2>2
<1>13. Places(R, l, q, b, e, t)
  BY DEF Layout, Places
<1>14. Layout(R, l, outs, q, b, e, t)
  BY <1>8, <1>9, <1>10, <1>11, <1>12, <1>13 DEF Layout
<1>15. ASSUME NEW k \in 1..Len(w) PROVE w[k] = "noise"
  <2>1. Len(R) + k \in 1..Len(F) /\ Len(R) + k > t + 2
    BY <1>1, <1>2, <1>5
  <2> QED
    BY <1>1, <1>5, <2>1
<1> QED
  BY <1>4, <1>14, <1>15 DEF Complete

(* A reply that has not begun.                                             *)
LEMMA NotBegun ==
  ASSUME NEW F \in Seq(Tokens), \A k \in 1..Len(F) : F[k] = "noise",
         NEW l \in Seq(Requests), Distinct(l), NEW outs
  PROVE  \E b, e, t : Layout(F, l, outs, 0, b, e, t)
<1> DEFINE b == [i \in 1..Len(l) |-> 0]
<1>1. Len(l) \in Nat /\ 0 \in 0..(3 * Len(l) + 1) /\ b \in [1..Len(l) -> Nat]
      /\ 0 # 3 * Len(l) + 1
  OBVIOUS
<1>2. \A i \in 1..Len(l) : /\ ~(0 >= 3 * i - 2) /\ ~(0 >= 3 * i - 1) /\ ~(0 >= 3 * i)
                           /\ 0 # 3 * i - 2 /\ 0 # 3 * i - 1
  BY <1>1
<1> HIDE DEF b
<1>3. Places(F, l, 0, b, b, 0)
  BY <1>1 DEF Places
<1>4. /\ Ran(l, outs, 0) /\ Begun(F, l, 0, b) /\ Ended(F, l, outs, 0, b, b)
      /\ Ordered(l, outs, 0, b, b) /\ Current(F, l, outs, 0, b)
  BY <1>2 DEF Ran, Begun, Ended, Ordered, Current
<1>5. Closes(F, l, outs, 0, b, 0)
  BY <1>1 DEF Closes
<1>6. OnlyMarks(F, l, 0, b, b, 0)
  BY DEF OnlyMarks, Marked
<1>7. Layout(F, l, outs, 0, b, b, 0)
  BY <1>3, <1>4, <1>5, <1>6 DEF Layout
<1> QED
  BY <1>7

(* The script.                                                             *)
Turn(l, n, step) ==
  \/ n = 3 * Len(l) + 1 /\ step = [do |-> "terminate"]
  \/ \E i \in 1..Len(l) :
       \/ n = 3 * i - 2 /\ step = [do |-> "begin", id |-> l[i]]
       \/ n = 3 * i - 1 /\ step = [do |-> "run", id |-> l[i]]
       \/ n = 3 * i /\ step = [do |-> "end", id |-> l[i]]

(* encode gives every frame its three commands, and the terminator.      *)
LEMMA EncodeTurns ==
  ASSUME NEW l \in Seq(Requests)
  PROVE  /\ Len(encode(l)) = 3 * Len(l) + 1
         /\ \A n \in 1..(3 * Len(l) + 1) : Turn(l, n, encode(l)[n])
<1> DEFINE N == Len(l)
           d(n) == ((n - 1) % 3) + 1
           p(n) == ((n - 1) \div 3) + 1
           at(n) == IF n > 3 * N THEN [do |-> "terminate"]
                    ELSE [do |-> <<"begin", "run", "end">>[d(n)], id |-> l[p(n)]]
<1>1. N \in Nat
  OBVIOUS
<1>2. encode(l) = [n \in 1..(3 * N + 1) |-> at(n)]
  BY DEF encode
<1>3. 3 * N + 1 \in Nat
  BY <1>1
<1>4. Len(encode(l)) = 3 * N + 1
  <2> HIDE DEF N, at
  <2> QED
    BY <1>2, <1>3
<1>5. ASSUME NEW n \in 1..(3 * N + 1) PROVE Turn(l, n, at(n))
  <2>1. CASE n > 3 * N
    <3>1. n = 3 * N + 1
      BY <1>1, <2>1
    <3> QED
      BY <2>1, <3>1 DEF Turn
  <2>2. CASE ~(n > 3 * N)
    <3>1. PICK i \in 1..N : i = p(n)
      BY <1>1, <2>2
    <3>2. d(n) \in {1, 2, 3} /\ n = 3 * i - 3 + d(n)
      BY <1>1, <3>1
    <3>3. at(n) = [do |-> <<"begin", "run", "end">>[d(n)], id |-> l[i]]
      BY <2>2, <3>1
    <3>4. \/ n = 3 * i - 2 /\ d(n) = 1
          \/ n = 3 * i - 1 /\ d(n) = 2
          \/ n = 3 * i /\ d(n) = 3
      <4> HIDE DEF d
      <4> QED
        BY <1>1, <3>2
    <3> HIDE DEF d, at
    <3>5. \/ n = 3 * i - 2 /\ at(n) = [do |-> "begin", id |-> l[i]]
          \/ n = 3 * i - 1 /\ at(n) = [do |-> "run", id |-> l[i]]
          \/ n = 3 * i /\ at(n) = [do |-> "end", id |-> l[i]]
      BY <3>3, <3>4
    <3> QED
      BY <3>5 DEF Turn
  <2> QED
    BY <2>1, <2>2
<1>6. \A n \in 1..(3 * N + 1) : encode(l)[n] = at(n)
  <2> HIDE DEF at
  <2> QED
    BY <1>2
<1> HIDE DEF at
<1> QED
  BY <1>4, <1>5, <1>6

(* What the shell has still to do after q commands, unless it died.        *)
ScriptAt(s, l, q) ==
  s # <<>> =>
    /\ q + Len(s) = 3 * Len(l) + 1
    /\ \A j \in 1..Len(s) : s[j] = encode(l)[q + j]

(* The next command is the one whose turn it is.                         *)
LEMMA ScriptGoesOn ==
  ASSUME NEW s \in Seq(Steps), s # <<>>, NEW l \in Seq(Requests), NEW q \in Nat,
         ScriptAt(s, l, q)
  PROVE  /\ q < 3 * Len(l) + 1 /\ Turn(l, q + 1, Head(s))
         /\ ScriptAt(Tail(s), l, q + 1)
<1>1. /\ Tail(s) \in Seq(Steps) /\ Len(Tail(s)) = Len(s) - 1
      /\ \A j \in 1..Len(Tail(s)) : Tail(s)[j] = s[j + 1]
  BY HeadTailProperties
<1>2. Len(s) \in Nat /\ Len(s) >= 1 /\ Head(s) = s[1] /\ Len(l) \in Nat
  OBVIOUS
<1>3. q + Len(s) = 3 * Len(l) + 1 /\ \A j \in 1..Len(s) : s[j] = encode(l)[q + j]
  BY DEF ScriptAt
<1>4. q < 3 * Len(l) + 1 /\ q + 1 \in 1..(3 * Len(l) + 1)
  BY <1>2, <1>3
<1>5. Turn(l, q + 1, Head(s))
  <2>1. Turn(l, q + 1, encode(l)[q + 1])
    BY <1>4, EncodeTurns
  <2>2. s[1] = encode(l)[q + 1]
    BY <1>2, <1>3
  <2> QED
    BY <1>2, <2>1, <2>2
<1>6. (q + 1) + Len(Tail(s)) = 3 * Len(l) + 1
  BY <1>1, <1>2, <1>3
<1>7. ASSUME NEW j \in 1..Len(Tail(s)) PROVE Tail(s)[j] = encode(l)[(q + 1) + j]
  <2>1. j + 1 \in 1..Len(s) /\ q + (j + 1) = (q + 1) + j
    BY <1>1, <1>2
  <2>2. s[j + 1] = encode(l)[q + (j + 1)]
    BY <1>3, <2>1
  <2> QED
    BY <1>1, <2>1, <2>2
<1>8. ScriptAt(Tail(s), l, q + 1)
  BY <1>6, <1>7 DEF ScriptAt
<1> QED
  BY <1>4, <1>5, <1>8

(* What a step of the script is.                                           *)
TurnIs(l, n, step) ==
  /\ step.do = "begin" => \E i \in 1..Len(l) : n = 3 * i - 2 /\ step.id = l[i]
  /\ step.do = "run" => \E i \in 1..Len(l) : n = 3 * i - 1 /\ step.id = l[i]
  /\ step.do = "end" => \E i \in 1..Len(l) : n = 3 * i /\ step.id = l[i]
  /\ step.do = "terminate" => n = 3 * Len(l) + 1

(* It is told by what it does.                                             *)
LEMMA TurnOf ==
  ASSUME NEW l \in Seq(Requests), NEW n \in Nat, NEW step, Turn(l, n, step)
  PROVE  TurnIs(l, n, step)
<1>1. CASE n = 3 * Len(l) + 1 /\ step = [do |-> "terminate"]
  BY <1>1 DEF TurnIs
<1>2. ASSUME NEW i \in 1..Len(l),
             \/ n = 3 * i - 2 /\ step = [do |-> "begin", id |-> l[i]]
             \/ n = 3 * i - 1 /\ step = [do |-> "run", id |-> l[i]]
             \/ n = 3 * i /\ step = [do |-> "end", id |-> l[i]]
      PROVE  \/ n = 3 * i - 2 /\ step.do = "begin" /\ step.id = l[i]
             \/ n = 3 * i - 1 /\ step.do = "run" /\ step.id = l[i]
             \/ n = 3 * i /\ step.do = "end" /\ step.id = l[i]
  BY <1>2
<1> QED
  BY <1>1, <1>2 DEF Turn, TurnIs

(* What the channel carries of the shell's output.                         *)
Text(w) == Without(w, Signals)

(* Signals leave no trace in it, and tokens stay.                        *)
LEMMA TextFacts ==
  /\ \A w \in Seq(Tokens \union Signals) : Text(w) \in Seq(Tokens)
  /\ \A w, x \in Seq(Tokens \union Signals) : Text(w \o x) = Text(w) \o Text(x)
  /\ \A x \in Seq(Tokens) : Text(x) = x
  /\ \A x \in Signals : Text(<<x>>) = <<>>
  /\ Text(<<>>) = <<>>
<1>1. Tokens \intersect Signals = {}
  <2>1. Marks \intersect Signals = {}
    BY DEF Marks, Signals
  <2> QED
    BY <2>1, BatchAssumption DEF Tokens
<1>2. (Tokens \union Signals) \ Signals = Tokens
  BY <1>1
<1>3. ASSUME NEW w \in Seq(Tokens \union Signals) PROVE Text(w) \in Seq(Tokens)
  <2>1. Without(w, Signals) \in Seq((Tokens \union Signals) \ Signals)
    BY WithoutType
  <2> QED
    BY <1>2, <2>1 DEF Text
<1>4. \A w, x \in Seq(Tokens \union Signals) : Text(w \o x) = Text(w) \o Text(x)
  BY WithoutConcat DEF Text
<1>5. ASSUME NEW x \in Seq(Tokens) PROVE Text(x) = x
  <2>1. \A i \in 1..Len(x) : x[i] \in Tokens
    OBVIOUS
  <2>2. \A i \in 1..Len(x) : x[i] \notin Signals
    BY <1>1, <2>1
  <2> QED
    BY <2>2, WithoutNone DEF Text
<1>6. ASSUME NEW x \in Signals PROVE Text(<<x>>) = <<>>
  <2>1. <<x>> \in Seq(Signals) /\ \A i \in 1..Len(<<x>>) : <<x>>[i] \in Signals
    OBVIOUS
  <2> QED
    BY <2>1, WithoutAll DEF Text
<1>7. Text(<<>>) = <<>>
  <2>1. <<>> \in Seq(Tokens)
    OBVIOUS
  <2> QED
    BY <1>5, <2>1
<1> QED
  BY <1>3, <1>4, <1>5, <1>6, <1>7

-----------------------------------------------------------------------------
(* The invariant behind a batch's answers.                                 *)

(* All that the shell has said to the batch, received or not, is the       *)
(* beginning of a reply: q commands of the script have run.                *)
Said == buf \o Text(wire)
Going(q, b, e, t) ==
  /\ Layout(Said, ids, printed, q, b, e, t)
  /\ ScriptAt(script, ids, q)
  /\ \A i \in 1..Len(ids) : q = 3 * i - 1 => sg = CodeOf(ids, printed, i)
(* Between batches the shell has nothing to do, and nothing of an earlier  *)
(* batch is on its way.                                                    *)
Quiet(w) == \A i \in 1..Len(Text(w)) : Text(w)[i] = "noise"

AInv ==
  /\ IInv
  /\ Distinct(ids)
  /\ phase = "down" => result.kind # "Ok"
  /\ phase \in {"idle", "writing"} => script = <<>> /\ Quiet(wire)
  /\ phase = "waiting" => \E q, b, e, t : Going(q, b, e, t)
  /\ OwnAnswers

(* The first state.                                                      *)
LEMMA InitAInv == Init => AInv
<1> SUFFICES ASSUME Init PROVE AInv
  OBVIOUS
<1>1. IInv
  BY InitIInv
<1>2. phase = "down" /\ ids = <<>> /\ result.kind = "none"
  BY DEF Init, Returned
<1>3. Distinct(ids)
  BY <1>2 DEF Distinct
<1> QED
  BY <1>1, <1>2, <1>3 DEF AInv, OwnAnswers

(* A batch that fails takes its session with it.                           *)
LEMMA FailAInv ==
  ASSUME AInv, IInv', NEW error \in Errors, drop(error)
  PROVE  AInv'
<1>1. phase' = "down" /\ result'.kind = error /\ ids' = ids
  BY DEF drop, Fail, Returned
<1>2. error # "Ok"
  BY DEF Errors
<1>3. Distinct(ids)'
  BY <1>1 DEF AInv
<1> QED
  BY <1>1, <1>2, <1>3 DEF AInv, OwnAnswers

(* The caller's steps.                                                     *)
LEMMA CallerAInv ==
  ASSUME AInv, IInv', connect \/ Caller \/ time_passes
  PROVE  AInv'
<1>t. TypeOK
  BY DEF AInv, IInv
<1>1. CASE connect
  <2>1. /\ phase' = "idle" /\ wire' = <<>> /\ script' = <<>> /\ result.kind # "Ok"
        /\ UNCHANGED <<ids, result>>
    BY <1>1 DEF connect, AInv
  <2>2. Quiet(wire)'
    BY <2>1, TextFacts DEF Quiet
  <2>3. Distinct(ids)'
    BY <2>1 DEF AInv
  <2> QED
    BY <2>1, <2>2, <2>3 DEF AInv, OwnAnswers
<1>2. ASSUME NEW requests \in Batches, batch(requests) PROVE AInv'
  <2>1. Distinct(frames(requests))
    BY BatchAssumption, FramesFacts
  <2>2. /\ phase = "idle" /\ ids' = frames(requests) /\ UNCHANGED <<script, wire>>
    BY <1>2 DEF batch
  <2>3. Distinct(ids)'
    BY <2>1, <2>2
  <2>4. script' = <<>> /\ Quiet(wire)'
    BY <2>2 DEF AInv
  <2>5. CASE ids' = <<>>
    <3>1. phase' = "idle" /\ result' = Returned("Ok", NoResponses)
      BY <1>2, <2>2, <2>5 DEF batch
    <3>2. result'.responses = NoResponses
      BY <3>1 DEF Returned
    <3>3. DOMAIN ids' = {}
      BY <2>5
    <3>4. DOMAIN NoResponses = {}
      BY DEF NoResponses
    <3>5. OwnAnswers'
      BY <3>2, <3>3, <3>4 DEF OwnAnswers
    <3> QED
      BY <2>3, <2>4, <3>1, <3>5 DEF AInv
  <2>6. CASE ids' # <<>>
    <3>1. phase' = "writing"
      BY <1>2, <2>6 DEF batch
    <3> QED
      BY <2>3, <2>4, <3>1 DEF AInv, OwnAnswers
  <2> QED
    BY <2>5, <2>6
<1>3. CASE raw_write
  <2>1. /\ phase = "writing" /\ phase' = "waiting" /\ script' = encode(ids)
        /\ UNCHANGED <<ids, buf, wire, sg, printed>>
    BY <1>3 DEF raw_write
  <2>2. buf = <<>> /\ Quiet(wire) /\ Distinct(ids)
    BY <2>1 DEF AInv, IInv
  <2>3. ids \in Seq(Requests) /\ wire \in Seq(Tokens \union Signals)
    BY <1>t DEF TypeOK
  <2>4. PICK F \in Seq(Tokens) : F = Text(wire)
    BY <2>3, TextFacts
  <2>5. <<>> \o F = F
    BY ConcatEmptySeq
  <2>6. \A k \in 1..Len(F) : F[k] = "noise"
    BY <2>2, <2>4 DEF Quiet
  <2>7. PICK b, e, t : Layout(F, ids, printed, 0, b, e, t)
    BY <2>2, <2>3, <2>6, NotBegun
  <2>8. Said' = F
    BY <2>1, <2>2, <2>4, <2>5 DEF Said
  <2>9. ScriptAt(encode(ids), ids, 0)
    <3>1. Len(encode(ids)) = 3 * Len(ids) + 1
      BY <2>3, EncodeTurns
    <3>2. Len(ids) \in Nat
      BY <2>3
    <3>3. \A j \in 1..Len(encode(ids)) : 0 + j = j
      BY <3>1, <3>2
    <3>4. 0 + (3 * Len(ids) + 1) = 3 * Len(ids) + 1
      BY <3>2
    <3> QED
      BY <3>1, <3>3, <3>4 DEF ScriptAt
  <2>10. \A i \in 1..Len(ids) : 0 # 3 * i - 1
    OBVIOUS
  <2>11. Going(0, b, e, t)'
    BY <2>1, <2>7, <2>8, <2>9, <2>10 DEF Going
  <2>12. Distinct(ids)'
    BY <2>1, <2>2
  <2> QED
    BY <2>1, <2>11, <2>12 DEF AInv, OwnAnswers
<1>4. CASE write_failed
  BY <1>4, FailAInv DEF write_failed, Errors
<1>5. CASE timed_out
  BY <1>5, FailAInv DEF timed_out, Errors
<1>6. CASE time_passes
  <2>1. UNCHANGED <<phase, ids, buf, result, script, sg, wire, printed>>
    BY <1>6 DEF time_passes, remote
  <2>2. /\ Distinct(ids)' /\ OwnAnswers' /\ Quiet(wire)' = Quiet(wire)
        /\ \A q, b, e, t : Going(q, b, e, t) => Going(q, b, e, t)'
    BY <2>1 DEF AInv, Distinct, OwnAnswers, Quiet, Going, Said
  <2> QED
    BY <2>1, <2>2 DEF AInv
<1> QED
  BY <1>1, <1>2, <1>3, <1>4, <1>5, <1>6 DEF Caller

(* The answers of a whole reply.                                           *)
Answered(r, l, outs) ==
  /\ DOMAIN r = {<<l[i]>> : i \in 1..Len(l)}
  /\ \A i \in 1..Len(l) : /\ r[<<l[i]>>].exit_code = outs[l[i]].exit_code
                           /\ Own(r[<<l[i]>>].body) = outs[l[i]].body

(* decode answers a whole reply so.                                      *)
LEMMA ReplyAnswers ==
  ASSUME NEW R, NEW l, NEW outs, NEW b, NEW e, NEW t, Complete(R, l, outs, b, e, t)
  PROVE  Answered(decode(R), l, outs)
<1>1. Found(decode(R), R, l, outs, b, e, 1)
  BY Decoded
<1>2. /\ DOMAIN decode(R) = {<<l[i]>> : i \in 1..Len(l)}
      /\ \A i \in 1..Len(l) : decode(R)[<<l[i]>>] = Answer(R, l, outs, b, e, i)
  BY <1>1 DEF Found
<1>3. ASSUME NEW i \in 1..Len(l)
      PROVE  /\ decode(R)[<<l[i]>>].exit_code = outs[l[i]].exit_code
             /\ Own(decode(R)[<<l[i]>>].body) = outs[l[i]].body
  <2>1. Own(SubSeq(R, b[i] + 4, e[i] - 1)) = outs[l[i]].body
    BY CompleteFacts DEF FrameOf
  <2>2. /\ Answer(R, l, outs, b, e, i).exit_code = CodeOf(l, outs, i)
        /\ Answer(R, l, outs, b, e, i).body = SubSeq(R, b[i] + 4, e[i] - 1)
    BY DEF Answer
  <2> QED
    BY <1>2, <2>1, <2>2 DEF CodeOf
<1> QED
  BY <1>2, <1>3 DEF Answered

(* Concatenation associates.                                               *)
LEMMA TokensAssociate ==
  \A s, t, u \in Seq(Tokens) : (s \o t) \o u = s \o (t \o u)
  BY ConcatAssociative

(* A packet is taken off the front of what is on its way.                  *)
LEMMA Packet ==
  ASSUME NEW u \in Seq(Tokens), NEW w \in Seq(Tokens \union Signals), NEW k \in Nat,
         k <= Len(w), \A i \in 1..k : w[i] \notin Signals
  PROVE  \E x \in Seq(Tokens), v \in Seq(Tokens \union Signals) :
           /\ x = SubSeq(w, 1, k) /\ v = SubSeq(w, k + 1, Len(w))
           /\ Text(v) \in Seq(Tokens) /\ u \o x \in Seq(Tokens)
           /\ u \o Text(w) = (u \o x) \o Text(v)
<1>1. /\ SubSeq(w, 1, k) \in Seq(Tokens) /\ SubSeq(w, k + 1, Len(w)) \in Seq(Tokens \union Signals)
  BY ChunkFacts
<1>2. PICK x \in Seq(Tokens) : x = SubSeq(w, 1, k)
  BY <1>1
<1>3. PICK v \in Seq(Tokens \union Signals) : v = SubSeq(w, k + 1, Len(w))
  BY <1>1
<1>4. x \o v = w
  <2>1. /\ 1 \in 1..(Len(w) + 1) /\ k \in (1 - 1)..Len(w) /\ Len(w) \in k..Len(w)
    OBVIOUS
  <2>2. SubSeq(w, 1, k) \o SubSeq(w, k + 1, Len(w)) = SubSeq(w, 1, Len(w))
    BY <2>1, ConcatAdjacentSubSeq
  <2>3. SubSeq(w, 1, Len(w)) = w
    BY SubSeqFull
  <2> QED
    BY <1>2, <1>3, <2>2, <2>3
<1>5. x \in Seq(Tokens \union Signals) /\ Text(x) = x /\ Text(v) \in Seq(Tokens)
  BY TextFacts, SeqOfMore
<1>6. Text(w) = x \o Text(v)
  <2>1. Text(x \o v) = Text(x) \o Text(v)
    BY <1>5, TextFacts
  <2> QED
    BY <1>4, <1>5, <2>1
<1>7. u \o (x \o Text(v)) = (u \o x) \o Text(v)
  <2>1. PICK y \in Seq(Tokens) : y = Text(v)
    BY <1>5
  <2>2. (u \o x) \o y = u \o (x \o y)
    BY TokensAssociate
  <2> QED
    BY <2>1, <2>2
<1>8. u \o x \in Seq(Tokens)
  BY ConcatProperties
<1> QED
  BY <1>2, <1>3, <1>5, <1>6, <1>7, <1>8

(* What the batch receives.                                                *)
LEMMA ReceiveAInv ==
  ASSUME AInv, IInv', receive
  PROVE  AInv'
<1>t. /\ wire \in Seq(Tokens \union Signals) /\ buf \in Seq(Tokens) /\ ids \in Seq(Requests)
      /\ script \in Seq(Steps)
  BY DEF AInv, IInv, TypeOK
<1>1. ASSUME NEW k \in Chunks, data(k) PROVE AInv'
  <2>1. CASE TooLarge(k)
    BY <1>1, <2>1, FailAInv DEF data, Errors
  <2>2. CASE ~TooLarge(k)
    <3>1. k \in Nat /\ k <= Len(wire) /\ \A i \in 1..k : wire[i] \notin Signals
      BY <1>1, BatchAssumption DEF data
    <3>2. PICK x \in Seq(Tokens), v \in Seq(Tokens \union Signals) :
            /\ x = SubSeq(wire, 1, k) /\ v = SubSeq(wire, k + 1, Len(wire))
            /\ Text(v) \in Seq(Tokens) /\ buf \o x \in Seq(Tokens)
            /\ buf \o Text(wire) = (buf \o x) \o Text(v)
      BY <1>t, <3>1, Packet
    <3>3. PICK R \in Seq(Tokens) : R = buf \o x
      BY <3>2
    <3>4. PICK w \in Seq(Tokens) : w = Text(v)
      BY <3>2
    <3>5. /\ wire' = v /\ phase = "waiting" /\ UNCHANGED <<ids, script, sg, printed>>
      BY <1>1, <2>2, <3>2 DEF data
    <3>6. IF find(terminator, R, SearchFrom) = 0
          THEN buf' = R /\ UNCHANGED <<phase, result>>
          ELSE buf' = <<>> /\ phase' = "idle" /\ result' = Returned("Ok", decode(R))
      BY <1>1, <2>2, <3>2, <3>3 DEF data
    <3>7. PICK q, b, e, t : Going(q, b, e, t)
      BY <3>5 DEF AInv
    <3>8. PICK F \in Seq(Tokens) : F = Said /\ F = R \o w
      <4>1. Said = R \o w
        BY <3>2, <3>3, <3>4 DEF Said
      <4>2. R \o w \in Seq(Tokens)
        BY ConcatProperties
      <4> QED
        BY <4>1, <4>2
    <3>9. Layout(F, ids, printed, q, b, e, t)
      BY <3>7, <3>8 DEF Going
    <3>10. Distinct(ids)'
      BY <3>5 DEF AInv
    <3>11. CASE find(terminator, R, SearchFrom) = 0
      <4>1. Said' = Said
        BY <3>4, <3>5, <3>6, <3>8, <3>11 DEF Said
      <4>2. Going(q, b, e, t)'
        BY <3>5, <3>7, <4>1 DEF Going
      <4>3. phase' = "waiting"
        BY <3>5, <3>6, <3>11
      <4> QED
        BY <3>10, <4>2, <4>3 DEF AInv, OwnAnswers
    <3>12. CASE find(terminator, R, SearchFrom) # 0
      <4>1. buf' = <<>> /\ phase' = "idle" /\ result' = Returned("Ok", decode(R))
        BY <3>6, <3>12
      <4>2. Longer(R, w, F)
        BY <3>8, Grown
      <4>3. PICK p \in Nat : p >= 1 /\ Stands(terminator, R, p)
        <5>1. SearchFrom \in Nat \ {0}
          BY <1>t, SearchFromFacts
        <5>2. ~(\A i \in Nat : i >= SearchFrom => ~Stands(terminator, R, i))
          BY <3>12, <5>1, Written, FindNothing
        <5> QED
          BY <5>1, <5>2
      <4>4. /\ q = 3 * Len(ids) + 1 /\ Complete(R, ids, printed, b, e, t)
            /\ \A i \in 1..Len(w) : w[i] = "noise"
        BY <3>9, <4>2, <4>3, Received
      <4>5. Quiet(wire)'
        BY <3>4, <3>5, <4>4 DEF Quiet
      <4>6. script' = <<>>
        <5>1. ScriptAt(script, ids, q)
          BY <3>7 DEF Going
        <5>2. Len(script) \in Nat /\ Len(ids) \in Nat
          BY <1>t
        <5>3. script # <<>> => q + Len(script) = 3 * Len(ids) + 1
          BY <5>1 DEF ScriptAt
        <5>4. script # <<>> => Len(script) # 0
          BY <1>t
        <5> QED
          BY <3>5, <4>4, <5>2, <5>3, <5>4
      <4>7. OwnAnswers'
        <5>0. Answered(decode(R), ids, printed)
          BY <4>4, ReplyAnswers
        <5>2. result'.responses = decode(R) /\ ids' = ids /\ printed' = printed
              /\ DOMAIN ids = 1..Len(ids)
          BY <1>t, <3>5, <4>1 DEF Returned
        <5>3. PICK r : r = decode(R)
          OBVIOUS
        <5>1. /\ DOMAIN r = {<<ids[i]>> : i \in 1..Len(ids)}
              /\ \A i \in 1..Len(ids) : /\ r[<<ids[i]>>].exit_code = printed[ids[i]].exit_code
                                         /\ Own(r[<<ids[i]>>].body) = printed[ids[i]].body
          BY <5>0, <5>3 DEF Answered
        <5>4. ASSUME NEW id \in DOMAIN r
              PROVE  /\ r[id].exit_code = printed[id[1]].exit_code
                     /\ Own(r[id].body) = printed[id[1]].body
          <6>1. PICK i \in 1..Len(ids) : id = <<ids[i]>>
            BY <5>1
          <6>2. id[1] = ids[i]
            BY <6>1
          <6> QED
            BY <5>1, <6>1, <6>2
        <5>5. DOMAIN r = {<<ids[i]>> : i \in DOMAIN ids}
          BY <5>1, <5>2
        <5> QED
          BY <5>2, <5>3, <5>4, <5>5 DEF OwnAnswers
      <4> QED
        BY <3>10, <4>1, <4>5, <4>6, <4>7 DEF AInv
    <3> QED
      BY <3>11, <3>12
  <2> QED
    BY <2>1, <2>2
<1>2. CASE extended_data
  <2>1. /\ phase = "waiting" /\ wire # <<>> /\ Head(wire) = "ExtendedData" /\ wire' = Tail(wire)
        /\ UNCHANGED <<phase, ids, buf, result, script, sg, printed>>
    BY <1>2 DEF extended_data, client
  <2>2. Text(Tail(wire)) = Text(wire)
    <3>1. Tail(wire) \in Seq(Tokens \union Signals) /\ Head(wire) = wire[1]
          /\ Tail(wire) = SubSeq(wire, 2, Len(wire)) /\ 1 \in 1..Len(wire)
          /\ Len(wire) \in 1..Len(wire)
      BY <1>t, <2>1, TailIsSubSeq
    <3>2. SubSeq(wire, 1, Len(wire)) = <<wire[1]>> \o SubSeq(wire, 1 + 1, Len(wire))
      BY <1>t, <3>1, SubSeqRecursiveFirst
    <3>3. SubSeq(wire, 1, Len(wire)) = wire
      BY <1>t, SubSeqFull
    <3>4. wire = <<"ExtendedData">> \o Tail(wire)
      BY <2>1, <3>1, <3>2, <3>3
    <3>5. "ExtendedData" \in Signals /\ <<"ExtendedData">> \in Seq(Tokens \union Signals)
      BY DEF Signals
    <3>6. Text(wire) = Text(<<"ExtendedData">>) \o Text(Tail(wire))
      BY <3>1, <3>4, <3>5, TextFacts
    <3>7. Text(<<"ExtendedData">>) = <<>> /\ Text(Tail(wire)) \in Seq(Tokens)
      BY <3>1, <3>5, TextFacts
    <3>8. <<>> \o Text(Tail(wire)) = Text(Tail(wire))
      BY <3>7, ConcatEmptySeq
    <3> QED
      BY <3>6, <3>7, <3>8
  <2>3. PICK q, b, e, t : Going(q, b, e, t)
    BY <2>1 DEF AInv
  <2>4. Said' = Said
    BY <2>1, <2>2 DEF Said
  <2>5. Going(q, b, e, t)'
    BY <2>1, <2>3, <2>4 DEF Going
  <2>6. Distinct(ids)' /\ phase' = "waiting"
    BY <2>1 DEF AInv
  <2> QED
    BY <2>5, <2>6 DEF AInv, OwnAnswers
<1>3. CASE closed
  BY <1>3, FailAInv DEF closed, Errors
<1> QED
  BY <1>1, <1>2, <1>3 DEF receive

(* More output, written.                                                   *)
LEMMA SaidGrows ==
  ASSUME TypeOK, NEW x \in Seq(Tokens), Write(x), buf' = buf
  PROVE  Said \in Seq(Tokens) /\ Longer(Said, x, Said')
<1>1. wire \in Seq(Tokens \union Signals) /\ buf \in Seq(Tokens)
  BY DEF TypeOK
<1>2. x \in Seq(Tokens \union Signals) /\ Text(x) = x /\ Text(wire) \in Seq(Tokens)
  BY <1>1, TextFacts, SeqOfMore
<1>3. Text(wire \o x) = Text(wire) \o x
  <2>1. Text(wire \o x) = Text(wire) \o Text(x)
    BY <1>1, <1>2, TextFacts
  <2> QED
    BY <1>2, <2>1
<1>4. buf \o (Text(wire) \o x) = (buf \o Text(wire)) \o x
  <2>1. PICK y \in Seq(Tokens) : y = Text(wire)
    BY <1>2
  <2>2. PICK u \in Seq(Tokens) : u = buf
    BY <1>1
  <2>3. (u \o y) \o x = u \o (y \o x)
    BY TokensAssociate
  <2> QED
    BY <2>1, <2>2, <2>3
<1>5. Said' = Said \o x
  BY <1>3, <1>4 DEF Said, Write
<1>6. Said \in Seq(Tokens)
  BY <1>1, <1>2, ConcatProperties DEF Said
<1>7. PICK F \in Seq(Tokens) : F = Said
  BY <1>6
<1>8. PICK G : G = F \o x
  OBVIOUS
<1>9. Longer(F, x, G)
  BY <1>8, Grown
<1> QED
  BY <1>5, <1>6, <1>7, <1>8, <1>9

(* A signal adds nothing to it.                                            *)
LEMMA SignalIsNoText ==
  ASSUME TypeOK, NEW x \in Signals, Write(<<x>>), buf' = buf
  PROVE  Text(wire') = Text(wire) /\ Said' = Said
<1>1. wire \in Seq(Tokens \union Signals) /\ <<x>> \in Seq(Tokens \union Signals)
  BY DEF TypeOK
<1>2. Text(wire \o <<x>>) = Text(wire) \o Text(<<x>>)
  BY <1>1, TextFacts
<1>3. Text(<<x>>) = <<>> /\ Text(wire) \in Seq(Tokens)
  BY <1>1, TextFacts
<1>4. Text(wire) \o <<>> = Text(wire)
  BY <1>3, ConcatEmptySeq
<1>5. Text(wire') = Text(wire)
  BY <1>2, <1>3, <1>4 DEF Write
<1> QED
  BY <1>5 DEF Said

(* One command of the script, of a batch that waits.                       *)
LEMMA ScriptStep ==
  ASSUME AInv, NEW step, Do(step)
  PROVE  /\ phase = "waiting" /\ TypeOK /\ UNCHANGED client /\ script' = Tail(script)
         /\ \E q, b, e, t :
              /\ q \in Nat /\ Going(q, b, e, t)
              /\ Turn(ids, q + 1, Head(script)) /\ Head(script).do = step
              /\ ScriptAt(Tail(script), ids, q + 1)
<1>1. /\ phase # "down" /\ script # <<>> /\ Head(script).do = step /\ script' = Tail(script)
      /\ UNCHANGED client
  BY DEF Do, Alive
<1>2. TypeOK
  BY DEF AInv, IInv
<1>3. phase = "waiting"
  BY <1>1, <1>2 DEF AInv, TypeOK, Phases
<1>4. PICK q, b, e, t : Going(q, b, e, t)
  BY <1>3 DEF AInv
<1>5. q \in Nat
  BY <1>4, LayoutTypes DEF Going
<1>6. script \in Seq(Steps) /\ ids \in Seq(Requests) /\ ScriptAt(script, ids, q)
  BY <1>2, <1>4 DEF TypeOK, Going
<1>7. Turn(ids, q + 1, Head(script)) /\ ScriptAt(Tail(script), ids, q + 1)
  BY <1>1, <1>5, <1>6, ScriptGoesOn
<1> QED
  BY <1>1, <1>2, <1>3, <1>4, <1>5, <1>7

(* The invariant after it, when the batch goes on.                         *)
LEMMA GoesOn ==
  ASSUME AInv, IInv', phase = "waiting", UNCHANGED client,
         NEW q, NEW b, NEW e, NEW t, Going(q, b, e, t)'
  PROVE  AInv'
<1>1. phase' = "waiting" /\ ids' = ids
  BY DEF client
<1>2. Distinct(ids)'
  BY <1>1 DEF AInv
<1> QED
  BY <1>1, <1>2 DEF AInv, OwnAnswers

(* The shell prints a begin line.                                        *)
LEMMA BeginAInv ==
  ASSUME AInv, IInv', print_begin
  PROVE  AInv'
<1>1. Do("begin") /\ Write(begin(Head(script).id)) /\ UNCHANGED <<sg, printed>>
  BY DEF print_begin
<1>2. phase = "waiting" /\ TypeOK /\ UNCHANGED client /\ script' = Tail(script)
  BY <1>1, ScriptStep
<1>3. PICK q, b, e, t :
        /\ q \in Nat /\ Going(q, b, e, t)
        /\ Turn(ids, q + 1, Head(script)) /\ Head(script).do = "begin"
        /\ ScriptAt(Tail(script), ids, q + 1)
  BY <1>1, ScriptStep
<1>a. q \in Nat /\ q + 1 \in Nat
  BY <1>3
<1>4. ids \in Seq(Requests) /\ ids' = ids /\ buf' = buf /\ Len(ids) \in Nat
  BY <1>2 DEF TypeOK, client
<1>b. TurnIs(ids, q + 1, Head(script))
  BY <1>a, <1>3, <1>4, TurnOf
<1>5. PICK i \in 1..Len(ids) : q + 1 = 3 * i - 2 /\ Head(script).id = ids[i]
  BY <1>3, <1>b DEF TurnIs
<1>6. PICK x \in Seq(Tokens) : x = begin(ids[i])
  BY <1>4, Written
<1>7. Said \in Seq(Tokens) /\ Longer(Said, x, Said')
  BY <1>1, <1>2, <1>4, <1>5, <1>6, SaidGrows
<1>8. PICK F \in Seq(Tokens) : F = Said
  BY <1>7
<1>9. PICK G : G = Said'
  OBVIOUS
<1>10. PICK b2 : b2 = [b EXCEPT ![i] = Len(F) + 1]
  OBVIOUS
<1>11. q = 3 * i - 3
  <2>1. q + 1 = 3 * i - 2
    BY <1>5
  <2> QED
    BY <1>a, <2>1
<1>12. Layout(F, ids, printed, q, b, e, t) /\ Longer(F, x, G)
  BY <1>3, <1>7, <1>8, <1>9 DEF Going
<1>13. Layout(G, ids, printed, q + 1, b2, e, t)
  BY <1>6, <1>10, <1>11, <1>12, BeginLayout
<1>14. \A j \in 1..Len(ids) : q + 1 # 3 * j - 1
  BY <1>4, <1>11
<1>15. Going(q + 1, b2, e, t)'
  BY <1>1, <1>2, <1>3, <1>4, <1>9, <1>13, <1>14 DEF Going
<1> QED
  BY <1>2, <1>15, GoesOn

(* The shell runs the command of a request.                              *)
LEMMA RunAInv ==
  ASSUME AInv, IInv', NEW output \in Outputs, run_command(output)
  PROVE  AInv'
<1>1. /\ Do("run") /\ Write(output.body) /\ sg' = output.exit_code
      /\ printed' = Put(printed, Head(script).id, output)
  BY DEF run_command
<1>2. phase = "waiting" /\ TypeOK /\ UNCHANGED client /\ script' = Tail(script)
  BY <1>1, ScriptStep
<1>3. PICK q, b, e, t :
        /\ q \in Nat /\ Going(q, b, e, t)
        /\ Turn(ids, q + 1, Head(script)) /\ Head(script).do = "run"
        /\ ScriptAt(Tail(script), ids, q + 1)
  BY <1>1, ScriptStep
<1>a. q \in Nat /\ q + 1 \in Nat
  BY <1>3
<1>4. ids \in Seq(Requests) /\ ids' = ids /\ buf' = buf /\ Len(ids) \in Nat
  BY <1>2 DEF TypeOK, client
<1>b. TurnIs(ids, q + 1, Head(script))
  BY <1>a, <1>3, <1>4, TurnOf
<1>5. PICK i \in 1..Len(ids) : q + 1 = 3 * i - 1 /\ Head(script).id = ids[i]
  BY <1>3, <1>b DEF TurnIs
<1>6. output \in Results
  BY BatchAssumption DEF Results
<1>7. output.body \in Seq({"x", "nl"})
  BY <1>6 DEF Results
<1>8. PICK x \in Seq(Tokens) : x = output.body
  BY <1>7, Written, SeqOfMore
<1>9. Said \in Seq(Tokens) /\ Longer(Said, x, Said')
  BY <1>1, <1>2, <1>4, <1>8, SaidGrows
<1>10. PICK F \in Seq(Tokens) : F = Said
  BY <1>9
<1>11. PICK G : G = Said'
  OBVIOUS
<1>12. PICK outs : outs = Put(printed, ids[i], output)
  OBVIOUS
<1>13. q = 3 * i - 2
  <2>1. q + 1 = 3 * i - 1
    BY <1>5
  <2> QED
    BY <1>a, <2>1
<1>14. Layout(F, ids, printed, q, b, e, t) /\ Longer(F, x, G)
  BY <1>3, <1>9, <1>10, <1>11 DEF Going
<1>15. Layout(G, ids, outs, q + 1, b, e, t)
  BY <1>6, <1>8, <1>12, <1>13, <1>14, RunLayout
<1>16. printed' = outs
  BY <1>1, <1>5, <1>12
<1>17. ASSUME NEW j \in 1..Len(ids), q + 1 = 3 * j - 1 PROVE sg' = CodeOf(ids, outs, j)
  <2>1. j = i
    BY <1>4, <1>13, <1>17
  <2>2. outs[ids[i]] = output
    BY <1>12 DEF Put
  <2> QED
    BY <1>1, <2>1, <2>2 DEF CodeOf
<1>18. Going(q + 1, b, e, t)'
  BY <1>2, <1>3, <1>4, <1>11, <1>15, <1>16, <1>17 DEF Going
<1> QED
  BY <1>2, <1>18, GoesOn

(* The shell prints an end line.                                         *)
LEMMA EndAInv ==
  ASSUME AInv, IInv', print_end
  PROVE  AInv'
<1>1. /\ Do("end") /\ UNCHANGED <<sg, printed>>
      /\ Write(end_prefix(Head(script).id) \o sg \o <<"nl">>)
  BY DEF print_end
<1>2. phase = "waiting" /\ TypeOK /\ UNCHANGED client /\ script' = Tail(script)
  BY <1>1, ScriptStep
<1>3. PICK q, b, e, t :
        /\ q \in Nat /\ Going(q, b, e, t)
        /\ Turn(ids, q + 1, Head(script)) /\ Head(script).do = "end"
        /\ ScriptAt(Tail(script), ids, q + 1)
  BY <1>1, ScriptStep
<1>a. q \in Nat /\ q + 1 \in Nat
  BY <1>3
<1>4. ids \in Seq(Requests) /\ ids' = ids /\ buf' = buf /\ Len(ids) \in Nat /\ sg \in Seq(Codes)
  BY <1>2 DEF TypeOK, client
<1>b. TurnIs(ids, q + 1, Head(script))
  BY <1>a, <1>3, <1>4, TurnOf
<1>5. PICK i \in 1..Len(ids) : q + 1 = 3 * i /\ Head(script).id = ids[i]
  BY <1>3, <1>b DEF TurnIs
<1>6. q = 3 * i - 1
  <2>1. q + 1 = 3 * i
    BY <1>5
  <2> QED
    BY <1>a, <2>1
<1>7. sg = CodeOf(ids, printed, i)
  BY <1>3, <1>6 DEF Going
<1>8. end_prefix(ids[i]) \o sg \o <<"nl">> \in Seq(Tokens)
  <2>1. end_prefix(ids[i]) \in Seq(Tokens) /\ sg \in Seq(Tokens) /\ <<"nl">> \in Seq(Tokens)
    BY <1>4, Written, SeqOfMore
  <2>2. end_prefix(ids[i]) \o sg \in Seq(Tokens)
    BY <2>1, ConcatProperties
  <2> QED
    BY <2>1, <2>2, ConcatProperties
<1>9. PICK x \in Seq(Tokens) : x = end_prefix(ids[i]) \o sg \o <<"nl">>
  BY <1>8
<1>10. EndLine(x, ids[i], CodeOf(ids, printed, i))
  <2>1. ids[i] \in Requests
    BY <1>4
  <2>2. EndLine(end_prefix(ids[i]) \o sg \o <<"nl">>, ids[i], sg)
    BY <1>4, <2>1, EndLineOf
  <2> QED
    BY <1>7, <1>9, <2>2
<1>11. Said \in Seq(Tokens) /\ Longer(Said, x, Said')
  BY <1>1, <1>2, <1>4, <1>5, <1>9, SaidGrows
<1>12. PICK F \in Seq(Tokens) : F = Said
  BY <1>11
<1>13. PICK G : G = Said'
  OBVIOUS
<1>14. PICK e2 : e2 = [e EXCEPT ![i] = Len(F) + 1]
  OBVIOUS
<1>15. Layout(F, ids, printed, q, b, e, t) /\ Longer(F, x, G)
  BY <1>3, <1>11, <1>12, <1>13 DEF Going
<1>16. Layout(G, ids, printed, q + 1, b, e2, t)
  BY <1>6, <1>10, <1>14, <1>15, EndLayout
<1>17. \A j \in 1..Len(ids) : q + 1 # 3 * j - 1
  BY <1>4, <1>6
<1>18. Going(q + 1, b, e2, t)'
  BY <1>1, <1>2, <1>3, <1>4, <1>13, <1>16, <1>17 DEF Going
<1> QED
  BY <1>2, <1>18, GoesOn

(* The shell prints the terminator.                                      *)
LEMMA TerminatorAInv ==
  ASSUME AInv, IInv', print_terminator
  PROVE  AInv'
<1>1. Do("terminate") /\ Write(terminator) /\ UNCHANGED <<sg, printed>>
  BY DEF print_terminator
<1>2. phase = "waiting" /\ TypeOK /\ UNCHANGED client /\ script' = Tail(script)
  BY <1>1, ScriptStep
<1>3. PICK q, b, e, t :
        /\ q \in Nat /\ Going(q, b, e, t)
        /\ Turn(ids, q + 1, Head(script)) /\ Head(script).do = "terminate"
        /\ ScriptAt(Tail(script), ids, q + 1)
  BY <1>1, ScriptStep
<1>a. q \in Nat /\ q + 1 \in Nat
  BY <1>3
<1>4. ids \in Seq(Requests) /\ ids' = ids /\ buf' = buf /\ Len(ids) \in Nat
  BY <1>2 DEF TypeOK, client
<1>b. TurnIs(ids, q + 1, Head(script))
  BY <1>a, <1>3, <1>4, TurnOf
<1>5. q + 1 = 3 * Len(ids) + 1
  BY <1>3, <1>b DEF TurnIs
<1>6. PICK x \in Seq(Tokens) : x = terminator
  BY Written
<1>7. Said \in Seq(Tokens) /\ Longer(Said, x, Said')
  BY <1>1, <1>2, <1>4, <1>6, SaidGrows
<1>8. PICK F \in Seq(Tokens) : F = Said
  BY <1>7
<1>9. PICK G : G = Said'
  OBVIOUS
<1>10. PICK t2 \in Nat : t2 = Len(F) + 1
  OBVIOUS
<1>11. q = 3 * Len(ids)
  <2>1. PICK n \in Nat : n = Len(ids)
    BY <1>4
  <2>2. q + 1 = 3 * n + 1
    BY <1>5, <2>1
  <2>3. q = 3 * n
    BY <1>a, <2>2
  <2> QED
    BY <2>1, <2>3
<1>12. Layout(F, ids, printed, q, b, e, t) /\ Longer(F, x, G)
  BY <1>3, <1>7, <1>8, <1>9 DEF Going
<1>13. Layout(G, ids, printed, q + 1, b, e, t2)
  BY <1>6, <1>10, <1>11, <1>12, TerminatorLayout
<1>14. \A j \in 1..Len(ids) : q + 1 # 3 * j - 1
  BY <1>4, <1>11
<1>15. Going(q + 1, b, e, t2)'
  BY <1>1, <1>2, <1>3, <1>4, <1>9, <1>13, <1>14 DEF Going
<1> QED
  BY <1>2, <1>15, GoesOn

(* The host may break, and print what belongs to no command, at any time.  *)
LEMMA OtherAInv ==
  ASSUME AInv, IInv', shell_dies \/ background_prints
  PROVE  AInv'
<1>1. /\ phase # "down" /\ UNCHANGED <<client, sg, printed>>
      /\ script' = <<>> \/ script' = script
  BY DEF shell_dies, background_prints, Alive
<1>2. TypeOK /\ UNCHANGED <<phase, ids, buf, result>>
  BY <1>1 DEF AInv, IInv, client
<1>3. \/ \E x \in Signals : Write(<<x>>)
      \/ Write(<<"noise">>) /\ script' = script
  BY DEF shell_dies, background_prints, Signals
<1>4. CASE phase = "waiting"
  <2>1. PICK q, b, e, t : Going(q, b, e, t)
    BY <1>4 DEF AInv
  <2>2. /\ Layout(Said, ids, printed, q, b, e, t)
        /\ \A i \in 1..Len(ids) : q = 3 * i - 1 => sg = CodeOf(ids, printed, i)
    BY <2>1 DEF Going
  <2>6. ScriptAt(script', ids, q)
    BY <1>1, <2>1 DEF Going, ScriptAt
  <2>7. ASSUME Layout(Said', ids, printed, q, b, e, t) PROVE Going(q, b, e, t)'
    <3>1. ids' = ids /\ printed' = printed /\ sg' = sg
      BY <1>1, <1>2
    <3> QED
      BY <2>2, <2>6, <2>7, <3>1 DEF Going
  <2>3. ASSUME NEW x \in Signals, Write(<<x>>) PROVE Going(q, b, e, t)'
    <3>1. Said' = Said
      BY <1>2, <2>3, SignalIsNoText
    <3> QED
      BY <2>2, <2>7, <3>1
  <2>4. ASSUME Write(<<"noise">>) PROVE Going(q, b, e, t)'
    <3>0. <<"noise">> \in Seq(Tokens)
      <4>1. "noise" \in Tokens
        BY DEF Tokens, Marks
      <4> QED
        BY <4>1
    <3>1. PICK x \in Seq(Tokens) : x = <<"noise">>
      BY <3>0
    <3>2. Said \in Seq(Tokens) /\ Longer(Said, x, Said')
      BY <1>2, <2>4, <3>1, SaidGrows
    <3>3. PICK F \in Seq(Tokens) : F = Said
      BY <3>2
    <3>4. PICK G : G = Said'
      OBVIOUS
    <3>5. Layout(F, ids, printed, q, b, e, t) /\ Longer(F, x, G)
      BY <2>2, <3>2, <3>3, <3>4
    <3>6. Layout(G, ids, printed, q, b, e, t)
      BY <3>1, <3>5, NoiseLayout
    <3> QED
      BY <2>7, <3>4, <3>6
  <2>5. Going(q, b, e, t)'
    <3>1. ASSUME \E x \in Signals : Write(<<x>>) PROVE Going(q, b, e, t)'
      BY <2>3, <3>1
    <3> QED
      BY <1>3, <2>4, <3>1
  <2> QED
    BY <1>1, <1>4, <2>5, GoesOn
<1>5. CASE phase \in {"idle", "writing"}
  <2>1. script = <<>> /\ Quiet(wire) /\ Distinct(ids)
    BY <1>5 DEF AInv
  <2>2. script' = <<>>
    BY <1>1, <2>1
  <2>3. ASSUME NEW x \in Signals, Write(<<x>>) PROVE Quiet(wire')
    <3>1. Text(wire') = Text(wire)
      BY <1>2, <2>3, SignalIsNoText
    <3> QED
      BY <2>1, <3>1 DEF Quiet
  <2>4. ASSUME Write(<<"noise">>) PROVE Quiet(wire')
    <3>1. wire \in Seq(Tokens \union Signals) /\ <<"noise">> \in Seq(Tokens)
          /\ <<"noise">> \in Seq(Tokens \union Signals)
      BY <1>2 DEF TypeOK, Tokens, Marks
    <3>2. PICK F \in Seq(Tokens) : F = Text(wire)
      BY <3>1, TextFacts
    <3>3. Text(wire \o <<"noise">>) = F \o <<"noise">>
      <4>1. Text(wire \o <<"noise">>) = Text(wire) \o Text(<<"noise">>)
        BY <3>1, TextFacts
      <4>2. Text(<<"noise">>) = <<"noise">>
        BY <3>1, TextFacts
      <4> QED
        BY <3>2, <4>1, <4>2
    <3>4. PICK x \in Seq(Tokens) : x = <<"noise">>
      BY <3>1
    <3>5. PICK G : G = F \o x
      OBVIOUS
    <3>6. Longer(F, x, G)
      BY <3>5, Grown
    <3>7. /\ Len(F) \in Nat /\ Len(x) = 1 /\ x[1] = "noise" /\ Len(G) = Len(F) + Len(x)
          /\ \A p \in 1..Len(F) : G[p] = F[p]
          /\ \A p \in 1..Len(G) : p > Len(F) => p - Len(F) \in 1..Len(x) /\ G[p] = x[p - Len(F)]
      BY <3>4, <3>6 DEF Longer
    <3>8. \A p \in 1..Len(F) : F[p] = "noise"
      BY <2>1, <3>2 DEF Quiet
    <3>9. ASSUME NEW p \in 1..Len(G) PROVE G[p] = "noise"
      <4>1. CASE p <= Len(F)
        BY <3>7, <3>8, <4>1
      <4>2. CASE p > Len(F)
        <5>1. p - Len(F) = 1
          BY <3>7, <4>2
        <5> QED
          BY <3>7, <4>2, <5>1
      <4> QED
        BY <3>7, <4>1, <4>2
    <3>10. Text(wire') = G
      BY <2>4, <3>3, <3>4, <3>5 DEF Write
    <3> QED
      BY <3>9, <3>10 DEF Quiet
  <2>5. Quiet(wire')
    <3>1. ASSUME \E x \in Signals : Write(<<x>>) PROVE Quiet(wire')
      BY <2>3, <3>1
    <3> QED
      BY <1>3, <2>4, <3>1
  <2>6. OwnAnswers'
    BY <1>1, <1>2 DEF AInv, OwnAnswers
  <2> QED
    BY <1>2, <1>5, <2>1, <2>2, <2>5, <2>6 DEF AInv
<1> QED
  BY <1>1, <1>2, <1>4, <1>5 DEF TypeOK, Phases

-----------------------------------------------------------------------------
(* The reply of a batch, at every point of it: what was received and what  *)
(* is on its way are together the beginning of one reply to this batch,    *)
(* with nothing of another one in it.                                      *)
THEOREM ReplyInvariant == Spec => []AInv
<1>1. IInv /\ [Next]_vars => IInv'
  BY SessionStep
<1>2. AInv /\ [Next]_vars => AInv'
  <2> SUFFICES ASSUME AInv, [Next]_vars PROVE AInv'
    OBVIOUS
  <2>1. IInv'
    BY <1>1 DEF AInv
  <2>2. CASE connect \/ Caller \/ time_passes
    BY <2>1, <2>2, CallerAInv
  <2>3. CASE receive
    BY <2>1, <2>3, ReceiveAInv
  <2>4. CASE Host
    BY <2>1, <2>4, BeginAInv, RunAInv, EndAInv, TerminatorAInv, OtherAInv DEF Host
  <2>5. CASE UNCHANGED vars
    <3>1. UNCHANGED <<phase, ids, buf, result, script, sg, wire, printed>>
      BY <2>5 DEF vars, client, remote
    <3>2. /\ Distinct(ids)' /\ OwnAnswers' /\ Quiet(wire)' = Quiet(wire)
          /\ \A q, b, e, t : Going(q, b, e, t) => Going(q, b, e, t)'
      BY <3>1 DEF AInv, Distinct, OwnAnswers, Quiet, Going, Said
    <3> QED
      BY <2>1, <3>1, <3>2 DEF AInv
  <2> QED
    BY <2>2, <2>3, <2>4, <2>5 DEF Next
<1> QED
  BY <1>2, InitAInv, PTL DEF Spec

(* A batch that succeeds answers each of its requests, once, with what     *)
(* that command printed and returned during this very batch: for any       *)
(* batches, outputs, exit codes and cuts of the reply, however often       *)
(* sessions broke before.                                                  *)
THEOREM AnswersAreOwn == Spec => []OwnAnswers
<1>1. AInv => OwnAnswers
  BY DEF AInv
<1> QED
  BY <1>1, ReplyInvariant, PTL

=============================================================================
