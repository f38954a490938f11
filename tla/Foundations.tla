---------------------------- MODULE Foundations -----------------------------
(***************************************************************************)
(* Lemmas that the proofs about several components rest on.                *)
(***************************************************************************)
EXTENDS Integers, Sequences, SequencesExt, SequenceTheorems, TLAPS, WellFoundedInduction

-----------------------------------------------------------------------------
(* Induction over the natural numbers, stated of sets: the theorems of     *)
(* NaturalsInduction take the property as an operator; here it is the set  *)
(* of the numbers that have it.                                            *)

\* The order of the natural numbers, as the relation the theorems on well-founded orders speak of.
LEMMA LessIsRelation == \A m, n \in Nat : m < n => <<m, n>> \in OpToRel(<, Nat)
BY DEF OpToRel

\* A well-founded relation that holds of every two numbers in their order.
LEMMA SomeRelation ==
    \E R : IsWellFoundedOn(R, Nat) /\ \A m, n \in Nat : m < n => <<m, n>> \in R
BY LessIsRelation, NatLessThanWellFounded, Zenon

\* Every set of natural numbers but the empty one has a least element.
LEMMA LeastNatural ==
    ASSUME NEW T, T \subseteq Nat, T # {}
    PROVE  \E x \in T : \A y \in T : x <= y
<1>1. PICK R : IsWellFoundedOn(R, Nat) /\ \A m, n \in Nat : m < n => <<m, n>> \in R
  BY SomeRelation
<1>2. \E x \in T : \A y \in T : ~ (<<y, x>> \in R)
  <2>1. IsWellFoundedOn(R, Nat)
    BY <1>1
  <2> QED
    BY <2>1, WFMin, Zenon
<1>3. PICK x \in T : \A y \in T : ~ (<<y, x>> \in R)
  BY <1>2
<1>4. \A y \in T : ~(y < x)
  BY <1>3, <1>1
<1> QED
  BY <1>4, <1>3

\* What holds of 0 and passes from a number to the next up to k holds up to k.
LEMMA IntervalInduction ==
    ASSUME NEW k \in Nat, NEW S, 0 \in S, \A n \in 0 .. k - 1 : n \in S => n + 1 \in S
    PROVE  0 .. k \subseteq S
<1> DEFINE T == (0 .. k) \ S
<1> SUFFICES ASSUME T # {} PROVE FALSE
  OBVIOUS
<1>1. PICK x \in T : \A y \in T : x <= y
  <2>1. T \subseteq Nat
    OBVIOUS
  <2> HIDE DEF T
  <2> QED
    BY <2>1, LeastNatural
<1>2. x # 0
  OBVIOUS
<1>3. x - 1 \in 0 .. k - 1 /\ x - 1 \in S
  BY <1>1, <1>2
<1> QED
  BY <1>3

\* w is the function on 0 .. k whose values are in V, that begins with a and goes on with G.
Recursion(k, V, a, G, w) ==
    w \in [0 .. k -> V] /\ w[0] = a /\ \A n \in 1 .. k : w[n] = G[w[n - 1]]

\* Such a function exists.
LEMMA IntervalRecursion ==
    ASSUME NEW k \in Nat, NEW V, NEW a \in V, NEW G \in [V -> V]
    PROVE  \E w : Recursion(k, V, a, G, w)
<1> DEFINE S == {m \in 0 .. k : \E w : Recursion(m, V, a, G, w)}
<1>1. 0 \in S
  <2>1. Recursion(0, V, a, G, [i \in 0 .. 0 |-> a])
    BY DEF Recursion
  <2> QED
    BY <2>1
<1>2. ASSUME NEW m \in 0 .. k - 1, m \in S
      PROVE  m + 1 \in S
  <2>1. PICK w : Recursion(m, V, a, G, w)
    BY <1>2
  <2> DEFINE v == [i \in 0 .. m + 1 |-> IF i <= m THEN w[i] ELSE G[w[m]]]
  <2>2. Recursion(m + 1, V, a, G, v)
    <3>1. v \in [0 .. m + 1 -> V]
      BY <2>1 DEF Recursion
    <3>2. v[0] = a /\ \A n \in 1 .. m + 1 : v[n] = G[v[n - 1]]
      BY <2>1 DEF Recursion
    <3> HIDE DEF v
    <3> QED
      BY <3>1, <3>2 DEF Recursion
  <2> HIDE DEF v
  <2> QED
    BY <2>2
<1>3. 0 .. k \subseteq S
  <2> HIDE DEF S
  <2> QED
    BY <1>1, <1>2, IntervalInduction
<1> QED
  BY <1>3

-----------------------------------------------------------------------------
(* What the two edits of a list do to length and elements.                 *)

\* Insertion as do_insert and iptc_insert_chain perform it: one entry longer, the new
\* entry at place k, what stood from k on moved up by one.
LEMMA InsertAtProperties ==
  ASSUME NEW S, NEW s \in Seq(S), NEW k \in 1 .. Len(s) + 1, NEW e \in S
  PROVE  /\ InsertAt(s, k, e) \in Seq(S)
         /\ Len(InsertAt(s, k, e)) = Len(s) + 1
         /\ \A i \in 1 .. Len(s) + 1 :
              InsertAt(s, k, e)[i] = IF i < k THEN s[i] ELSE IF i = k THEN e ELSE s[i - 1]
  <1> DEFINE a == SubSeq(s, 1, k - 1)
             b == SubSeq(s, k, Len(s))
  <1>0. Len(s) \in Nat BY LenProperties
  <1>1. a \in Seq(S) /\ Len(a) = k - 1 /\ \A i \in 1 .. k - 1 : a[i] = s[i]
    BY <1>0, SubSeqProperties
  <1>2. b \in Seq(S) /\ Len(b) = Len(s) - k + 1 /\ \A i \in 1 .. Len(s) - k + 1 : b[i] = s[k + i - 1]
    BY <1>0, SubSeqProperties
  <1>3. <<e>> \in Seq(S) /\ Len(<<e>>) = 1 /\ <<e>>[1] = e
    OBVIOUS
  <1> DEFINE c == a \o <<e>>
  <1>4. c \in Seq(S) /\ Len(c) = k /\ \A i \in 1 .. k : c[i] = IF i < k THEN s[i] ELSE e
    <2> HIDE DEF a
    <2> QED BY <1>1, <1>3, ConcatProperties
  <1>5. InsertAt(s, k, e) = c \o b
    BY DEF InsertAt
  <1>6. c \o b \in Seq(S) /\ Len(c \o b) = Len(s) + 1
        /\ \A i \in 1 .. Len(s) + 1 : (c \o b)[i] = IF i <= k THEN c[i] ELSE b[i - k]
    <2> HIDE DEF a, b, c
    <2>1. c \in Seq(S) /\ b \in Seq(S) /\ Len(c) = k /\ Len(b) = Len(s) - k + 1
      BY <1>2, <1>4
    <2>2. c \o b \in Seq(S) /\ Len(c \o b) = Len(c) + Len(b)
          /\ \A i \in 1 .. Len(c) + Len(b) :
               (c \o b)[i] = IF i <= Len(c) THEN c[i] ELSE b[i - Len(c)]
      BY <2>1, ConcatProperties
    <2> QED BY <1>0, <2>1, <2>2
  <1> HIDE DEF a, b, c
  <1> QED BY <1>0, <1>2, <1>4, <1>5, <1>6

\* The same, of the list that results.
Inserts(s, k, e, t) ==
    /\ Len(t) = Len(s) + 1
    /\ \A i \in 1 .. Len(s) + 1 : t[i] = IF i < k THEN s[i] ELSE IF i = k THEN e ELSE s[i - 1]

LEMMA InsertAtInserts ==
  ASSUME NEW S, NEW s \in Seq(S), NEW k \in 1 .. Len(s) + 1, NEW e \in S
  PROVE  InsertAt(s, k, e) \in Seq(S) /\ Inserts(s, k, e, InsertAt(s, k, e))
BY InsertAtProperties DEF Inserts

\* Removal as list_del performs it: one entry shorter, what stood behind place k
\* moved down by one.
LEMMA RemoveAtProperties ==
  ASSUME NEW S, NEW s \in Seq(S), NEW k \in 1 .. Len(s)
  PROVE  /\ RemoveAt(s, k) \in Seq(S)
         /\ Len(RemoveAt(s, k)) = Len(s) - 1
         /\ \A i \in 1 .. Len(s) - 1 :
              RemoveAt(s, k)[i] = IF i < k THEN s[i] ELSE s[i + 1]
  <1> DEFINE a == SubSeq(s, 1, k - 1)
             b == SubSeq(s, k + 1, Len(s))
  <1>0. Len(s) \in Nat BY LenProperties
  <1>1. a \in Seq(S) /\ Len(a) = k - 1 /\ \A i \in 1 .. k - 1 : a[i] = s[i]
    BY <1>0, SubSeqProperties
  <1>2. b \in Seq(S) /\ Len(b) = Len(s) - k /\ \A i \in 1 .. Len(s) - k : b[i] = s[k + i]
    BY <1>0, SubSeqProperties
  <1>3. RemoveAt(s, k) = a \o b
    BY DEF RemoveAt
  <1>4. a \o b \in Seq(S) /\ Len(a \o b) = Len(a) + Len(b)
        /\ \A i \in 1 .. Len(a) + Len(b) :
             (a \o b)[i] = IF i <= Len(a) THEN a[i] ELSE b[i - Len(a)]
    <2> HIDE DEF a, b
    <2> QED BY <1>1, <1>2, ConcatProperties
  <1> HIDE DEF a, b
  <1>5. Len(a) = k - 1 /\ Len(b) = Len(s) - k /\ Len(a) + Len(b) = Len(s) - 1
    BY <1>0, <1>1, <1>2
  <1>6. ASSUME NEW i \in 1 .. Len(s) - 1
        PROVE  (a \o b)[i] = IF i < k THEN s[i] ELSE s[i + 1]
    <2>1. (a \o b)[i] = IF i <= Len(a) THEN a[i] ELSE b[i - Len(a)]
      BY <1>4, <1>5
    <2>2. CASE i < k
      <3>1. i \in 1 .. k - 1 /\ i <= Len(a)
        BY <1>0, <1>5, <2>2
      <3> QED
        BY <1>1, <2>1, <2>2, <3>1
    <2>3. CASE ~(i < k)
      <3>1. i - Len(a) \in 1 .. Len(s) - k /\ ~(i <= Len(a)) /\ k + (i - Len(a)) = i + 1
        BY <1>0, <1>5, <2>3
      <3> QED
        BY <1>2, <2>1, <2>3, <3>1
    <2> QED
      BY <2>2, <2>3
  <1>7. RemoveAt(s, k) \in Seq(S) /\ Len(RemoveAt(s, k)) = Len(s) - 1
    BY <1>3, <1>4, <1>5
  <1> QED BY <1>3, <1>6, <1>7

\* A function on 0 .. k that begins with a and whose n-th value G makes of n and the value before.
StepsOf(k, V, a, G, w) ==
    w \in [0 .. k -> V] /\ w[0] = a /\ \A n \in 1 .. k : w[n] = G[<<n, w[n - 1]>>]

\* A recursion over an interval whose step depends on the place has a solution.
LEMMA StepRecursion ==
    ASSUME NEW k \in Nat, NEW V, NEW a \in V, NEW G \in [(1 .. k) \X V -> V]
    PROVE  \E w : StepsOf(k, V, a, G, w)
<1>0. \A n \in 1 .. k, v \in V : G[<<n, v>>] \in V
  OBVIOUS
<1> DEFINE U == (0 .. k) \X V
           F(u) == IF u[1] < k THEN <<u[1] + 1, G[<<u[1] + 1, u[2]>>]>> ELSE u
           H == [u \in U |-> F(u)]
<1>1. <<0, a>> \in U
  OBVIOUS
<1>2. H \in [U -> U]
  <2> SUFFICES ASSUME NEW n \in 0 .. k, NEW v \in V PROVE F(<<n, v>>) \in U
    OBVIOUS
  <2>1. CASE n < k
    <3>1. n + 1 \in 1 .. k /\ n + 1 \in 0 .. k
      BY <2>1
    <3>2. G[<<n + 1, v>>] \in V
      BY <3>1, <1>0
    <3>3. F(<<n, v>>) = <<n + 1, G[<<n + 1, v>>]>>
      BY <2>1
    <3> HIDE DEF F
    <3> QED
      BY <3>1, <3>2, <3>3
  <2>2. CASE ~(n < k)
    BY <2>2
  <2> QED
    BY <2>1, <2>2
<1>3. PICK x : x \in [0 .. k -> U] /\ x[0] = <<0, a>> /\ \A n \in 1 .. k : x[n] = H[x[n - 1]]
  <2>1. PICK u : u = <<0, a>>
    OBVIOUS
  <2> HIDE DEF U, H
  <2>2. \E x : Recursion(k, U, u, H, x)
    BY <1>1, <1>2, <2>1, IntervalRecursion
  <2> QED
    BY <2>1, <2>2 DEF Recursion
<1>4. \A n \in 1 .. k : x[n] = F(x[n - 1])
  <2> TAKE n \in 1 .. k
  <2>1. n - 1 \in 0 .. k
    OBVIOUS
  <2>2. x[n - 1] \in U
    BY <1>3, <2>1
  <2> HIDE DEF U
  <2> QED
    BY <1>3, <2>2
<1> DEFINE S == {n \in 0 .. k : x[n][1] = n}
<1>5. 0 .. k \subseteq S
  <2>1. 0 \in S
    BY <1>3
  <2>2. \A n \in 0 .. k - 1 : n \in S => n + 1 \in S
    <3> SUFFICES ASSUME NEW n \in 0 .. k - 1, x[n][1] = n PROVE x[n + 1][1] = n + 1
      OBVIOUS
    <3>1. n + 1 \in 1 .. k /\ (n + 1) - 1 = n /\ n < k
      OBVIOUS
    <3>2. x[n + 1] = F(x[n])
      BY <1>4, <3>1
    <3> QED
      BY <3>1, <3>2
  <2> HIDE DEF S
  <2> QED
    BY <2>1, <2>2, IntervalInduction
<1> DEFINE w == [n \in 0 .. k |-> x[n][2]]
<1>6. w \in [0 .. k -> V] /\ w[0] = a
  BY <1>3
<1>7. ASSUME NEW n \in 1 .. k
      PROVE  w[n] = G[<<n, w[n - 1]>>]
  <2>1. n - 1 \in 0 .. k /\ n \in 0 .. k /\ (n - 1) + 1 = n /\ n - 1 < k
    OBVIOUS
  <2>2. x[n - 1][1] = n - 1
    BY <1>5, <2>1
  <2>3. x[n] = F(x[n - 1])
    BY <1>4
  <2>4. x[n] = <<n, G[<<n, x[n - 1][2]>>]>>
    BY <2>1, <2>2, <2>3
  <2> QED
    BY <2>1, <2>4
<1>8. StepsOf(k, V, a, G, w)
  <2> HIDE DEF w
  <2> QED
    BY <1>6, <1>7 DEF StepsOf
<1> QED
  BY <1>8

\* Numbers that grow from place to place.
LEMMA Growing ==
    ASSUME NEW k \in Nat, NEW o \in [0 .. k -> Nat], \A i \in 1 .. k : o[i - 1] <= o[i]
    PROVE  \A i, m \in 0 .. k : i <= m => o[i] <= o[m]
<1> SUFFICES ASSUME NEW i \in 0 .. k
             PROVE  \A m \in 0 .. k : i <= m => o[i] <= o[m]
  OBVIOUS
<1> DEFINE T == {l \in 0 .. k : i <= l => o[i] <= o[l]}
<1>1. 0 \in T
  OBVIOUS
<1>2. \A l \in 0 .. k - 1 : l \in T => l + 1 \in T
  <2> SUFFICES ASSUME NEW l \in 0 .. k - 1, i <= l => o[i] <= o[l], i <= l + 1
               PROVE o[i] <= o[l + 1]
    OBVIOUS
  <2>1. l + 1 \in 1 .. k /\ (l + 1) - 1 = l /\ l + 1 \in 0 .. k /\ l \in 0 .. k
    OBVIOUS
  <2>2. o[l] <= o[l + 1] /\ o[l] \in Nat /\ o[l + 1] \in Nat /\ o[i] \in Nat
    BY <2>1
  <2>3. i <= l \/ i = l + 1
    OBVIOUS
  <2> QED
    BY <2>2, <2>3
<1> HIDE DEF T
<1>3. 0 .. k \subseteq T
  BY <1>1, <1>2, IntervalInduction
<1> QED
  BY <1>3 DEF T

-----------------------------------------------------------------------------
(* FlattenSeq.                                                             *)

Parts(V, n, ss) == n \in Nat /\ ss \in [1 .. n -> Seq(V)] /\ Len(ss) = n

\* off[i] is the place after the i-th part.
EndsOf(n, ss, off) ==
    /\ off \in [0 .. n -> Nat] /\ off[0] = 1
    /\ \A i \in 1 .. n : off[i] = off[i - 1] + Len(ss[i])

\* f is the first m parts in their order.
Joined(V, ss, off, m, f) ==
    /\ f \in Seq(V) /\ Len(f) = off[m] - 1
    /\ \A i \in 1 .. m : off[i] <= off[m]
    /\ \A i \in 1 .. m : \A j \in 1 .. Len(ss[i]) : f[off[i - 1] + j - 1] = ss[i][j]

\* The parts and where they end.
LEMMA PartFacts ==
    ASSUME NEW V, NEW n, NEW ss, NEW off, Parts(V, n, ss), EndsOf(n, ss, off), NEW i, i \in 1 .. n
    PROVE  /\ ss[i] \in Seq(V) /\ Len(ss[i]) \in Nat /\ i \in Nat
           /\ off[i] = off[i - 1] + Len(ss[i])
           /\ off[i - 1] \in Nat /\ off[i] \in Nat /\ i - 1 \in 0 .. n - 1
BY DEF Parts, EndsOf

\* The ends are in the order of the parts.
LEMMA EndsGrow ==
    ASSUME NEW V, NEW n, NEW ss, NEW off, Parts(V, n, ss), EndsOf(n, ss, off)
    PROVE  \A i, m \in 0 .. n : i <= m => off[i] <= off[m]
<1>1. n \in Nat /\ off \in [0 .. n -> Nat]
  BY DEF Parts, EndsOf
<1>2. \A i \in 1 .. n : off[i - 1] <= off[i]
  <2> TAKE i \in 1 .. n
  <2>1. off[i] = off[i - 1] + Len(ss[i]) /\ off[i - 1] \in Nat /\ Len(ss[i]) \in Nat
    BY PartFacts
  <2> QED
    BY <2>1
<1> QED
  BY <1>1, <1>2, Growing

\* No part ends before it begins.
LEMMA EndsPositive ==
    ASSUME NEW V, NEW n, NEW ss, NEW off, Parts(V, n, ss), EndsOf(n, ss, off)
    PROVE  \A i \in 0 .. n : off[i] >= 1
<1>1. n \in Nat /\ off[0] = 1 /\ \A i \in 0 .. n : off[i] \in Nat
  BY DEF Parts, EndsOf
<1>2. \A i \in 0 .. n : 0 \in 0 .. n /\ 0 <= i
  BY <1>1
<1>3. \A i \in 0 .. n : off[0] <= off[i]
  BY <1>2, EndsGrow
<1> QED
  BY <1>1, <1>3

\* The first part alone.
LEMMA JoinFirst ==
    ASSUME NEW V, NEW n, NEW ss, NEW off, Parts(V, n, ss), EndsOf(n, ss, off), 1 \in 1 .. n
    PROVE  Joined(V, ss, off, 1, ss[1])
<1>1. /\ ss[1] \in Seq(V) /\ Len(ss[1]) \in Nat /\ off[1] = off[1 - 1] + Len(ss[1]) /\ off[1] \in Nat
  BY PartFacts
<1>2. off[0] = 1 /\ 1 - 1 = 0
  BY DEF EndsOf
<1>3. off[1] = 1 + Len(ss[1])
  BY <1>1, <1>2
<1>4. \A i \in 1 .. 1 : i = 1 /\ i - 1 = 0
  OBVIOUS
<1>5. \A j \in 1 .. Len(ss[1]) : 1 + j - 1 = j
  BY <1>1
<1>6. Len(ss[1]) = off[1] - 1 /\ off[1] <= off[1]
  BY <1>1, <1>3
<1>7. \A i \in 1 .. 1 : \A j \in 1 .. Len(ss[i]) : ss[1][off[i - 1] + j - 1] = ss[i][j]
  <2> SUFFICES ASSUME NEW j \in 1 .. Len(ss[1]) PROVE ss[1][off[0] + j - 1] = ss[1][j]
    BY <1>4
  <2> QED
    BY <1>2, <1>5
<1>8. \A i \in 1 .. 1 : off[i] <= off[1]
  BY <1>4, <1>6
<1> QED
  BY <1>1, <1>6, <1>7, <1>8 DEF Joined

\* One more part behind those joined.
LEMMA JoinNext ==
    ASSUME NEW V, NEW n, NEW ss, NEW off, Parts(V, n, ss), EndsOf(n, ss, off),
           NEW m \in Nat, m >= 1, m + 1 \in 1 .. n, NEW a, Joined(V, ss, off, m, a)
    PROVE  Joined(V, ss, off, m + 1, a \o ss[m + 1])
<1>1. PICK b : b = ss[m + 1]
  OBVIOUS
<1>2. n \in Nat
  BY DEF Parts
<1>3. /\ b \in Seq(V) /\ Len(b) \in Nat /\ off[m + 1] = off[m] + Len(b) /\ off[m] \in Nat
      /\ off[m + 1] \in Nat
  <2>1. (m + 1) - 1 = m
    OBVIOUS
  <2> QED
    BY <1>1, <2>1, PartFacts
<1>4. a \in Seq(V) /\ Len(a) = off[m] - 1 /\ Len(a) \in Nat
  BY DEF Joined
<1>5. /\ a \o b \in Seq(V) /\ Len(a \o b) = Len(a) + Len(b)
      /\ \A i \in 1 .. Len(a) + Len(b) : (a \o b)[i] = IF i <= Len(a) THEN a[i] ELSE b[i - Len(a)]
  BY <1>3, <1>4, ConcatProperties
<1>6. Len(a \o b) = off[m + 1] - 1
  BY <1>3, <1>4, <1>5
<1>7. ASSUME NEW i \in 1 .. m + 1
      PROVE  off[i] <= off[m + 1]
  <2>1. CASE i = m + 1
    BY <1>3, <2>1
  <2>2. CASE i # m + 1
    <3>1. i \in 1 .. m /\ i \in 1 .. n
      BY <1>2, <2>2
    <3>2. off[i] \in Nat
      BY <3>1, PartFacts
    <3>3. off[i] <= off[m]
      BY <3>1 DEF Joined
    <3> QED
      BY <1>3, <3>2, <3>3
  <2> QED
    BY <2>1, <2>2
<1>8. ASSUME NEW i \in 1 .. m + 1, NEW j \in 1 .. Len(ss[i])
      PROVE  (a \o b)[off[i - 1] + j - 1] = ss[i][j]
  <2>1. CASE i = m + 1
    <3>1. i - 1 = m
      BY <2>1
    <3>2. off[i - 1] = off[m] /\ ss[i] = b /\ j \in 1 .. Len(b)
      BY <1>1, <2>1, <3>1
    <3>3. PICK l \in Nat, k \in Nat : l = Len(a) /\ k = Len(b)
      BY <1>3, <1>4
    <3>4. l = off[m] - 1 /\ j \in 1 .. k
      BY <1>4, <3>2, <3>3
    <3>5. PICK o \in Nat : o = off[m]
      BY <1>3
    <3>6. o + j - 1 \in 1 .. l + k /\ ~(o + j - 1 <= l) /\ (o + j - 1) - l = j
      <4>1. l = o - 1 /\ j \in 1 .. k /\ l \in Nat /\ k \in Nat
        BY <3>3, <3>4, <3>5
      <4> QED
        BY <4>1
    <3>7. (a \o b)[o + j - 1] = b[(o + j - 1) - l]
      BY <1>5, <3>3, <3>6
    <3> QED
      BY <3>2, <3>5, <3>6, <3>7
  <2>2. CASE i # m + 1
    <3>1. i \in 1 .. m /\ i \in 1 .. n /\ i - 1 \in 0 .. n
      BY <1>2, <2>2
    <3>2. PICK o, e, k \in Nat : o = off[i - 1] /\ e = off[i] /\ k = Len(ss[i])
      BY <3>1, PartFacts
    <3>3. e = o + k /\ o >= 1 /\ j \in 1 .. k
      <4>1. off[i] = off[i - 1] + Len(ss[i])
        BY <3>1, PartFacts
      <4>2. off[i - 1] >= 1
        BY <3>1, EndsPositive
      <4> QED
        BY <3>2, <4>1, <4>2
    <3>4. PICK l \in Nat, q \in Nat, t \in Nat : l = Len(a) /\ q = off[m] /\ t = Len(b)
      BY <1>3, <1>4
    <3>5. e <= q /\ l = q - 1
      <4>1. off[i] <= off[m]
        BY <3>1 DEF Joined
      <4> QED
        BY <1>4, <3>2, <3>4, <4>1
    <3>6. o + j - 1 \in 1 .. l + t /\ o + j - 1 <= l
      BY <3>3, <3>5
    <3>7. (a \o b)[o + j - 1] = a[o + j - 1]
      BY <1>5, <3>4, <3>6
    <3>8. a[off[i - 1] + j - 1] = ss[i][j]
      BY <3>1 DEF Joined
    <3> QED
      BY <3>2, <3>7, <3>8
  <2> QED
    BY <2>1, <2>2
<1>9. Joined(V, ss, off, m + 1, a \o b)
  BY <1>5, <1>6, <1>7, <1>8 DEF Joined
<1> QED
  BY <1>1, <1>9

\* The function FlattenSeq defines by recursion.
IsFlatten(n, ss, f) == f = [i \in 1 .. n |-> IF i = 1 THEN ss[i] ELSE f[i - 1] \o ss[i]]

\* The parts can be joined, place by place.
LEMMA FlattenExists ==
    ASSUME NEW V, NEW n, NEW ss, Parts(V, n, ss), n # 0
    PROVE  \E f : IsFlatten(n, ss, f)
<1> DEFINE G == [p \in (1 .. n) \X Seq(V) |-> p[2] \o ss[p[1]]]
<1>1. n \in Nat /\ \A i \in 1 .. n : ss[i] \in Seq(V)
  BY DEF Parts
<1>2. ASSUME NEW i \in 1 .. n, NEW s \in Seq(V)
      PROVE  G[<<i, s>>] = s \o ss[i] /\ s \o ss[i] \in Seq(V)
  <2>1. s \o ss[i] \in Seq(V)
    BY <1>1, ConcatProperties
  <2>2. <<i, s>> \in (1 .. n) \X Seq(V)
    OBVIOUS
  <2> QED
    BY <2>1, <2>2
<1>3. PICK w : /\ w \in [0 .. n -> Seq(V)] /\ w[0] = <<>>
               /\ \A i \in 1 .. n : w[i] = G[<<i, w[i - 1]>>]
  <2>1. PICK W, e : W = Seq(V) /\ e = <<>>
    OBVIOUS
  <2>2. \A p \in (1 .. n) \X Seq(V) : p[2] \o ss[p[1]] \in Seq(V)
    BY <1>2
  <2>3. G \in [(1 .. n) \X W -> W] /\ e \in W
    BY <2>1, <2>2
  <2> HIDE DEF G
  <2>4. \E w : StepsOf(n, W, e, G, w)
    BY <1>1, <2>3, StepRecursion
  <2> QED
    BY <2>1, <2>4 DEF StepsOf
<1> HIDE DEF G
<1>4. ASSUME NEW i \in 1 .. n
      PROVE  w[i] = w[i - 1] \o ss[i]
  <2>1. i - 1 \in 0 .. n
    BY <1>1
  <2>2. w[i - 1] \in Seq(V)
    BY <1>3, <2>1
  <2> QED
    BY <1>2, <1>3, <2>2
<1> DEFINE f == [i \in 1 .. n |-> w[i]]
<1>5. ASSUME NEW i \in 1 .. n
      PROVE  f[i] = IF i = 1 THEN ss[i] ELSE f[i - 1] \o ss[i]
  <2>1. CASE i = 1
    <3>1. i - 1 = 0
      BY <2>1
    <3>2. w[i] = <<>> \o ss[i]
      BY <1>3, <1>4, <3>1
    <3>3. <<>> \o ss[i] = ss[i]
      BY <1>1, ConcatEmptySeq
    <3> QED
      BY <2>1, <3>2, <3>3
  <2>2. CASE i # 1
    <3>1. i - 1 \in 1 .. n
      BY <1>1, <2>2
    <3> QED
      BY <1>4, <2>2, <3>1
  <2> QED
    BY <2>1, <2>2
<1>6. IsFlatten(n, ss, f)
  BY <1>5 DEF IsFlatten
<1> QED
  BY <1>6

\* What FlattenSeq returns, and where the elements of the parts are in it.
LEMMA Flattened ==
    ASSUME NEW V, NEW n, NEW ss, NEW off, Parts(V, n, ss), EndsOf(n, ss, off)
    PROVE  /\ FlattenSeq(ss) \in Seq(V) /\ Len(FlattenSeq(ss)) = off[n] - 1
           /\ \A i \in 1 .. n : \A j \in 1 .. Len(ss[i]) : FlattenSeq(ss)[off[i - 1] + j - 1] = ss[i][j]
<1>1. CASE n = 0
  <2>1. ss = <<>> /\ off[0] = 1 /\ Len(ss) = 0
    BY <1>1 DEF Parts, EndsOf
  <2>2. FlattenSeq(ss) = ss
    BY <2>1 DEF FlattenSeq
  <2>3. 1 .. n = {}
    BY <1>1
  <2>4. <<>> \in Seq(V) /\ Len(<<>>) = 0 /\ off[n] = 1
    BY <1>1, <2>1
  <2>5. FlattenSeq(ss) = <<>>
    BY <2>1, <2>2
  <2>6. Len(FlattenSeq(ss)) = off[n] - 1
    BY <2>4, <2>5
  <2> QED
    BY <2>3, <2>4, <2>5, <2>6
<1>2. CASE n # 0
  <2> DEFINE flatten == CHOOSE f : IsFlatten(n, ss, f)
  <2>1. FlattenSeq(ss) = flatten[n]
    <3>1. Len(ss) = n
      BY DEF Parts
    <3> QED
      BY <1>2, <3>1 DEF FlattenSeq, IsFlatten
  <2>2. \E f : IsFlatten(n, ss, f)
    BY <1>2, FlattenExists
  <2>3. IsFlatten(n, ss, flatten)
    BY <2>2
  <2>4. n \in Nat /\ n - 1 \in Nat /\ 1 \in 1 .. n
    BY <1>2 DEF Parts
  <2> HIDE DEF flatten
  <2> DEFINE S == {m \in 0 .. n - 1 : Joined(V, ss, off, m + 1, flatten[m + 1])}
  <2>5. 0 \in S
    <3>1. flatten[1] = ss[1] /\ 0 + 1 = 1 /\ 0 \in 0 .. n - 1
      BY <2>3, <2>4 DEF IsFlatten
    <3>2. Joined(V, ss, off, 1, flatten[1])
      BY <2>4, <3>1, JoinFirst
    <3> QED
      BY <3>1, <3>2
  <2>6. \A m \in 0 .. (n - 1) - 1 : m \in S => m + 1 \in S
    <3> SUFFICES ASSUME NEW q \in 0 .. (n - 1) - 1, q \in S PROVE q + 1 \in S
      OBVIOUS
    <3>1. PICK m \in Nat : m = q + 1
      OBVIOUS
    <3>2. /\ m >= 1 /\ m + 1 \in 1 .. n /\ m + 1 # 1 /\ (m + 1) - 1 = m /\ q + 1 \in 0 .. n - 1
      BY <2>4, <3>1
    <3>3. flatten[m + 1] = flatten[m] \o ss[m + 1]
      BY <2>3, <3>2 DEF IsFlatten
    <3>4. Joined(V, ss, off, m, flatten[m])
      BY <3>1
    <3>5. Joined(V, ss, off, m + 1, flatten[m + 1])
      BY <3>2, <3>3, <3>4, JoinNext
    <3> QED
      BY <3>1, <3>2, <3>5
  <2> HIDE DEF S
  <2>7. 0 .. n - 1 \subseteq S
    BY <2>4, <2>5, <2>6, IntervalInduction
  <2>8. Joined(V, ss, off, n, flatten[n])
    <3>1. n - 1 \in 0 .. n - 1 /\ (n - 1) + 1 = n
      BY <2>4
    <3>2. n - 1 \in S
      BY <2>7, <3>1
    <3> QED
      BY <3>1, <3>2 DEF S
  <2> QED
    BY <2>1, <2>8 DEF Joined
<1> QED
  BY <1>1, <1>2
=============================================================================
