-------------------------- MODULE ChainIndexProofs --------------------------
(***************************************************************************)
(* Proofs about ChainIndex, for every table of chains, every size of the   *)
(* buckets and every sequence of calls.                                    *)
(***************************************************************************)
EXTENDS ChainIndex, Foundations, FiniteSetTheorems

-----------------------------------------------------------------------------
(* The search.                                                             *)

\* The first m slots can be read and ascend; there may be one more, NULL, and then the
\* search, which begins in the middle, begins in front of it.
Searchable(ix, keys, sz, m) ==
    /\ sz \in Nat /\ m \in 1 .. sz /\ DOMAIN ix = 0 .. sz - 1
    /\ m = sz \/ (m = sz - 1 /\ m >= 2 /\ ix[m] = NULL)
    /\ \A i \in 0 .. m - 1 : ix[i] \notin {NULL, Freed} /\ keys[i] \in Int
    /\ \A i, j \in 0 .. m - 1 : i < j => keys[i] < keys[j]

Records(sz) == [pos : 0 .. sz - 1, end : 1 .. sz, idx : -1 .. sz - 1, to : {"loop", "slot", "fault"}]

\* Where a search for key that still goes on can be.
Going(keys, key, sz, m, s) ==
    /\ s.pos < m /\ s.pos < s.end
    /\ s.end < sz => s.end < m /\ key < keys[s.end]

\* Where it can end at a slot: the slot is not greater, or the first, and those behind it are.
Arrived(keys, key, m, s) ==
    /\ s.idx = s.pos /\ s.pos < m
    /\ s.pos = 0 \/ keys[s.pos] <= key
    /\ \A i \in s.pos + 1 .. m - 1 : key < keys[i]

SearchStates(keys, key, sz, m) ==
    {s \in Records(sz) : /\ s.to = "loop" => Going(keys, key, sz, m, s)
                         /\ s.to = "slot" => Arrived(keys, key, m, s)
                         /\ s.to = "fault" => m < sz}

\* An index of sz slots.
LEMMA SlotCount ==
    ASSUME NEW sz \in Nat, NEW ix, DOMAIN ix = 0 .. sz - 1
    PROVE  Cardinality(DOMAIN ix) = sz
<1>1. Cardinality(0 .. sz - 1) = sz
  BY FS_Interval
<1> QED
  BY <1>1

\* The slot a search stops at: those behind it are greater.
LEMMA Behind ==
    ASSUME NEW ix, NEW keys, NEW key \in Int, NEW sz, NEW m, Searchable(ix, keys, sz, m),
           NEW p \in 0 .. m - 1, p < m - 1 => key < keys[p + 1]
    PROVE  \A i \in p + 1 .. m - 1 : key < keys[i]
<1> SUFFICES ASSUME NEW i \in p + 1 .. m - 1 PROVE key < keys[i]
  OBVIOUS
<1>1. m \in Nat /\ p + 1 \in 0 .. m - 1 /\ i \in 0 .. m - 1
  BY DEF Searchable
<1>2. key < keys[p + 1] /\ keys[p + 1] \in Int /\ keys[i] \in Int
  BY <1>1 DEF Searchable
<1>3. i = p + 1 \/ keys[p + 1] < keys[i]
  BY <1>1 DEF Searchable
<1> QED
  BY <1>2, <1>3

\* The fields of a record after each of the assignments of a turn.
LEMMA SetIdx ==
    ASSUME NEW sz \in Nat, NEW s \in Records(sz), NEW t, t = [s EXCEPT !.idx = s.pos]
    PROVE  t \in Records(sz) /\ t.pos = s.pos /\ t.end = s.end /\ t.idx = s.pos /\ t.to = s.to
BY DEF Records

LEMMA SetTo ==
    ASSUME NEW sz \in Nat, NEW s \in Records(sz), NEW x \in {"loop", "slot", "fault"},
           NEW t, t = Ends(s, x)
    PROVE  t \in Records(sz) /\ t.pos = s.pos /\ t.end = s.end /\ t.idx = s.idx /\ t.to = x
BY DEF Records, Ends

LEMMA SetEnd ==
    ASSUME NEW sz \in Nat, NEW s \in Records(sz), NEW e \in 1 .. sz,
           NEW t, t = [s EXCEPT !.end = e]
    PROVE  t \in Records(sz) /\ t.pos = s.pos /\ t.end = e /\ t.idx = s.idx /\ t.to = s.to
BY DEF Records

LEMMA SetPos ==
    ASSUME NEW sz \in Nat, NEW s \in Records(sz), NEW h \in 0 .. sz - 1,
           NEW t, t = [s EXCEPT !.pos = h]
    PROVE  t \in Records(sz) /\ t.pos = h /\ t.end = s.end /\ t.idx = s.idx /\ t.to = s.to
BY DEF Records

\* A search that stops at its slot has arrived.
LEMMA StopsHere ==
    ASSUME NEW ix, NEW keys, NEW key \in Int, NEW sz, NEW m, Searchable(ix, keys, sz, m),
           NEW s \in Records(sz), s.idx = s.pos, s.pos < m,
           s.pos = 0 \/ keys[s.pos] <= key, s.pos < m - 1 => key < keys[s.pos + 1],
           NEW t, t = Ends(s, "slot")
    PROVE  t \in SearchStates(keys, key, sz, m) /\ t.to = "slot"
<1>1. sz \in Nat /\ m \in Nat
  BY DEF Searchable
<1>2. t \in Records(sz) /\ t.pos = s.pos /\ t.idx = s.idx /\ t.to = "slot"
  BY <1>1, SetTo
<1>3. s.pos \in 0 .. m - 1
  BY <1>1 DEF Records
<1>4. \A i \in s.pos + 1 .. m - 1 : key < keys[i]
  BY <1>3, Behind
<1>5. Arrived(keys, key, m, t)
  BY <1>2, <1>4 DEF Arrived
<1> QED
  BY <1>2, <1>5 DEF SearchStates

\* One turn of the loop keeps the search there, and if it goes on, lowers end or raises pos.
LEMMA TurnKeeps ==
    ASSUME NEW ix, NEW keys, NEW key \in Int, NEW sz, NEW m, Searchable(ix, keys, sz, m),
           NEW s \in SearchStates(keys, key, sz, m), s.to = "loop", NEW t, t = Turn(ix, keys, key, s)
    PROVE  /\ t \in SearchStates(keys, key, sz, m)
           /\ t.to = "loop" => t.end < s.end \/ (t.end = s.end /\ t.pos > s.pos)
<1>1. /\ sz \in Nat /\ m \in Nat /\ 1 <= m /\ m <= sz
      /\ m = sz \/ (m = sz - 1 /\ m >= 2 /\ ix[m] = NULL)
      /\ \A i \in 0 .. m - 1 : ix[i] \notin {NULL, Freed} /\ keys[i] \in Int
      /\ \A i, j \in 0 .. m - 1 : i < j => keys[i] < keys[j]
  BY DEF Searchable
<1>2. Cardinality(DOMAIN ix) = sz
  BY SlotCount DEF Searchable
<1>3. /\ s \in Records(sz) /\ s.pos \in 0 .. m - 1 /\ s.end \in 1 .. sz /\ s.pos < s.end
      /\ s.end < sz => s.end < m /\ key < keys[s.end]
  BY <1>1 DEF SearchStates, Going, Records
<1>4. /\ ix[s.pos] # NULL /\ ix[s.pos] # Freed /\ keys[s.pos] \in Int
  BY <1>1, <1>3
<1>5. PICK h : h = [s EXCEPT !.idx = s.pos]
  OBVIOUS
<1>6. h \in Records(sz) /\ h.pos = s.pos /\ h.end = s.end /\ h.idx = s.pos /\ h.to = "loop"
  BY <1>1, <1>3, <1>5, SetIdx
<1>7. t = IF key = keys[s.pos] THEN Ends(h, "slot")
          ELSE IF key < keys[s.pos] THEN JumpBack(h) ELSE JumpForward(ix, keys, key, h)
  BY <1>4, <1>5 DEF Turn
<1>9. ASSUME s.pos = 0 \/ keys[s.pos] <= key, s.pos < m - 1 => key < keys[s.pos + 1],
             t = Ends(h, "slot")
      PROVE  t \in SearchStates(keys, key, sz, m) /\ t.to = "slot"
  <2>1. h.idx = h.pos /\ h.pos < m /\ (h.pos = 0 \/ keys[h.pos] <= key)
    BY <1>1, <1>3, <1>6, <1>9
  <2>2. h.pos < m - 1 => key < keys[h.pos + 1]
    BY <1>6, <1>9
  <2> QED
    BY <1>6, <1>9, <2>1, <2>2, StopsHere
<1>10. CASE key = keys[s.pos]
  <2>1. ASSUME s.pos < m - 1 PROVE key < keys[s.pos + 1]
    <3>1. s.pos + 1 \in 0 .. m - 1 /\ s.pos < s.pos + 1
      BY <1>1, <1>3, <2>1
    <3> QED
      BY <1>1, <1>3, <1>10, <3>1
  <2>2. t = Ends(h, "slot")
    BY <1>7, <1>10
  <2> QED
    BY <1>4, <1>9, <1>10, <2>1, <2>2
<1>11. CASE key < keys[s.pos] /\ s.pos = 0
  <2>1. t = Ends(h, "slot")
    BY <1>4, <1>6, <1>7, <1>11 DEF JumpBack
  <2>2. ASSUME s.pos < m - 1 PROVE key < keys[s.pos + 1]
    <3>1. s.pos + 1 \in 0 .. m - 1 /\ s.pos < s.pos + 1
      BY <1>1, <1>3, <2>2
    <3>2. keys[s.pos + 1] \in Int /\ keys[s.pos] < keys[s.pos + 1]
      BY <1>1, <1>3, <3>1
    <3> QED
      BY <1>4, <1>11, <3>2
  <2> QED
    BY <1>9, <1>11, <2>1, <2>2
<1>12. CASE key < keys[s.pos] /\ s.pos # 0
  <2>1. PICK g : g = s.pos \div 2
    OBVIOUS
  <2>2. g \in 0 .. sz - 1 /\ g < s.pos /\ s.pos \in 1 .. sz /\ s.pos < m
    BY <1>1, <1>3, <1>12, <2>1
  <2>3. PICK d : d = [h EXCEPT !.end = s.pos]
    OBVIOUS
  <2>30. t = [d EXCEPT !.pos = g]
    <3>1. t = JumpBack(h) /\ h.pos # 0
      BY <1>4, <1>6, <1>7, <1>12
    <3>2. t = [h EXCEPT !.end = h.pos, !.pos = h.pos \div 2]
      BY <3>1 DEF JumpBack
    <3> QED
      BY <1>6, <2>1, <2>3, <3>2
  <2>31. d \in Records(sz) /\ d.end = s.pos /\ d.to = "loop"
    BY <1>1, <1>6, <2>2, <2>3, SetEnd
  <2>4. t \in Records(sz) /\ t.pos = g /\ t.end = s.pos /\ t.to = "loop"
    BY <1>1, <2>2, <2>30, <2>31, SetPos
  <2>5. Going(keys, key, sz, m, t)
    BY <1>1, <1>3, <1>12, <2>2, <2>4 DEF Going
  <2> QED
    BY <1>3, <2>4, <2>5 DEF SearchStates
<1>13. CASE key > keys[s.pos]
  <2>0. t = JumpForward(ix, keys, key, h)
    BY <1>4, <1>7, <1>13
  <2>1. CASE s.pos = sz - 1
    <3>1. t = Ends(h, "slot")
      BY <1>2, <1>6, <2>0, <2>1 DEF JumpForward
    <3>2. ~(s.pos < m - 1)
      BY <1>1, <1>3, <2>1
    <3> QED
      BY <1>4, <1>9, <1>13, <3>1, <3>2
  <2>2. CASE s.pos # sz - 1 /\ Unreadable(ix[s.pos + 1])
    <3>1. t = Ends(h, "fault")
      BY <1>2, <1>6, <2>0, <2>2 DEF JumpForward
    <3>2. t \in Records(sz) /\ t.to = "fault"
      BY <1>1, <1>6, <3>1, SetTo
    <3>3. ~(s.pos + 1 \in 0 .. m - 1)
      BY <1>1, <2>2 DEF Unreadable
    <3>4. m < sz
      BY <1>1, <1>3, <2>2, <3>3
    <3> QED
      BY <3>2, <3>4 DEF SearchStates
  <2>3. CASE s.pos # sz - 1 /\ ~Unreadable(ix[s.pos + 1])
    <3>1. s.pos + 1 \in 0 .. m - 1
      <4>1. s.pos + 1 # m
        BY <1>1, <1>3, <2>3 DEF Unreadable
      <4> QED
        BY <1>1, <1>3, <4>1
    <3>2. CASE key < keys[s.pos + 1]
      <4>1. t = Ends(h, "slot")
        BY <1>2, <1>6, <2>0, <2>3, <3>2 DEF JumpForward, InSection
      <4> QED
        BY <1>4, <1>9, <1>13, <3>2, <4>1
    <3>3. CASE ~(key < keys[s.pos + 1])
      <4>1. PICK g : g = Forward(s)
        OBVIOUS
      <4>2. t = [h EXCEPT !.pos = g]
        BY <1>2, <1>6, <2>0, <2>3, <3>3, <4>1 DEF JumpForward, InSection, Forward
      <4>3. s.pos + 1 < s.end
        BY <1>1, <1>3, <3>1, <3>3
      <4>4. g = (s.pos + s.end) \div 2 /\ s.end \in Int /\ s.pos \in Int
        BY <1>3, <4>1 DEF Forward
      <4>5. g \in Int /\ s.pos < g /\ g < s.end
        BY <4>3, <4>4
      <4>6. g < m
        <5>1. CASE s.end <= m
          BY <1>1, <4>4, <4>5, <5>1
        <5>2. CASE s.end > m
          <6>1. s.end = m + 1
            BY <1>1, <1>3, <5>2
          <6> QED
            BY <1>1, <3>1, <4>4, <6>1
        <5> QED
          BY <1>1, <4>4, <5>1, <5>2
      <4>7. g \in 0 .. sz - 1
        BY <1>1, <1>3, <4>5, <4>6
      <4>8. t \in Records(sz) /\ t.pos = g /\ t.end = s.end /\ t.to = "loop"
        BY <1>1, <1>6, <4>2, <4>7, SetPos
      <4>9. Going(keys, key, sz, m, t)
        BY <1>3, <4>5, <4>6, <4>8 DEF Going
      <4> QED
        BY <4>5, <4>8, <4>9 DEF SearchStates
    <3> QED
      BY <3>2, <3>3
  <2> QED
    BY <2>1, <2>2, <2>3
<1> QED
  BY <1>4, <1>10, <1>11, <1>12, <1>13

\* Where a search of sz slots begins.
Start(sz) == [pos |-> sz \div 2, end |-> sz, idx |-> -1, to |-> IF sz = 0 THEN "head" ELSE "loop"]

Step(ix, keys, key, V) == [s \in V |-> Turn(ix, keys, key, s)]

\* A search is what its turns come to.
LEMMA SearchWalk ==
    ASSUME NEW sz \in Nat, NEW ix, DOMAIN ix = 0 .. sz - 1, NEW keys, NEW key,
           NEW V, Start(sz) \in V, \A s \in V : Turn(ix, keys, key, s) \in V
    PROVE  \E u : /\ Recursion(Turns(sz), V, Start(sz), Step(ix, keys, key, V), u)
                  /\ __iptcc_bsearch_chain_index(ix, keys, key) = u[Turns(sz)]
<1> DEFINE T == Turns(sz)
           N == Cardinality(DOMAIN ix)
           G == Step(ix, keys, key, V)
           start == [pos |-> N \div 2, end |-> N, idx |-> -1, to |-> IF N = 0 THEN "head" ELSE "loop"]
           after[n \in 0 .. Turns(N)] == IF n = 0 THEN start ELSE Turn(ix, keys, key, after[n - 1])
<1>1. N = sz
  BY SlotCount
<1>2. T \in Nat
  BY DEF Turns
<1>3. start = Start(sz)
  BY <1>1 DEF Start
<1>4. G \in [V -> V]
  BY DEF Step
<1>5. PICK u : Recursion(T, V, Start(sz), G, u)
  <2> HIDE DEF T, G, start, after, N
  <2> QED
    BY <1>2, <1>4, IntervalRecursion
<1>6. u \in [0 .. T -> V] /\ u[0] = start
  BY <1>3, <1>5 DEF Recursion
<1>7. ASSUME NEW n \in 0 .. T, n # 0
      PROVE  n \in 1 .. T /\ n - 1 \in 0 .. T /\ u[n] = Turn(ix, keys, key, u[n - 1])
  <2>1. n \in 1 .. T /\ n - 1 \in 0 .. T
    BY <1>2, <1>7
  <2>2. u[n] = G[u[n - 1]] /\ u[n - 1] \in V
    BY <1>5, <1>6, <2>1 DEF Recursion
  <2> QED
    BY <2>1, <2>2 DEF Step
<1> HIDE DEF after
<1>8. u = [n \in 0 .. T |-> IF n = 0 THEN start ELSE Turn(ix, keys, key, u[n - 1])]
  <2> HIDE DEF T, start, N
  <2> QED
    BY <1>6, <1>7
<1>9. T = Turns(N)
  BY <1>1
<1>10. after = [n \in 0 .. Turns(N) |-> IF n = 0 THEN start ELSE Turn(ix, keys, key, after[n - 1])]
  <2> HIDE DEF T, start, N
  <2>1. u = [n \in 0 .. Turns(N) |-> IF n = 0 THEN start ELSE Turn(ix, keys, key, u[n - 1])]
    BY <1>8, <1>9
  <2> QED
    BY <2>1, Zenon DEF after
<1>11. __iptcc_bsearch_chain_index(ix, keys, key) = after[Turns(N)]
  BY Zenon DEF __iptcc_bsearch_chain_index, after
<1>12. \A n \in 0 .. T : after[n] = u[n]
  <2> DEFINE S == {n \in 0 .. T : after[n] = u[n]}
  <2> HIDE DEF T, start, N
  <2>1. 0 \in S
    BY <1>2, <1>6, <1>9, <1>10
  <2>2. \A n \in 0 .. T - 1 : n \in S => n + 1 \in S
    <3> SUFFICES ASSUME NEW n \in 0 .. T - 1, n \in S PROVE n + 1 \in S
      OBVIOUS
    <3>1. n + 1 \in 0 .. T /\ n + 1 # 0 /\ (n + 1) - 1 = n
      BY <1>2
    <3>2. after[n + 1] = Turn(ix, keys, key, after[n])
      BY <1>9, <1>10, <3>1
    <3>3. u[n + 1] = Turn(ix, keys, key, u[n])
      BY <1>7, <3>1
    <3> QED
      BY <3>1, <3>2, <3>3
  <2> HIDE DEF S
  <2>3. 0 .. T \subseteq S
    BY <1>2, <2>1, <2>2, IntervalInduction
  <2> QED
    BY <2>3 DEF S
<1>13. __iptcc_bsearch_chain_index(ix, keys, key) = u[T]
  <2> HIDE DEF T, start, N
  <2> QED
    BY <1>2, <1>9, <1>11, <1>12
<1> QED
  BY <1>5, <1>13

\* The search's record after each turn, within a set of records the turns stay in.
Walks(sz, ix, keys, key, V) ==
    \E u : /\ Recursion(Turns(sz), V, Start(sz), Step(ix, keys, key, V), u)
           /\ __iptcc_bsearch_chain_index(ix, keys, key) = u[Turns(sz)]

TurnsWithin(ix, keys, key, V) == \A s \in V : Turn(ix, keys, key, s) \in V

\* The same for a set of records named as a whole.
LEMMA SearchWalks ==
    ASSUME NEW sz \in Nat, NEW ix, DOMAIN ix = 0 .. sz - 1, NEW keys, NEW key,
           NEW V, Start(sz) \in V, TurnsWithin(ix, keys, key, V)
    PROVE  Walks(sz, ix, keys, key, V)
<1>1. \A s \in V : Turn(ix, keys, key, s) \in V
  BY DEF TurnsWithin
<1> QED
  BY <1>1, SearchWalk DEF Walks

\* Without a slot, or with NULL in the middle, a search ends at the head and sets no idx.
LEMMA SearchHead ==
    ASSUME NEW sz \in Nat, NEW ix, DOMAIN ix = 0 .. sz - 1, NEW keys, NEW key,
           sz = 0 \/ ix[sz \div 2] = NULL, NEW r, r = __iptcc_bsearch_chain_index(ix, keys, key)
    PROVE  r.to = "head" /\ r.idx = -1
<1>1. CASE sz = 0
  <2> DEFINE V == {Start(sz)}
  <2>1. Turn(ix, keys, key, Start(sz)) = Start(sz)
    BY <1>1 DEF Turn, Start
  <2>2. PICK u : /\ Recursion(Turns(sz), V, Start(sz), Step(ix, keys, key, V), u)
                 /\ r = u[Turns(sz)]
    <3>1. Start(sz) \in V /\ \A s \in V : Turn(ix, keys, key, s) \in V
      BY <2>1
    <3> HIDE DEF V
    <3> QED
      BY <3>1, SearchWalk
  <2>3. r = Start(sz)
    BY <1>1, <2>2 DEF Recursion, Turns
  <2> QED
    BY <1>1, <2>3 DEF Start
<1>2. CASE sz # 0
  <2>0. PICK e : e = Ends(Start(sz), "head")
    OBVIOUS
  <2>1. e.to = "head" /\ e.idx = -1
    BY <2>0 DEF Start, Ends
  <2>2. Start(sz).to = "loop" /\ Start(sz).pos = sz \div 2
    BY <1>2 DEF Start
  <2>3. Turn(ix, keys, key, Start(sz)) = e
    BY <1>2, <2>0, <2>2 DEF Turn
  <2>4. Turn(ix, keys, key, e) = e
    BY <2>1 DEF Turn
  <2> DEFINE V == {Start(sz), e}
             G == Step(ix, keys, key, V)
  <2>5. PICK u : Recursion(Turns(sz), V, Start(sz), G, u) /\ r = u[Turns(sz)]
    <3>1. Start(sz) \in V /\ \A s \in V : Turn(ix, keys, key, s) \in V
      BY <2>3, <2>4
    <3> HIDE DEF V
    <3> QED
      BY <3>1, SearchWalk
  <2>6. \A s \in V : G[s] = e
    BY <2>3, <2>4 DEF Step
  <2>7. Turns(sz) \in Nat /\ Turns(sz) >= 1
    BY <1>2 DEF Turns
  <2>8. u \in [0 .. Turns(sz) -> V] /\ u[Turns(sz)] = G[u[Turns(sz) - 1]]
    <3>1. Turns(sz) \in 1 .. Turns(sz)
      BY <2>7
    <3> HIDE DEF V, G
    <3> QED
      BY <2>5, <3>1 DEF Recursion
  <2>9. r = e
    <3>1. u[Turns(sz) - 1] \in V
      BY <2>7, <2>8
    <3> HIDE DEF V, G
    <3> QED
      BY <2>5, <2>6, <2>8, <3>1
  <2> QED
    BY <2>1, <2>9
<1> QED
  BY <1>1, <1>2

\* A product that a smaller factor lowers.
LEMMA Lowered ==
    ASSUME NEW a \in Nat, NEW b \in Nat, NEW k \in Nat, a < b
    PROVE  a * (k + 1) + (k + 1) <= b * (k + 1)
<1>1. (a + 1) * (k + 1) <= b * (k + 1)
  <2>1. PICK d \in Nat : b = (a + 1) + d
    <3>1. b - (a + 1) \in Nat /\ b = (a + 1) + (b - (a + 1))
      OBVIOUS
    <3> QED
      BY <3>1
  <2>2. b * (k + 1) = (a + 1) * (k + 1) + d * (k + 1)
    BY <2>1
  <2>3. d * (k + 1) \in Nat
    OBVIOUS
  <2>4. (a + 1) * (k + 1) \in Nat
    OBVIOUS
  <2> QED
    BY <2>2, <2>3, <2>4
<1>2. (a + 1) * (k + 1) = a * (k + 1) + (k + 1)
  OBVIOUS
<1> QED
  BY <1>1, <1>2

\* A turn that lowers end or raises pos, and so what bounds the turns.
LEMMA Lowers ==
    ASSUME NEW sz \in Nat, NEW n \in Nat, NEW e \in Nat, NEW f \in Nat,
           NEW p \in 0 .. sz - 1, NEW q \in 0 .. sz - 1,
           e * (sz + 1) + n <= sz * (sz + 1) + p, f < e \/ (f = e /\ q > p)
    PROVE  f * (sz + 1) + (n + 1) <= sz * (sz + 1) + q
<1> DEFINE A == f * (sz + 1)
           B == e * (sz + 1)
           C == sz * (sz + 1)
<1>1. A \in Nat /\ B \in Nat /\ C \in Nat
  OBVIOUS
<1>2. f < e => A + (sz + 1) <= B
  BY Lowered
<1>3. f = e => A = B
  OBVIOUS
<1>4. B + n <= C + p
  OBVIOUS
<1> HIDE DEF A, B, C
<1>5. A + (n + 1) <= C + q
  BY <1>1, <1>2, <1>3, <1>4
<1> QED
  BY <1>5 DEF A, C

\* A search of slots that ascend ends, at the slot of the greatest key not greater than
\* the one searched, if there is one; it faults only where a slot is missing.
LEMMA SearchResult ==
    ASSUME NEW ix, NEW keys, NEW key \in Int, NEW sz, NEW m, Searchable(ix, keys, sz, m),
           NEW r, r = __iptcc_bsearch_chain_index(ix, keys, key)
    PROVE  /\ r \in SearchStates(keys, key, sz, m)
           /\ r.to \in {"slot", "fault"}
<1> DEFINE V == SearchStates(keys, key, sz, m)
           G == Step(ix, keys, key, V)
           T == Turns(sz)
           M(n, s) == s.to # "loop" \/ s.end * (sz + 1) + n <= sz * (sz + 1) + s.pos
<1>1. sz \in Nat /\ sz >= 1 /\ DOMAIN ix = 0 .. sz - 1 /\ m \in Nat /\ 1 <= m /\ T \in Nat
  BY DEF Searchable, Turns
<1>2. Start(sz) \in V /\ M(0, Start(sz))
  <2>1. PICK s : s = Start(sz)
    OBVIOUS
  <2>2. s.pos = sz \div 2 /\ s.end = sz /\ s.idx = -1 /\ s.to = "loop" /\ s \in Records(sz)
    BY <1>1, <2>1 DEF Start, Records
  <2>3. sz \div 2 < sz /\ (sz >= 2 => sz \div 2 <= sz - 1) /\ (sz = 1 => sz \div 2 = 0)
    BY <1>1
  <2>4. sz \div 2 < m
    <3>1. CASE m = sz
      BY <2>3, <3>1
    <3>2. CASE m # sz
      <4>1. m = sz - 1 /\ sz >= 3
        BY <3>2 DEF Searchable
      <4>2. sz \div 2 < sz - 1
        BY <1>1, <4>1
      <4> QED
        BY <4>1, <4>2
    <3> QED
      BY <3>1, <3>2
  <2>5. Going(keys, key, sz, m, s)
    BY <1>1, <2>2, <2>3, <2>4 DEF Going
  <2>6. s.end * (sz + 1) + 0 <= sz * (sz + 1) + s.pos
    BY <1>1, <2>2
  <2> QED
    BY <2>1, <2>2, <2>5, <2>6 DEF SearchStates
<1>3. ASSUME NEW s \in V, s.to # "loop"
      PROVE  Turn(ix, keys, key, s) = s
  BY <1>3 DEF Turn
<1>4. \A s \in V : Turn(ix, keys, key, s) \in V
  BY <1>3, TurnKeeps
<1>5. PICK u : Recursion(T, V, Start(sz), G, u) /\ r = u[T]
  <2> HIDE DEF V, M
  <2>1. sz \in Nat /\ DOMAIN ix = 0 .. sz - 1 /\ Start(sz) \in V
    BY <1>1, <1>2
  <2>2. TurnsWithin(ix, keys, key, V)
    BY <1>4 DEF TurnsWithin
  <2>3. Walks(sz, ix, keys, key, V)
    <3> HIDE DEF G, T
    <3> QED
      BY <2>1, <2>2, SearchWalks
  <2> QED
    BY <2>3 DEF Walks
<1>6. u \in [0 .. T -> V] /\ u[0] = Start(sz)
      /\ \A n \in 1 .. T : u[n] = G[u[n - 1]]
  BY <1>5 DEF Recursion
<1>7. ASSUME NEW n \in 0 .. T - 1, M(n, u[n])
      PROVE  M(n + 1, u[n + 1])
  <2>1. n + 1 \in 1 .. T /\ (n + 1) - 1 = n /\ n \in 0 .. T /\ n \in Nat
    BY <1>1
  <2>2. PICK s : s = u[n]
    OBVIOUS
  <2>3. s \in V
    BY <1>6, <2>1, <2>2
  <2>4. PICK t : t = u[n + 1]
    OBVIOUS
  <2>5. t = Turn(ix, keys, key, s)
    <3> HIDE DEF V
    <3> QED
      BY <1>6, <2>1, <2>2, <2>3, <2>4 DEF Step
  <2>6. CASE s.to # "loop"
    BY <1>3, <2>2, <2>3, <2>4, <2>5, <2>6
  <2>7. CASE s.to = "loop" /\ t.to = "loop"
    <3>1. t \in V /\ (t.end < s.end \/ (t.end = s.end /\ t.pos > s.pos))
      <4> HIDE DEF V
      <4> QED
        BY <2>3, <2>5, <2>7, TurnKeeps DEF V
    <3>2. s.pos \in 0 .. sz - 1 /\ t.pos \in 0 .. sz - 1 /\ s.end \in 1 .. sz /\ t.end \in 1 .. sz
      BY <1>1, <2>3, <3>1 DEF SearchStates, Records
    <3>3. s.end * (sz + 1) + n <= sz * (sz + 1) + s.pos
      BY <1>7, <2>2, <2>7
    <3>4. PICK e \in Nat : e = s.end
      BY <1>1, <3>2
    <3>5. PICK f \in Nat : f = t.end
      BY <1>1, <3>2
    <3>6. PICK p \in 0 .. sz - 1 : p = s.pos
      BY <3>2
    <3>7. PICK q \in 0 .. sz - 1 : q = t.pos
      BY <3>2
    <3>8. e * (sz + 1) + n <= sz * (sz + 1) + p /\ (f < e \/ (f = e /\ q > p))
      BY <3>1, <3>3, <3>4, <3>5, <3>6, <3>7
    <3>9. f * (sz + 1) + (n + 1) <= sz * (sz + 1) + q
      BY <1>1, <2>1, <3>8, Lowers
    <3> QED
      BY <2>4, <3>5, <3>7, <3>9
  <2> QED
    BY <2>4, <2>6, <2>7
<1>8. M(T, u[T])
  <2> DEFINE S == {n \in 0 .. T : M(n, u[n])}
  <2> HIDE DEF M, V, T
  <2>1. 0 \in S
    BY <1>1, <1>2, <1>6
  <2>2. \A n \in 0 .. T - 1 : n \in S => n + 1 \in S
    BY <1>1, <1>7
  <2> HIDE DEF S
  <2>3. 0 .. T \subseteq S
    BY <1>1, <2>1, <2>2, IntervalInduction
  <2> QED
    BY <1>1, <2>3 DEF S
<1>9. r \in V /\ r \in Records(sz) /\ M(T, r)
  BY <1>1, <1>5, <1>6, <1>8 DEF SearchStates
<1>10. r.to # "loop"
  <2> SUFFICES ASSUME r.to = "loop" PROVE FALSE
    OBVIOUS
  <2>1. r.pos \in 0 .. sz - 1 /\ r.end \in 1 .. sz
    BY <1>9 DEF Records
  <2>2. r.end * (sz + 1) + sz * (sz + 1) <= sz * (sz + 1) + r.pos
    BY <1>9 DEF Turns
  <2>3. r.end * (sz + 1) \in Nat /\ sz * (sz + 1) \in Nat
    BY <1>1, <2>1
  <2>4. r.end * (sz + 1) <= r.pos
    BY <1>1, <2>1, <2>2, <2>3
  <2>5. 0 * (sz + 1) + (sz + 1) <= r.end * (sz + 1)
    BY <1>1, <2>1, Lowered
  <2> QED
    BY <1>1, <2>1, <2>3, <2>4, <2>5
<1> QED
  BY <1>9, <1>10 DEF Records

-----------------------------------------------------------------------------
(* The list of chains.                                                     *)

\* The chains of a list in the order of their names.
Ordered(cs) ==
    /\ cs \in Seq(Names)
    /\ \A i, j \in DOMAIN cs : i < j => cs[i] < cs[j]

LEMMA NameOrder == Names \subseteq Int
BY ChainIndexAssumption

\* The places of a list are numbers, and so are its chains.
LEMMA OrderedList ==
    ASSUME NEW cs, Ordered(cs)
    PROVE  /\ cs \in Seq(Names) /\ Len(cs) \in Nat /\ DOMAIN cs = 1 .. Len(cs)
           /\ \A i \in 1 .. Len(cs) : cs[i] \in Names /\ cs[i] \in Int
           /\ \A i, j \in 1 .. Len(cs) : i < j => cs[i] < cs[j]
<1>1. cs \in Seq(Names) /\ Len(cs) \in Nat /\ DOMAIN cs = 1 .. Len(cs)
  BY DEF Ordered
<1>2. \A i \in 1 .. Len(cs) : cs[i] \in Names
  BY <1>1
<1> QED
  BY <1>1, <1>2, NameOrder DEF Ordered

\* A chain is in one place.
LEMMA OnePlace ==
    ASSUME NEW cs, Ordered(cs), NEW i \in DOMAIN cs
    PROVE  PlaceOf(cs, cs[i]) = i
<1>1. \A j \in DOMAIN cs : cs[j] = cs[i] => j = i
  <2> SUFFICES ASSUME NEW j \in DOMAIN cs, cs[j] = cs[i] PROVE j = i
    OBVIOUS
  <2>1. cs[i] \in Int /\ i \in Int /\ j \in Int
    BY OrderedList
  <2>2. ~(i < j) /\ ~(j < i)
    BY <2>1 DEF Ordered
  <2> QED
    BY <2>1, <2>2
<1> QED
  BY <1>1 DEF PlaceOf

LEMMA PlaceOfChain ==
    ASSUME NEW cs, Ordered(cs), NEW c \in ToSet(cs)
    PROVE  /\ c \in Names /\ c \in Int
           /\ PlaceOf(cs, c) \in 1 .. Len(cs)
           /\ cs[PlaceOf(cs, c)] = c
<1>1. PICK i \in DOMAIN cs : c = cs[i]
  BY DEF ToSet
<1>2. PlaceOf(cs, c) = i
  BY <1>1, OnePlace
<1> QED
  BY <1>1, <1>2, OrderedList

\* Where a walk from a position that no greater chain precedes puts a new name.
LEMMA PlaceForName ==
    ASSUME NEW cs, Ordered(cs), NEW name \in Names, name \notin ToSet(cs),
           NEW k \in 1 .. Len(cs) + 1, \A j \in 1 .. k - 1 : cs[j] < name,
           NEW p, p = PlaceFor(cs, k, name)
    PROVE  /\ p \in k .. Len(cs) + 1
           /\ \A j \in 1 .. p - 1 : cs[j] < name
           /\ \A j \in p .. Len(cs) : name < cs[j]
<1> DEFINE Fits(i) == (\A j \in k .. i - 1 : cs[j] < name) /\ (i <= Len(cs) => name <= cs[i])
           T == {i \in k .. Len(cs) + 1 : i <= Len(cs) => name <= cs[i]}
<1>1. /\ Len(cs) \in Nat /\ DOMAIN cs = 1 .. Len(cs) /\ name \in Int
      /\ \A i \in 1 .. Len(cs) : cs[i] \in Int /\ cs[i] # name
  BY NameOrder, OrderedList DEF ToSet
<1>2. PICK i \in T : \A j \in T : i <= j
  <2>1. T \subseteq Nat /\ Len(cs) + 1 \in T
    BY <1>1
  <2> HIDE DEF T
  <2> QED
    BY <2>1, LeastNatural
<1>3. i \in k .. Len(cs) + 1 /\ Fits(i)
  <2>1. ASSUME NEW j \in k .. i - 1 PROVE cs[j] < name
    <3>1. j \in k .. Len(cs) + 1 /\ j \in 1 .. Len(cs) /\ ~(i <= j)
      BY <1>1
    <3>2. j \notin T
      BY <1>1, <1>2, <3>1
    <3> QED
      BY <1>1, <3>1, <3>2
  <2> QED
    BY <2>1
<1>4. p \in k .. Len(cs) + 1 /\ Fits(p)
  BY <1>3 DEF PlaceFor
<1>5. ASSUME NEW j \in 1 .. p - 1 PROVE cs[j] < name
  <2>1. j \in 1 .. k - 1 \/ j \in k .. p - 1
    BY <1>1, <1>4
  <2> QED
    BY <1>4, <2>1
<1>6. ASSUME NEW j \in p .. Len(cs) PROVE name < cs[j]
  <2>1. p \in 1 .. Len(cs) /\ j \in 1 .. Len(cs)
    BY <1>1, <1>4
  <2>2. name < cs[p]
    BY <1>1, <1>4, <2>1
  <2>3. j = p \/ cs[p] < cs[j]
    <3>1. j = p \/ p < j
      BY <2>1
    <3> QED
      BY <2>1, <3>1, OrderedList
  <2> QED
    BY <1>1, <2>1, <2>2, <2>3
<1> QED
  BY <1>4, <1>5, <1>6

\* Inserting a name where it belongs.
LEMMA Inserted ==
    ASSUME NEW cs, Ordered(cs), NEW name \in Names,
           NEW p \in 1 .. Len(cs) + 1,
           \A j \in 1 .. p - 1 : cs[j] < name, \A j \in p .. Len(cs) : name < cs[j],
           NEW q, q = InsertAt(cs, p, name)
    PROVE  /\ Ordered(q) /\ Len(q) = Len(cs) + 1 /\ ToSet(q) = ToSet(cs) \cup {name}
           /\ q[1] = IF p = 1 THEN name ELSE cs[1]
<1>1. /\ Len(cs) \in Nat /\ DOMAIN cs = 1 .. Len(cs) /\ name \in Int /\ cs \in Seq(Names)
      /\ \A i \in 1 .. Len(cs) : cs[i] \in Int
      /\ \A i, j \in 1 .. Len(cs) : i < j => cs[i] < cs[j]
  BY NameOrder, OrderedList
<1>2. /\ q \in Seq(Names) /\ Len(q) = Len(cs) + 1
      /\ \A i \in 1 .. Len(cs) + 1 : q[i] = IF i < p THEN cs[i] ELSE IF i = p THEN name ELSE cs[i - 1]
  <2>1. cs \in Seq(Names)
    BY <1>1
  <2> QED
    <3>1. q \in Seq(Names) /\ Inserts(cs, p, name, q)
      BY <2>1, InsertAtInserts
    <3> QED
      BY <3>1 DEF Inserts
<1>3. DOMAIN q = 1 .. Len(cs) + 1
  BY <1>2
<1>4. ASSUME NEW i \in DOMAIN q, NEW j \in DOMAIN q, i < j
      PROVE  q[i] < q[j]
  <2>1. i \in 1 .. Len(cs) + 1 /\ j \in 1 .. Len(cs) + 1 /\ p \in Int
    BY <1>1, <1>3
  <2>2. CASE j < p
    BY <1>1, <1>2, <1>4, <2>1, <2>2
  <2>3. CASE j = p
    BY <1>1, <1>2, <1>4, <2>1, <2>3
  <2>4. CASE j > p /\ i < p
    <3>1. q[i] = cs[i] /\ q[j] = cs[j - 1] /\ i \in 1 .. p - 1 /\ j - 1 \in p .. Len(cs)
      BY <1>1, <1>2, <1>4, <2>1, <2>4
    <3>2. cs[i] < name /\ name < cs[j - 1]
      BY <3>1
    <3> QED
      BY <1>1, <2>1, <3>1, <3>2
  <2>5. CASE j > p /\ i = p
    <3>1. q[i] = name /\ q[j] = cs[j - 1] /\ j - 1 \in p .. Len(cs)
      BY <1>1, <1>2, <1>4, <2>1, <2>5
    <3> QED
      BY <3>1
  <2>6. CASE i > p
    <3>1. q[i] = cs[i - 1] /\ q[j] = cs[j - 1] /\ i - 1 \in 1 .. Len(cs) /\ j - 1 \in 1 .. Len(cs)
      BY <1>1, <1>2, <1>4, <2>1, <2>6
    <3> QED
      BY <1>1, <1>4, <2>1, <3>1
  <2> QED
    BY <1>4, <2>1, <2>2, <2>3, <2>4, <2>5, <2>6
<1>5. ToSet(q) = ToSet(cs) \cup {name}
  <2>1. ASSUME NEW i \in 1 .. Len(cs) + 1 PROVE q[i] \in ToSet(cs) \cup {name}
    <3>1. q[i] = name \/ \E j \in 1 .. Len(cs) : q[i] = cs[j]
      <4>1. i < p => i \in 1 .. Len(cs) /\ q[i] = cs[i]
        BY <1>1, <1>2
      <4>2. i = p => q[i] = name
        BY <1>2
      <4>3. i > p => i - 1 \in 1 .. Len(cs) /\ q[i] = cs[i - 1]
        BY <1>1, <1>2
      <4> QED
        BY <1>1, <4>1, <4>2, <4>3
    <3> QED
      BY <1>1, <3>1 DEF ToSet
  <2>2. ASSUME NEW i \in 1 .. Len(cs) PROVE cs[i] \in ToSet(q)
    <3>1. CASE i < p
      <4>1. i \in 1 .. Len(cs) + 1 /\ q[i] = cs[i]
        BY <1>1, <1>2, <3>1
      <4> QED
        BY <1>3, <4>1 DEF ToSet
    <3>2. CASE i >= p
      <4>1. i + 1 \in 1 .. Len(cs) + 1 /\ q[i + 1] = cs[i]
        BY <1>1, <1>2, <3>2
      <4> QED
        BY <1>3, <4>1 DEF ToSet
    <3> QED
      BY <3>1, <3>2
  <2>3. name \in ToSet(q)
    BY <1>2, <1>3 DEF ToSet
  <2> QED
    BY <1>1, <1>3, <2>1, <2>2, <2>3 DEF ToSet
<1>6. q[1] = IF p = 1 THEN name ELSE cs[1]
  BY <1>1, <1>2
<1> QED
  BY <1>2, <1>4, <1>5, <1>6 DEF Ordered

\* Taking a chain out.
LEMMA Removed ==
    ASSUME NEW cs, Ordered(cs), NEW c \in ToSet(cs), NEW q, q = Without(cs, c)
    PROVE  /\ Ordered(q) /\ Len(q) = Len(cs) - 1 /\ ToSet(q) = ToSet(cs) \ {c}
           /\ cs[1] # c => q[1] = cs[1]
           /\ cs[1] = c /\ Len(cs) > 1 => q[1] = cs[2]
<1> DEFINE p == PlaceOf(cs, c)
<1>1. /\ Len(cs) \in Nat /\ DOMAIN cs = 1 .. Len(cs) /\ cs \in Seq(Names)
      /\ \A i \in 1 .. Len(cs) : cs[i] \in Int
      /\ \A i, j \in 1 .. Len(cs) : i < j => cs[i] < cs[j]
  BY NameOrder, OrderedList
<1>2. p \in 1 .. Len(cs) /\ cs[p] = c
  BY PlaceOfChain
<1>3. \A i \in 1 .. Len(cs) : cs[i] = c => i = p
  BY <1>1, OnePlace
<1>4. q = RemoveAt(cs, p)
  BY DEF Without
<1> HIDE DEF p
<1>5. /\ q \in Seq(Names) /\ Len(q) = Len(cs) - 1
      /\ \A i \in 1 .. Len(cs) - 1 : q[i] = IF i < p THEN cs[i] ELSE cs[i + 1]
  <2>1. cs \in Seq(Names) /\ p \in 1 .. Len(cs)
    BY <1>1, <1>2
  <2> QED
    BY <1>4, <2>1, RemoveAtProperties, Zenon
<1>6. DOMAIN q = 1 .. Len(cs) - 1
  BY <1>5
<1>7. ASSUME NEW i \in DOMAIN q, NEW j \in DOMAIN q, i < j
      PROVE  q[i] < q[j]
  <2>1. /\ i \in 1 .. Len(cs) - 1 /\ j \in 1 .. Len(cs) - 1 /\ p \in Int
        /\ i \in 1 .. Len(cs) /\ j \in 1 .. Len(cs) /\ i + 1 \in 1 .. Len(cs) /\ j + 1 \in 1 .. Len(cs)
    BY <1>1, <1>2, <1>6
  <2>2. CASE j < p
    BY <1>1, <1>5, <1>7, <2>1, <2>2
  <2>3. CASE ~(j < p) /\ i < p
    <3>1. q[i] = cs[i] /\ q[j] = cs[j + 1]
      BY <1>5, <2>1, <2>3
    <3> QED
      BY <1>1, <1>7, <2>1, <3>1
  <2>4. CASE ~(i < p)
    <3>0. ~(j < p)
      BY <1>7, <2>1, <2>4
    <3>1. q[i] = cs[i + 1] /\ q[j] = cs[j + 1]
      BY <1>5, <2>1, <2>4, <3>0
    <3> QED
      BY <1>1, <1>7, <2>1, <3>1
  <2> QED
    BY <2>2, <2>3, <2>4
<1>8. ToSet(q) = ToSet(cs) \ {c}
  <2>1. ASSUME NEW i \in 1 .. Len(cs) - 1 PROVE q[i] \in ToSet(cs) \ {c}
    <3>1. i \in 1 .. Len(cs) /\ i + 1 \in 1 .. Len(cs)
      BY <1>1
    <3>2. q[i] = IF i < p THEN cs[i] ELSE cs[i + 1]
      BY <1>5
    <3>3. CASE i < p
      BY <1>1, <1>2, <1>3, <3>1, <3>2, <3>3 DEF ToSet
    <3>4. CASE ~(i < p)
      <4>1. q[i] = cs[i + 1] /\ i + 1 # p
        BY <1>2, <3>1, <3>2, <3>4
      <4> QED
        BY <1>1, <1>3, <3>1, <4>1 DEF ToSet
    <3> QED
      BY <3>3, <3>4
  <2>2. ASSUME NEW i \in 1 .. Len(cs), cs[i] # c PROVE cs[i] \in ToSet(q)
    <3>0. i # p
      BY <1>2, <2>2
    <3>1. CASE i < p
      <4>1. i \in 1 .. Len(cs) - 1 /\ q[i] = cs[i]
        BY <1>1, <1>2, <1>5, <3>1
      <4> QED
        BY <1>6, <4>1 DEF ToSet
    <3>2. CASE i > p
      <4>1. i - 1 \in 1 .. Len(cs) - 1 /\ q[i - 1] = cs[i]
        BY <1>1, <1>2, <1>5, <3>2
      <4> QED
        BY <1>6, <4>1 DEF ToSet
    <3> QED
      BY <1>1, <1>2, <3>0, <3>1, <3>2
  <2> QED
    BY <1>1, <1>6, <2>1, <2>2 DEF ToSet
<1>9. cs[1] # c => q[1] = cs[1]
  BY <1>1, <1>2, <1>5
<1>10. cs[1] = c /\ Len(cs) > 1 => q[1] = cs[2]
  <2>1. cs[1] = c => p = 1
    BY <1>1, <1>2, <1>3
  <2> QED
    BY <1>1, <1>5, <2>1
<1> QED
  BY <1>5, <1>7, <1>8, <1>9, <1>10 DEF Ordered

-----------------------------------------------------------------------------
(* An index built from the list.                                           *)

LEMMA Stretched ==
    ASSUME NEW a \in Nat, NEW b \in Nat, NEW k \in Nat, a < b
    PROVE  a * k + k <= b * k
<1>1. PICK d \in Nat : b = (a + 1) + d
  <2>1. b - (a + 1) \in Nat /\ b = (a + 1) + (b - (a + 1))
    OBVIOUS
  <2> QED
    BY <2>1
<1>2. b * k = (a * k + k) + d * k
  BY <1>1
<1>3. d * k \in Nat /\ a * k \in Nat
  OBVIOUS
<1> QED
  BY <1>2, <1>3

\* The size of the index for n chains: the least that has a place for each.
LEMMA SizeOfArray ==
    ASSUME NEW n \in Nat, NEW sz, sz = ArraySize(n)
    PROVE  /\ sz \in Nat
           /\ n = 0 => sz = 0
           /\ sz >= 1 => (sz - 1) * CHAIN_INDEX_BUCKET_LEN < n
<1> DEFINE B == CHAIN_INDEX_BUCKET_LEN
           d == n \div B
           e == n % B
<1>1. B \in Nat /\ B >= 1
  BY ChainIndexAssumption
<1>2. d \in Nat /\ e \in 0 .. B - 1 /\ n = B * d + e
  BY <1>1
<1>3. sz = d + (IF e # 0 THEN 1 ELSE 0)
  BY DEF ArraySize
<1>4. B * d = d * B /\ d * B \in Nat
  BY <1>1, <1>2
<1> HIDE DEF B, d, e
<1>5. CASE e # 0
  <2>1. sz = d + 1 /\ sz - 1 = d
    BY <1>2, <1>3, <1>5
  <2>2. d * B < n
    BY <1>1, <1>2, <1>4, <1>5
  <2> QED
    BY <1>1, <1>2, <1>4, <1>5, <2>1, <2>2 DEF B
<1>6. CASE e = 0
  <2>1. sz = d /\ n = d * B
    BY <1>2, <1>3, <1>4, <1>6
  <2>2. ASSUME sz >= 1 PROVE (sz - 1) * B < n
    <3>1. d - 1 \in Nat /\ d - 1 < d
      BY <1>2, <2>1, <2>2
    <3>2. (d - 1) * B + B <= d * B
      BY <1>1, <1>2, <3>1, Stretched
    <3>3. PICK x : x = (d - 1) * B
      OBVIOUS
    <3>4. x \in Int
      BY <1>1, <1>2, <3>3
    <3>5. PICK y : y = d * B
      OBVIOUS
    <3>6. x + B <= y /\ y = n
      BY <2>1, <3>2, <3>3, <3>5
    <3>7. x < n
      BY <1>1, <3>4, <3>6
    <3> QED
      BY <2>1, <3>3, <3>7
  <2>3. n = 0 => sz = 0
    <3> SUFFICES ASSUME n = 0, d >= 1 PROVE FALSE
      BY <1>2, <2>1
    <3>1. 0 * B + B <= d * B
      BY <1>1, <1>2, Stretched
    <3> QED
      BY <1>1, <1>2, <2>1, <3>1
  <2> QED
    BY <1>2, <2>1, <2>2, <2>3 DEF B
<1> QED
  BY <1>5, <1>6

-----------------------------------------------------------------------------
(* The shapes of an index of sz slots.                                     *)

\* The first m slots hold chains of the list, in their order and from its first on.
Section(ix, cs, m) ==
    /\ \A i \in 0 .. m - 1 : ix[i] \in ToSet(cs)
    /\ \A i, j \in 0 .. m - 1 : i < j => ix[i] < ix[j]
    /\ m > 0 => ix[0] = cs[1]

Whole(ix, cs, sz) == Section(ix, cs, sz)

\* The last chain went from an index of one slot.
HandleOnly(ix, sz) == sz = 1 /\ ix[0] = Handle

\* Built by a counter that had one chain more than the list: the last slot is NULL,
\* which a search of three slots or more does not begin at,
Cut(ix, cs, sz) == sz >= 3 /\ Section(ix, cs, sz - 1) /\ ix[sz - 1] = NULL

\* and one of fewer slots does, so that the index is not looked at again.
Lost(ix, S, sz) ==
    /\ sz \in {1, 2} /\ ix[sz - 1] = NULL
    /\ sz = 2 => ix[0] \in S \cup {Freed}

\* torn: whether chains are renamed
Shape(ix, cs, S, sz, torn) ==
    /\ sz \in Nat /\ DOMAIN ix = 0 .. sz - 1
    /\ \/ Whole(ix, cs, sz)
       \/ HandleOnly(ix, sz)
       \/ torn /\ Cut(ix, cs, sz)
       \/ torn /\ Lost(ix, S, sz)

\* The constants a slot can hold are no names.
LEMMA NoName ==
    ASSUME NEW c \in Names
    PROVE  /\ c # NULL /\ c # Handle /\ c # Freed
           /\ EmptyName < c /\ c \in Int /\ EmptyName \in Int
BY ChainIndexAssumption

LEMMA SlotConstants == NULL # Handle /\ NULL # Freed /\ Handle # Freed
BY ChainIndexAssumption

\* Slots that are the same have the same shape.
LEMMA SameShape ==
    ASSUME NEW ix, NEW cs, NEW S, NEW sz, NEW torn \in BOOLEAN, Shape(ix, cs, S, sz, torn),
           NEW iy, DOMAIN iy = DOMAIN ix, \A i \in DOMAIN ix : iy[i] = ix[i]
    PROVE  Shape(iy, cs, S, sz, torn)
<1>1. sz \in Nat /\ DOMAIN ix = 0 .. sz - 1 /\ \A i \in 0 .. sz - 1 : iy[i] = ix[i]
  BY DEF Shape
<1>2. ASSUME NEW m \in Nat, m <= sz, Section(ix, cs, m)
      PROVE  Section(iy, cs, m)
  <2>1. \A i \in 0 .. m - 1 : iy[i] = ix[i]
    BY <1>1, <1>2
  <2> QED
    BY <1>2, <2>1 DEF Section
<1>3. CASE Whole(ix, cs, sz)
  BY <1>1, <1>2, <1>3 DEF Shape, Whole
<1>4. CASE HandleOnly(ix, sz)
  BY <1>1, <1>4 DEF Shape, HandleOnly
<1>5. CASE torn /\ Cut(ix, cs, sz)
  BY <1>1, <1>2, <1>5 DEF Shape, Cut
<1>6. CASE torn /\ Lost(ix, S, sz)
  BY <1>1, <1>6 DEF Shape, Lost
<1> QED
  BY <1>3, <1>4, <1>5, <1>6 DEF Shape

\* An index built by the number of the chains is whole; by one more, it is that, or
\* its last slot is NULL.
LEMMA Built ==
    ASSUME NEW cs, Ordered(cs), NEW n \in {Len(cs), Len(cs) + 1}, NEW ix, ix = IndexOf(cs, n),
           NEW torn \in BOOLEAN, torn \/ n = Len(cs), NEW S, ToSet(cs) \subseteq S
    PROVE  \E sz \in Nat : /\ Shape(ix, cs, S, sz, torn)
                           /\ n = Len(cs) => Whole(ix, cs, sz)
<1> DEFINE B == CHAIN_INDEX_BUCKET_LEN
           k(i) == i * B + 1
<1>1. PICK sz : sz = ArraySize(n)
  OBVIOUS
<1>2. /\ cs \in Seq(Names) /\ Len(cs) \in Nat /\ DOMAIN cs = 1 .. Len(cs)
      /\ \A i, j \in 1 .. Len(cs) : i < j => cs[i] < cs[j]
  BY OrderedList
<1>3. B \in Nat /\ B >= 1 /\ n \in Nat
  BY <1>2, ChainIndexAssumption
<1>4. /\ sz \in Nat
      /\ n = 0 => sz = 0
      /\ sz >= 1 => (sz - 1) * B < n
  BY <1>1, <1>3, SizeOfArray
<1>5. DOMAIN ix = 0 .. sz - 1
  BY <1>1 DEF IndexOf
<1>6. \A i \in 0 .. sz - 1 : ix[i] = IF k(i) <= Len(cs) THEN cs[k(i)] ELSE NULL
  BY <1>1 DEF IndexOf
<1>7. ASSUME NEW i \in 0 .. sz - 1
      PROVE  k(i) \in Nat /\ k(i) >= 1 /\ k(i) <= n
  <2>1. i * B \in Nat
    BY <1>3
  <2>2. i * B <= (sz - 1) * B
    <3>1. CASE i = sz - 1
      BY <1>3, <1>4, <3>1
    <3>2. CASE i # sz - 1
      <4>1. i \in Nat /\ sz - 1 \in Nat /\ i < sz - 1
        BY <1>4, <3>2
      <4>2. i * B + B <= (sz - 1) * B
        BY <1>3, <4>1, Stretched
      <4>3. PICK x \in Nat : x = i * B
        BY <2>1
      <4>4. PICK y : y = (sz - 1) * B
        OBVIOUS
      <4>5. y \in Nat
        BY <1>3, <4>1, <4>4
      <4>6. x <= y
        BY <1>3, <4>2, <4>3, <4>4, <4>5
      <4> QED
        BY <4>3, <4>4, <4>6
    <3> QED
      BY <3>1, <3>2
  <2>3. PICK x \in Nat : x = i * B
    BY <2>1
  <2>4. PICK y : y = (sz - 1) * B
    OBVIOUS
  <2>5. x <= y /\ y < n /\ y \in Int
    <3>1. sz >= 1 /\ sz - 1 \in Nat
      BY <1>4
    <3> QED
      BY <1>3, <1>4, <2>2, <2>3, <2>4, <3>1
  <2>6. x + 1 <= n
    BY <1>3, <2>5
  <2> QED
    BY <2>3, <2>6
<1>8. ASSUME NEW i \in 0 .. sz - 1, NEW j \in 0 .. sz - 1, i < j
      PROVE  k(i) < k(j)
  <2>1. i \in Nat /\ j \in Nat
    OBVIOUS
  <2>2. i * B + B <= j * B
    BY <1>3, <1>8, <2>1, Stretched
  <2>3. PICK x \in Nat : x = i * B
    BY <1>3, <2>1
  <2>4. PICK y \in Nat : y = j * B
    BY <1>3, <2>1
  <2>5. x + B <= y
    BY <2>2, <2>3, <2>4
  <2>6. x + 1 < y + 1
    BY <1>3, <2>5
  <2> QED
    BY <2>3, <2>4, <2>6
<1>9. k(0) = 1
  BY <1>3
<1> HIDE DEF k, B
<1>10. ASSUME NEW m \in Nat, m <= sz, \A i \in 0 .. m - 1 : k(i) <= Len(cs)
       PROVE  Section(ix, cs, m)
  <2>1. ASSUME NEW i \in 0 .. m - 1
        PROVE  i \in 0 .. sz - 1 /\ k(i) \in 1 .. Len(cs) /\ ix[i] = cs[k(i)]
    <3>1. i \in 0 .. sz - 1
      BY <1>4, <1>10
    <3> QED
      BY <1>2, <1>6, <1>7, <1>10, <3>1
  <2>2. \A i \in 0 .. m - 1 : ix[i] \in ToSet(cs)
    BY <1>2, <2>1 DEF ToSet
  <2>3. ASSUME NEW i \in 0 .. m - 1, NEW j \in 0 .. m - 1, i < j PROVE ix[i] < ix[j]
    BY <1>2, <1>8, <2>1, <2>3
  <2>4. m > 0 => ix[0] = cs[1]
    BY <1>9, <2>1
  <2> QED
    BY <2>2, <2>3, <2>4 DEF Section
<1>11. CASE \A i \in 0 .. sz - 1 : k(i) <= Len(cs)
  BY <1>4, <1>5, <1>10, <1>11 DEF Shape, Whole
<1>12. CASE ~(\A i \in 0 .. sz - 1 : k(i) <= Len(cs))
  <2>1. PICK i \in 0 .. sz - 1 : ~(k(i) <= Len(cs))
    BY <1>12
  <2>2. n = Len(cs) + 1 /\ torn = TRUE /\ k(i) = n
    BY <1>2, <1>7, <2>1
  <2>3. i = sz - 1
    <3> SUFFICES ASSUME i # sz - 1 PROVE FALSE
      OBVIOUS
    <3>1. sz - 1 \in 0 .. sz - 1 /\ i < sz - 1
      BY <1>4
    <3>2. k(i) < k(sz - 1) /\ k(sz - 1) <= n
      BY <1>7, <1>8, <3>1
    <3> QED
      BY <1>3, <1>7, <2>2, <3>1, <3>2
  <2>4. ix[sz - 1] = NULL /\ sz >= 1
    BY <1>4, <1>6, <2>1, <2>3
  <2>5. Section(ix, cs, sz - 1)
    <3>1. ASSUME NEW j \in 0 .. (sz - 1) - 1 PROVE k(j) <= Len(cs)
      <4>1. j \in 0 .. sz - 1 /\ j < i
        BY <1>4, <2>3
      <4> QED
        BY <1>2, <1>7, <1>8, <2>2, <4>1
    <3> QED
      BY <1>4, <1>10, <2>4, <3>1
  <2>6. CASE sz >= 3
    BY <1>4, <1>5, <2>2, <2>4, <2>5, <2>6 DEF Shape, Cut
  <2>7. CASE ~(sz >= 3)
    <3>1. sz \in {1, 2}
      BY <1>4, <2>4, <2>7
    <3>2. sz = 2 => ix[0] \in S
      BY <2>5 DEF Section
    <3> QED
      BY <1>4, <1>5, <2>2, <2>4, <3>1, <3>2 DEF Shape, Lost
  <2> QED
    BY <2>6, <2>7
<1> QED
  BY <1>11, <1>12

-----------------------------------------------------------------------------
(* Searching an index of each shape.                                       *)

\* The slots that hold chains: all, or all but the last.
Part(ix, cs, sz, m) ==
    /\ sz \in Nat /\ DOMAIN ix = 0 .. sz - 1
    /\ m \in 1 .. sz /\ Section(ix, cs, m)
    /\ m = sz \/ (m = sz - 1 /\ Cut(ix, cs, sz))

\* An index no search looks at.
Idle(ix, S, sz, torn) == sz = 0 \/ (torn /\ Lost(ix, S, sz))

LEMMA ShapeCases ==
    ASSUME NEW ix, NEW cs, NEW S, NEW sz, NEW torn \in BOOLEAN, Shape(ix, cs, S, sz, torn)
    PROVE  \/ \E m \in Nat : Part(ix, cs, sz, m) /\ (m = sz \/ torn)
           \/ HandleOnly(ix, sz)
           \/ Idle(ix, S, sz, torn)
<1>1. sz \in Nat /\ DOMAIN ix = 0 .. sz - 1
  BY DEF Shape
<1>2. CASE Whole(ix, cs, sz)
  <2>1. CASE sz = 0
    BY <2>1 DEF Idle
  <2>2. CASE sz # 0
    <3>1. Part(ix, cs, sz, sz)
      BY <1>1, <1>2, <2>2 DEF Part, Whole
    <3> QED
      BY <1>1, <3>1
  <2> QED
    BY <2>1, <2>2
<1>3. CASE torn /\ Cut(ix, cs, sz)
  <2>1. sz - 1 \in 1 .. sz /\ sz - 1 \in Nat
    BY <1>1, <1>3 DEF Cut
  <2>2. Part(ix, cs, sz, sz - 1)
    BY <1>1, <1>3, <2>1 DEF Part, Cut
  <2> QED
    BY <1>3, <2>1, <2>2
<1> QED
  BY <1>2, <1>3 DEF Shape, Idle

\* and back
LEMMA PartShape ==
    ASSUME NEW ix, NEW cs, NEW S, NEW sz, NEW torn \in BOOLEAN, NEW m, Part(ix, cs, sz, m), m = sz \/ torn
    PROVE  Shape(ix, cs, S, sz, torn)
BY DEF Part, Shape, Whole

\* Where the search for key ends: at the last slot that is not behind key, or at the first.
Hit(ix, key, m, r) ==
    /\ r.idx = r.pos /\ r.pos \in 0 .. m - 1
    /\ r.pos = 0 \/ ix[r.pos] <= key
    /\ \A i \in r.pos + 1 .. m - 1 : key < ix[i]

\* A chain of the list in a slot.
LEMMA PartSlots ==
    ASSUME NEW ix, NEW cs, Ordered(cs), NEW sz, NEW m, Part(ix, cs, sz, m)
    PROVE  /\ m \in Nat /\ m >= 1 /\ m <= sz /\ sz \in Nat
           /\ \A i \in 0 .. m - 1 : /\ ix[i] \in ToSet(cs) /\ ix[i] \in Names /\ ix[i] \in Int
                                    /\ ix[i] # NULL /\ ix[i] # Freed /\ ix[i] # Handle
           /\ \A i, j \in 0 .. m - 1 : i < j => ix[i] < ix[j]
           /\ ix[0] = cs[1]
<1>1. m \in Nat /\ m >= 1 /\ m <= sz /\ sz \in Nat /\ Section(ix, cs, m)
  BY DEF Part
<1>2. \A c \in ToSet(cs) : c \in Names /\ c \in Int /\ c # NULL /\ c # Freed /\ c # Handle
  BY PlaceOfChain, NoName
<1> QED
  BY <1>1, <1>2 DEF Section

LEMMA SearchPart ==
    ASSUME NEW ix, NEW cs, Ordered(cs), NEW sz, NEW m, Part(ix, cs, sz, m),
           NEW key \in Names \cup {EmptyName}, NEW r, r = iptcc_bsearch_chain_index(ix, key)
    PROVE  /\ r.to \in {"slot", "fault"}
           /\ r.to = "slot" => Hit(ix, key, m, r)
           /\ r.to = "fault" => m < sz
<1>1. PICK keys : keys = [i \in DOMAIN ix |-> NameIn(ix[i])]
  OBVIOUS
<1>2. /\ m \in Nat /\ m >= 1 /\ m <= sz /\ sz \in Nat /\ DOMAIN ix = 0 .. sz - 1
      /\ \A i \in 0 .. m - 1 : ix[i] \in Int /\ ix[i] # NULL /\ ix[i] # Freed /\ ix[i] # Handle
      /\ \A i, j \in 0 .. m - 1 : i < j => ix[i] < ix[j]
  <2>1. DOMAIN ix = 0 .. sz - 1
    BY DEF Part
  <2>2. \A i \in 0 .. m - 1 : ix[i] \in Int /\ ix[i] # NULL /\ ix[i] # Freed /\ ix[i] # Handle
    BY PartSlots
  <2>3. m \in Nat /\ m >= 1 /\ m <= sz /\ sz \in Nat
    BY PartSlots
  <2>4. \A i, j \in 0 .. m - 1 : i < j => ix[i] < ix[j]
    BY PartSlots
  <2> QED
    BY <2>1, <2>2, <2>3, <2>4
<1>3. \A i \in 0 .. m - 1 : keys[i] = ix[i]
  BY <1>1, <1>2 DEF NameIn
<1>4. key \in Int
  BY NoName, ChainIndexAssumption
<1>5. m = sz \/ (m = sz - 1 /\ m >= 2 /\ ix[m] = NULL)
  BY <1>2 DEF Part, Cut
<1>6. Searchable(ix, keys, sz, m)
  BY <1>2, <1>3, <1>5 DEF Searchable
<1>7. r = __iptcc_bsearch_chain_index(ix, keys, key)
  BY <1>1 DEF iptcc_bsearch_chain_index
<1>8. r \in SearchStates(keys, key, sz, m) /\ r.to \in {"slot", "fault"}
  BY <1>4, <1>6, <1>7, SearchResult
<1>9. ASSUME r.to = "slot" PROVE Hit(ix, key, m, r)
  <2>1. Arrived(keys, key, m, r) /\ r.pos \in 0 .. m - 1
    BY <1>2, <1>8, <1>9 DEF SearchStates, Records, Arrived
  <2>2. \A i \in r.pos + 1 .. m - 1 : key < ix[i]
    <3> SUFFICES ASSUME NEW i \in r.pos + 1 .. m - 1 PROVE key < ix[i]
      OBVIOUS
    <3>1. i \in 0 .. m - 1
      BY <1>2, <2>1
    <3> QED
      BY <1>3, <2>1, <3>1 DEF Arrived
  <2> QED
    BY <1>3, <2>1, <2>2 DEF Arrived, Hit
<1> QED
  BY <1>8, <1>9 DEF SearchStates

LEMMA SearchHandle ==
    ASSUME NEW ix, NEW sz, DOMAIN ix = 0 .. sz - 1, HandleOnly(ix, sz),
           NEW key \in Names \cup {EmptyName}, NEW r, r = iptcc_bsearch_chain_index(ix, key)
    PROVE  r.to = "slot" /\ r.pos = 0 /\ r.idx = 0
<1>1. PICK keys : keys = [i \in DOMAIN ix |-> NameIn(ix[i])]
  OBVIOUS
<1>2. sz = 1 /\ ix[0] = Handle /\ DOMAIN ix = 0 .. 0
  BY DEF HandleOnly
<1>3. keys[0] = EmptyName
  BY <1>1, <1>2 DEF NameIn
<1>4. key \in Int /\ EmptyName \in Int /\ Handle \notin {NULL, Freed}
  BY ChainIndexAssumption
<1>5. Searchable(ix, keys, sz, 1)
  BY <1>2, <1>3, <1>4 DEF Searchable
<1>6. r = __iptcc_bsearch_chain_index(ix, keys, key)
  BY <1>1 DEF iptcc_bsearch_chain_index
<1>7. r \in SearchStates(keys, key, sz, 1) /\ r.to \in {"slot", "fault"}
  BY <1>4, <1>5, <1>6, SearchResult
<1> QED
  BY <1>2, <1>7 DEF SearchStates, Records, Arrived

LEMMA SearchIdle ==
    ASSUME NEW ix, NEW S, NEW sz \in Nat, DOMAIN ix = 0 .. sz - 1, NEW torn \in BOOLEAN,
           Idle(ix, S, sz, torn), NEW key, NEW r, r = iptcc_bsearch_chain_index(ix, key)
    PROVE  r.to = "head" /\ r.idx = -1
<1>1. PICK keys : keys = [i \in DOMAIN ix |-> NameIn(ix[i])]
  OBVIOUS
<1>2. r = __iptcc_bsearch_chain_index(ix, keys, key)
  BY <1>1 DEF iptcc_bsearch_chain_index
<1>3. sz = 0 \/ ix[sz \div 2] = NULL
  <2> SUFFICES ASSUME sz # 0 PROVE ix[sz \div 2] = NULL
    OBVIOUS
  <2>1. sz \in {1, 2} /\ ix[sz - 1] = NULL
    BY DEF Idle, Lost
  <2>2. sz \div 2 = sz - 1
    BY <2>1
  <2> QED
    BY <2>1, <2>2
<1> QED
  BY <1>2, <1>3, SearchHead

\* Where the walk for a name starts: no chain that is not before the name precedes it.
LEMMA WalkStart ==
    ASSUME NEW ix, NEW cs, Ordered(cs), NEW S, NEW sz, NEW torn \in BOOLEAN, Shape(ix, cs, S, sz, torn),
           NEW key \in Names \cup {EmptyName}, NEW r, r = iptcc_bsearch_chain_index(ix, key),
           NEW k, k = WalkFrom(cs, ListPos(ix, r))
    PROVE  \/ r.to = "fault" /\ torn
           \/ /\ r.to # "fault" /\ ListPos(ix, r) \notin {NULL, Freed}
              /\ k \in 1 .. Len(cs) + 1
              /\ \A j \in 1 .. k - 1 : cs[j] < key
<1>1. /\ Len(cs) \in Nat /\ DOMAIN cs = 1 .. Len(cs)
      /\ \A i \in 1 .. Len(cs) : cs[i] \in Int
      /\ \A i, j \in 1 .. Len(cs) : i < j => cs[i] < cs[j]
  BY OrderedList
<1>2. sz \in Nat /\ DOMAIN ix = 0 .. sz - 1 /\ Handle \notin {NULL, Freed} /\ key \in Int
  BY ChainIndexAssumption DEF Shape
<1>3. ASSUME r.to # "fault", ListPos(ix, r) = Handle
      PROVE  /\ r.to # "fault" /\ ListPos(ix, r) \notin {NULL, Freed}
             /\ k \in 1 .. Len(cs) + 1
             /\ \A j \in 1 .. k - 1 : cs[j] < key
  <2>1. k = 1
    BY <1>3 DEF WalkFrom
  <2> QED
    BY <1>1, <1>2, <1>3, <2>1
<1>4. CASE \E m \in Nat : Part(ix, cs, sz, m) /\ (m = sz \/ torn)
  <2>1. PICK m \in Nat : Part(ix, cs, sz, m) /\ (m = sz \/ torn)
    BY <1>4
  <2>2. /\ r.to \in {"slot", "fault"}
        /\ r.to = "slot" => Hit(ix, key, m, r)
        /\ r.to = "fault" => m < sz
    BY <2>1, SearchPart
  <2>3. CASE r.to = "fault"
    BY <1>2, <2>1, <2>2, <2>3
  <2>4. CASE r.to = "slot"
    <3>1. PICK c : c = ix[r.pos]
      OBVIOUS
    <3>2. c \in ToSet(cs) /\ c \in Int /\ c # NULL /\ c # Freed /\ c # Handle /\ ListPos(ix, r) = c
          /\ ix[0] = cs[1] /\ r.pos \in 0 .. m - 1 /\ (r.pos = 0 \/ c <= key)
      BY <2>1, <2>2, <2>4, <3>1, PartSlots DEF Hit, ListPos
    <3>3. k = PlaceOf(cs, c)
      BY <3>2 DEF WalkFrom
    <3>4. k \in 1 .. Len(cs) /\ cs[k] = c
      BY <3>2, <3>3, PlaceOfChain
    <3>5. CASE r.pos = 0
      <4>1. 1 \in DOMAIN cs /\ c = cs[1]
        BY <1>1, <3>1, <3>2, <3>4, <3>5
      <4>2. k = 1
        BY <3>3, <4>1, OnePlace
      <4> QED
        BY <1>1, <2>4, <3>2, <4>2
    <3>6. CASE c <= key
      <4>1. \A j \in 1 .. k - 1 : cs[j] < key
        <5> SUFFICES ASSUME NEW j \in 1 .. k - 1 PROVE cs[j] < key
          OBVIOUS
        <5>1. j \in 1 .. Len(cs) /\ j < k /\ cs[j] \in Int
          BY <1>1, <3>4
        <5>2. cs[j] < c
          BY <1>1, <3>4, <5>1
        <5> QED
          BY <1>2, <3>2, <3>6, <5>1, <5>2
      <4> QED
        BY <1>1, <2>4, <3>2, <3>4, <4>1
    <3> QED
      BY <3>2, <3>5, <3>6
  <2> QED
    BY <2>2, <2>3, <2>4
<1>5. CASE HandleOnly(ix, sz)
  <2>1. r.to = "slot" /\ r.pos = 0
    BY <1>2, <1>5, SearchHandle
  <2>2. ListPos(ix, r) = Handle
    BY <1>5, <2>1 DEF ListPos, HandleOnly
  <2> QED
    BY <1>3, <2>1, <2>2
<1>6. CASE Idle(ix, S, sz, torn)
  <2>1. r.to = "head"
    BY <1>2, <1>6, SearchIdle
  <2>2. ListPos(ix, r) = Handle
    BY <2>1 DEF ListPos
  <2> QED
    BY <1>3, <2>1, <2>2
<1> QED
  BY <1>4, <1>5, <1>6, ShapeCases

-----------------------------------------------------------------------------
(* Changing the list and the index.                                        *)

\* What inserting a chain leaves: a list with it and an index of the same shape, unless the
\* search faults, at a torn index.
InsertOutcome(cs, name, sz, torn, o) ==
    \/ o = Fault /\ torn
    \/ /\ o.fault = FALSE
       /\ Ordered(o.chains) /\ Len(o.chains) = Len(cs) + 1
       /\ ToSet(o.chains) = ToSet(cs) \cup {name}
       /\ Shape(o.index, o.chains, ToSet(o.chains), sz, torn)

\* Inserting a chain keeps the shape of the index; a search that faults is one of a torn
\* index.  S may already have the name: a slot with no chain behind it was renamed.
LEMMA InsertKeeps ==
    ASSUME NEW cs, Ordered(cs), NEW ix, NEW name \in Names, name \notin ToSet(cs),
           NEW sz, NEW torn \in BOOLEAN, Shape(ix, cs, ToSet(cs) \cup {name}, sz, torn),
           NEW o, o = iptc_insert_chain(cs, ix, name)
    PROVE  InsertOutcome(cs, name, sz, torn, o)
<1>1. PICK r : r = iptcc_bsearch_chain_index(ix, name)
  OBVIOUS
<1> DEFINE S == ToSet(cs) \cup {name}
           first == r.idx = 0 /\ name <= NameIn(ix[0])
<1>3. PICK slot : slot = IF first THEN Handle ELSE ListPos(ix, r)
  OBVIOUS
<1>4. PICK k : k = WalkFrom(cs, slot)
  OBVIOUS
<1>5. o = IF r.to = "fault" THEN Fault
          ELSE Outcome(InsertAt(cs, PlaceFor(cs, k, name), name),
                       IF first THEN [ix EXCEPT ![0] = name] ELSE ix)
  BY <1>1, <1>3, <1>4 DEF iptc_insert_chain
<1>6. /\ Len(cs) \in Nat /\ DOMAIN cs = 1 .. Len(cs)
      /\ \A i \in 1 .. Len(cs) : cs[i] \in Int
      /\ \A i, j \in 1 .. Len(cs) : i < j => cs[i] < cs[j]
      /\ name \in Int /\ sz \in Nat /\ DOMAIN ix = 0 .. sz - 1
  BY OrderedList, NoName DEF Shape
<1>7. CASE r.to = "fault"
  <2>1. torn
    BY <1>1, <1>7, WalkStart
  <2> QED
    BY <1>5, <1>7, <2>1 DEF InsertOutcome
<1>8. CASE r.to # "fault"
  <2>1. k \in 1 .. Len(cs) + 1 /\ \A j \in 1 .. k - 1 : cs[j] < name
    <3>1. CASE first
      BY <1>3, <1>4, <1>6, <3>1 DEF WalkFrom
    <3>2. CASE ~first
      <4>1. k = WalkFrom(cs, ListPos(ix, r))
        BY <1>3, <1>4, <3>2
      <4> QED
        BY <1>1, <1>8, <4>1, WalkStart
    <3> QED
      BY <3>1, <3>2
  <2>2. PICK p : p = PlaceFor(cs, k, name)
    OBVIOUS
  <2>3. /\ p \in k .. Len(cs) + 1 /\ p \in 1 .. Len(cs) + 1
        /\ \A j \in 1 .. p - 1 : cs[j] < name
        /\ \A j \in p .. Len(cs) : name < cs[j]
    <3>1. /\ p \in k .. Len(cs) + 1
          /\ \A j \in 1 .. p - 1 : cs[j] < name
          /\ \A j \in p .. Len(cs) : name < cs[j]
      BY <2>1, <2>2, PlaceForName
    <3> QED
      BY <1>6, <2>1, <3>1
  <2>4. PICK q : q = InsertAt(cs, p, name)
    OBVIOUS
  <2>5. /\ Ordered(q) /\ Len(q) = Len(cs) + 1 /\ ToSet(q) = S
        /\ q[1] = IF p = 1 THEN name ELSE cs[1]
    BY <2>3, <2>4, Inserted
  <2>6. PICK iy : iy = IF first THEN [ix EXCEPT ![0] = name] ELSE ix
    OBVIOUS
  <2>7. o = Outcome(q, iy)
    BY <1>5, <1>8, <2>2, <2>4, <2>6
  <2>8. o.fault = FALSE /\ o.chains = q /\ o.index = iy
    BY <2>7 DEF Outcome
  <2>9. Shape(iy, q, S, sz, torn)
    <3>1. CASE \E m \in Nat : Part(ix, cs, sz, m) /\ (m = sz \/ torn)
      <4>1. PICK m \in Nat : Part(ix, cs, sz, m) /\ (m = sz \/ torn)
        BY <3>1
      <4>2. r.to = "slot" /\ Hit(ix, name, m, r)
        BY <1>1, <1>8, <4>1, SearchPart
      <4>3. /\ m >= 1 /\ m <= sz
            /\ \A i \in 0 .. m - 1 : ix[i] \in ToSet(cs) /\ ix[i] \in Int /\ ix[i] # Handle
            /\ \A i, j \in 0 .. m - 1 : i < j => ix[i] < ix[j]
            /\ ix[0] = cs[1]
        BY <4>1, PartSlots
      <4>4. \A i \in 0 .. m - 1 : ix[i] \in S /\ ix[i] # name
        BY <4>3
      <4>5. NameIn(ix[0]) = cs[1] /\ cs[1] \in Int /\ cs[1] # name /\ Len(cs) >= 1
        <5>1. 0 \in 0 .. m - 1
          BY <4>3
        <5>2. ix[0] \in ToSet(cs) /\ ix[0] # Handle
          BY <4>3, <5>1
        <5> QED
          BY <1>6, <4>3, <5>1, <5>2 DEF NameIn, ToSet
      <4>6. CASE first
        <5>1. name < cs[1]
          BY <1>6, <4>5, <4>6
        <5>2. p = 1
          <6> SUFFICES ASSUME p # 1 PROVE FALSE
            OBVIOUS
          <6>1. 1 \in 1 .. p - 1
            BY <2>3, <1>6
          <6> QED
            BY <1>6, <2>3, <4>5, <5>1, <6>1
        <5>3. DOMAIN iy = DOMAIN ix /\ iy[0] = name /\ \A i \in DOMAIN ix : i # 0 => iy[i] = ix[i]
          BY <1>6, <2>6, <4>3, <4>6
        <5>4. \A i \in 1 .. m - 1 : iy[i] = ix[i] /\ cs[1] < ix[i]
          <6> SUFFICES ASSUME NEW i \in 1 .. m - 1 PROVE iy[i] = ix[i] /\ cs[1] < ix[i]
            OBVIOUS
          <6>1. i \in 0 .. m - 1 /\ i \in DOMAIN ix /\ 0 \in 0 .. m - 1 /\ 0 < i
            BY <1>6, <4>3
          <6> QED
            BY <4>3, <5>3, <6>1
        <5>5. Section(iy, q, m)
          <6>1. \A i \in 0 .. m - 1 : iy[i] \in S
            <7> SUFFICES ASSUME NEW i \in 0 .. m - 1 PROVE iy[i] \in S
              OBVIOUS
            <7>1. i = 0 \/ i \in 1 .. m - 1
              OBVIOUS
            <7> QED
              BY <4>4, <5>3, <5>4, <7>1
          <6>2. ASSUME NEW i \in 0 .. m - 1, NEW j \in 0 .. m - 1, i < j PROVE iy[i] < iy[j]
            <7>1. j \in 1 .. m - 1 /\ iy[j] = ix[j] /\ cs[1] < ix[j] /\ ix[j] \in Int
              BY <4>3, <5>4, <6>2
            <7>2. CASE i = 0
              BY <1>6, <4>5, <5>1, <5>3, <7>1, <7>2
            <7>3. CASE i # 0
              <8>1. i \in 1 .. m - 1
                BY <7>3
              <8> QED
                BY <4>3, <5>4, <6>2, <7>1, <8>1
            <7> QED
              BY <7>2, <7>3
          <6>3. iy[0] = q[1]
            BY <2>5, <5>2, <5>3
          <6> QED
            BY <2>5, <6>1, <6>2, <6>3 DEF Section
        <5>6. Part(iy, q, sz, m)
          <6>1. m = sz \/ (m = sz - 1 /\ Cut(iy, q, sz))
            <7>1. CASE m = sz
              BY <7>1
            <7>2. CASE m # sz
              <8>1. m = sz - 1 /\ sz >= 3 /\ ix[sz - 1] = NULL
                BY <4>1, <7>2 DEF Part, Cut
              <8>2. iy[sz - 1] = NULL
                BY <1>6, <5>3, <8>1
              <8> QED
                BY <5>5, <8>1, <8>2 DEF Cut
            <7> QED
              BY <7>1, <7>2
          <6> QED
            BY <1>6, <4>1, <5>3, <5>5, <6>1 DEF Part
        <5> QED
          BY <4>1, <5>6, PartShape
      <4>7. CASE ~first
        <5>1. iy = ix
          BY <2>6, <4>7
        <5>2. p # 1
          <6> SUFFICES ASSUME p = 1 PROVE FALSE
            OBVIOUS
          <6>1. name < cs[1]
            BY <1>6, <2>3, <4>5
          <6>2. r.pos = 0
            <7> SUFFICES ASSUME r.pos # 0 PROVE FALSE
              OBVIOUS
            <7>1. r.pos \in 0 .. m - 1 /\ 0 \in 0 .. m - 1 /\ 0 < r.pos /\ ix[r.pos] <= name
              BY <4>2, <4>3 DEF Hit
            <7>2. ix[0] < ix[r.pos] /\ ix[0] = cs[1] /\ ix[r.pos] \in Int
              BY <4>3, <7>1
            <7> QED
              BY <1>6, <4>5, <6>1, <7>1, <7>2
          <6>3. r.idx = 0
            BY <4>2, <6>2 DEF Hit
          <6> QED
            BY <1>6, <4>5, <4>7, <6>1, <6>3
        <5>3. Section(ix, q, m)
          BY <2>5, <4>3, <4>4, <5>2 DEF Section
        <5>4. Part(ix, q, sz, m)
          <6>1. m = sz \/ (m = sz - 1 /\ Cut(ix, q, sz))
            BY <4>1, <5>3 DEF Part, Cut
          <6> QED
            BY <4>1, <5>3, <6>1 DEF Part
        <5> QED
          BY <4>1, <5>1, <5>4, PartShape
      <4> QED
        BY <4>6, <4>7
    <3>2. CASE HandleOnly(ix, sz)
      <4>1. NameIn(ix[0]) = EmptyName /\ EmptyName < name /\ EmptyName \in Int
        BY <3>2, NoName DEF HandleOnly, NameIn
      <4>2. ~first
        BY <1>6, <4>1
      <4>3. iy = ix
        BY <2>6, <4>2
      <4> QED
        BY <1>6, <3>2, <4>3 DEF Shape
    <3>3. CASE Idle(ix, S, sz, torn)
      <4>1. r.idx = -1
        BY <1>1, <1>6, <3>3, SearchIdle
      <4>2. iy = ix
        BY <2>6, <4>1
      <4>3. CASE sz = 0
        BY <1>6, <4>2, <4>3 DEF Shape, Whole, Section
      <4>4. CASE torn /\ Lost(ix, S, sz)
        BY <1>6, <4>2, <4>4 DEF Shape
      <4> QED
        BY <3>3, <4>3, <4>4 DEF Idle
    <3> QED
      BY <3>1, <3>2, <3>3, ShapeCases
  <2> QED
    BY <2>5, <2>8, <2>9 DEF InsertOutcome
<1> QED
  BY <1>7, <1>8

\* The index after a chain that slots may point to was freed, or renamed.
Edited(ix, c, x) == [i \in DOMAIN ix |-> IF ix[i] = c THEN x ELSE ix[i]]

\* free and strncpy touch a slot only where no search looks.
LEMMA Replaced ==
    ASSUME NEW cs, Ordered(cs), NEW c \in Names, c \notin ToSet(cs), NEW ix,
           NEW sz, NEW torn \in BOOLEAN, Shape(ix, cs, ToSet(cs) \cup {c}, sz, torn),
           NEW T, ToSet(cs) \subseteq T, NEW x \in T \cup {Freed},
           NEW iy, iy = Edited(ix, c, x)
    PROVE  Shape(iy, cs, T, sz, torn)
<1>1. /\ sz \in Nat /\ DOMAIN ix = 0 .. sz - 1 /\ DOMAIN iy = 0 .. sz - 1
      /\ \A i \in 0 .. sz - 1 : iy[i] = IF ix[i] = c THEN x ELSE ix[i]
      /\ c # NULL /\ c # Handle
  BY NoName DEF Shape, Edited
<1>2. CASE \E m \in Nat : Part(ix, cs, sz, m) /\ (m = sz \/ torn)
  <2>1. PICK m \in Nat : Part(ix, cs, sz, m) /\ (m = sz \/ torn)
    BY <1>2
  <2>2. ASSUME NEW i \in 0 .. m - 1
        PROVE  iy[i] = ix[i]
    <3>1. i \in 0 .. sz - 1 /\ ix[i] \in ToSet(cs)
      BY <2>1, PartSlots
    <3> QED
      BY <1>1, <3>1
  <2>3. m >= 1 /\ m <= sz /\ Section(ix, cs, m)
    BY <2>1 DEF Part
  <2>4. Section(iy, cs, m)
    BY <2>2, <2>3 DEF Section
  <2>5. m = sz \/ (m = sz - 1 /\ Cut(iy, cs, sz))
    <3>1. CASE m = sz
      BY <3>1
    <3>2. CASE m # sz
      <4>1. m = sz - 1 /\ sz >= 3 /\ ix[sz - 1] = NULL
        BY <2>1, <3>2 DEF Part, Cut
      <4>2. iy[sz - 1] = NULL
        BY <1>1, <4>1
      <4> QED
        BY <2>4, <4>1, <4>2 DEF Cut
    <3> QED
      BY <3>1, <3>2
  <2>6. Part(iy, cs, sz, m)
    BY <1>1, <2>1, <2>3, <2>4, <2>5 DEF Part
  <2> QED
    BY <2>1, <2>6, PartShape
<1>3. CASE HandleOnly(ix, sz)
  BY <1>1, <1>3 DEF HandleOnly, Shape
<1>4. CASE Idle(ix, ToSet(cs) \cup {c}, sz, torn)
  <2>1. CASE sz = 0
    BY <1>1, <2>1 DEF Shape, Whole, Section
  <2>2. CASE torn /\ Lost(ix, ToSet(cs) \cup {c}, sz)
    <3>1. sz \in {1, 2} /\ iy[sz - 1] = NULL
      BY <1>1, <2>2 DEF Lost
    <3>2. sz = 2 => iy[0] \in T \cup {Freed}
      BY <1>1, <2>2 DEF Lost
    <3> QED
      BY <1>1, <2>2, <3>1, <3>2 DEF Lost, Shape
  <2> QED
    BY <1>4, <2>1, <2>2 DEF Idle
<1> QED
  BY <1>2, <1>3, <1>4, ShapeCases

Shifted(ix, p, c2) == [ix EXCEPT ![p] = c2]

\* The slot of a chain that is deleted moves on to the chain behind it.
LEMMA ShiftKeeps ==
    ASSUME NEW cs, Ordered(cs), NEW c \in ToSet(cs), NEW ix,
           NEW sz, NEW torn \in BOOLEAN, NEW m, Part(ix, cs, sz, m), m = sz \/ torn,
           NEW c2, c2 = NextOf(cs, c), NEW p \in 0 .. m - 1, ix[p] = c,
           NEW r2, Hit(ix, NameIn(c2), m, r2), r2.idx = p,
           NEW rest, rest = Without(cs, c), NEW iy, iy = Shifted(ix, p, c2), NEW S
    PROVE  Shape(iy, rest, S, sz, torn)
<1>1. /\ Len(cs) \in Nat /\ DOMAIN cs = 1 .. Len(cs)
      /\ \A i \in 1 .. Len(cs) : cs[i] \in Int /\ cs[i] \in Names
      /\ \A i, j \in 1 .. Len(cs) : i < j => cs[i] < cs[j]
  BY OrderedList
<1>2. /\ m \in Nat /\ m >= 1 /\ m <= sz /\ sz \in Nat /\ DOMAIN ix = 0 .. sz - 1
      /\ m = sz \/ (m = sz - 1 /\ sz >= 3 /\ ix[sz - 1] = NULL)
  BY DEF Part, Cut
<1>3. /\ \A i \in 0 .. m - 1 : ix[i] \in ToSet(cs) /\ ix[i] \in Int
      /\ \A i, j \in 0 .. m - 1 : i < j => ix[i] < ix[j]
      /\ ix[0] = cs[1]
  BY PartSlots
<1>4. DOMAIN iy = 0 .. sz - 1 /\ iy[p] = c2 /\ \A i \in 0 .. sz - 1 : i # p => iy[i] = ix[i]
  BY <1>2 DEF Shifted
<1>5. PICK l : l = PlaceOf(cs, c)
  OBVIOUS
<1>6. l \in 1 .. Len(cs) /\ cs[l] = c /\ c \in Int
  BY <1>5, PlaceOfChain
<1>7. c2 = IF l = Len(cs) THEN Handle ELSE cs[l + 1]
  BY <1>5 DEF NextOf
<1>8. /\ Len(rest) = Len(cs) - 1 /\ ToSet(rest) = ToSet(cs) \ {c}
      /\ cs[1] # c => rest[1] = cs[1]
      /\ cs[1] = c /\ Len(cs) > 1 => rest[1] = cs[2]
  BY Removed
<1>9. r2.pos = p /\ (p = 0 \/ ix[p] <= NameIn(c2)) /\ \A i \in p + 1 .. m - 1 : NameIn(c2) < ix[i]
  BY DEF Hit
<1>10. CASE l = Len(cs)
  <2>1. NameIn(c2) = EmptyName /\ c2 = Handle
    BY <1>7, <1>10 DEF NameIn
  <2>2. c \in Names /\ EmptyName < c /\ EmptyName \in Int
    BY PlaceOfChain, NoName
  <2>3. p = 0
    BY <1>6, <1>9, <2>1, <2>2
  <2>4. l = 1
    <3>1. 1 \in DOMAIN cs /\ cs[1] = c
      BY <1>1, <1>3, <1>6, <2>3
    <3> QED
      BY <1>5, <3>1, OnePlace
  <2>5. ToSet(cs) = {c}
    BY <1>1, <1>6, <1>10, <2>4 DEF ToSet
  <2>6. m = 1
    <3> SUFFICES ASSUME m # 1 PROVE FALSE
      OBVIOUS
    <3>1. 0 \in 0 .. m - 1 /\ 1 \in 0 .. m - 1
      BY <1>2
    <3>2. ix[0] = c /\ ix[1] = c /\ ix[0] < ix[1]
      BY <1>3, <2>5, <3>1
    <3> QED
      BY <1>6, <3>2
  <2>7. sz = 1
    BY <1>2, <2>6
  <2> QED
    BY <1>4, <2>1, <2>3, <2>7 DEF Shape, HandleOnly
<1>11. CASE l # Len(cs)
  <2>1. c2 = cs[l + 1] /\ l + 1 \in 1 .. Len(cs) /\ c2 \in Names /\ c2 \in Int /\ c2 # c /\ c < c2
    <3>0. Len(cs) \in Nat
      BY <1>1
    <3>1. l \in 1 .. Len(cs) /\ l + 1 \in 1 .. Len(cs) /\ l < l + 1
      BY <1>6, <1>11, <3>0
    <3>2. c2 = cs[l + 1]
      BY <1>7, <1>11
    <3>3. c2 \in Names /\ c2 \in Int /\ c < c2
      BY <1>1, <1>6, <3>1, <3>2
    <3> QED
      BY <1>6, <3>1, <3>2, <3>3
  <2>2. NameIn(c2) = c2
    BY <2>1, NoName DEF NameIn
  <2>3. c2 \in ToSet(rest)
    BY <1>1, <1>8, <2>1 DEF ToSet
  <2>4. ASSUME NEW i \in 0 .. m - 1, i # p
        PROVE  iy[i] = ix[i] /\ ix[i] \in ToSet(rest) /\ ix[i] \in Int /\ (i < p => ix[i] < c2) /\ (p < i => c2 < ix[i])
    <3>1. ix[i] # c /\ (i < p => ix[i] < c)
      BY <1>3, <1>6, <2>4
    <3>2. iy[i] = ix[i]
      BY <1>2, <1>4, <2>4
    <3>3. p < i => c2 < ix[i]
      BY <1>2, <1>9, <2>2, <2>4
    <3>4. ix[i] \in ToSet(rest) /\ ix[i] \in Int
      BY <1>3, <1>8, <3>1
    <3>5. i < p => ix[i] < c2
      BY <1>6, <2>1, <3>1, <3>4
    <3> QED
      BY <3>2, <3>3, <3>4, <3>5
  <2>5. Section(iy, rest, m)
    <3>1. \A i \in 0 .. m - 1 : iy[i] \in ToSet(rest)
      BY <1>4, <2>3, <2>4
    <3>2. ASSUME NEW i \in 0 .. m - 1, NEW j \in 0 .. m - 1, i < j PROVE iy[i] < iy[j]
      <4>1. CASE i = p
        BY <1>4, <2>4, <3>2, <4>1
      <4>2. CASE j = p
        BY <1>4, <2>4, <3>2, <4>2
      <4>3. CASE i # p /\ j # p
        BY <1>3, <2>4, <3>2, <4>3
      <4> QED
        BY <4>1, <4>2, <4>3
    <3>3. iy[0] = rest[1]
      <4>1. 0 \in 0 .. m - 1
        BY <1>2
      <4>2. CASE p = 0
        <5>1. cs[1] = c /\ 1 \in DOMAIN cs
          BY <1>1, <1>3, <1>6, <4>2
        <5>2. l = 1
          BY <1>5, <5>1, OnePlace
        <5> QED
          BY <1>1, <1>4, <1>6, <1>8, <1>11, <2>1, <4>2, <5>1, <5>2
      <4>3. CASE p # 0
        <5>1. ix[0] # c
          BY <1>3, <1>6, <4>1, <4>3
        <5> QED
          BY <1>3, <1>8, <2>4, <4>1, <4>3, <5>1
      <4> QED
        BY <4>2, <4>3
    <3> QED
      BY <3>1, <3>2, <3>3 DEF Section
  <2>6. m = sz \/ (m = sz - 1 /\ Cut(iy, rest, sz))
    <3>1. CASE m = sz
      BY <3>1
    <3>2. CASE m # sz
      <4>1. m = sz - 1 /\ sz >= 3 /\ ix[sz - 1] = NULL
        BY <1>2, <3>2
      <4>2. iy[sz - 1] = NULL
        BY <1>2, <1>4, <4>1
      <4> QED
        BY <2>5, <4>1, <4>2 DEF Cut
    <3> QED
      BY <3>1, <3>2
  <2>7. Part(iy, rest, sz, m)
    BY <1>2, <1>4, <2>5, <2>6 DEF Part
  <2> QED
    BY <2>7, PartShape
<1> QED
  BY <1>10, <1>11

\* A slot that holds the chain searched for is the one the search ends at.
LEMMA HitsItsChain ==
    ASSUME NEW cs, Ordered(cs), NEW c \in ToSet(cs), NEW ix, NEW sz, NEW m, Part(ix, cs, sz, m),
           NEW r, Hit(ix, c, m, r), NEW i \in 0 .. m - 1, ix[i] = c
    PROVE  i = r.pos
<1>1. /\ m \in Nat /\ m >= 1 /\ \A j \in 0 .. m - 1 : ix[j] \in Int
      /\ \A j, k \in 0 .. m - 1 : j < k => ix[j] < ix[k]
  BY PartSlots
<1>2. r.pos \in 0 .. m - 1 /\ c \in Int /\ (r.pos = 0 \/ ix[r.pos] <= c)
      /\ \A j \in r.pos + 1 .. m - 1 : c < ix[j]
  BY PlaceOfChain DEF Hit
<1>3. ~(r.pos < i)
  <2> SUFFICES ASSUME r.pos < i PROVE FALSE
    OBVIOUS
  <2>1. i \in r.pos + 1 .. m - 1
    BY <1>1, <1>2
  <2> QED
    BY <1>2, <2>1
<1>4. ~(i < r.pos)
  <2> SUFFICES ASSUME i < r.pos PROVE FALSE
    OBVIOUS
  <2>1. ix[i] < ix[r.pos] /\ ix[r.pos] <= c /\ ix[r.pos] \in Int
    BY <1>1, <1>2
  <2> QED
    BY <1>2, <2>1
<1> QED
  BY <1>1, <1>2, <1>3, <1>4

\* Deleting a chain keeps the shape, over the list without it; a slot may still point to
\* the chain where no search looks.
LEMMA DeleteKeeps ==
    ASSUME NEW cs, Ordered(cs), NEW c \in ToSet(cs), NEW ix,
           NEW sz, NEW torn \in BOOLEAN, Shape(ix, cs, ToSet(cs), sz, torn),
           NEW n \in {Len(cs) - 1, Len(cs)}, torn \/ n = Len(cs) - 1,
           NEW o \in iptcc_chain_index_delete_chain(cs, ix, n, c)
    PROVE  \/ o = Fault /\ torn
           \/ \E iy : /\ o = Outcome(Without(cs, c), iy)
                     /\ \E sy \in Nat : Shape(iy, Without(cs, c), ToSet(cs), sy, torn)
<1>1. PICK rest : rest = Without(cs, c)
  OBVIOUS
<1>2. PICK c2 : c2 = NextOf(cs, c)
  OBVIOUS
<1>3. PICK r : r = iptcc_bsearch_chain_index(ix, c)
  OBVIOUS
<1>4. PICK r2 : r2 = iptcc_bsearch_chain_index(ix, NameIn(c2))
  OBVIOUS
<1>5. PICK shifted : shifted = Outcome(rest, [ix EXCEPT ![r.idx] = c2])
  OBVIOUS
<1>6. PICK rebuilt : rebuilt = Outcome(rest, IndexOf(rest, n))
  OBVIOUS
<1>7. o \in IF r.to = "fault" THEN {Fault}
            ELSE IF ListPos(ix, r) # c THEN {Outcome(rest, ix)}
            ELSE IF r2.to = "fault" THEN {Fault}
            ELSE IF r2.idx = -1 THEN {shifted, rebuilt}
            ELSE IF r2.idx = r.idx THEN {shifted} ELSE {rebuilt}
  BY <1>1, <1>2, <1>3, <1>4, <1>5, <1>6 DEF iptcc_chain_index_delete_chain
<1>8. /\ Len(cs) \in Nat /\ DOMAIN cs = 1 .. Len(cs)
      /\ \A i \in 1 .. Len(cs) : cs[i] \in Names
      /\ sz \in Nat /\ DOMAIN ix = 0 .. sz - 1
      /\ c \in Names /\ c # Handle
  BY OrderedList, PlaceOfChain, NoName DEF Shape
<1>9. /\ Ordered(rest) /\ Len(rest) = Len(cs) - 1 /\ ToSet(rest) = ToSet(cs) \ {c}
      /\ cs[1] # c => rest[1] = cs[1]
  BY <1>1, Removed
<1>10. NameIn(c2) \in Names \cup {EmptyName}
  <2>1. PlaceOf(cs, c) \in 1 .. Len(cs)
    BY PlaceOfChain
  <2>2. c2 = Handle \/ c2 \in Names
    <3>1. PICK i : i = PlaceOf(cs, c)
      OBVIOUS
    <3>2. c2 = IF i = Len(cs) THEN Handle ELSE cs[i + 1]
      BY <1>2, <3>1 DEF NextOf
    <3>3. i \in 1 .. Len(cs)
      BY <2>1, <3>1
    <3>0. Len(cs) \in Nat
      BY <1>8
    <3>4. i # Len(cs) => i + 1 \in 1 .. Len(cs)
      BY <3>0, <3>3
    <3> QED
      BY <1>8, <3>2, <3>4
  <2> QED
    BY <2>2 DEF NameIn
<1>11. ASSUME NEW iy, o = Outcome(rest, iy), NEW sy \in Nat, Shape(iy, rest, ToSet(cs), sy, torn)
       PROVE  \E i : /\ o = Outcome(Without(cs, c), i)
                     /\ \E s \in Nat : Shape(i, Without(cs, c), ToSet(cs), s, torn)
  BY <1>1, <1>11
<1>12. CASE r.to = "fault"
  <2>1. torn
    BY <1>3, <1>8, <1>12, WalkStart
  <2> QED
    BY <1>7, <1>12, <2>1
<1>13. CASE r.to # "fault" /\ ListPos(ix, r) # c
  <2>1. o = Outcome(rest, ix)
    BY <1>7, <1>13
  <2>2. Shape(ix, rest, ToSet(cs), sz, torn)
    <3>1. CASE \E m \in Nat : Part(ix, cs, sz, m) /\ (m = sz \/ torn)
      <4>1. PICK m \in Nat : Part(ix, cs, sz, m) /\ (m = sz \/ torn)
        BY <3>1
      <4>2. r.to = "slot" /\ Hit(ix, c, m, r)
        BY <1>3, <1>8, <1>13, <4>1, SearchPart
      <4>3. /\ m >= 1 /\ m <= sz
            /\ \A i \in 0 .. m - 1 : ix[i] \in ToSet(cs)
            /\ \A i, j \in 0 .. m - 1 : i < j => ix[i] < ix[j]
            /\ ix[0] = cs[1]
        BY <4>1, PartSlots
      <4>4. \A i \in 0 .. m - 1 : ix[i] # c
        BY <1>13, <4>1, <4>2, HitsItsChain DEF ListPos
      <4>5. Section(ix, rest, m)
        <5>1. \A i \in 0 .. m - 1 : ix[i] \in ToSet(rest)
          BY <1>9, <4>3, <4>4
        <5>2. ix[0] = rest[1]
          BY <1>9, <4>3, <4>4
        <5> QED
          BY <4>3, <5>1, <5>2 DEF Section
      <4>6. Part(ix, rest, sz, m)
        BY <4>1, <4>5 DEF Part, Cut
      <4> QED
        BY <4>1, <4>6, PartShape
    <3>2. CASE HandleOnly(ix, sz)
      BY <1>8, <3>2 DEF Shape
    <3>3. CASE Idle(ix, ToSet(cs), sz, torn)
      <4>1. CASE sz = 0
        <5>1. DOMAIN ix = 0 .. sz - 1
          BY <1>8
        <5> QED
          BY <4>1, <5>1 DEF Shape, Whole, Section
      <4>2. CASE torn /\ Lost(ix, ToSet(cs), sz)
        BY <1>8, <4>2 DEF Shape
      <4> QED
        BY <3>3, <4>1, <4>2 DEF Idle
    <3> QED
      BY <3>1, <3>2, <3>3, ShapeCases
  <2> QED
    BY <1>8, <1>11, <2>1, <2>2
<1>14. CASE r.to # "fault" /\ ListPos(ix, r) = c
  <2>1. CASE \E m \in Nat : Part(ix, cs, sz, m) /\ (m = sz \/ torn)
    <3>1. PICK m \in Nat : Part(ix, cs, sz, m) /\ (m = sz \/ torn)
      BY <2>1
    <3>2. r.to = "slot" /\ Hit(ix, c, m, r)
      BY <1>3, <1>8, <1>14, <3>1, SearchPart
    <3>3. ix[r.pos] = c /\ r.idx = r.pos /\ r.pos \in 0 .. m - 1
      BY <1>14, <3>2 DEF ListPos, Hit
    <3>4. /\ r2.to \in {"slot", "fault"}
          /\ r2.to = "slot" => Hit(ix, NameIn(c2), m, r2)
          /\ r2.to = "fault" => m < sz
      BY <1>4, <1>10, <3>1, SearchPart
    <3>5. CASE r2.to = "fault"
      <4>1. torn
        <5>1. m \in Nat /\ m < sz /\ sz \in Nat
          BY <1>8, <3>4, <3>5
        <5> QED
          BY <3>1, <5>1
      <4>2. o = Fault
        BY <1>7, <1>14, <3>5
      <4> QED
        BY <4>1, <4>2
    <3>6. CASE r2.to # "fault" /\ r2.idx = r.idx
      <4>1. Hit(ix, NameIn(c2), m, r2) /\ r2.idx = r.pos /\ r.pos \in Nat
        BY <3>3, <3>4, <3>6
      <4>2. o = shifted
        BY <1>7, <1>14, <3>3, <3>6, <4>1
      <4>3. PICK iy : iy = [ix EXCEPT ![r.pos] = c2]
        OBVIOUS
      <4>4. o = Outcome(rest, iy)
        BY <1>5, <3>3, <4>2, <4>3
      <4>5. Shape(iy, rest, ToSet(cs), sz, torn)
        <5>1. Part(ix, cs, sz, m) /\ (m = sz \/ torn)
          BY <3>1
        <5>2. PICK p : p = r.pos
          OBVIOUS
        <5>3. p \in 0 .. m - 1 /\ ix[p] = c /\ r2.idx = p
          BY <3>3, <4>1, <5>2
        <5>4. iy = Shifted(ix, p, c2)
          BY <4>3, <5>2 DEF Shifted
        <5>5. Hit(ix, NameIn(c2), m, r2)
          BY <4>1
        <5> QED
          BY <1>1, <1>2, <5>1, <5>3, <5>4, <5>5, ShiftKeeps
      <4> QED
        BY <1>8, <1>11, <4>4, <4>5
    <3>7. CASE r2.to # "fault" /\ r2.idx # r.idx
      <4>1. Hit(ix, NameIn(c2), m, r2)
        BY <3>4, <3>7
      <4>2. r2.idx # -1
        BY <4>1 DEF Hit
      <4>3. o = rebuilt
        BY <1>7, <1>14, <3>7, <4>2
      <4>4. PICK iy : iy = IndexOf(rest, n)
        OBVIOUS
      <4>5. n \in {Len(rest), Len(rest) + 1} /\ (torn \/ n = Len(rest)) /\ ToSet(rest) \subseteq ToSet(cs)
        <5>0. Len(rest) = Len(cs) - 1 /\ Len(cs) \in Nat
          BY <1>8, <1>9
        <5>1. Len(rest) = Len(cs) - 1 /\ Len(rest) + 1 = Len(cs)
          BY <5>0
        <5>2. n = Len(cs) - 1 \/ n = Len(cs)
          OBVIOUS
        <5> QED
          BY <1>9, <5>1, <5>2
      <4>6. \E sy \in Nat : Shape(iy, rest, ToSet(cs), sy, torn)
        BY <1>9, <4>4, <4>5, Built
      <4> QED
        BY <1>6, <1>11, <4>3, <4>4, <4>6
    <3> QED
      BY <3>5, <3>6, <3>7
  <2>2. CASE HandleOnly(ix, sz)
    <3>1. r.to = "slot" /\ r.pos = 0
      BY <1>3, <1>8, <2>2, SearchHandle
    <3> QED
      BY <1>8, <1>14, <2>2, <3>1 DEF ListPos, HandleOnly
  <2>3. CASE Idle(ix, ToSet(cs), sz, torn)
    <3>1. r.to = "head"
      BY <1>3, <1>8, <2>3, SearchIdle
    <3> QED
      BY <1>8, <1>14, <3>1 DEF ListPos
  <2> QED
    BY <2>1, <2>2, <2>3, ShapeCases
<1> QED
  BY <1>12, <1>13, <1>14

-----------------------------------------------------------------------------
(* The invariant.                                                          *)

Torn == "rename" \in calls

\* While the table is read: each chain has an offset of its own, and offsets that are
\* said to be sorted are those of the list.
Parsed ==
    /\ order \in Seq(Names)
    /\ \A i, j \in DOMAIN order : order[i] = order[j] => i = j
    /\ ToSet(order) = ToSet(chains)
    /\ sorted_offsets => order = chains

ChainInv ==
    /\ Ordered(chains)
    /\ phase # "fault" => num_chains = Len(chains)
    /\ phase = "fault" => Torn
    /\ phase \in {"parse", "fixup"} => Parsed
    /\ phase = "fixup" => \E sz \in Nat : DOMAIN index = 0 .. sz - 1 /\ Whole(index, chains, sz)
    /\ phase = "use" => \E sz \in Nat : Shape(index, chains, ToSet(chains), sz, Torn)

\* A lookup finds the chains of the list.
LEMMA FindLabel ==
    ASSUME ChainInv, phase = "use", NEW name \in Names, NEW f, f = iptcc_find_label(name)
    PROVE  \/ f = "fault" /\ Torn
           \/ f = "found" /\ name \in ToSet(chains)
           \/ f = "none" /\ name \notin ToSet(chains)
<1>1. PICK torn \in BOOLEAN : torn <=> Torn
  OBVIOUS
<1>2. PICK sz \in Nat : Shape(index, chains, ToSet(chains), sz, Torn)
  BY DEF ChainInv
<1>3. Ordered(chains) /\ num_chains = Len(chains)
  BY DEF ChainInv
<1>4. PICK r : r = iptcc_bsearch_chain_index(index, name)
  OBVIOUS
<1>5. PICK slot : slot = ListPos(index, r)
  OBVIOUS
<1>6. PICK k : k = WalkFrom(chains, slot)
  OBVIOUS
<1>7. f = IF r.to = "fault" \/ slot = Freed THEN "fault"
          ELSE IF num_chains # 0 /\ Walked(chains, k, name) THEN "found" ELSE "none"
  BY <1>4, <1>5, <1>6 DEF iptcc_find_label
<1>8. \/ r.to = "fault" /\ Torn
      \/ /\ r.to # "fault" /\ slot # Freed
         /\ k \in 1 .. Len(chains) + 1
         /\ \A j \in 1 .. k - 1 : chains[j] < name
  <2>1. Torn \in BOOLEAN
    BY DEF Torn
  <2>2. name \in Names \cup {EmptyName}
    OBVIOUS
  <2> QED
    BY <1>2, <1>3, <1>4, <1>5, <1>6, <2>1, <2>2, WalkStart
<1>9. CASE r.to = "fault"
  BY <1>7, <1>8, <1>9
<1>10. CASE r.to # "fault"
  <2>1. slot # Freed /\ k \in 1 .. Len(chains) + 1 /\ \A j \in 1 .. k - 1 : chains[j] < name
    BY <1>8, <1>10
  <2>2. Len(chains) \in Nat
    BY <1>3, OrderedList
  <2>3. DOMAIN chains = 1 .. Len(chains)
    BY <1>3, OrderedList
  <2>4. CASE name \in ToSet(chains)
    <3>1. PICK i \in 1 .. Len(chains) : chains[i] = name
      BY <2>3, <2>4 DEF ToSet
    <3>2. chains[i] \in Int
      BY <1>3, OrderedList
    <3>3. ~(i < k)
      <4> SUFFICES ASSUME i < k PROVE FALSE
        OBVIOUS
      <4>1. i \in 1 .. k - 1
        BY <2>1, <2>2
      <4>2. chains[i] < name
        BY <2>1, <4>1
      <4> QED
        BY <3>1, <3>2, <4>2
    <3>4. k \in Nat
      BY <2>1, <2>2
    <3>5. i \in k .. Len(chains)
      BY <2>2, <3>3, <3>4
    <3>6. \A j \in k .. i - 1 : chains[j] < name
      <4> SUFFICES ASSUME NEW j \in k .. i - 1 PROVE chains[j] < name
        OBVIOUS
      <4>1. j \in 1 .. Len(chains) /\ j < i
        BY <2>1, <2>2, <3>4
      <4> QED
        BY <1>3, <3>1, <4>1, OrderedList
    <3>7. Walked(chains, k, name)
      BY <3>1, <3>5, <3>6 DEF Walked
    <3>8. num_chains # 0
      BY <1>3, <2>2
    <3> QED
      BY <1>7, <1>10, <2>1, <2>4, <3>7, <3>8
  <2>5. CASE name \notin ToSet(chains)
    <3>1. ~Walked(chains, k, name)
      <4> SUFFICES ASSUME Walked(chains, k, name) PROVE FALSE
        OBVIOUS
      <4>1. PICK i \in k .. Len(chains) : chains[i] = name
        BY DEF Walked
      <4>2. i \in DOMAIN chains
        BY <2>1, <2>2, <2>3
      <4> QED
        BY <2>5, <4>1, <4>2 DEF ToSet
    <3> QED
      BY <1>7, <1>10, <2>1, <2>5, <3>1
  <2> QED
    BY <2>4, <2>5
<1> QED
  BY <1>9, <1>10

\* A list that grows at its end.
LEMMA Appended ==
    ASSUME NEW cs, Ordered(cs), NEW name \in Names, cs = <<>> \/ name > Last(cs),
           NEW q, q = Append(cs, name)
    PROVE  Ordered(q) /\ Len(q) = Len(cs) + 1 /\ ToSet(q) = ToSet(cs) \cup {name}
<1>1. cs \in Seq(Names) /\ Len(cs) \in Nat /\ DOMAIN cs = 1 .. Len(cs)
  BY OrderedList
<1>2. /\ q \in Seq(Names) /\ Len(q) = Len(cs) + 1 /\ DOMAIN q = 1 .. Len(cs) + 1
      /\ \A i \in 1 .. Len(cs) : q[i] = cs[i]
      /\ q[Len(cs) + 1] = name
  BY <1>1
<1>3. Len(cs) \in Nat
  BY <1>1
<1>4. \A i \in 1 .. Len(cs) : cs[i] < name /\ cs[i] \in Int
  <2> SUFFICES ASSUME NEW i \in 1 .. Len(cs) PROVE cs[i] < name /\ cs[i] \in Int
    OBVIOUS
  <2>1. Len(cs) \in 1 .. Len(cs)
    BY <1>3
  <2>2. cs # <<>>
    BY <1>3
  <2>3. cs[Len(cs)] < name
    BY <2>2, NoName DEF Last
  <2>4. cs[i] \in Int /\ cs[Len(cs)] \in Int /\ name \in Int
    BY <2>1, OrderedList, NoName
  <2>5. i = Len(cs) \/ i < Len(cs)
    BY <1>3
  <2>6. i < Len(cs) => cs[i] < cs[Len(cs)]
    BY <2>1, OrderedList
  <2> QED
    BY <2>3, <2>4, <2>5, <2>6
<1>5. ASSUME NEW i \in DOMAIN q, NEW j \in DOMAIN q, i < j
      PROVE  q[i] < q[j]
  <2>1. i \in 1 .. Len(cs) /\ (j \in 1 .. Len(cs) \/ j = Len(cs) + 1)
    <3>1. i \in 1 .. Len(cs) + 1 /\ j \in 1 .. Len(cs) + 1
      BY <1>2
    <3> QED
      BY <1>3, <1>5, <3>1
  <2>2. CASE j = Len(cs) + 1
    BY <1>2, <1>4, <2>1, <2>2
  <2>3. CASE j \in 1 .. Len(cs)
    <3>1. cs[i] < cs[j]
      BY <1>5, <2>1, <2>3, OrderedList
    <3> QED
      BY <1>2, <2>1, <2>3, <3>1
  <2> QED
    BY <2>1, <2>2, <2>3
<1>6. ToSet(q) = ToSet(cs) \cup {name}
  <2>1. ASSUME NEW i \in 1 .. Len(cs) + 1 PROVE q[i] \in ToSet(cs) \cup {name}
    <3>1. i \in 1 .. Len(cs) \/ i = Len(cs) + 1
      BY <1>3
    <3> QED
      BY <1>1, <1>2, <3>1 DEF ToSet
  <2>2. ASSUME NEW i \in 1 .. Len(cs) PROVE cs[i] \in ToSet(q)
    <3>1. i \in 1 .. Len(cs) + 1
      BY <1>3
    <3> QED
      BY <1>2, <3>1 DEF ToSet
  <2>3. Len(cs) + 1 \in DOMAIN q
    BY <1>2, <1>3
  <2>4. name \in ToSet(q)
    BY <1>2, <2>3 DEF ToSet
  <2> QED
    BY <1>1, <1>2, <2>1, <2>2, <2>4 DEF ToSet
<1> QED
  BY <1>2, <1>5, <1>6 DEF Ordered

LEMMA EmptyList == Ordered(<<>>) /\ ToSet(<<>>) = {} /\ Len(<<>>) = 0
BY DEF Ordered, ToSet

-----------------------------------------------------------------------------
(* The steps.                                                              *)

LEMMA InitChain == Init => ChainInv
<1> SUFFICES ASSUME Init PROVE ChainInv
  OBVIOUS
<1>1. phase = "parse" /\ order = <<>> /\ chains = <<>> /\ num_chains = 0
  BY DEF Init
<1>2. Parsed
  BY <1>1 DEF Parsed
<1> QED
  BY <1>1, <1>2, EmptyList DEF ChainInv

LEMMA ParseKeeps ==
    ASSUME ChainInv, calls' = calls, NEW name \in Names, __iptcc_p_add_chain(name)
    PROVE  ChainInv'
<1>1. /\ phase = "parse" /\ phase' = "parse" /\ num_chains' = num_chains + 1
      /\ order' = Append(order, name) /\ ~Contains(order, name)
  BY DEF __iptcc_p_add_chain
<1>2. /\ Ordered(chains) /\ num_chains = Len(chains) /\ order \in Seq(Names)
      /\ ToSet(order) = ToSet(chains) /\ (sorted_offsets => order = chains)
      /\ \A i, j \in DOMAIN order : order[i] = order[j] => i = j
  BY <1>1 DEF ChainInv, Parsed
<1>3. name \notin ToSet(chains)
  <2>1. \A i \in DOMAIN order : order[i] # name
    BY <1>1, <1>2 DEF Contains
  <2> QED
    BY <1>2, <2>1 DEF ToSet
<1>4. /\ Ordered(chains') /\ Len(chains') = Len(chains) + 1
      /\ ToSet(chains') = ToSet(chains) \cup {name}
      /\ sorted_offsets' => order' = chains'
  <2>1. CASE chains = <<>> \/ name > Last(chains)
    <3>1. chains' = Append(chains, name) /\ sorted_offsets' = sorted_offsets
      BY <2>1 DEF __iptcc_p_add_chain
    <3>2. Ordered(Append(chains, name)) /\ Len(Append(chains, name)) = Len(chains) + 1
          /\ ToSet(Append(chains, name)) = ToSet(chains) \cup {name}
      BY <1>2, <2>1, Appended
    <3> QED
      BY <1>1, <1>2, <3>1, <3>2
  <2>2. CASE ~(chains = <<>> \/ name > Last(chains))
    <3>1. chains' = InsertAt(chains, PlaceFor(chains, 1, name), name) /\ sorted_offsets' = FALSE
      BY <2>2 DEF __iptcc_p_add_chain, NoteUnsorted
    <3>2. PICK p : p = PlaceFor(chains, 1, name)
      OBVIOUS
    <3>3. Len(chains) \in Nat
      BY <1>2, OrderedList
    <3>4. 1 \in 1 .. Len(chains) + 1 /\ \A j \in 1 .. 1 - 1 : chains[j] < name
      BY <3>3
    <3>5. /\ p \in 1 .. Len(chains) + 1
          /\ \A j \in 1 .. p - 1 : chains[j] < name
          /\ \A j \in p .. Len(chains) : name < chains[j]
      BY <1>2, <1>3, <3>2, <3>4, PlaceForName
    <3>6. PICK q : q = InsertAt(chains, p, name)
      OBVIOUS
    <3>7. Ordered(q) /\ Len(q) = Len(chains) + 1 /\ ToSet(q) = ToSet(chains) \cup {name}
      BY <1>2, <3>5, <3>6, Inserted
    <3> QED
      BY <3>1, <3>2, <3>6, <3>7
  <2> QED
    BY <2>1, <2>2
<1>5. PICK q : q = Append(order, name)
  OBVIOUS
<1>6. Len(order) \in Nat /\ DOMAIN order = 1 .. Len(order)
  BY <1>2
<1>7. /\ q \in Seq(Names) /\ DOMAIN q = 1 .. Len(order) + 1
      /\ \A i \in 1 .. Len(order) : q[i] = order[i]
      /\ q[Len(order) + 1] = name
  BY <1>2, <1>5
<1>8. \A i \in 1 .. Len(order) : order[i] # name
  BY <1>1 DEF Contains
<1>9. ASSUME NEW i \in DOMAIN q, NEW j \in DOMAIN q, q[i] = q[j]
      PROVE  i = j
  <2>1. /\ i \in 1 .. Len(order) \/ i = Len(order) + 1
        /\ j \in 1 .. Len(order) \/ j = Len(order) + 1
    BY <1>6, <1>7
  <2>2. CASE i \in 1 .. Len(order) /\ j \in 1 .. Len(order)
    BY <1>2, <1>6, <1>7, <1>9, <2>2
  <2>3. CASE i \in 1 .. Len(order) /\ j = Len(order) + 1
    BY <1>7, <1>8, <1>9, <2>3
  <2>4. CASE i = Len(order) + 1 /\ j \in 1 .. Len(order)
    BY <1>7, <1>8, <1>9, <2>4
  <2> QED
    BY <2>1, <2>2, <2>3, <2>4
<1>10. ToSet(q) = ToSet(order) \cup {name}
  <2>1. DOMAIN q = DOMAIN order \cup {Len(order) + 1}
    BY <1>6, <1>7
  <2>2. \A i \in DOMAIN order : q[i] = order[i]
    BY <1>6, <1>7
  <2> QED
    BY <1>7, <2>1, <2>2 DEF ToSet
<1>11. Parsed'
  <2>1. order' = q
    BY <1>1, <1>5
  <2>2. ToSet(order') = ToSet(chains')
    BY <1>2, <1>4, <1>10, <2>1
  <2> QED
    BY <1>4, <1>7, <1>9, <2>1, <2>2 DEF Parsed
<1> QED
  BY <1>1, <1>2, <1>4, <1>11 DEF ChainInv

LEMMA TableKeeps ==
    ASSUME ChainInv, calls' = calls, EndOfTable
    PROVE  ChainInv'
<1>1. /\ phase = "parse" /\ phase' = "fixup" /\ index' = IndexOf(chains, num_chains)
      /\ order' = order /\ chains' = chains /\ num_chains' = num_chains
      /\ sorted_offsets' = sorted_offsets
  BY DEF EndOfTable
<1>2. Ordered(chains) /\ num_chains = Len(chains) /\ Parsed
  BY <1>1 DEF ChainInv
<1>3. Parsed'
  BY <1>1, <1>2 DEF Parsed
<1>4. PICK ix : ix = IndexOf(chains, num_chains)
  OBVIOUS
<1>5. \E sz \in Nat : DOMAIN ix = 0 .. sz - 1 /\ Whole(ix, chains, sz)
  <2>1. \E sz \in Nat : Shape(ix, chains, ToSet(chains), sz, FALSE) /\ (num_chains = Len(chains) => Whole(ix, chains, sz))
    BY <1>2, <1>4, Built
  <2> QED
    BY <1>2, <2>1 DEF Shape
<1> QED
  BY <1>1, <1>2, <1>3, <1>4, <1>5 DEF ChainInv

LEMMA FixupKeeps ==
    ASSUME ChainInv, calls' = calls, EndOfFixup
    PROVE  ChainInv'
<1>1. /\ phase = "fixup" /\ phase' = "use" /\ index' = index /\ chains' = chains
      /\ num_chains' = num_chains
  BY DEF EndOfFixup
<1>2. Ordered(chains) /\ num_chains = Len(chains)
  BY <1>1 DEF ChainInv
<1>3. \E sz \in Nat : Shape(index, chains, ToSet(chains), sz, Torn)
  <2>1. PICK sz \in Nat : DOMAIN index = 0 .. sz - 1 /\ Whole(index, chains, sz)
    BY <1>1 DEF ChainInv
  <2>2. Shape(index, chains, ToSet(chains), sz, Torn)
    BY <2>1 DEF Shape
  <2> QED
    BY <2>2
<1>4. Torn' <=> Torn
  BY DEF Torn
<1>5. \E sz \in Nat : Shape(index', chains', ToSet(chains'), sz, Torn')
  BY <1>1, <1>3 DEF Torn
<1> QED
  BY <1>1, <1>2, <1>5 DEF ChainInv

\* What a call may leave behind.
LEMMA TakeKeeps ==
    ASSUME ChainInv, phase = "use", calls' = calls, NEW o, NEW n, Take(o, n),
           \/ o = Fault /\ Torn
           \/ /\ o.fault = FALSE /\ Ordered(o.chains) /\ n = Len(o.chains)
              /\ \E sz \in Nat : Shape(o.index, o.chains, ToSet(o.chains), sz, Torn)
    PROVE  ChainInv'
<1>1. /\ phase' = IF o.fault THEN "fault" ELSE "use"
      /\ chains' = o.chains /\ index' = o.index /\ num_chains' = n
  BY DEF Take
<1>2. Torn' <=> Torn
  BY DEF Torn
<1>3. CASE o = Fault /\ Torn
  <2>1. phase' = "fault" /\ chains' = <<>>
    BY <1>1, <1>3 DEF Fault
  <2>2. Ordered(chains')
    BY <2>1, EmptyList
  <2> QED
    BY <1>2, <1>3, <2>1, <2>2 DEF ChainInv
<1>4. CASE /\ o.fault = FALSE /\ Ordered(o.chains) /\ n = Len(o.chains)
           /\ \E sz \in Nat : Shape(o.index, o.chains, ToSet(o.chains), sz, Torn)
  <2>1. phase' = "use" /\ Ordered(chains') /\ num_chains' = Len(chains')
    BY <1>1, <1>4
  <2>2. \E sz \in Nat : Shape(index', chains', ToSet(chains'), sz, Torn')
    BY <1>1, <1>4 DEF Torn
  <2> QED
    BY <2>1, <2>2 DEF ChainInv
<1> QED
  BY <1>3, <1>4

LEMMA CreateKeeps ==
    ASSUME ChainInv, calls' = calls, NEW name \in Names, TC_CREATE_CHAIN(name)
    PROVE  ChainInv'
<1>0. PICK torn : torn = Torn
  OBVIOUS
<1>1. phase = "use"
  BY DEF TC_CREATE_CHAIN
<1>2. CASE iptcc_find_label(name) = "fault" /\ LookupFault
  <2>1. Torn
    BY <1>1, <1>2, FindLabel
  <2>2. Take(Fault, num_chains)
    BY <1>2 DEF LookupFault
  <2> QED
    BY <1>0, <1>1, <2>1, <2>2, TakeKeeps
<1>3. CASE iptcc_find_label(name) # "fault"
  <2>1. PICK n : n = num_chains + 1
    OBVIOUS
  <2>2. PICK o : o = iptc_insert_chain(chains, index, name)
    OBVIOUS
  <2>3. PICK w : w = IF ~o.fault /\ Exceeded(n, Cardinality(DOMAIN o.index))
                     THEN Outcome(o.chains, IndexOf(o.chains, n)) ELSE o
    OBVIOUS
  <2>4. iptcc_find_label(name) = "none" /\ Take(w, n)
    BY <1>3, <2>1, <2>2, <2>3 DEF TC_CREATE_CHAIN
  <2>5. name \notin ToSet(chains)
    BY <1>1, <2>4, FindLabel
  <2>6. Ordered(chains) /\ num_chains = Len(chains) /\ torn \in BOOLEAN
    BY <1>0, <1>1 DEF ChainInv, Torn
  <2>7. PICK sz \in Nat : Shape(index, chains, ToSet(chains), sz, torn)
    BY <1>0, <1>1 DEF ChainInv
  <2>8. Shape(index, chains, ToSet(chains) \cup {name}, sz, torn)
    BY <2>7 DEF Shape, Lost
  <2>9. InsertOutcome(chains, name, sz, torn, o)
    BY <2>2, <2>5, <2>6, <2>8, InsertKeeps
  <2>10. CASE o = Fault /\ torn
    <3>0. o.fault = TRUE
      BY <2>10 DEF Fault
    <3>1. w = o
      BY <2>3, <3>0
    <3> QED
      BY <1>0, <1>1, <2>4, <2>10, <3>1, TakeKeeps
  <2>11. CASE /\ o.fault = FALSE
              /\ Ordered(o.chains) /\ Len(o.chains) = Len(chains) + 1
              /\ ToSet(o.chains) = ToSet(chains) \cup {name}
              /\ Shape(o.index, o.chains, ToSet(o.chains), sz, torn)
    <3>1. /\ Ordered(o.chains) /\ n = Len(o.chains)
          /\ \E s \in Nat : Shape(o.index, o.chains, ToSet(o.chains), s, torn)
      BY <2>1, <2>6, <2>11
    <3>2. CASE w = o
      BY <1>0, <1>1, <2>4, <2>11, <3>1, <3>2, TakeKeeps
    <3>3. CASE w # o
      <4>1. PICK ix : ix = IndexOf(o.chains, n)
        OBVIOUS
      <4>2. w = Outcome(o.chains, ix)
        BY <2>3, <3>3, <4>1
      <4>3. w.fault = FALSE /\ w.chains = o.chains /\ w.index = ix
        BY <4>2 DEF Outcome
      <4>4. \E s \in Nat : Shape(ix, o.chains, ToSet(o.chains), s, torn)
        BY <2>6, <3>1, <4>1, Built
      <4> QED
        BY <1>0, <1>1, <2>4, <3>1, <4>3, <4>4, TakeKeeps
    <3> QED
      BY <3>2, <3>3
  <2> QED
    BY <2>9, <2>10, <2>11 DEF InsertOutcome
<1> QED
  BY <1>2, <1>3 DEF TC_CREATE_CHAIN

\* o has no fault, the chains cs and the index ix.
Leaves(o, cs, ix) == o.chains = cs /\ o.fault = FALSE /\ o.index = ix

\* free and strncpy on the outcome of a deletion
LEMMA AfterFreeOf ==
    ASSUME NEW cs, NEW ix, NEW c, NEW q, q = AfterFree(Outcome(cs, ix), c)
    PROVE  Leaves(q, cs, Edited(ix, c, Freed))
BY DEF Leaves, Outcome, Edited, AfterFree

LEMMA AfterStrncpyOf ==
    ASSUME NEW cs, NEW ix, NEW old, NEW new, NEW q, q = AfterStrncpy(Outcome(cs, ix), old, new)
    PROVE  Leaves(q, cs, Edited(ix, old, new))
BY DEF Leaves, Outcome, Edited, AfterStrncpy

LEMMA DeleteChainKeeps ==
    ASSUME ChainInv, calls' = calls, NEW name \in Names, TC_DELETE_CHAIN(name)
    PROVE  ChainInv'
<1>0. PICK torn : torn = Torn
  OBVIOUS
<1>1. phase = "use"
  BY DEF TC_DELETE_CHAIN
<1>2. CASE iptcc_find_label(name) = "fault" /\ LookupFault
  <2>1. Torn
    BY <1>1, <1>2, FindLabel
  <2>2. Take(Fault, num_chains)
    BY <1>2 DEF LookupFault
  <2> QED
    BY <1>0, <1>1, <2>1, <2>2, TakeKeeps
<1>3. CASE iptcc_find_label(name) # "fault"
  <2>1. PICK n : n = num_chains - 1
    OBVIOUS
  <2>2. iptcc_find_label(name) = "found"
    BY <1>3 DEF TC_DELETE_CHAIN
  <2>3. PICK o \in iptcc_chain_index_delete_chain(chains, index, n, name) :
            Take(IF o.fault THEN o ELSE AfterFree(o, name), n)
    BY <1>3, <2>1 DEF TC_DELETE_CHAIN
  <2>4. name \in ToSet(chains)
    BY <1>1, <2>2, FindLabel
  <2>5. Ordered(chains) /\ num_chains = Len(chains) /\ torn \in BOOLEAN
    BY <1>0, <1>1 DEF ChainInv, Torn
  <2>6. PICK sz \in Nat : Shape(index, chains, ToSet(chains), sz, torn)
    BY <1>0, <1>1 DEF ChainInv
  <2>7. PICK rest : rest = Without(chains, name)
    OBVIOUS
  <2>8. \/ o = Fault /\ torn
        \/ \E iy : /\ o = Outcome(rest, iy)
                  /\ \E sy \in Nat : Shape(iy, rest, ToSet(chains), sy, torn)
    <3>1. n \in {Len(chains) - 1, Len(chains)} /\ n = Len(chains) - 1
      BY <2>1, <2>5
    <3> QED
      BY <2>3, <2>4, <2>5, <2>6, <2>7, <3>1, DeleteKeeps
  <2>9. CASE o = Fault /\ torn
    <3>1. Take(Fault, n)
      BY <2>3, <2>9 DEF Fault
    <3> QED
      BY <1>0, <1>1, <2>9, <3>1, TakeKeeps
  <2>10. CASE \E iy : /\ o = Outcome(rest, iy)
                     /\ \E sy \in Nat : Shape(iy, rest, ToSet(chains), sy, torn)
    <3>1. PICK iy : /\ o = Outcome(rest, iy)
                    /\ \E sy \in Nat : Shape(iy, rest, ToSet(chains), sy, torn)
      BY <2>10
    <3>2. PICK sy \in Nat : Shape(iy, rest, ToSet(chains), sy, torn)
      BY <3>1
    <3>3. Ordered(rest) /\ Len(rest) = Len(chains) - 1 /\ ToSet(rest) = ToSet(chains) \ {name}
      BY <2>4, <2>5, <2>7, Removed
    <3>4. ToSet(chains) = ToSet(rest) \cup {name} /\ name \notin ToSet(rest)
      BY <2>4, <3>3
    <3>5. PICK iz : iz = Edited(iy, name, Freed)
      OBVIOUS
    <3>6. Shape(iz, rest, ToSet(rest), sy, torn)
      <4>2. Shape(iy, rest, ToSet(rest) \cup {name}, sy, torn)
        BY <3>2, <3>4
      <4> QED
        BY <2>5, <3>3, <3>4, <3>5, <4>2, Replaced
    <3>7. PICK q : q = AfterFree(o, name)
      OBVIOUS
    <3>8. o.fault = FALSE
      BY <3>1 DEF Outcome
    <3>10. Take(q, n)
      BY <2>3, <3>7, <3>8
    <3>11. q.fault = FALSE /\ q.chains = rest /\ q.index = iz
      <4>1. q = AfterFree(Outcome(rest, iy), name)
        BY <3>1, <3>7
      <4>2. Leaves(q, rest, Edited(iy, name, Freed))
        BY <4>1, AfterFreeOf
      <4> QED
        BY <3>5, <4>2 DEF Leaves
    <3>12. n = Len(rest)
      BY <2>1, <2>5, <3>3
    <3> QED
      BY <1>0, <1>1, <3>3, <3>6, <3>10, <3>11, <3>12, TakeKeeps
  <2> QED
    BY <2>8, <2>9, <2>10
<1> QED
  BY <1>2, <1>3 DEF TC_DELETE_CHAIN

LEMMA RenameKeeps ==
    ASSUME ChainInv, calls' = calls, NEW old \in Names, NEW new \in Names, TC_RENAME_CHAIN(old, new)
    PROVE  ChainInv'
<1>0. PICK torn : torn = Torn
  OBVIOUS
<1>1. phase = "use" /\ Torn
  BY DEF TC_RENAME_CHAIN, Torn
<1>2. CASE "fault" \in {iptcc_find_label(new), iptcc_find_label(old)} /\ LookupFault
  <2>1. Take(Fault, num_chains)
    BY <1>2 DEF LookupFault
  <2> QED
    BY <1>0, <1>1, <2>1, TakeKeeps
<1>3. CASE /\ iptcc_find_label(new) = "none" /\ iptcc_find_label(old) = "found"
           /\ \E o \in iptcc_chain_index_delete_chain(chains, index, num_chains, old) :
                 Take(InsertRenamed(o, old, new), num_chains)
  <2>1. PICK n : n = num_chains
    OBVIOUS
  <2>2. PICK o \in iptcc_chain_index_delete_chain(chains, index, n, old) :
            Take(InsertRenamed(o, old, new), n)
    BY <1>3, <2>1
  <2>3. old \in ToSet(chains) /\ new \notin ToSet(chains)
    BY <1>1, <1>3, FindLabel
  <2>4. Ordered(chains) /\ n = Len(chains) /\ torn \in BOOLEAN
    BY <1>0, <1>1, <2>1 DEF ChainInv, Torn
  <2>5. PICK sz \in Nat : Shape(index, chains, ToSet(chains), sz, torn)
    BY <1>0, <1>1 DEF ChainInv
  <2>6. PICK rest : rest = Without(chains, old)
    OBVIOUS
  <2>7. \/ o = Fault /\ torn
        \/ \E iy : /\ o = Outcome(rest, iy)
                  /\ \E sy \in Nat : Shape(iy, rest, ToSet(chains), sy, torn)
    <3>1. n \in {Len(chains) - 1, Len(chains)}
      BY <2>4
    <3>2. torn
      BY <1>0, <1>1
    <3> QED
      BY <2>2, <2>3, <2>4, <2>5, <2>6, <3>1, <3>2, DeleteKeeps
  <2>8. CASE o = Fault /\ torn
    <3>1. Take(Fault, n)
      BY <2>2, <2>8 DEF Fault, InsertRenamed
    <3> QED
      BY <1>0, <1>1, <3>1, TakeKeeps
  <2>9. CASE \E iy : /\ o = Outcome(rest, iy)
                    /\ \E sy \in Nat : Shape(iy, rest, ToSet(chains), sy, torn)
    <3>1. PICK iy : /\ o = Outcome(rest, iy)
                    /\ \E sy \in Nat : Shape(iy, rest, ToSet(chains), sy, torn)
      BY <2>9
    <3>2. PICK sy \in Nat : Shape(iy, rest, ToSet(chains), sy, torn)
      BY <3>1
    <3>3. Ordered(rest) /\ Len(rest) = Len(chains) - 1 /\ ToSet(rest) = ToSet(chains) \ {old}
      BY <2>3, <2>4, <2>6, Removed
    <3>4. ToSet(chains) = ToSet(rest) \cup {old} /\ old \notin ToSet(rest) /\ new \notin ToSet(rest)
      BY <2>3, <3>3
    <3>5. PICK iz : iz = Edited(iy, old, new)
      OBVIOUS
    <3>6. Shape(iz, rest, ToSet(rest) \cup {new}, sy, torn)
      <4>2. Shape(iy, rest, ToSet(rest) \cup {old}, sy, torn)
        BY <3>2, <3>4
      <4>3. new \in (ToSet(rest) \cup {new}) \cup {Freed} /\ ToSet(rest) \subseteq ToSet(rest) \cup {new}
        OBVIOUS
      <4> QED
        BY <2>4, <3>3, <3>4, <3>5, <4>2, <4>3, Replaced
    <3>7. PICK q : q = AfterStrncpy(o, old, new)
      OBVIOUS
    <3>8. o.fault = FALSE /\ q.chains = rest /\ q.index = iz
      <4>1. q = AfterStrncpy(Outcome(rest, iy), old, new)
        BY <3>1, <3>7
      <4>2. Leaves(q, rest, Edited(iy, old, new))
        BY <4>1, AfterStrncpyOf
      <4> QED
        BY <3>1, <3>5, <4>2 DEF Leaves, Outcome
    <3>9. PICK w : w = iptc_insert_chain(rest, iz, new)
      OBVIOUS
    <3>10. InsertRenamed(o, old, new) = w
      BY <3>7, <3>8, <3>9 DEF InsertRenamed
    <3>11. Take(w, n)
      BY <2>2, <3>10
    <3>12. InsertOutcome(rest, new, sy, torn, w)
      BY <2>4, <3>3, <3>4, <3>6, <3>9, InsertKeeps
    <3>13. Len(rest) + 1 = n
      <4>1. Len(chains) \in Nat
        BY <2>4, OrderedList
      <4> QED
        BY <2>4, <3>3, <4>1
    <3> QED
      BY <1>0, <1>1, <3>11, <3>12, <3>13, TakeKeeps DEF InsertOutcome
  <2> QED
    BY <2>7, <2>8, <2>9
<1> QED
  BY <1>2, <1>3 DEF TC_RENAME_CHAIN

LEMMA NextChain == ChainInv /\ [Next]_vars => ChainInv'
<1> SUFFICES ASSUME ChainInv, [Next]_vars PROVE ChainInv'
  OBVIOUS
<1>1. CASE Next
  <2>1. calls' = calls
    BY <1>1 DEF Next
  <2>2. CASE \E n \in Names : __iptcc_p_add_chain(n)
    BY <2>1, <2>2, ParseKeeps
  <2>3. CASE EndOfTable
    BY <2>1, <2>3, TableKeeps
  <2>4. CASE EndOfFixup
    BY <2>1, <2>4, FixupKeeps
  <2>5. CASE \E n \in Names : TC_CREATE_CHAIN(n)
    BY <2>1, <2>5, CreateKeeps
  <2>6. CASE \E n \in Names : TC_DELETE_CHAIN(n)
    BY <2>1, <2>6, DeleteChainKeeps
  <2>7. CASE \E n, m \in Names : TC_RENAME_CHAIN(n, m)
    BY <2>1, <2>7, RenameKeeps
  <2> QED
    BY <1>1, <2>2, <2>3, <2>4, <2>5, <2>6, <2>7 DEF Next
<1>2. CASE UNCHANGED vars
  <2>1. /\ phase' = phase /\ order' = order /\ chains' = chains /\ num_chains' = num_chains
        /\ index' = index /\ sorted_offsets' = sorted_offsets /\ calls' = calls
    BY <1>2 DEF vars
  <2>2. (Torn' <=> Torn) /\ (Parsed => Parsed')
    BY <2>1 DEF Torn, Parsed
  <2> QED
    BY <2>1, <2>2 DEF ChainInv, Torn
<1> QED
  BY <1>1, <1>2

-----------------------------------------------------------------------------
(* The theorems.                                                           *)

\* The list, the index and the order of the table in which they were read stay as
\* ChainInv says, whatever is parsed, created, deleted and renamed.
THEOREM ChainInvariant == Spec => []ChainInv
<1>1. Init => ChainInv
  BY InitChain
<1>2. ChainInv /\ [Next]_vars => ChainInv'
  BY NextChain
<1> QED
  BY <1>1, <1>2, PTL DEF Spec

\* The list a table is written back from stays in the order of the names, and num_chains
\* is the number of its chains.
THEOREM ListStaysInOrder == Spec => []ListInOrder
<1>1. ChainInv => ListInOrder
  BY DEF ChainInv, Ordered, ListInOrder
<1> QED
  BY <1>1, ChainInvariant, PTL

\* A lookup finds every chain and no other, and without renaming no call faults.
THEOREM LookupStaysExact == Spec => []LookupExact
<1>1. ChainInv => LookupExact
  <2> SUFFICES ASSUME ChainInv PROVE LookupExact
    OBVIOUS
  <2>1. ASSUME phase = "use", NEW n \in Names
        PROVE  /\ iptcc_find_label(n) # "none" \/ ~Contains(chains, n)
               /\ iptcc_find_label(n) # "found" \/ Contains(chains, n)
               /\ iptcc_find_label(n) = "fault" => "rename" \in calls
    <3>1. PICK f : f = iptcc_find_label(n)
      OBVIOUS
    <3>2. \/ f = "fault" /\ Torn
          \/ f = "found" /\ n \in ToSet(chains)
          \/ f = "none" /\ n \notin ToSet(chains)
      BY <2>1, <3>1, FindLabel
    <3>3. DOMAIN chains = 1 .. Len(chains)
      BY OrderedList DEF ChainInv
    <3>4. Contains(chains, n) <=> n \in ToSet(chains)
      BY <3>3 DEF Contains, ToSet
    <3> QED
      BY <3>1, <3>2, <3>4 DEF Torn
  <2>2. phase = "fault" => "rename" \in calls
    BY DEF ChainInv, Torn
  <2>3. "rename" \notin calls => NeverFaults
    BY <2>1, <2>2 DEF NeverFaults
  <2> QED
    BY <2>1, <2>3 DEF LookupExact
<1> QED
  BY <1>1, ChainInvariant, PTL

\* The search by offset, when offsets are sorted, starts the walk at the chain or before it.
LEMMA OffsetStart ==
    ASSUME ChainInv, phase = "fixup", sorted_offsets, NEW p \in DOMAIN chains,
           NEW r, r = __iptcc_bsearch_chain_index(index, [i \in DOMAIN index |-> OffsetOf(index[i])], p),
           NEW k, k = WalkFrom(chains, ListPos(index, r))
    PROVE  k \in Nat /\ 1 <= k /\ k <= p
<1>1. PICK sz \in Nat : DOMAIN index = 0 .. sz - 1 /\ Whole(index, chains, sz)
  BY DEF ChainInv
<1>2. Ordered(chains) /\ order = chains
  BY DEF ChainInv, Parsed
<1>3. PICK keys : keys = [i \in DOMAIN index |-> OffsetOf(index[i])]
  OBVIOUS
<1>4. r = __iptcc_bsearch_chain_index(index, keys, p)
  BY <1>3
<1>5. p \in Int /\ p \in Nat /\ 1 <= p
  BY <1>2, OrderedList
<1>6. ASSUME ListPos(index, r) = Handle PROVE k \in Nat /\ 1 <= k /\ k <= p
  <2>1. k = 1
    BY <1>6 DEF WalkFrom
  <2> QED
    BY <1>5, <2>1
<1>7. CASE sz = 0
  <2>1. r.to = "head"
    BY <1>1, <1>4, <1>7, SearchHead
  <2>2. ListPos(index, r) = Handle
    BY <2>1 DEF ListPos
  <2> QED
    BY <1>6, <2>2
<1>8. CASE sz # 0
  <2>1. Part(index, chains, sz, sz)
    BY <1>1, <1>8 DEF Part, Whole
  <2>2. \A i \in 0 .. sz - 1 : index[i] \in ToSet(chains) /\ index[i] # NULL /\ index[i] # Freed /\ index[i] # Handle
    BY <1>2, <2>1, PartSlots
  <2>3. \A i, j \in 0 .. sz - 1 : i < j => index[i] < index[j]
    BY <1>2, <2>1, PartSlots
  <2>4. index[0] = chains[1]
    BY <1>2, <2>1, PartSlots
  <2>5. ASSUME NEW i \in 0 .. sz - 1
        PROVE  keys[i] \in 1 .. Len(chains) /\ keys[i] \in Int /\ chains[keys[i]] = index[i]
               /\ keys[i] = PlaceOf(chains, index[i])
    <3>1. keys[i] = PlaceOf(chains, index[i])
      BY <1>1, <1>2, <1>3 DEF OffsetOf
    <3>2. PlaceOf(chains, index[i]) \in 1 .. Len(chains) /\ chains[PlaceOf(chains, index[i])] = index[i]
      BY <1>2, <2>2, PlaceOfChain
    <3>3. keys[i] \in 1 .. Len(chains)
      BY <3>1, <3>2
    <3>4. keys[i] \in Int
      BY <3>3
    <3> QED
      BY <3>1, <3>2, <3>3, <3>4
  <2>6. ASSUME NEW i \in 0 .. sz - 1, NEW j \in 0 .. sz - 1, i < j PROVE keys[i] < keys[j]
    <3>1. PICK a \in 1 .. Len(chains) : a = keys[i]
      BY <2>5
    <3>2. PICK b \in 1 .. Len(chains) : b = keys[j]
      BY <2>5
    <3>3. chains[a] < chains[b] /\ chains[a] \in Int /\ chains[b] \in Int
      <4>1. chains[a] = index[i] /\ chains[b] = index[j]
        BY <2>5, <3>1, <3>2
      <4>2. chains[a] \in Int /\ chains[b] \in Int
        BY <1>2, OrderedList
      <4> QED
        BY <2>3, <2>6, <4>1, <4>2
    <3>4. ~(b < a)
      <4>1. b < a => chains[b] < chains[a]
        BY <1>2, OrderedList
      <4> QED
        BY <3>3, <4>1
    <3>5. a # b
      BY <3>3
    <3>6. a \in Int /\ b \in Int
      OBVIOUS
    <3> QED
      BY <3>1, <3>2, <3>4, <3>5, <3>6
  <2>7. Searchable(index, keys, sz, sz)
    <3>1. sz \in 1 .. sz
      BY <1>8
    <3> QED
      BY <1>1, <2>2, <2>5, <2>6, <3>1 DEF Searchable
  <2>8. r \in SearchStates(keys, p, sz, sz) /\ r.to \in {"slot", "fault"}
    BY <1>4, <1>5, <2>7, SearchResult
  <2>9. r.to = "slot" /\ Arrived(keys, p, sz, r) /\ r \in Records(sz)
    BY <2>8 DEF SearchStates
  <2>10. r.pos \in 0 .. sz - 1 /\ (r.pos = 0 \/ keys[r.pos] <= p)
    BY <2>9 DEF Arrived, Records
  <2>11. ListPos(index, r) = index[r.pos]
    BY <2>9 DEF ListPos
  <2>12. k = keys[r.pos]
    BY <2>2, <2>5, <2>10, <2>11 DEF WalkFrom
  <2>13. k \in 1 .. Len(chains) /\ chains[k] = index[r.pos]
    BY <2>5, <2>10, <2>12
  <2>14. CASE r.pos = 0
    <3>1. 1 \in DOMAIN chains /\ chains[1] = index[r.pos]
      BY <1>2, <2>4, <2>13, <2>14, OrderedList
    <3>2. k = 1
      BY <1>2, <2>5, <2>10, <2>12, <3>1, OnePlace
    <3> QED
      BY <1>5, <3>2
  <2>15. CASE keys[r.pos] <= p
    BY <2>12, <2>13, <2>15
  <2> QED
    BY <2>10, <2>14, <2>15
<1> QED
  BY <1>7, <1>8

\* Each jump is resolved to the chain whose head it names.
THEOREM JumpsAreResolved == Spec => []JumpsResolved
<1>1. ChainInv => JumpsResolved
  <2> SUFFICES ASSUME ChainInv, phase = "fixup", NEW p \in DOMAIN chains
               PROVE  iptcc_find_chain_by_offset(OffsetOf(chains[p])) = {chains[p]}
    BY DEF JumpsResolved
  <2>1. Ordered(chains) /\ Parsed
    BY DEF ChainInv
  <2>2. DOMAIN chains = 1 .. Len(chains) /\ Len(chains) \in Nat
    BY <2>1, OrderedList
  <2>3. PICK offset : offset = OffsetOf(chains[p])
    OBVIOUS
  <2>4. ASSUME NEW c \in ToSet(chains) PROVE order[OffsetOf(c)] = c
    <3>1. \E i \in DOMAIN order : order[i] = c
      BY <2>1 DEF Parsed, ToSet
    <3> QED
      BY <3>1 DEF OffsetOf, PlaceOf
  <2>5. ASSUME NEW j \in DOMAIN chains, OffsetOf(chains[j]) = offset PROVE j = p
    <3>1. chains[j] \in ToSet(chains) /\ chains[p] \in ToSet(chains)
      BY DEF ToSet
    <3>2. chains[j] = chains[p]
      BY <2>3, <2>4, <2>5, <3>1
    <3> QED
      BY <2>1, <3>2, OnePlace
  <2>6. PICK r : r = __iptcc_bsearch_chain_index(index, [i \in DOMAIN index |-> OffsetOf(index[i])], offset)
    OBVIOUS
  <2>7. PICK k : k = WalkFrom(chains, IF sorted_offsets THEN ListPos(index, r) ELSE Handle)
    OBVIOUS
  <2>8. iptcc_find_chain_by_offset(offset)
          = {chains[i] : i \in {j \in k .. Len(chains) : OffsetOf(chains[j]) = offset}}
    BY <2>6, <2>7 DEF iptcc_find_chain_by_offset
  <2>9. k \in Nat /\ 1 <= k /\ k <= p
    <3>1. CASE sorted_offsets
      <4>1. offset = p
        BY <2>1, <2>3, <3>1, OnePlace DEF OffsetOf, Parsed
      <4>2. r = __iptcc_bsearch_chain_index(index, [i \in DOMAIN index |-> OffsetOf(index[i])], p)
        BY <2>6, <4>1
      <4>3. k = WalkFrom(chains, ListPos(index, r))
        BY <2>7, <3>1
      <4> QED
        BY <3>1, <4>2, <4>3, OffsetStart
    <3>2. CASE ~sorted_offsets
      <4>1. k = 1
        BY <2>7, <3>2 DEF WalkFrom
      <4> QED
        BY <2>2, <4>1
    <3> QED
      BY <3>1, <3>2
  <2>10. {j \in k .. Len(chains) : OffsetOf(chains[j]) = offset} = {p}
    <3>1. p \in k .. Len(chains)
      BY <2>2, <2>9
    <3>2. \A j \in k .. Len(chains) : j \in DOMAIN chains
      BY <2>2, <2>9
    <3> QED
      BY <2>3, <2>5, <3>1, <3>2
  <2> QED
    BY <2>3, <2>8, <2>10
<1> QED
  BY <1>1, ChainInvariant, PTL
=============================================================================
