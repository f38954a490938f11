---------------------------- MODULE ServiceProofs ----------------------------
(***************************************************************************)
(* Machine-checked proofs about Service and the mirror it is built on      *)
(* (RuleTables), for every set of headers, priorities and requests and     *)
(* every bound on the lists: the mirror keeps its lists in order and       *)
(* implements the chains with policies; to_argv and do_command4 between    *)
(* them make of a request the command the mirror has carried out; and so   *)
(* the kernel's tables stay those of the mirror.                           *)
(***************************************************************************)
EXTENDS Service, Foundations, FiniteSetTheorems

-----------------------------------------------------------------------------
(* A single list in good order, and the edits that keep it so.             *)

GoodList(s) ==
    /\ s \in Seq(Entry)
    /\ Len(s) >= 1
    /\ Last(s).head = NoHead
    /\ Last(s).priority = MAX_PRIORITY
    /\ Last(s).actionDesc # "DESC_NONE"
    /\ \A i, j \in 1 .. Len(s) - 1 : i < j => s[i].priority >= s[j].priority

\* The inductive invariant: all four invariants, list by list.
IInv ==
    /\ list \in [Lists -> Seq(Entry)]
    /\ length \in [Lists -> Int]
    /\ mem \in {"ok", "wild"}
    /\ out \in [ret : {0, 1}, index : Int, alert : BOOLEAN]
    /\ \A l \in Lists : GoodList(list[l]) /\ length[l] = Len(list[l])

\* An entry's priority is a natural number, and a requested rule is a possible entry.
LEMMA EntryFacts ==
  /\ \A e \in Entry : e.priority \in Int /\ e.priority >= 0
  /\ Ruletable \subseteq Entry
  <1>1. \A p \in Priorities \cup {MAX_PRIORITY} : p \in Int /\ p >= 0
    BY PrioritiesAssumption DEF MAX_PRIORITY
  <1>2. \A e \in Entry : e.priority \in Priorities \cup {MAX_PRIORITY}
    BY DEF Entry
  <1>3. Ruletable \subseteq Entry
    BY DEF Entry, Ruletable
  <1> QED BY <1>1, <1>2, <1>3

\* A rule put between rules of at least its priority and rules below it, and in
\* front of the policy, leaves the list in good order.
LEMMA GoodInsert ==
  ASSUME NEW s, GoodList(s), NEW r \in Ruletable, NEW k \in 1 .. Len(s),
         \A i \in 1 .. k - 1 : s[i].priority >= r.priority,
         \A i \in k .. Len(s) - 1 : r.priority >= s[i].priority
  PROVE  GoodList(InsertAt(s, k, r)) /\ Len(InsertAt(s, k, r)) = Len(s) + 1
  <1> DEFINE t == InsertAt(s, k, r)
  <1>1. s \in Seq(Entry) /\ Len(s) \in Nat /\ Len(s) >= 1 /\ r \in Entry
    BY EntryFacts, LenProperties DEF GoodList
  <1>2. t \in Seq(Entry) /\ Len(t) = Len(s) + 1
        /\ \A i \in 1 .. Len(s) + 1 :
             t[i] = IF i < k THEN s[i] ELSE IF i = k THEN r ELSE s[i - 1]
    BY <1>1, InsertAtProperties
  <1>3. Last(t) = Last(s)
    BY <1>1, <1>2 DEF Last
  <1>4. ASSUME NEW i \in 1 .. Len(t) - 1, NEW j \in 1 .. Len(t) - 1, i < j
        PROVE  t[i].priority >= t[j].priority
    <2>1. t[i] = IF i < k THEN s[i] ELSE IF i = k THEN r ELSE s[i - 1]
      BY <1>1, <1>2
    <2>2. t[j] = IF j < k THEN s[j] ELSE IF j = k THEN r ELSE s[j - 1]
      BY <1>1, <1>2
    <2>3. CASE j < k
      BY <1>1, <1>2, <2>1, <2>2, <2>3, <1>4 DEF GoodList
    <2>4. CASE j = k
      BY <1>1, <1>2, <2>1, <2>2, <2>4, <1>4
    <2>5. CASE j > k /\ i < k
      BY <1>1, <1>2, <2>1, <2>2, <2>5, <1>4 DEF GoodList
    <2>6. CASE j > k /\ i = k
      BY <1>1, <1>2, <2>1, <2>2, <2>6
    <2>7. CASE j > k /\ i > k
      BY <1>1, <1>2, <2>1, <2>2, <2>7, <1>4 DEF GoodList
    <2> QED BY <1>1, <1>2, <2>3, <2>4, <2>5, <2>6, <2>7
  <1>5. \A i, j \in 1 .. Len(t) - 1 : i < j => t[i].priority >= t[j].priority
    BY <1>4
  <1>6. /\ Last(s).head = NoHead
        /\ Last(s).priority = MAX_PRIORITY
        /\ Last(s).actionDesc # "DESC_NONE"
    BY DEF GoodList
  <1>7. GoodList(t)
    <2> HIDE DEF t
    <2>1. Len(t) >= 1
      BY <1>1, <1>2
    <2> QED BY <1>2, <1>3, <1>5, <1>6, <2>1 DEF GoodList
  <1> QED BY <1>2, <1>7

\* Taking out any entry but the last keeps the list in good order.
LEMMA GoodRemove ==
  ASSUME NEW s, GoodList(s), NEW k \in 1 .. Len(s) - 1
  PROVE  GoodList(RemoveAt(s, k)) /\ Len(RemoveAt(s, k)) = Len(s) - 1
  <1> DEFINE t == RemoveAt(s, k)
  <1>1. s \in Seq(Entry) /\ Len(s) \in Nat /\ Len(s) >= 2 /\ k \in 1 .. Len(s)
    BY LenProperties DEF GoodList
  <1>2. t \in Seq(Entry) /\ Len(t) = Len(s) - 1
        /\ \A i \in 1 .. Len(s) - 1 : t[i] = IF i < k THEN s[i] ELSE s[i + 1]
    BY <1>1, RemoveAtProperties
  <1>3. Last(t) = Last(s)
    BY <1>1, <1>2 DEF Last
  <1>4. ASSUME NEW i \in 1 .. Len(t) - 1, NEW j \in 1 .. Len(t) - 1, i < j
        PROVE  t[i].priority >= t[j].priority
    <2> DEFINE x == IF i < k THEN i ELSE i + 1
               y == IF j < k THEN j ELSE j + 1
    <2> HIDE DEF t
    <2>1. x \in 1 .. Len(s) - 1 /\ y \in 1 .. Len(s) - 1 /\ x < y
      BY <1>1, <1>2, <1>4
    <2>2. t[i] = s[x] /\ t[j] = s[y]
      <3>1. i \in 1 .. Len(s) - 1 /\ j \in 1 .. Len(s) - 1
        BY <1>1, <1>2
      <3>2. t[i] = IF i < k THEN s[i] ELSE s[i + 1]
        BY <1>2, <3>1
      <3>3. t[j] = IF j < k THEN s[j] ELSE s[j + 1]
        BY <1>2, <3>1
      <3> QED BY <3>2, <3>3
    <2> HIDE DEF x, y
    <2> QED BY <2>1, <2>2 DEF GoodList
  <1>5. \A i, j \in 1 .. Len(t) - 1 : i < j => t[i].priority >= t[j].priority
    BY <1>4
  <1>6. /\ Last(s).head = NoHead
        /\ Last(s).priority = MAX_PRIORITY
        /\ Last(s).actionDesc # "DESC_NONE"
    BY DEF GoodList
  <1>7. GoodList(t)
    <2> HIDE DEF t
    <2>1. Len(t) >= 1
      BY <1>1, <1>2
    <2> QED BY <1>2, <1>3, <1>5, <1>6, <2>1 DEF GoodList
  <1> QED BY <1>2, <1>7

\* Replacing a rule by one of its own priority keeps the list in good order.
LEMMA GoodReplace ==
  ASSUME NEW s, GoodList(s), NEW k \in 1 .. Len(s) - 1, NEW e \in Entry,
         e.priority = s[k].priority
  PROVE  GoodList(ReplaceAt(s, k, e)) /\ Len(ReplaceAt(s, k, e)) = Len(s)
  <1> DEFINE t == ReplaceAt(s, k, e)
  <1>1. s \in Seq(Entry) /\ Len(s) \in Nat /\ Len(s) >= 2 /\ k \in 1 .. Len(s)
    BY LenProperties DEF GoodList
  <1>2. t \in Seq(Entry) /\ Len(t) = Len(s)
        /\ \A i \in 1 .. Len(s) : t[i] = IF i = k THEN e ELSE s[i]
    BY <1>1, ExceptSeq DEF ReplaceAt
  <1>3. Last(t) = Last(s)
    BY <1>1, <1>2 DEF Last
  <1>4. \A i \in 1 .. Len(s) : t[i].priority = s[i].priority
    BY <1>1, <1>2
  <1>5. \A i, j \in 1 .. Len(t) - 1 : i < j => t[i].priority >= t[j].priority
    <2> HIDE DEF t
    <2> QED BY <1>1, <1>2, <1>4 DEF GoodList
  <1>6. /\ Last(s).head = NoHead
        /\ Last(s).priority = MAX_PRIORITY
        /\ Last(s).actionDesc # "DESC_NONE"
    BY DEF GoodList
  <1>7. GoodList(t)
    <2> HIDE DEF t
    <2>1. Len(t) >= 1
      BY <1>1, <1>2
    <2> QED BY <1>2, <1>3, <1>5, <1>6, <2>1 DEF GoodList
  <1> QED BY <1>2, <1>7

\* Replacing the last entry by another policy entry keeps the list in good order.
LEMMA GoodPolicy ==
  ASSUME NEW s, GoodList(s), NEW d \in ActionDesc \ {"DESC_NONE"}
  PROVE  LET e == [s[Len(s)] EXCEPT !.actionDesc = d, !.priority = MAX_PRIORITY]
         IN GoodList(ReplaceAt(s, Len(s), e)) /\ Len(ReplaceAt(s, Len(s), e)) = Len(s)
  <1> DEFINE e == [s[Len(s)] EXCEPT !.actionDesc = d, !.priority = MAX_PRIORITY]
             t == ReplaceAt(s, Len(s), e)
  <1>1. s \in Seq(Entry) /\ Len(s) \in Nat /\ Len(s) >= 1 /\ Len(s) \in 1 .. Len(s)
    BY LenProperties DEF GoodList
  <1>2. s[Len(s)] \in Entry
    BY <1>1, ElementOfSeq
  <1>3. e \in Entry /\ e.head = s[Len(s)].head /\ e.priority = MAX_PRIORITY /\ e.actionDesc = d
    BY <1>2 DEF Entry
  <1> HIDE DEF e
  <1>4. t \in Seq(Entry) /\ Len(t) = Len(s)
        /\ \A i \in 1 .. Len(s) : t[i] = IF i = Len(s) THEN e ELSE s[i]
    BY <1>1, <1>3, ExceptSeq DEF ReplaceAt
  <1>5. Last(t) = e /\ Last(s) = s[Len(s)]
    BY <1>1, <1>4 DEF Last
  <1>6. \A i \in 1 .. Len(s) - 1 : t[i] = s[i]
    BY <1>1, <1>4
  <1> HIDE DEF t
  <1>7. GoodList(t) /\ Len(t) = Len(s)
    BY <1>1, <1>3, <1>4, <1>5, <1>6 DEF GoodList
  <1> QED BY <1>7 DEF t, e

\* The list free_all leaves is the policy entry alone.
LEMMA GoodEmptied ==
  ASSUME NEW s, GoodList(s)
  PROVE  GoodList(Emptied(s, Len(s))) /\ Len(Emptied(s, Len(s))) = 1
  <1>1. s \in Seq(Entry) /\ Len(s) \in Nat /\ Len(s) >= 1
    BY LenProperties DEF GoodList
  <1>2. Emptied(s, Len(s)) \in Seq(Entry) /\ Len(Emptied(s, Len(s))) = 1
        /\ Emptied(s, Len(s))[1] = s[Len(s)]
    BY <1>1, SubSeqProperties DEF Emptied
  <1> QED BY <1>1, <1>2 DEF GoodList, Last
-----------------------------------------------------------------------------
(* The invariant is inductive.                                             *)

\* After init_ruletables every list is its policy entry alone.
LEMMA InitIInv == init_ruletables => IInv
  <1> SUFFICES ASSUME init_ruletables PROVE IInv
    OBVIOUS
  <1> DEFINE e == PolicyEntry("ACCEPT")
  <1>1. e \in Entry /\ e.head = NoHead /\ e.priority = MAX_PRIORITY /\ e.actionDesc = "ACCEPT"
    BY HeadsAssumption DEF PolicyEntry, Entry, ActionDesc
  <1> HIDE DEF e
  <1>2. <<e>> \in Seq(Entry) /\ Len(<<e>>) = 1 /\ <<e>>[1] = e
    BY <1>1
  <1>3. GoodList(<<e>>)
    BY <1>1, <1>2 DEF GoodList, Last
  <1>4. list = [l \in Lists |-> <<e>>] /\ length = [l \in Lists |-> 1]
    BY DEF init_ruletables, e
  <1>5. mem \in {"ok", "wild"} /\ out \in [ret : {0, 1}, index : Int, alert : BOOLEAN]
    BY DEF init_ruletables, NoResult
  <1> QED BY <1>2, <1>3, <1>4, <1>5 DEF IInv

\* What an accepted edit of one list l needs for IInv to hold again.
LEMMA OneListStep ==
  ASSUME IInv, NEW l \in Lists, NEW s, NEW n,
         GoodList(s), n = Len(s),
         list' = [list EXCEPT ![l] = s],
         length' = [length EXCEPT ![l] = n],
         mem' \in {"ok", "wild"},
         out' \in [ret : {0, 1}, index : Int, alert : BOOLEAN]
  PROVE  IInv'
  <1>1. s \in Seq(Entry) /\ n \in Int
    BY LenProperties DEF GoodList
  <1>2. list' \in [Lists -> Seq(Entry)] /\ length' \in [Lists -> Int]
    BY <1>1 DEF IInv
  <1>3. ASSUME NEW m \in Lists
        PROVE  GoodList(list'[m]) /\ length'[m] = Len(list'[m])
    <2>1. CASE m = l BY <2>1 DEF IInv
    <2>2. CASE m # l
      <3>1. list'[m] = list[m] /\ length'[m] = length[m]
        BY <2>2 DEF IInv
      <3> QED BY <3>1 DEF IInv
    <2> QED BY <2>1, <2>2
  <1>4. (\A m \in Lists : GoodList(list[m]) /\ length[m] = Len(list[m]))'
    BY <1>3
  <1> QED BY <1>2, <1>4 DEF IInv

\* A refused request changes nothing but the result.
LEMMA RefuseStep ==
  ASSUME IInv, NEW h \in Handle, Refuse(h)
  PROVE  IInv'
  BY DEF IInv, Refuse, GoodList, Handle

\* A number below the modulus is its own remainder.
LEMMA ModSmall ==
  ASSUME NEW a \in Int, NEW n \in Int, 0 <= a, a < n
  PROVE  a % n = a
  BY Z3

\* The walk to an index within bounds stops at that index.
LEMMA WalkInBounds ==
  ASSUME IInv, NEW l \in Lists, NEW index \in Int, ~TooBig(l, index)
  PROVE  /\ index >= 1 => WalkTo(l, index) = index
         /\ index < 1 => WalkTo(l, index) = 0
         /\ index >= 1 => index \in 1 .. Len(list[l]) - 1
  <1>1. Len(list[l]) \in Nat /\ length[l] = Len(list[l])
    BY LenProperties DEF IInv, GoodList
  <1>2. index <= Len(list[l]) - 1
    BY <1>1 DEF TooBig
  <1> DEFINE n == Len(list[l]) + 1
  <1>3. n \in Int /\ index < n
    BY <1>1, <1>2
  <1>4. WalkTo(l, index) = IF index <= 0 THEN 0 ELSE index % n
    BY DEF WalkTo
  <1> HIDE DEF n
  <1>5. index >= 1 => index % n = index
    BY <1>3, ModSmall
  <1> QED BY <1>1, <1>2, <1>4, <1>5

\* SET_POLICY: the tail entry becomes another policy entry.
LEMMA SetPolicyStep ==
  ASSUME IInv, NEW h \in Handle, mem = "ok", do_set_policy(h)
  PROVE  IInv'
  <1>1. CASE Refuse(h) BY <1>1, RefuseStep
  <1>2. CASE ~Refuse(h)
    <2> DEFINE l == ListOf(h)
               s == list[l]
               d == h.table.actionDesc
               e == [s[Len(s)] EXCEPT !.actionDesc = d, !.priority = MAX_PRIORITY]
    <2>1. l \in Lists /\ d # "DESC_NONE"
          /\ list' = [list EXCEPT ![l] = ReplaceAt(s, Len(s), e)]
          /\ length' = length /\ mem' = mem /\ Done(h.index)
      BY <1>2 DEF do_set_policy, Found, PolicyPos, IInv
    <2>2. d \in ActionDesc \ {"DESC_NONE"}
      BY <2>1 DEF Handle, Ruletable
    <2>3. GoodList(s) /\ length[l] = Len(s)
      BY <2>1 DEF IInv
    <2>4. GoodList(ReplaceAt(s, Len(s), e)) /\ Len(ReplaceAt(s, Len(s), e)) = Len(s)
      <3> HIDE DEF s, d
      <3> QED BY <2>2, <2>3, GoodPolicy
    <2>5. length' = [length EXCEPT ![l] = Len(s)]
      BY <2>1, <2>3 DEF IInv
    <2>6. out' \in [ret : {0, 1}, index : Int, alert : BOOLEAN] /\ mem' \in {"ok", "wild"}
      BY <2>1 DEF Done, Handle, IInv
    <2> HIDE DEF e, s, l, d
    <2> QED BY <2>1, <2>4, <2>5, <2>6, OneListStep
  <1> QED BY <1>1, <1>2

\* Linking a rule in front of place k, where its priority belongs.
LEMMA AddStep ==
  ASSUME IInv, NEW h \in Handle, NEW l \in Lists, mem = "ok",
         NEW k \in 1 .. Len(list[l]), NEW index \in Int,
         \A i \in 1 .. k - 1 : list[l][i].priority >= h.table.priority,
         \A i \in k .. Len(list[l]) - 1 : h.table.priority >= list[l][i].priority,
         AddBefore(l, k, h.table), Done(index), mem' = mem
  PROVE  IInv'
  <1> DEFINE s == list[l]
             t == InsertAt(s, k, h.table)
  <1>1. GoodList(s) /\ length[l] = Len(s) /\ h.table \in Ruletable
    BY DEF IInv, Handle
  <1>2. GoodList(t) /\ Len(t) = Len(s) + 1
    <2> HIDE DEF s
    <2>1. /\ k \in 1 .. Len(s)
          /\ \A i \in 1 .. k - 1 : s[i].priority >= h.table.priority
          /\ \A i \in k .. Len(s) - 1 : h.table.priority >= s[i].priority
      BY DEF s
    <2> QED BY <1>1, <2>1, GoodInsert
  <1>3. list' = [list EXCEPT ![l] = t] /\ length' = [length EXCEPT ![l] = Len(t)]
    BY <1>1, <1>2 DEF AddBefore, IInv
  <1>4. out' \in [ret : {0, 1}, index : Int, alert : BOOLEAN] /\ mem' \in {"ok", "wild"}
    BY DEF Done, IInv
  <1> HIDE DEF s, t
  <1> QED BY <1>2, <1>3, <1>4, OneListStep

\* APPEND: at the end for priority 0, else where the walk of do_insert stops.
LEMMA AppendStep ==
  ASSUME IInv, NEW h \in Handle, mem = "ok", do_append(h)
  PROVE  IInv'
  <1> DEFINE l == ListOf(h)
             s == list[l]
             p == h.table.priority
  <1>1. CASE Refuse(h) BY <1>1, RefuseStep
  <1>2. CASE ~Refuse(h)
    <2>1. l \in Lists
      BY <1>2 DEF do_append, do_insert, Found
    <2>2. s \in Seq(Entry) /\ Len(s) \in Nat /\ Len(s) >= 1 /\ GoodList(s)
      BY <2>1, LenProperties DEF IInv, GoodList
    <2>3. \A i \in 1 .. Len(s) : s[i].priority \in Int /\ s[i].priority >= 0
      BY <2>2, EntryFacts, ElementOfSeq
    <2>4. p \in Int /\ h.index \in Int
      <3>1. h.table \in Ruletable /\ h.index \in Int
        BY DEF Handle
      <3> QED BY <3>1, EntryFacts
    <2>5. CASE p = 0
      <3>1. AddBefore(l, Len(s), h.table) /\ Done(h.index) /\ mem' = mem
        BY <1>2, <2>5 DEF do_append, PolicyPos
      <3>2. Len(s) \in 1 .. Len(s) /\ \A i \in 1 .. Len(s) - 1 : s[i].priority >= p
        BY <2>2, <2>3, <2>5
      <3>3. \A i \in Len(s) .. Len(s) - 1 : p >= s[i].priority
        BY <2>2
      <3> HIDE DEF l
      <3> QED BY <2>1, <2>4, <3>1, <3>2, <3>3, AddStep
    <2>6. CASE p # 0
      <3>1. PICK k \in 1 .. Len(s) + 1 :
               WalkStops(l, p, k) /\ AddBefore(l, InsertPos(l, k), h.table)
               /\ Done(InsertIndex(l, k)) /\ mem' = mem
        BY <1>2, <2>6 DEF do_append, do_insert
      <3> DEFINE m == InsertPos(l, k)
      <3>2. m \in 1 .. Len(s) /\ m \in Int /\ m <= k
        BY <2>2 DEF InsertPos, PolicyPos
      <3>3. InsertIndex(l, k) \in Int
        BY <2>2 DEF InsertIndex
      <3>4. \A i \in 1 .. m - 1 : s[i].priority >= p
        BY <2>2, <2>3, <2>4, <3>1, <3>2 DEF WalkStops
      <3>5. ASSUME NEW i \in m .. Len(s) - 1 PROVE p >= s[i].priority
        <4>1. k <= Len(s) /\ m = k
          BY <2>2, <3>5 DEF InsertPos, PolicyPos
        <4>2. p > s[k].priority
          BY <3>1, <4>1 DEF WalkStops
        <4>3. s[k].priority >= s[i].priority
          <5>1. CASE i = k BY <5>1, <2>2, <2>3, <4>1
          <5>2. CASE i > k BY <5>2, <2>2, <4>1 DEF GoodList
          <5> QED BY <5>1, <5>2, <4>1, <2>2
        <4>4. i \in 1 .. Len(s) /\ k \in 1 .. Len(s)
          BY <2>2, <3>2, <4>1
        <4>5. s[i].priority \in Int /\ s[k].priority \in Int
          BY <2>3, <4>4
        <4> QED BY <2>4, <4>2, <4>3, <4>5
      <3> HIDE DEF m, l
      <3> QED BY <2>1, <3>1, <3>2, <3>4, <3>5, <3>3, AddStep DEF m
    <2> QED BY <2>5, <2>6
  <1> QED BY <1>1, <1>2

\* ALTER: a rule is replaced by one of its own priority, or memory outside the
\* entries is written.
LEMMA AlterStep ==
  ASSUME IInv, NEW h \in Handle, mem = "ok", do_alter(h)
  PROVE  IInv'
  <1> DEFINE l == ListOf(h)
             s == list[l]
             k == WalkTo(l, h.index)
             e == Altered(s[k], h.table)
  <1>1. CASE Refuse(h) BY <1>1, RefuseStep
  <1>2. CASE ~Refuse(h)
    <2>1. l \in Lists /\ ~TooBig(l, h.index) /\ Done(h.index) /\ length' = length
      BY <1>2 DEF do_alter, Found
    <2>2. h.index \in Int /\ h.table \in Ruletable
      BY DEF Handle
    <2>3. out' \in [ret : {0, 1}, index : Int, alert : BOOLEAN]
      BY <2>1, <2>2 DEF Done
    <2>4. CASE k = 0
      <3>1. list' = list /\ mem' = "wild"
        BY <1>2, <2>4 DEF do_alter
      <3> QED BY <2>1, <2>3, <3>1 DEF IInv, GoodList
    <2>5. CASE k # 0
      <3>1. list' = [list EXCEPT ![l] = ReplaceAt(s, k, e)] /\ mem' = mem
        BY <1>2, <2>1, <2>5 DEF do_alter, IInv
      <3>2. k \in 1 .. Len(s) - 1
        BY <2>1, <2>2, <2>5, WalkInBounds
      <3>3. GoodList(s) /\ length[l] = Len(s) /\ s \in Seq(Entry) /\ Len(s) \in Nat
        BY <2>1, LenProperties DEF IInv, GoodList
      <3>4. s[k] \in Entry
        <4>1. k \in 1 .. Len(s) BY <3>2, <3>3
        <4> HIDE DEF s, k
        <4> QED BY <3>3, <4>1, ElementOfSeq
      <3>5. e \in Entry /\ e.priority = s[k].priority
        <4> HIDE DEF s, k
        <4> QED BY <2>2, <3>4 DEF Altered, Entry, Ruletable
      <3>6. GoodList(ReplaceAt(s, k, e)) /\ Len(ReplaceAt(s, k, e)) = Len(s)
        <4> HIDE DEF s, k, e
        <4> QED BY <3>2, <3>3, <3>5, GoodReplace
      <3>7. length' = [length EXCEPT ![l] = Len(s)] /\ mem' \in {"ok", "wild"}
        BY <2>1, <3>1, <3>3 DEF IInv
      <3> HIDE DEF l, s, k, e
      <3> QED BY <2>1, <2>3, <3>1, <3>6, <3>7, OneListStep
    <2> QED BY <2>4, <2>5
  <1> QED BY <1>1, <1>2

\* Unlinking any entry but the policy.
LEMMA UnlinkStep ==
  ASSUME IInv, NEW l \in Lists, NEW k \in 1 .. Len(list[l]) - 1, NEW index \in Int,
         mem = "ok", Unlink(l, k), Done(index), mem' = mem
  PROVE  IInv'
  <1> DEFINE s == list[l]
             t == RemoveAt(s, k)
  <1>1. GoodList(s) /\ length[l] = Len(s)
    BY DEF IInv
  <1>2. GoodList(t) /\ Len(t) = Len(s) - 1
    BY <1>1, GoodRemove
  <1>3. list' = [list EXCEPT ![l] = t] /\ length' = [length EXCEPT ![l] = Len(t)]
    BY <1>1, <1>2 DEF Unlink, IInv
  <1>4. out' \in [ret : {0, 1}, index : Int, alert : BOOLEAN] /\ mem' \in {"ok", "wild"}
    BY DEF Done, IInv
  <1> HIDE DEF s, t
  <1> QED BY <1>2, <1>3, <1>4, OneListStep

\* DELETE by content or by index.
LEMMA DeleteStep ==
  ASSUME IInv, NEW h \in Handle, mem = "ok", do_delete(h)
  PROVE  IInv'
  <1> DEFINE l == ListOf(h)
             k == WalkTo(l, h.index)
  <1>1. CASE Refuse(h) BY <1>1, RefuseStep
  <1>2. CASE ~Refuse(h)
    <2>1. l \in Lists /\ h.index \in Int /\ Done(h.index)
      BY <1>2 DEF do_delete, Found, Handle
    <2>2. length[l] = Len(list[l]) /\ Len(list[l]) \in Nat
      BY <2>1, LenProperties DEF IInv, GoodList
    <2>3. CASE h.index = 0
      <3>1. PICK m \in 1 .. Len(list[l]) :
               FirstMatch(l, h.table, m) /\ Unlink(l, m) /\ mem' = mem
        BY <1>2, <2>3 DEF do_delete
      <3>2. m \in 1 .. Len(list[l]) - 1
        BY <2>2, <3>1 DEF FirstMatch, Matches
      <3> HIDE DEF l
      <3> QED BY <2>1, <3>1, <3>2, UnlinkStep
    <2>4. CASE h.index # 0
      <3>1. ~TooBig(l, h.index)
        BY <1>2, <2>4 DEF do_delete
      <3>2. CASE k # 0
        <4>1. Unlink(l, k) /\ mem' = mem
          BY <1>2, <2>4, <3>2 DEF do_delete
        <4>2. k \in 1 .. Len(list[l]) - 1
          BY <2>1, <3>1, <3>2, WalkInBounds
        <4> HIDE DEF l, k
        <4> QED BY <2>1, <4>1, <4>2, UnlinkStep
      <3>3. CASE k = 0
        <4>1. mem' = "wild" /\ list' = list /\ length' = length
          BY <1>2, <2>4, <3>3 DEF do_delete
        <4> QED BY <2>1, <4>1 DEF IInv, GoodList, Done
      <3> QED BY <3>2, <3>3
    <2> QED BY <2>3, <2>4
  <1> QED BY <1>1, <1>2

\* CLEAN: every list of the table keeps its policy entry alone.
LEMMA CleanStep ==
  ASSUME IInv, NEW h \in Handle, mem = "ok", free_all(h)
  PROVE  IInv'
  <1>1. CASE Refuse(h) BY <1>1, RefuseStep
  <1>2. CASE ~Refuse(h)
    <2>1. /\ list' = [l \in Lists |-> IF OfTable(h, l) THEN Emptied(list[l], length[l]) ELSE list[l]]
          /\ length' = [l \in Lists |-> IF OfTable(h, l) THEN 1 ELSE length[l]]
          /\ Done(h.index) /\ mem' = mem
      BY <1>2 DEF free_all
    <2>2. ASSUME NEW l \in Lists
          PROVE  GoodList(list'[l]) /\ length'[l] = Len(list'[l])
      <3>1. GoodList(list[l]) /\ length[l] = Len(list[l])
        BY DEF IInv
      <3>2. GoodList(Emptied(list[l], length[l])) /\ Len(Emptied(list[l], length[l])) = 1
        BY <3>1, GoodEmptied
      <3> QED BY <2>1, <3>1, <3>2
    <2>3. list' \in [Lists -> Seq(Entry)] /\ length' \in [Lists -> Int]
      <3>1. \A l \in Lists : list'[l] \in Seq(Entry) /\ length'[l] \in Int
        BY <2>2, LenProperties DEF GoodList
      <3> QED BY <2>1, <3>1
    <2>4. out' \in [ret : {0, 1}, index : Int, alert : BOOLEAN] /\ mem' \in {"ok", "wild"}
      BY <2>1 DEF Done, Handle, IInv
    <2>5. (\A l \in Lists : GoodList(list[l]) /\ length[l] = Len(list[l]))'
      BY <2>2
    <2> QED BY <2>3, <2>4, <2>5 DEF IInv
  <1> QED BY <1>1, <1>2

\* Every request preserves the invariant.
LEMMA NextIInv == IInv /\ [Next]_vars => IInv'
  <1> SUFFICES ASSUME IInv, [Next]_vars PROVE IInv'
    OBVIOUS
  <1>1. CASE UNCHANGED vars
    BY <1>1 DEF IInv, vars, GoodList
  <1>2. CASE Next
    <2>1. PICK h \in Requests : do_command(h)
      BY <1>2 DEF Next
    <2>2. h \in Handle /\ mem = "ok"
      BY <2>1, RequestsAssumption DEF do_command
    <2>3. CASE do_set_policy(h) BY <2>2, <2>3, SetPolicyStep
    <2>4. CASE do_append(h) BY <2>2, <2>4, AppendStep
    <2>5. CASE do_alter(h) BY <2>2, <2>5, AlterStep
    <2>6. CASE do_delete(h) BY <2>2, <2>6, DeleteStep
    <2>7. CASE free_all(h) BY <2>2, <2>7, CleanStep
    <2>8. CASE unknown_command(h) BY <2>2, <2>8, RefuseStep DEF unknown_command
    <2> QED BY <2>1, <2>3, <2>4, <2>5, <2>6, <2>7, <2>8 DEF do_command
  <1> QED BY <1>1, <1>2

\* The invariant implies each of the four the runs check.
LEMMA IInvImplies == IInv => TypeOK /\ LengthExact /\ PolicyAtTail /\ RulesSorted
  <1> SUFFICES ASSUME IInv PROVE TypeOK /\ LengthExact /\ PolicyAtTail /\ RulesSorted
    OBVIOUS
  <1>1. \A l \in Lists : list[l] \in Seq(Entry) \ {<<>>}
    BY EmptySeq DEF IInv, GoodList
  <1>2. TypeOK
    BY <1>1 DEF IInv, TypeOK
  <1>3. LengthExact /\ PolicyAtTail /\ RulesSorted
    BY DEF IInv, GoodList, LengthExact, PolicyAtTail, RulesSorted
  <1> QED BY <1>2, <1>3

\* The mirror is in good order in every reachable state.
THEOREM MirrorInvariant == Spec => []IInv
  BY InitIInv, NextIInv, PTL DEF Spec

\* Type correctness of the mirror.
THEOREM MirrorTyped == Spec => []TypeOK
  BY MirrorInvariant, IInvImplies, PTL

\* The length counters are exact in every reachable state.
THEOREM MirrorLengths == Spec => []LengthExact
  BY MirrorInvariant, IInvImplies, PTL

\* The tail of every list is its policy entry in every reachable state.
THEOREM MirrorPolicies == Spec => []PolicyAtTail
  BY MirrorInvariant, IInvImplies, PTL

\* The rules of every chain are ordered by priority in every reachable state.
THEOREM MirrorSorted == Spec => []RulesSorted
  BY MirrorInvariant, IInvImplies, PTL

-----------------------------------------------------------------------------
(* The rules of a list are its entries without the last, the policy.       *)

\* A list's front, entry by entry.
LEMMA FrontProperties ==
  ASSUME NEW S, NEW s \in Seq(S), Len(s) >= 1
  PROVE  /\ Front(s) \in Seq(S)
         /\ Len(Front(s)) = Len(s) - 1
         /\ \A i \in 1 .. Len(s) - 1 : Front(s)[i] = s[i]
  <1>1. Len(s) \in Nat BY LenProperties
  <1>2. \A i \in 1 .. Len(s) - 1 : s[i] \in S BY <1>1, ElementOfSeq
  <1>3. Front(s) = SubSeq(s, 1, Len(s) - 1) BY DEF Front
  <1> DEFINE n == Len(s) - 1
  <1>4. n \in Int /\ n >= 0 /\ \A i \in 1 .. n : s[i] \in S BY <1>1, <1>2
  <1>5. /\ SubSeq(s, 1, n) \in Seq(S)
        /\ Len(SubSeq(s, 1, n)) = IF 1 <= n THEN n - 1 + 1 ELSE 0
        /\ \A i \in 1 .. n - 1 + 1 : SubSeq(s, 1, n)[i] = s[1 + i - 1]
    <2> HIDE DEF n
    <2> QED BY <1>4, SubSeqProperties
  <1>6. \A i \in 1 .. n : SubSeq(s, 1, n)[i] = s[i]
    <2> HIDE DEF n
    <2> QED BY <1>4, <1>5
  <1>7. Len(SubSeq(s, 1, n)) = n
    <2> HIDE DEF n
    <2> QED BY <1>4, <1>5
  <1> QED BY <1>3, <1>5, <1>6, <1>7

\* The same, of the list in front.
Fronts(s, t) ==
    /\ Len(t) = Len(s) - 1
    /\ \A i \in 1 .. Len(s) - 1 : t[i] = s[i]

\* The same, as one fact.
LEMMA FrontFronts ==
  ASSUME NEW S, NEW s \in Seq(S), Len(s) >= 1
  PROVE  Front(s) \in Seq(S) /\ Fronts(s, Front(s))
BY FrontProperties DEF Fronts

\* A rule inserted in front of the policy or of a rule is inserted into the rules.
LEMMA FrontInsert ==
  ASSUME NEW S, NEW s \in Seq(S), NEW k \in 1 .. Len(s), NEW e \in S
  PROVE  Front(InsertAt(s, k, e)) = InsertAt(Front(s), k, e)
  <1> DEFINE t == InsertAt(s, k, e)
             f == Front(s)
             u == InsertAt(f, k, e)
  <1>1. Len(s) \in Nat /\ Len(s) >= 1 BY LenProperties
  <1>2. t \in Seq(S) /\ Len(t) = Len(s) + 1
        /\ \A i \in 1 .. Len(s) + 1 : t[i] = IF i < k THEN s[i] ELSE IF i = k THEN e ELSE s[i - 1]
    BY <1>1, InsertAtProperties
  <1>3. f \in Seq(S) /\ Len(f) = Len(s) - 1 /\ \A i \in 1 .. Len(s) - 1 : f[i] = s[i]
    BY <1>1, FrontProperties
  <1>4. u \in Seq(S) /\ Len(u) = Len(f) + 1
        /\ \A i \in 1 .. Len(f) + 1 : u[i] = IF i < k THEN f[i] ELSE IF i = k THEN e ELSE f[i - 1]
    <2>1. k \in 1 .. Len(f) + 1 BY <1>1, <1>3
    <2> HIDE DEF f
    <2> QED BY <1>3, <2>1, InsertAtProperties
  <1> HIDE DEF t, f, u
  <1>5. Front(t) \in Seq(S) /\ Len(Front(t)) = Len(s) /\ \A i \in 1 .. Len(s) : Front(t)[i] = t[i]
    <2>1. t \in Seq(S) /\ Len(t) >= 1 BY <1>1, <1>2
    <2>2. Front(t) \in Seq(S) /\ Fronts(t, Front(t)) BY <2>1, FrontFronts
    <2>3. Len(t) - 1 = Len(s) BY <1>1, <1>2
    <2> QED BY <2>2, <2>3 DEF Fronts
  <1>6. ASSUME NEW i \in 1 .. Len(s) PROVE Front(t)[i] = u[i]
    <2>1. i \in 1 .. Len(s) + 1 /\ i \in 1 .. Len(f) + 1 BY <1>1, <1>3
    <2>2. Front(t)[i] = IF i < k THEN s[i] ELSE IF i = k THEN e ELSE s[i - 1]
      BY <1>2, <1>5, <2>1
    <2>3. u[i] = IF i < k THEN f[i] ELSE IF i = k THEN e ELSE f[i - 1]
      BY <1>4, <2>1
    <2>4. CASE i < k
      <3>1. i \in 1 .. Len(s) - 1 BY <1>1, <2>4
      <3> QED BY <1>3, <2>2, <2>3, <2>4, <3>1
    <2>5. CASE i = k BY <1>1, <2>2, <2>3, <2>5
    <2>6. CASE i > k
      <3>1. i - 1 \in 1 .. Len(s) - 1 BY <1>1, <2>6
      <3> QED BY <1>3, <2>2, <2>3, <2>6, <3>1
    <2> QED BY <1>1, <2>4, <2>5, <2>6
  <1>7. Front(t) = u
    BY <1>1, <1>3, <1>4, <1>5, <1>6, SeqEqual
  <1> QED BY <1>7 DEF t, u, f

\* A rule removed is removed from the rules.
LEMMA FrontRemove ==
  ASSUME NEW S, NEW s \in Seq(S), NEW k \in 1 .. Len(s) - 1
  PROVE  Front(RemoveAt(s, k)) = RemoveAt(Front(s), k)
  <1> DEFINE t == RemoveAt(s, k)
             f == Front(s)
             u == RemoveAt(f, k)
  <1>1. Len(s) \in Nat /\ Len(s) >= 2 /\ k \in 1 .. Len(s) BY LenProperties
  <1>2. t \in Seq(S) /\ Len(t) = Len(s) - 1
        /\ \A i \in 1 .. Len(s) - 1 : t[i] = IF i < k THEN s[i] ELSE s[i + 1]
    BY <1>1, RemoveAtProperties
  <1>3. f \in Seq(S) /\ Len(f) = Len(s) - 1 /\ \A i \in 1 .. Len(s) - 1 : f[i] = s[i]
    BY <1>1, FrontProperties
  <1>4. u \in Seq(S) /\ Len(u) = Len(f) - 1
        /\ \A i \in 1 .. Len(f) - 1 : u[i] = IF i < k THEN f[i] ELSE f[i + 1]
    <2>1. k \in 1 .. Len(f) BY <1>1, <1>3
    <2> HIDE DEF f
    <2> QED BY <1>3, <2>1, RemoveAtProperties
  <1> HIDE DEF t, f, u
  <1>5. Front(t) \in Seq(S) /\ Len(Front(t)) = Len(s) - 2 /\ \A i \in 1 .. Len(s) - 2 : Front(t)[i] = t[i]
    <2>1. t \in Seq(S) /\ Len(t) >= 1 BY <1>1, <1>2
    <2>2. Front(t) \in Seq(S) /\ Fronts(t, Front(t)) BY <2>1, FrontFronts
    <2>3. Len(t) - 1 = Len(s) - 2 BY <1>1, <1>2
    <2> QED BY <2>2, <2>3 DEF Fronts
  <1>6. ASSUME NEW i \in 1 .. Len(s) - 2 PROVE Front(t)[i] = u[i]
    <2>1. /\ i \in 1 .. Len(s) - 1 /\ i \in 1 .. Len(f) - 1
          /\ i + 1 \in 1 .. Len(s) - 1
      BY <1>1, <1>3
    <2>2. Front(t)[i] = IF i < k THEN s[i] ELSE s[i + 1] BY <1>2, <1>5, <2>1
    <2>3. u[i] = IF i < k THEN f[i] ELSE f[i + 1] BY <1>4, <2>1
    <2> QED BY <1>3, <2>1, <2>2, <2>3
  <1>7. Front(t) = u
    <2>1. Len(u) = Len(Front(t)) BY <1>1, <1>3, <1>4, <1>5
    <2>2. \A i \in 1 .. Len(Front(t)) : Front(t)[i] = u[i] BY <1>5, <1>6
    <2> QED BY <1>4, <1>5, <2>1, <2>2, SeqEqual
  <1> QED BY <1>7 DEF t, u, f

\* A rule replaced is replaced among the rules; a policy replaced leaves them alone.
LEMMA FrontReplace ==
  ASSUME NEW S, NEW s \in Seq(S), NEW k \in 1 .. Len(s), NEW e \in S
  PROVE  /\ k < Len(s) => Front(ReplaceAt(s, k, e)) = ReplaceAt(Front(s), k, e)
         /\ k = Len(s) => Front(ReplaceAt(s, k, e)) = Front(s)
  <1> DEFINE t == ReplaceAt(s, k, e)
             f == Front(s)
             u == ReplaceAt(f, k, e)
  <1>1. Len(s) \in Nat /\ Len(s) >= 1 BY LenProperties
  <1>2. t \in Seq(S) /\ Len(t) = Len(s) /\ \A i \in 1 .. Len(s) : t[i] = IF i = k THEN e ELSE s[i]
    BY ExceptSeq DEF ReplaceAt
  <1>3. f \in Seq(S) /\ Len(f) = Len(s) - 1 /\ \A i \in 1 .. Len(s) - 1 : f[i] = s[i]
    BY <1>1, FrontProperties
  <1>4. ASSUME k < Len(s)
        PROVE  u \in Seq(S) /\ Len(u) = Len(f) /\ \A i \in 1 .. Len(f) : u[i] = IF i = k THEN e ELSE f[i]
    <2>1. k \in 1 .. Len(f) BY <1>1, <1>3, <1>4
    <2> HIDE DEF f
    <2> QED BY <1>3, <2>1, ExceptSeq DEF ReplaceAt
  <1> HIDE DEF t, f, u
  <1>5. Front(t) \in Seq(S) /\ Len(Front(t)) = Len(s) - 1 /\ \A i \in 1 .. Len(s) - 1 : Front(t)[i] = t[i]
    <2>1. t \in Seq(S) /\ Len(t) >= 1 BY <1>1, <1>2
    <2>2. Front(t) \in Seq(S) /\ Fronts(t, Front(t)) BY <2>1, FrontFronts
    <2>3. Len(t) - 1 = Len(s) - 1 BY <1>1, <1>2
    <2> QED BY <2>2, <2>3 DEF Fronts
  <1>6. ASSUME k < Len(s) PROVE Front(t) = u
    <2>1. ASSUME NEW i \in 1 .. Len(s) - 1 PROVE Front(t)[i] = u[i]
      <3>1. i \in 1 .. Len(s) /\ i \in 1 .. Len(f) BY <1>1, <1>3
      <3>2. Front(t)[i] = (IF i = k THEN e ELSE s[i]) BY <1>2, <1>5, <3>1
      <3>3. u[i] = (IF i = k THEN e ELSE f[i]) BY <1>4, <1>6, <3>1
      <3> QED BY <1>3, <3>2, <3>3
    <2> QED BY <1>3, <1>4, <1>5, <1>6, <2>1, SeqEqual
  <1>7. ASSUME k = Len(s) PROVE Front(t) = f
    <2>1. \A i \in 1 .. Len(s) - 1 : Front(t)[i] = f[i] BY <1>1, <1>2, <1>3, <1>5, <1>7
    <2> QED BY <1>3, <1>5, <2>1, SeqEqual
  <1> QED BY <1>6, <1>7 DEF t, u, f
-----------------------------------------------------------------------------
(* Requests that leave the lists.                                          *)

\* The lists are left only where a walk does not move: for an index below one.
LEMMA StrayStep ==
  ASSUME IInv, [Next]_vars
  PROVE  mem' # mem => out'.index < 1
  <1>1. CASE UNCHANGED vars BY <1>1 DEF vars
  <1>2. CASE Next
    <2>1. PICK h \in Requests : do_command(h) BY <1>2 DEF Next
    <2>2. h \in Handle /\ mem = "ok" BY <2>1, RequestsAssumption DEF do_command
    <2> DEFINE l == ListOf(h)
    <2>3. h.index \in Int BY <2>2 DEF Handle
    <2>4. ASSUME Done(h.index), l \in Lists, ~TooBig(l, h.index), WalkTo(l, h.index) = 0
          PROVE  out'.index < 1
      <3>1. h.index < 1
        <4> HIDE DEF l
        <4> QED BY <2>3, <2>4, WalkInBounds
      <3> QED BY <2>4, <3>1 DEF Done
    <2>5. CASE do_set_policy(h) BY <2>5 DEF do_set_policy, Refuse
    <2>6. CASE do_append(h) BY <2>6 DEF do_append, do_insert, Refuse
    <2>7. CASE do_alter(h) BY <2>4, <2>7 DEF do_alter, Found, Refuse
    <2>8. CASE do_delete(h) BY <2>4, <2>8 DEF do_delete, Found, Refuse
    <2>9. CASE free_all(h) BY <2>9 DEF free_all, Refuse
    <2>10. CASE unknown_command(h) BY <2>10 DEF unknown_command, Refuse
    <2> QED BY <2>1, <2>5, <2>6, <2>7, <2>8, <2>9, <2>10 DEF do_command
  <1> QED BY <1>1, <1>2

\* A request writes or frees memory that is no entry only with an index below one,
\* whatever the lists hold.
THEOREM MirrorStray == Spec => StrayOnlyBelowOne
  <1>1. IInv /\ [Next]_vars => [mem' # mem => out'.index < 1]_vars
    BY StrayStep
  <1> QED BY <1>1, MirrorInvariant, PTL DEF Spec, StrayOnlyBelowOne
-----------------------------------------------------------------------------
(* Where a request puts a rule.                                            *)

\* What do_append links, and where, before the result is looked at: one rule of the
\* request, in front of the policy or of a rule of lower priority and behind those of
\* its own or a higher one; the index it reports is that place, or 0 for the end.
Placed(h, l, k) ==
    /\ l = ListOf(h) /\ l \in Lists
    /\ k \in 1 .. Len(list[l])
    /\ list' = [list EXCEPT ![l] = InsertAt(list[l], k, h.table)]
    /\ \A i \in 1 .. k - 1 : list[l][i].priority >= h.table.priority
    /\ \A i \in k .. Len(list[l]) - 1 : list[l][i].priority < h.table.priority
    /\ k = IF out'.index = 0 THEN Len(list[l]) ELSE out'.index

\* What do_append does to the list of the request, if it does not refuse.
LEMMA AppendPlaces ==
  ASSUME IInv, NEW h \in Handle, do_append(h), ~Refuse(h)
  PROVE  \E k \in Nat : Placed(h, ListOf(h), k)
  <1> DEFINE l == ListOf(h)
             s == list[l]
             p == h.table.priority
  <1>1. l \in Lists BY DEF do_append, do_insert, Found
  <1>2. s \in Seq(Entry) /\ Len(s) \in Nat /\ Len(s) >= 1 /\ GoodList(s)
    BY <1>1, LenProperties DEF IInv, GoodList
  <1>3. \A i \in 1 .. Len(s) : s[i].priority \in Int /\ s[i].priority >= 0
    BY <1>2, EntryFacts, ElementOfSeq
  <1>4. p \in Int /\ p >= 0
    <2>1. h.table \in Ruletable BY DEF Handle
    <2> QED BY <2>1, EntryFacts
  <1>5. CASE p = 0
    <2>1. AddBefore(l, Len(s), h.table) /\ Done(h.index) /\ h.index = 0
      BY <1>5 DEF do_append, PolicyPos
    <2>2. list' = [list EXCEPT ![l] = InsertAt(s, Len(s), h.table)]
      BY <2>1 DEF AddBefore
    <2>3. Len(s) = IF out'.index = 0 THEN Len(s) ELSE out'.index
      BY <2>1 DEF Done
    <2>4. \A i \in 1 .. Len(s) - 1 : s[i].priority >= p BY <1>2, <1>3, <1>5
    <2>5. \A i \in Len(s) .. Len(s) - 1 : s[i].priority < p BY <1>2
    <2>6. Placed(h, l, Len(s)) BY <1>1, <1>2, <2>2, <2>3, <2>4, <2>5 DEF Placed
    <2> QED BY <1>2, <2>6
  <1>6. CASE p # 0
    <2>1. PICK j \in 1 .. Len(s) + 1 :
             WalkStops(l, p, j) /\ AddBefore(l, InsertPos(l, j), h.table) /\ Done(InsertIndex(l, j))
      BY <1>6 DEF do_append, do_insert
    <2> DEFINE k == InsertPos(l, j)
    <2>2. k \in 1 .. Len(s) /\ k <= j /\ InsertIndex(l, j) = k
      BY <1>2 DEF InsertPos, InsertIndex, PolicyPos
    <2>3. \A i \in 1 .. k - 1 : s[i].priority >= p
      BY <1>2, <1>3, <1>4, <2>1, <2>2 DEF WalkStops
    <2>4. ASSUME NEW i \in k .. Len(s) - 1 PROVE s[i].priority < p
      <3>1. j <= Len(s) /\ k = j BY <1>2, <2>4 DEF InsertPos, PolicyPos
      <3>2. p > s[j].priority BY <2>1, <3>1 DEF WalkStops
      <3>3. i = j \/ s[j].priority >= s[i].priority
        <4>1. i \in 1 .. Len(s) - 1 /\ j \in 1 .. Len(s) - 1 /\ (i = j \/ j < i)
          BY <1>2, <2>2, <2>4, <3>1
        <4> QED BY <1>2, <4>1 DEF GoodList
      <3>4. s[i].priority \in Int /\ s[j].priority \in Int
        <4>1. i \in 1 .. Len(s) /\ j \in 1 .. Len(s) BY <1>2, <2>2, <2>4, <3>1
        <4> QED BY <1>3, <4>1
      <3> QED BY <1>4, <3>2, <3>3, <3>4
    <2>5. list' = [list EXCEPT ![l] = InsertAt(s, k, h.table)]
      BY <2>1 DEF AddBefore
    <2>6. k = IF out'.index = 0 THEN Len(s) ELSE out'.index
      BY <1>2, <2>1, <2>2 DEF Done
    <2>7. Placed(h, l, k)
      <3> HIDE DEF k
      <3> QED BY <1>1, <2>2, <2>3, <2>4, <2>5, <2>6 DEF Placed
    <2> QED BY <1>2, <2>2, <2>7
  <1> QED BY <1>5, <1>6

\* A list grows only by a rule put where the result says.
LEMMA PlaceStep ==
  ASSUME IInv, [Next]_vars, NEW l \in Lists, Len(list'[l]) > Len(list[l])
  PROVE  LET k == IF out'.index = 0 THEN Len(list[l]) ELSE out'.index
         IN list'[l] = InsertAt(list[l], k, list'[l][k])
  <1> DEFINE place == IF out'.index = 0 THEN Len(list[l]) ELSE out'.index
             Goal == list'[l] = InsertAt(list[l], place, list'[l][place])
  <1>1. IInv' BY NextIInv
  <1>2. /\ length[l] = Len(list[l]) /\ length'[l] = Len(list'[l])
        /\ Len(list[l]) \in Nat /\ Len(list'[l]) \in Nat /\ length[l] >= 1
    BY <1>1, LenProperties DEF IInv, GoodList
  <1>3. length'[l] > length[l] BY <1>2
  <1>4. CASE UNCHANGED vars BY <1>2, <1>3, <1>4 DEF vars
  <1>5. CASE Next
    <2>1. PICK h \in Requests : do_command(h) BY <1>5 DEF Next
    <2>2. h \in Handle /\ mem = "ok" BY <2>1, RequestsAssumption DEF do_command
    <2>3. ~Refuse(h) BY <1>2, <1>3 DEF Refuse
    <2>4. CASE do_append(h)
      <3>1. PICK k \in Nat : Placed(h, ListOf(h), k) BY <2>2, <2>3, <2>4, AppendPlaces
      <3>2. l = ListOf(h) BY <1>2, <1>3, <3>1 DEF Placed, IInv
      <3>3. list'[l] = InsertAt(list[l], k, h.table) /\ k = place /\ k \in 1 .. Len(list[l])
        BY <3>1, <3>2 DEF Placed, IInv
      <3>4. InsertAt(list[l], k, h.table)[k] = h.table
        <4>1. list[l] \in Seq(Entry) /\ h.table \in Entry
          BY <2>2, EntryFacts DEF Handle, IInv
        <4>2. k \in 1 .. Len(list[l]) + 1 BY <1>2, <3>3
        <4> QED BY <4>1, <4>2, InsertAtProperties
      <3> HIDE DEF place
      <3> QED BY <3>3, <3>4 DEF place
    <2>5. CASE do_set_policy(h) BY <1>2, <1>3, <2>3, <2>5 DEF do_set_policy
    <2>6. CASE do_alter(h) BY <1>2, <1>3, <2>3, <2>6 DEF do_alter
    <2>7. CASE do_delete(h)
      <3>1. length' = length \/ \E k : Unlink(ListOf(h), k)
        BY <2>3, <2>7 DEF do_delete
      <3>2. length'[l] = length[l] \/ length'[l] = length[l] - 1
        BY <3>1 DEF Unlink, IInv
      <3> QED BY <1>2, <1>3, <3>2
    <2>8. CASE free_all(h) BY <1>2, <1>3, <2>3, <2>8 DEF free_all
    <2>9. CASE unknown_command(h) BY <2>3, <2>9 DEF unknown_command
    <2> QED BY <2>1, <2>4, <2>5, <2>6, <2>7, <2>8, <2>9 DEF do_command
  <1> QED BY <1>4, <1>5

\* The index a request leaves in its handle is the place of the new rule, for every
\* history of requests: the kernel, told to use that place, uses the mirror's.
THEOREM MirrorPlace == Spec => ReportedPlace
  <1> DEFINE A == \A l \in Lists :
                    Len(list'[l]) > Len(list[l]) =>
                      LET k == IF out'.index = 0 THEN Len(list[l]) ELSE out'.index
                      IN list'[l] = InsertAt(list[l], k, list'[l][k])
  <1>1. IInv /\ [Next]_vars => A BY PlaceStep
  <1>2. ReportedPlace <=> [][A]_vars BY DEF ReportedPlace
  <1> HIDE DEF A
  <1> QED BY <1>1, <1>2, MirrorInvariant, PTL DEF Spec
-----------------------------------------------------------------------------
(* Each step is one of PolicyChains or a stutter.                          *)

\* The refinement mapping.
Pol == [l \in Lists |-> Last(list[l]).actionDesc]
Rul == [l \in Lists |-> Front(list[l])]

\* What a change of one list is in PolicyChains.
LEMMA OneChain ==
  ASSUME IInv, NEW l \in Lists, NEW t, list' = [list EXCEPT ![l] = t]
  PROVE  /\ Rul' = [Rul EXCEPT ![l] = Front(t)] /\ Rul'[l] = Front(t) /\ Rul[l] = Front(list[l])
         /\ Pol' = [Pol EXCEPT ![l] = Last(t).actionDesc]
         /\ Pol'[l] = Last(t).actionDesc /\ Pol[l] = Last(list[l]).actionDesc
         /\ Last(t).actionDesc = Pol[l] => Pol' = Pol
  <1>1. list \in [Lists -> Seq(Entry)] BY DEF IInv
  <1>2. \A m \in Lists : list'[m] = IF m = l THEN t ELSE list[m] BY <1>1
  <1>3. /\ Rul = [m \in Lists |-> Front(list[m])] /\ Rul' = [m \in Lists |-> Front(list'[m])]
        /\ Pol = [m \in Lists |-> Last(list[m]).actionDesc]
        /\ Pol' = [m \in Lists |-> Last(list'[m]).actionDesc]
    BY DEF Rul, Pol
  <1>4. Rul' = [Rul EXCEPT ![l] = Front(t)] /\ Rul'[l] = Front(t) /\ Rul[l] = Front(list[l])
    BY <1>2, <1>3
  <1>5. Pol' = [Pol EXCEPT ![l] = Last(t).actionDesc]
        /\ Pol'[l] = Last(t).actionDesc /\ Pol[l] = Last(list[l]).actionDesc
    BY <1>2, <1>3
  <1>6. Last(t).actionDesc = Pol[l] => Pol' = Pol
    BY <1>2, <1>3
  <1> QED BY <1>4, <1>5, <1>6

\* What is known of a list in use.
LEMMA ListFacts ==
  ASSUME IInv, NEW l \in Lists
  PROVE  /\ list[l] \in Seq(Entry) /\ Len(list[l]) \in Nat /\ Len(list[l]) >= 1
         /\ length[l] = Len(list[l])
         /\ Front(list[l]) \in Seq(Entry) /\ Len(Front(list[l])) = Len(list[l]) - 1
         /\ \A i \in 1 .. Len(list[l]) - 1 : Front(list[l])[i] = list[l][i]
  <1>1. list[l] \in Seq(Entry) /\ Len(list[l]) \in Nat /\ Len(list[l]) >= 1 /\ length[l] = Len(list[l])
    BY LenProperties DEF IInv, GoodList
  <1> QED BY <1>1, FrontProperties

\* A rule that is put into a list is added to the chain, in its place.
LEMMA AddChanges ==
  ASSUME IInv, NEW h \in Requests, NEW l \in Lists, NEW k \in Nat, Placed(h, l, k)
  PROVE  /\ Rul' = [Rul EXCEPT ![l] = InsertAt(Rul[l], k, h.table)] /\ Pol' = Pol
         /\ Rul'[l] # Rul[l] /\ k \in 1 .. Len(Rul[l]) + 1
  <1> DEFINE s == list[l]
             f == Front(s)
             r == h.table
             t == InsertAt(s, k, r)
  <1>1. /\ s \in Seq(Entry) /\ Len(s) \in Nat /\ Len(s) >= 1
        /\ f \in Seq(Entry) /\ Len(f) = Len(s) - 1 /\ \A i \in 1 .. Len(s) - 1 : f[i] = s[i]
    BY ListFacts
  <1>2. k \in 1 .. Len(s) /\ list' = [list EXCEPT ![l] = t]
    BY DEF Placed
  <1>3. r \in Entry BY RequestsAssumption, EntryFacts DEF Handle
  <1>4. Front(t) = InsertAt(f, k, r)
    <2> HIDE DEF s, r
    <2> QED BY <1>1, <1>2, <1>3, FrontInsert
  <1>5. Len(t) = Len(s) + 1 /\ Last(t) = Last(s)
    <2>1. k \in 1 .. Len(s) + 1 BY <1>1, <1>2
    <2>2. /\ Len(t) = Len(s) + 1
          /\ \A i \in 1 .. Len(s) + 1 : t[i] = IF i < k THEN s[i] ELSE IF i = k THEN r ELSE s[i - 1]
      <3>1. s \in Seq(Entry) BY <1>1
      <3>2. Inserts(s, k, r, t)
        <4> HIDE DEF s, r, f
        <4> QED BY <3>1, <1>3, <2>1, InsertAtInserts
      <3> HIDE DEF s, r, f, t
      <3> QED BY <3>2 DEF Inserts
    <2> HIDE DEF s, t
    <2> QED BY <1>1, <1>2, <2>2 DEF Last
  <1>6. Len(InsertAt(f, k, r)) = Len(f) + 1
    <2>1. k \in 1 .. Len(f) + 1 BY <1>1, <1>2
    <2> HIDE DEF f, r
    <2> QED BY <1>1, <1>3, <2>1, InsertAtProperties
  <1>7. /\ Rul' = [Rul EXCEPT ![l] = Front(t)] /\ Rul'[l] = Front(t) /\ Rul[l] = f
        /\ Last(t).actionDesc = Pol[l] => Pol' = Pol
        /\ Pol[l] = Last(s).actionDesc
    <2> HIDE DEF t
    <2> QED BY <1>2, OneChain
  <1>8. Rul' = [Rul EXCEPT ![l] = InsertAt(Rul[l], k, h.table)] /\ Pol' = Pol /\ Rul'[l] # Rul[l]
    <2>1. Pol' = Pol BY <1>5, <1>7
    <2>2. Rul'[l] = InsertAt(f, k, r) BY <1>4, <1>7
    <2>3. Rul'[l] # f BY <1>1, <1>6, <2>2
    <2> QED BY <1>4, <1>7, <2>1, <2>3
  <1>9. k \in 1 .. Len(Rul[l]) + 1 BY <1>1, <1>2, <1>7
  <1> QED BY <1>8, <1>9

\* Which is a step of the chains.
LEMMA AddImplements ==
  ASSUME IInv, NEW h \in Requests, NEW l \in Lists, NEW k \in Nat, Placed(h, l, k)
  PROVE  Abstract!Next
  <1>1. /\ Rul' = [Rul EXCEPT ![l] = InsertAt(Rul[l], k, h.table)] /\ Pol' = Pol
        /\ Rul'[l] # Rul[l] /\ k \in 1 .. Len(Rul[l]) + 1
    BY AddChanges
  <1>2. /\ Len(list[l]) \in Nat /\ Len(Rul[l]) = Len(list[l]) - 1
        /\ \A i \in 1 .. Len(list[l]) - 1 : Rul[l][i] = list[l][i]
    BY ListFacts DEF Rul
  <1>3. ASSUME NEW i \in 1 .. k - 1 PROVE Rul[l][i].priority >= h.table.priority
    <2>1. list[l][i].priority >= h.table.priority BY DEF Placed
    <2>2. i \in 1 .. Len(list[l]) - 1 BY <1>1, <1>2
    <2> QED BY <1>2, <2>1, <2>2
  <1>4. ASSUME NEW i \in k .. Len(Rul[l]) PROVE Rul[l][i].priority < h.table.priority
    <2>1. i \in k .. Len(list[l]) - 1 BY <1>2
    <2>2. list[l][i].priority < h.table.priority BY <2>1 DEF Placed
    <2>3. i \in 1 .. Len(list[l]) - 1 BY <1>1, <1>2, <2>1
    <2> QED BY <1>2, <2>2, <2>3
  <1>5. Abstract!Add(l, h.table)
    <2>1. InsertAt(Rul[l], k, h.table) = Abstract!InsertAt(Rul[l], k, h.table)
      BY DEF InsertAt, Abstract!InsertAt
    <2> QED BY <1>1, <1>3, <1>4, <2>1 DEF Abstract!Add, Rul, Pol
  <1> QED BY <1>1, <1>5 DEF Abstract!Next, Rul

\* A policy that is set is set, or was that already.
LEMMA SetPolicyChanges ==
  ASSUME IInv, NEW h \in Requests, do_set_policy(h), ~Refuse(h)
  PROVE  /\ ListOf(h) \in Lists /\ h.table.actionDesc \in ActionDesc \ {"DESC_NONE"}
         /\ Rul' = Rul /\ Pol' = [Pol EXCEPT ![ListOf(h)] = h.table.actionDesc]
  <1> DEFINE l == ListOf(h)
             s == list[l]
             d == h.table.actionDesc
             e == [s[Len(s)] EXCEPT !.actionDesc = d, !.priority = MAX_PRIORITY]
             t == ReplaceAt(s, Len(s), e)
  <1>0. h \in Handle BY RequestsAssumption
  <1>1. l \in Lists /\ d \in ActionDesc \ {"DESC_NONE"} /\ list' = [list EXCEPT ![l] = t]
    BY <1>0 DEF do_set_policy, Found, PolicyPos, Handle, Ruletable, IInv
  <1>2. s \in Seq(Entry) /\ Len(s) \in Nat /\ Len(s) \in 1 .. Len(s) BY <1>1, ListFacts
  <1>3. s[Len(s)] \in Entry BY <1>2, ElementOfSeq
  <1>4. e \in Entry /\ e.actionDesc = d BY <1>1, <1>3 DEF Entry
  <1>5. Front(t) = Front(s)
    <2> HIDE DEF s, e
    <2> QED BY <1>2, <1>4, FrontReplace
  <1>6. Last(t) = e
    <2>1. t \in Seq(Entry) /\ Len(t) = Len(s) /\ \A i \in 1 .. Len(s) : t[i] = IF i = Len(s) THEN e ELSE s[i]
      <3> HIDE DEF s, e
      <3> QED BY <1>2, <1>4, ExceptSeq DEF ReplaceAt
    <2> HIDE DEF s, e, t
    <2> QED BY <1>2, <2>1 DEF Last
  <1>7. /\ Rul' = [Rul EXCEPT ![l] = Front(s)] /\ Rul[l] = Front(s)
        /\ Pol' = [Pol EXCEPT ![l] = d] /\ Pol'[l] = d
    <2>1. /\ Rul' = [Rul EXCEPT ![l] = Front(t)] /\ Rul[l] = Front(list[l])
          /\ Pol' = [Pol EXCEPT ![l] = Last(t).actionDesc] /\ Pol'[l] = Last(t).actionDesc
      <3> HIDE DEF l, t
      <3> QED BY <1>1, OneChain
    <2> HIDE DEF e, t
    <2> QED BY <1>4, <1>5, <1>6, <2>1
  <1>8. Rul' = Rul
    <2> HIDE DEF l, d, e, t, s
    <2> QED BY <1>1, <1>7 DEF Rul
  <1> QED BY <1>1, <1>7, <1>8

\* A policy set is one of the chains, or was the same before.
LEMMA SetPolicyImplements ==
  ASSUME IInv, NEW h \in Requests, do_set_policy(h), ~Refuse(h)
  PROVE  Abstract!Next \/ UNCHANGED <<Pol, Rul>>
  <1> DEFINE l == ListOf(h)
             d == h.table.actionDesc
  <1>1. l \in Lists /\ d \in ActionDesc \ {"DESC_NONE"} /\ Rul' = Rul /\ Pol' = [Pol EXCEPT ![l] = d]
    BY SetPolicyChanges
  <1> HIDE DEF l, d
  <1>2. CASE Pol'[l] # Pol[l]
    <2>1. Abstract!SetPolicy(l, d) BY <1>1 DEF Abstract!SetPolicy, Rul, Pol
    <2> QED BY <1>1, <1>2, <2>1 DEF Abstract!Next, Pol
  <1>3. CASE Pol'[l] = Pol[l]
    <2>1. Pol' = Pol BY <1>1, <1>3 DEF Pol
    <2> QED BY <1>1, <2>1
  <1> QED BY <1>2, <1>3

\* A rule that is altered is altered in place and keeps its priority.
LEMMA AlterChanges ==
  ASSUME IInv, NEW h \in Requests, do_alter(h), ~Refuse(h), WalkTo(ListOf(h), h.index) # 0
  PROVE  LET l == ListOf(h)
             k == h.index
         IN /\ l \in Lists /\ k \in 1 .. Len(Rul[l]) /\ Pol' = Pol
            /\ Rul' = [Rul EXCEPT ![l] = ReplaceAt(Rul[l], k, Altered(Rul[l][k], h.table))]
  <1> DEFINE l == ListOf(h)
             s == list[l]
             k == WalkTo(l, h.index)
             e == Altered(s[k], h.table)
             t == ReplaceAt(s, k, e)
  <1>0. h \in Handle BY RequestsAssumption
  <1>1. l \in Lists /\ ~TooBig(l, h.index) /\ h.index \in Int /\ h.table \in Ruletable /\ k # 0
    BY <1>0 DEF do_alter, Found, Handle
  <1>2. list' = [list EXCEPT ![l] = t] BY <1>1 DEF do_alter, IInv
  <1>3. k \in 1 .. Len(s) - 1
    <2> HIDE DEF l
    <2> QED BY <1>1, WalkInBounds
  <1>4. /\ s \in Seq(Entry) /\ Len(s) \in Nat
        /\ Front(s) \in Seq(Entry) /\ Len(Front(s)) = Len(s) - 1
        /\ \A i \in 1 .. Len(s) - 1 : Front(s)[i] = s[i]
    BY <1>1, ListFacts
  <1>5. k \in 1 .. Len(s) /\ k < Len(s) /\ k # Len(s) BY <1>3, <1>4
  <1>6. s[k] \in Entry
    <2> HIDE DEF s, k
    <2> QED BY <1>4, <1>5, ElementOfSeq
  <1>7. e \in Entry /\ e = [h.table EXCEPT !.priority = s[k].priority]
    <2> HIDE DEF s, k
    <2> QED BY <1>1, <1>6 DEF Altered, Entry, Ruletable
  <1>8. Front(t) = ReplaceAt(Front(s), k, e)
    <2> HIDE DEF s, k, e
    <2> QED BY <1>4, <1>5, <1>7, FrontReplace
  <1>9. Last(t) = Last(s)
    <2>1. t \in Seq(Entry) /\ Len(t) = Len(s) /\ \A i \in 1 .. Len(s) : t[i] = IF i = k THEN e ELSE s[i]
      <3> HIDE DEF s, k, e
      <3> QED BY <1>4, <1>5, <1>7, ExceptSeq DEF ReplaceAt
    <2> HIDE DEF s, k, e, t
    <2> QED BY <1>4, <1>5, <2>1 DEF Last
  <1>10. /\ Rul' = [Rul EXCEPT ![l] = Front(t)] /\ Rul'[l] = Front(t) /\ Rul[l] = Front(s)
         /\ Last(t).actionDesc = Pol[l] => Pol' = Pol
         /\ Pol[l] = Last(s).actionDesc
    <2> HIDE DEF l, t
    <2> QED BY <1>1, <1>2, OneChain
  <1>11. Rul[l][k] = s[k] /\ k \in 1 .. Len(Rul[l])
    <2> HIDE DEF l, s, k, e, t
    <2> QED BY <1>3, <1>4, <1>10
  <1>12. Pol' = Pol BY <1>9, <1>10
  <1>13. k = h.index
    <2> HIDE DEF l
    <2> QED BY <1>1, WalkInBounds
  <1> HIDE DEF l, s, k, e, t
  <1>14. Rul' = [Rul EXCEPT ![l] = ReplaceAt(Rul[l], k, Altered(Rul[l][k], h.table))]
    <2>1. e = Altered(Rul[l][k], h.table) BY <1>11 DEF e
    <2> QED BY <1>8, <1>10, <2>1
  <1> QED BY <1>1, <1>11, <1>12, <1>13, <1>14 DEF l

\* A rule replaced is one of the chains, or the walk came to the list head.
LEMMA AlterImplements ==
  ASSUME IInv, NEW h \in Requests, do_alter(h), ~Refuse(h)
  PROVE  Abstract!Next \/ UNCHANGED <<Pol, Rul>>
  <1> DEFINE l == ListOf(h)
             k == h.index
             r == h.table
  <1>1. CASE WalkTo(l, k) = 0
    <2>1. list' = list BY <1>1 DEF do_alter
    <2> QED BY <2>1 DEF Pol, Rul
  <1>2. CASE WalkTo(l, k) # 0
    <2> DEFINE v == [r EXCEPT !.priority = Rul[l][k].priority]
    <2>1. /\ l \in Lists /\ k \in 1 .. Len(Rul[l]) /\ Pol' = Pol
          /\ Rul' = [Rul EXCEPT ![l] = ReplaceAt(Rul[l], k, Altered(Rul[l][k], r))]
      BY <1>2, AlterChanges
    <2>2. Altered(Rul[l][k], r) = v
      <3>1. Rul[l] \in Seq(Entry) BY <2>1, ListFacts DEF Rul
      <3>2. Rul[l][k] \in Entry
        <4> HIDE DEF l, k
        <4> QED BY <2>1, <3>1, ElementOfSeq
      <3>3. r \in Ruletable BY RequestsAssumption DEF Handle
      <3> HIDE DEF l, k, r
      <3> QED BY <3>2, <3>3 DEF Altered, Entry, Ruletable
    <2>3. Abstract!Alter(l, k, r)
      <3>1. ReplaceAt(Rul[l], k, v) = Abstract!ReplaceAt(Rul[l], k, v)
        BY DEF ReplaceAt, Abstract!ReplaceAt
      <3> HIDE DEF l, k, r
      <3> QED BY <2>1, <2>2, <3>1 DEF Abstract!Alter, Rul, Pol
    <2>4. CASE Rul'[l] # Rul[l]
      <3>1. r \in {q.table : q \in Requests} OBVIOUS
      <3> HIDE DEF l, k, r
      <3> QED BY <2>1, <2>3, <2>4, <3>1 DEF Abstract!Next, Rul
    <2>5. CASE Rul'[l] = Rul[l]
      <3> HIDE DEF l, k, r, v
      <3> QED BY <2>1, <2>5 DEF Rul
    <2> QED BY <2>4, <2>5
  <1> QED BY <1>1, <1>2

\* A rule that is unlinked is dropped from its chain.
LEMMA UnlinkChanges ==
  ASSUME IInv, NEW l \in Lists, NEW k \in 1 .. Len(list[l]) - 1, Unlink(l, k)
  PROVE  /\ Pol' = Pol /\ Rul' = [Rul EXCEPT ![l] = RemoveAt(Rul[l], k)] /\ Rul'[l] # Rul[l]
         /\ k \in 1 .. Len(Rul[l])
  <1> DEFINE s == list[l]
             t == RemoveAt(s, k)
  <1>1. /\ s \in Seq(Entry) /\ Len(s) \in Nat
        /\ Front(s) \in Seq(Entry) /\ Len(Front(s)) = Len(s) - 1
    BY ListFacts
  <1>2. list' = [list EXCEPT ![l] = t] BY DEF Unlink, IInv
  <1>3. Front(t) = RemoveAt(Front(s), k)
    <2> HIDE DEF s
    <2> QED BY <1>1, FrontRemove DEF s
  <1>4. /\ t \in Seq(Entry) /\ Len(t) = Len(s) - 1
        /\ \A i \in 1 .. Len(s) - 1 : t[i] = IF i < k THEN s[i] ELSE s[i + 1]
    <2>1. k \in 1 .. Len(s) BY <1>1
    <2>2. s \in Seq(Entry) BY <1>1
    <2> HIDE DEF s
    <2> QED BY <2>1, <2>2, RemoveAtProperties
  <1>5. Last(t) = Last(s)
    <2>1. k \in 1 .. Len(s) - 1 OBVIOUS
    <2> HIDE DEF s, t
    <2> QED BY <1>1, <1>4, <2>1 DEF Last
  <1>6. Len(RemoveAt(Front(s), k)) = Len(Front(s)) - 1
    <2>1. k \in 1 .. Len(Front(s)) /\ Front(s) \in Seq(Entry) BY <1>1
    <2> DEFINE f == Front(s)
    <2> HIDE DEF f
    <2>2. Len(RemoveAt(f, k)) = Len(f) - 1 BY <2>1, RemoveAtProperties DEF f
    <2> QED BY <2>2 DEF f
  <1>7. /\ Rul' = [Rul EXCEPT ![l] = Front(t)] /\ Rul'[l] = Front(t) /\ Rul[l] = Front(s)
        /\ Last(t).actionDesc = Pol[l] => Pol' = Pol
        /\ Pol[l] = Last(s).actionDesc
    <2> HIDE DEF t
    <2> QED BY <1>2, OneChain
  <1>8. Pol' = Pol /\ Rul' = [Rul EXCEPT ![l] = RemoveAt(Rul[l], k)] /\ Rul'[l] # Rul[l]
        /\ k \in 1 .. Len(Rul[l])
    <2>1. k \in 1 .. Len(s) - 1 OBVIOUS
    <2>2. Len(Front(s)) \in Nat BY <1>1, LenProperties
    <2> HIDE DEF s, t
    <2> QED BY <1>1, <1>3, <1>5, <1>6, <1>7, <2>1, <2>2
  <1> QED BY <1>8

\* Which is a step of the chains.
LEMMA UnlinkImplements ==
  ASSUME IInv, NEW l \in Lists, NEW k \in 1 .. Len(list[l]) - 1, Unlink(l, k)
  PROVE  Abstract!Next
  <1>1. /\ Pol' = Pol /\ Rul' = [Rul EXCEPT ![l] = RemoveAt(Rul[l], k)] /\ Rul'[l] # Rul[l]
        /\ k \in 1 .. Len(Rul[l])
    BY UnlinkChanges
  <1>2. Abstract!Drop(l, k)
    <2>1. RemoveAt(Rul[l], k) = Abstract!RemoveAt(Rul[l], k)
      BY DEF RemoveAt, Abstract!RemoveAt
    <2> QED BY <1>1, <2>1 DEF Abstract!Drop, Rul, Pol
  <1> QED BY <1>1, <1>2 DEF Abstract!Next, Rul

\* The lists of a table that are emptied are chains that are cleared together.
LEMMA CleanChanges ==
  ASSUME IInv, NEW h \in Requests, free_all(h), ~Refuse(h)
  PROVE  Rul' = [l \in Lists |-> IF l[1] = h.tablename THEN <<>> ELSE Rul[l]] /\ Pol' = Pol
  <1> DEFINE C == {l \in Lists : l[1] = h.tablename}
  <1>1. list' = [l \in Lists |-> IF OfTable(h, l) THEN Emptied(list[l], length[l]) ELSE list[l]]
    BY DEF free_all
  <1>2. h.tablename \in TableName BY RequestsAssumption DEF Handle
  <1>3. ASSUME NEW l \in Lists
        PROVE  /\ Front(list'[l]) = IF l \in C THEN <<>> ELSE Front(list[l])
               /\ Last(list'[l]) = Last(list[l])
    <2> DEFINE s == list[l]
               t == Emptied(s, Len(s))
    <2>1. s \in Seq(Entry) /\ Len(s) \in Nat /\ Len(s) >= 1 /\ length[l] = Len(s) BY ListFacts
    <2>2. CASE l \notin C BY <1>1, <2>2 DEF OfTable
    <2>3. CASE l \in C
      <3>1. list'[l] = t BY <1>1, <2>1, <2>3 DEF OfTable
      <3>2. t = SubSeq(s, Len(s), Len(s)) BY DEF Emptied
      <3>3. \A i \in Len(s) .. Len(s) : s[i] \in Entry BY <2>1, ElementOfSeq
      <3>4. t \in Seq(Entry) /\ Len(t) = 1 /\ t[1] = s[Len(s)]
        <4> HIDE DEF s, t
        <4> QED BY <2>1, <3>2, <3>3, SubSeqProperties
      <3>5. Last(t) = Last(s)
        <4> HIDE DEF s, t
        <4> QED BY <3>4 DEF Last
      <3>6. Front(t) = <<>>
        <4>1. Front(t) = SubSeq(t, 1, 0) BY <3>4 DEF Front
        <4> HIDE DEF t
        <4> QED BY <4>1, SubSeqEmpty
      <3> QED BY <2>3, <3>1, <3>5, <3>6
    <2> QED BY <2>2, <2>3
  <1>4. Rul' = [l \in Lists |-> IF l \in C THEN <<>> ELSE Rul[l]] /\ Pol' = Pol
    <2> HIDE DEF C
    <2> QED BY <1>3 DEF Rul, Pol
  <1> QED BY <1>4

\* Which is a step of the chains.
LEMMA CleanImplements ==
  ASSUME IInv, NEW h \in Requests, free_all(h), ~Refuse(h)
  PROVE  Abstract!Next
  <1> DEFINE C == {l \in Lists : l[1] = h.tablename}
  <1>1. Rul' = [l \in Lists |-> IF l \in C THEN <<>> ELSE Rul[l]] /\ Pol' = Pol
    BY CleanChanges
  <1>2. h.tablename \in TableName BY RequestsAssumption DEF Handle
  <1>3. Abstract!Clear(C)
    <2> HIDE DEF C
    <2> QED BY <1>1 DEF Abstract!Clear, Rul, Pol
  <1> QED BY <1>2, <1>3 DEF Abstract!Next

\* The lists after init_ruletables are chains without rules.
LEMMA InitImplements == init_ruletables => Abstract!Init
  <1> SUFFICES ASSUME init_ruletables PROVE Abstract!Init
    OBVIOUS
  <1> DEFINE e == PolicyEntry("ACCEPT")
  <1>1. list = [l \in Lists |-> <<e>>] BY DEF init_ruletables
  <1>2. e.actionDesc = "ACCEPT" BY DEF PolicyEntry
  <1> HIDE DEF e
  <1>3. Len(<<e>>) = 1 /\ Last(<<e>>) = e BY DEF Last
  <1>4. Front(<<e>>) = <<>>
    <2>1. Front(<<e>>) = SubSeq(<<e>>, 1, 0) BY <1>3 DEF Front
    <2> QED BY <2>1, SubSeqEmpty
  <1>5. Rul = [l \in Lists |-> <<>>] BY <1>1, <1>4 DEF Rul
  <1>6. Pol = [l \in Lists |-> "ACCEPT"] BY <1>1, <1>2, <1>3 DEF Pol
  <1>7. Pol \in [Lists -> ActionDesc \ {"DESC_NONE"}] BY <1>6 DEF ActionDesc
  <1> QED BY <1>5, <1>7 DEF Abstract!Init, Rul, Pol

\* Every step of the lists is a step of the chains, or changes none of them.
LEMMA NextImplements == IInv /\ [Next]_vars => [Abstract!Next]_(Abstract!pvars)
  <1> SUFFICES ASSUME IInv, [Next]_vars PROVE Abstract!Next \/ UNCHANGED <<Pol, Rul>>
    BY DEF Abstract!pvars, Pol, Rul
  <1>1. CASE list' = list BY <1>1 DEF Pol, Rul
  <1>2. CASE list' # list
    <2>1. PICK h \in Requests : do_command(h) BY <1>2 DEF Next, vars
    <2>2. h \in Handle /\ mem = "ok" /\ ~Refuse(h)
      BY <1>2, <2>1, RequestsAssumption DEF do_command, Refuse
    <2>3. CASE do_set_policy(h) BY <2>2, <2>3, SetPolicyImplements
    <2>4. CASE do_append(h)
      <3>1. PICK k \in Nat : Placed(h, ListOf(h), k) BY <2>2, <2>4, AppendPlaces
      <3>2. ListOf(h) \in Lists BY <3>1 DEF Placed
      <3> QED BY <3>1, <3>2, AddImplements
    <2>5. CASE do_alter(h) BY <2>2, <2>5, AlterImplements
    <2>6. CASE do_delete(h)
      <3> DEFINE l == ListOf(h)
                 k == WalkTo(l, h.index)
      <3>1. l \in Lists /\ h.index \in Int BY <2>2, <2>6 DEF do_delete, Found, Handle
      <3>2. length[l] = Len(list[l]) /\ Len(list[l]) \in Nat BY <3>1, ListFacts
      <3>3. CASE h.index = 0
        <4>1. PICK m \in 1 .. Len(list[l]) : FirstMatch(l, h.table, m) /\ Unlink(l, m)
          BY <2>2, <2>6, <3>3 DEF do_delete
        <4>2. m \in 1 .. Len(list[l]) - 1 BY <3>2, <4>1 DEF FirstMatch, Matches
        <4> HIDE DEF l
        <4> QED BY <3>1, <4>1, <4>2, UnlinkImplements
      <3>4. CASE h.index # 0
        <4>1. ~TooBig(l, h.index) /\ k # 0 /\ Unlink(l, k)
          BY <1>2, <2>2, <2>6, <3>4 DEF do_delete
        <4>2. k \in 1 .. Len(list[l]) - 1
          <5> HIDE DEF l
          <5> QED BY <3>1, <4>1, WalkInBounds
        <4> HIDE DEF l, k
        <4> QED BY <3>1, <4>1, <4>2, UnlinkImplements
      <3> QED BY <3>3, <3>4
    <2>7. CASE free_all(h) BY <2>2, <2>7, CleanImplements
    <2>8. CASE unknown_command(h) BY <2>2, <2>8 DEF unknown_command
    <2> QED BY <2>1, <2>3, <2>4, <2>5, <2>6, <2>7, <2>8 DEF do_command
  <1> QED BY <1>1, <1>2

\* The mirror implements the chains with policies for every set of requests and every
\* bound: each accepted request is one change, each refused one none.
THEOREM MirrorImplements == Spec => ImplementsChains
  BY InitImplements, NextImplements, MirrorInvariant, PTL DEF Spec, ImplementsChains, Abstract!Spec

-----------------------------------------------------------------------------
(* The number of rules of all lists bounds that of each.                   *)

\* g sums f over the subsets of S, an element of each at a time.
Sums(S, f, g) ==
    g = [s \in SUBSET S |-> IF s = {} THEN 0
                            ELSE f[CHOOSE x \in s : TRUE] + g[s \ {CHOOSE x \in s : TRUE}]]

\* A subset of a finite set, and without one of its elements.
LEMMA SubsetFacts ==
    ASSUME NEW S, IsFiniteSet(S), NEW s \in SUBSET S
    PROVE  /\ IsFiniteSet(s) /\ Cardinality(s) \in Nat /\ Cardinality(s) <= Cardinality(S)
           /\ s # {} => \E c \in s : /\ c = CHOOSE x \in s : TRUE
                                     /\ s \ {c} \in SUBSET S
                                     /\ Cardinality(s \ {c}) = Cardinality(s) - 1
<1>1. IsFiniteSet(s) /\ Cardinality(s) \in Nat /\ Cardinality(s) <= Cardinality(S)
  BY FS_Subset, FS_CardinalityType
<1>2. ASSUME s # {}
      PROVE  \E c \in s : /\ c = CHOOSE x \in s : TRUE
                          /\ s \ {c} \in SUBSET S
                          /\ Cardinality(s \ {c}) = Cardinality(s) - 1
  <2>1. PICK c : c = CHOOSE x \in s : TRUE
    OBVIOUS
  <2>2. c \in s
    BY <1>2, <2>1
  <2>3. Cardinality(s \ {c}) = Cardinality(s) - 1
    BY <1>1, <2>2, FS_RemoveElement
  <2> QED
    BY <2>1, <2>2, <2>3
<1> QED
  BY <1>1, <1>2

\* What g must do on the subsets of at most n elements.
SumsTo(S, f, g, n) ==
    /\ g \in [SUBSET S -> Nat]
    /\ \A s \in SUBSET S : Cardinality(s) <= n =>
          g[s] = IF s = {} THEN 0
                 ELSE f[CHOOSE x \in s : TRUE] + g[s \ {CHOOSE x \in s : TRUE}]

\* Numbers of a finite set can be summed.
LEMMA SumsExist ==
    ASSUME NEW S, IsFiniteSet(S), NEW f \in [S -> Nat]
    PROVE  \E g : Sums(S, f, g)
<1> DEFINE N == Cardinality(S)
           T == {n \in 0 .. N : \E g : SumsTo(S, f, g, n)}
<1>1. N \in Nat
  BY FS_CardinalityType
<1>2. 0 \in T
  <2> DEFINE g == [s \in SUBSET S |-> 0]
  <2>1. SumsTo(S, f, g, 0)
    <3>1. ASSUME NEW s \in SUBSET S, Cardinality(s) <= 0 PROVE s = {}
      <4>1. IsFiniteSet(s) /\ Cardinality(s) \in Nat
        BY SubsetFacts
      <4>2. Cardinality(s) = 0
        BY <3>1, <4>1
      <4> QED
        BY <4>1, <4>2, FS_EmptySet
    <3> QED
      BY <3>1 DEF SumsTo
  <2> QED
    BY <1>1, <2>1
<1>3. ASSUME NEW n \in 0 .. N - 1, n \in T PROVE n + 1 \in T
  <2>1. PICK g : SumsTo(S, f, g, n)
    BY <1>3
  <2> DEFINE h == [s \in SUBSET S |-> IF s = {} THEN 0
                     ELSE f[CHOOSE x \in s : TRUE] + g[s \ {CHOOSE x \in s : TRUE}]]
  <2>2. ASSUME NEW s \in SUBSET S
        PROVE  /\ h[s] \in Nat
               /\ h[s] = IF s = {} THEN 0
                         ELSE f[CHOOSE x \in s : TRUE] + g[s \ {CHOOSE x \in s : TRUE}]
    <3>1. CASE s = {}
      BY <3>1
    <3>2. CASE s # {}
      <4>1. PICK c \in s : c = (CHOOSE x \in s : TRUE) /\ s \ {c} \in SUBSET S
        BY <3>2, SubsetFacts
      <4>2. f[c] \in Nat /\ g[s \ {c}] \in Nat
        BY <2>1, <4>1 DEF SumsTo
      <4>3. h[s] = f[c] + g[s \ {c}]
        BY <3>2, <4>1
      <4> HIDE DEF h
      <4> QED
        BY <3>2, <4>1, <4>2, <4>3
    <3> QED
      BY <3>1, <3>2
  <2>3. h \in [SUBSET S -> Nat]
    BY <2>2
  <2> HIDE DEF h
  <2>4. ASSUME NEW s \in SUBSET S, Cardinality(s) <= n + 1
        PROVE  h[s] = IF s = {} THEN 0
                      ELSE f[CHOOSE x \in s : TRUE] + h[s \ {CHOOSE x \in s : TRUE}]
    <3>1. CASE s = {}
      BY <2>2, <3>1
    <3>2. CASE s # {}
      <4>1. PICK c \in s : /\ c = (CHOOSE x \in s : TRUE) /\ s \ {c} \in SUBSET S
                           /\ Cardinality(s \ {c}) = Cardinality(s) - 1
        BY <3>2, SubsetFacts
      <4>2. PICK t \in SUBSET S : t = s \ {c}
        BY <4>1
      <4>3. Cardinality(s) \in Nat
        BY SubsetFacts
      <4>4. Cardinality(t) <= n
        BY <2>4, <4>1, <4>2, <4>3
      <4>5. g[t] = h[t]
        BY <2>1, <2>2, <4>4 DEF SumsTo
      <4>6. h[s] = f[c] + g[t]
        BY <2>2, <3>2, <4>1, <4>2
      <4> QED
        BY <3>2, <4>1, <4>2, <4>5, <4>6
    <3> QED
      BY <3>1, <3>2
  <2>5. SumsTo(S, f, h, n + 1)
    BY <2>3, <2>4 DEF SumsTo
  <2> QED
    BY <1>1, <2>5
<1>4. N \in T
  <2> HIDE DEF T, N
  <2>1. 0 .. N \subseteq T
    BY <1>1, <1>2, <1>3, IntervalInduction
  <2> QED
    BY <1>1, <2>1
<1>5. PICK g : SumsTo(S, f, g, N)
  BY <1>4
<1>6. \A s \in SUBSET S : Cardinality(s) <= N
  BY SubsetFacts
<1>7. Sums(S, f, g)
  BY <1>5, <1>6 DEF SumsTo, Sums
<1> QED
  BY <1>7

\* A sum of natural numbers is at least each of them.
LEMMA SumBound ==
    ASSUME NEW S, IsFiniteSet(S), NEW f \in [S -> Nat], NEW g, Sums(S, f, g), NEW y \in S
    PROVE  g[S] \in Nat /\ f[y] <= g[S]
<1> DEFINE N == Cardinality(S)
           T == {n \in 0 .. N : \A s \in SUBSET S : Cardinality(s) = n =>
                                   g[s] \in Nat /\ \A x \in s : f[x] <= g[s]}
<1>1. N \in Nat
  BY FS_CardinalityType
<1>2. 0 \in T
  <2>1. ASSUME NEW s \in SUBSET S, Cardinality(s) = 0 PROVE s = {} /\ g[s] = 0
    <3>1. s = {}
      BY <2>1, SubsetFacts, FS_EmptySet
    <3> QED
      BY <3>1 DEF Sums
  <2> QED
    BY <1>1, <2>1
<1>3. ASSUME NEW n \in 0 .. N - 1, n \in T PROVE n + 1 \in T
  <2>1. ASSUME NEW s \in SUBSET S, Cardinality(s) = n + 1
        PROVE  g[s] \in Nat /\ \A x \in s : f[x] <= g[s]
    <3>1. s # {}
      <4>1. n + 1 # 0
        OBVIOUS
      <4> QED
        BY <2>1, <4>1, FS_EmptySet
    <3>2. PICK c \in s : /\ c = (CHOOSE x \in s : TRUE) /\ s \ {c} \in SUBSET S
                         /\ Cardinality(s \ {c}) = Cardinality(s) - 1
      BY <3>1, SubsetFacts
    <3>3. PICK t \in SUBSET S : t = s \ {c}
      BY <3>2
    <3>4. Cardinality(t) = n
      BY <2>1, <3>2, <3>3
    <3>5. g[t] \in Nat /\ \A x \in t : f[x] <= g[t]
      BY <1>3, <3>4
    <3>6. g[s] = f[c] + g[t]
      BY <3>1, <3>2, <3>3 DEF Sums
    <3>7. ASSUME NEW x \in s PROVE f[x] <= f[c] + g[t]
      <4>1. x = c \/ x \in t
        BY <3>3
      <4>2. f[x] \in Nat /\ f[c] \in Nat
        OBVIOUS
      <4> QED
        BY <3>5, <4>1, <4>2
    <3>8. f[c] \in Nat
      OBVIOUS
    <3> QED
      BY <3>5, <3>6, <3>7, <3>8
  <2> QED
    BY <1>1, <2>1
<1>4. N \in T
  <2> HIDE DEF T, N
  <2>1. 0 .. N \subseteq T
    BY <1>1, <1>2, <1>3, IntervalInduction
  <2> QED
    BY <1>1, <2>1
<1>5. S \in SUBSET S /\ Cardinality(S) = N
  OBVIOUS
<1>6. g[S] \in Nat /\ \A x \in S : f[x] <= g[S]
  BY <1>4, <1>5
<1> QED
  BY <1>6

\* A set of five is finite.
LEMMA FiniteFive ==
    ASSUME NEW a, NEW b, NEW c, NEW d, NEW e
    PROVE  IsFiniteSet({a, b, c, d, e})
<1>1. IsFiniteSet({a})
  BY FS_Singleton
<1>2. IsFiniteSet({a} \cup {b})
  BY <1>1, FS_AddElement
<1>3. IsFiniteSet(({a} \cup {b}) \cup {c})
  BY <1>2, FS_AddElement
<1>4. IsFiniteSet((({a} \cup {b}) \cup {c}) \cup {d})
  BY <1>3, FS_AddElement
<1>5. IsFiniteSet(((({a} \cup {b}) \cup {c}) \cup {d}) \cup {e})
  BY <1>4, FS_AddElement
<1>6. {a, b, c, d, e} = ((({a} \cup {b}) \cup {c}) \cup {d}) \cup {e}
  OBVIOUS
<1> QED
  BY <1>5, <1>6

\* There are finitely many lists.
LEMMA FiniteLists == IsFiniteSet(Lists)
<1> DEFINE T == {"filter", "nat", "mangle", "filter", "filter"}
           A == {"PREROUTING", "INPUT", "OUTPUT", "FORWARD", "POSTROUTING"}
<1>1. IsFiniteSet(T) /\ IsFiniteSet(A)
  BY FiniteFive
<1>2. Lists \in SUBSET (T \X A)
  BY DEF Lists
<1> HIDE DEF T, A
<1>3. IsFiniteSet(T \X A)
  BY <1>1, FS_Product
<1> QED
  BY <1>2, <1>3, FS_Subset

\* No list has more rules than all have.
LEMMA RuleCountBound ==
    ASSUME IInv, NEW l \in Lists
    PROVE  RuleCount \in Nat /\ Len(list[l]) - 1 <= RuleCount
<1> DEFINE f == [x \in Lists |-> Len(list[x]) - 1]
           G(g) == g = [s \in SUBSET Lists |->
                          IF s = {} THEN 0
                          ELSE (Len(list[CHOOSE x \in s : TRUE]) - 1) + g[s \ {CHOOSE x \in s : TRUE}]]
<1>1. f \in [Lists -> Nat]
  <2>1. \A x \in Lists : Len(list[x]) - 1 \in Nat
    BY LenProperties DEF IInv, GoodList
  <2> QED
    BY <2>1
<1>2. ASSUME NEW g PROVE G(g) <=> Sums(Lists, f, g)
  <2>1. ASSUME NEW s \in SUBSET Lists, s # {}
        PROVE  f[CHOOSE x \in s : TRUE] = Len(list[CHOOSE x \in s : TRUE]) - 1
    <3>1. (CHOOSE x \in s : TRUE) \in Lists
      BY <2>1
    <3> QED
      BY <3>1
  <2> HIDE DEF f
  <2> QED
    BY <2>1 DEF Sums
<1>3. \E g : G(g)
  <2> HIDE DEF f, G
  <2> QED
    BY <1>1, <1>2, FiniteLists, SumsExist
<1>4. PICK h : h = CHOOSE g : G(g)
  OBVIOUS
<1>5. G(h)
  <2> HIDE DEF f, G
  <2> QED
    BY <1>3, <1>4
<1>6. RuleCount = h[Lists]
  BY <1>4 DEF RuleCount, MapThenSumSet, MapThenFoldSet
<1>7. h[Lists] \in Nat /\ f[l] <= h[Lists]
  <2> HIDE DEF f, G
  <2> QED
    BY <1>1, <1>2, <1>5, FiniteLists, SumBound
<1> QED
  BY <1>6, <1>7

-----------------------------------------------------------------------------
(* Reading an argument vector from a state of the parser.                  *)

\* u[n] is the parser after n words of argv, from p on.
Readings(p, argv, k, u) ==
    /\ u = [n \in 0 .. k |-> u[n]]
    /\ u[0] = p
    /\ \A n \in 1 .. k : u[n] = Read(u[n - 1], argv[n])

\* Step by step.
LEMMA ReadingsAt ==
    ASSUME NEW p, NEW argv, NEW k, NEW u, Readings(p, argv, k, u)
    PROVE  u[0] = p /\ \A n \in 1 .. k : u[n] = Read(u[n - 1], argv[n])
BY DEF Readings

\* An argument vector can be read to any length, ...
LEMMA ReadingsExist ==
    ASSUME NEW p, NEW argv, NEW k \in Nat
    PROVE  \E u : Readings(p, argv, k, u)
<1> DEFINE S == {m \in 0 .. k : \E u : Readings(p, argv, m, u)}
<1>1. 0 \in S
  <2>1. Readings(p, argv, 0, [n \in 0 .. 0 |-> p])
    BY DEF Readings
  <2> QED
    BY <2>1
<1>2. ASSUME NEW m \in 0 .. k - 1, m \in S
      PROVE  m + 1 \in S
  <2>1. PICK u : Readings(p, argv, m, u)
    BY <1>2
  <2> DEFINE v == [n \in 0 .. m + 1 |-> IF n <= m THEN u[n] ELSE Read(u[m], argv[m + 1])]
  <2>2. v = [n \in 0 .. m + 1 |-> v[n]]
    OBVIOUS
  <2>3. v[0] = p
    BY <2>1 DEF Readings
  <2>4. ASSUME NEW n \in 1 .. m + 1
        PROVE  v[n] = Read(v[n - 1], argv[n])
    <3>1. CASE n <= m
      <4>1. v[n] = u[n] /\ v[n - 1] = u[n - 1]
        BY <3>1
      <4> HIDE DEF v
      <4>2. u[n] = Read(u[n - 1], argv[n])
        <5>1. n \in 1 .. m
          BY <3>1
        <5> QED
          BY <5>1, <2>1, ReadingsAt
      <4> QED
        BY <4>1, <4>2
    <3>2. CASE n = m + 1
      <4>1. v[n] = Read(u[m], argv[m + 1]) /\ v[n - 1] = u[m]
        BY <3>2
      <4> HIDE DEF v
      <4> QED
        BY <3>2, <4>1
    <3> QED
      BY <3>1, <3>2
  <2>5. Readings(p, argv, m + 1, v)
    <3> HIDE DEF v
    <3> QED
      BY <2>2, <2>3, <2>4 DEF Readings
  <2> HIDE DEF v
  <2> QED
    BY <2>5
<1>3. 0 .. k \subseteq S
  <2> HIDE DEF S
  <2> QED
    BY <1>1, <1>2, IntervalInduction
<1> QED
  BY <1>3

\* ... and in one way only.
LEMMA ReadingsAgree ==
    ASSUME NEW p, NEW argv, NEW k \in Nat, NEW u, Readings(p, argv, k, u),
           NEW j \in Nat, NEW v, Readings(p, argv, j, v)
    PROVE  \A n \in 0 .. k : n <= j => u[n] = v[n]
<1> DEFINE S == {n \in 0 .. k : n <= j => u[n] = v[n]}
<1>1. 0 \in S
  BY DEF Readings
<1>2. ASSUME NEW n \in 0 .. k - 1, n \in S
      PROVE  n + 1 \in S
  <2>1. n + 1 \in 1 .. k /\ (n + 1) - 1 = n
    OBVIOUS
  <2>2. u[n + 1] = Read(u[n], argv[n + 1])
    BY <2>1 DEF Readings
  <2>3. CASE n + 1 <= j
    <3>1. v[n + 1] = Read(v[n], argv[n + 1])
      <4>1. n + 1 \in 1 .. j /\ (n + 1) - 1 = n
        BY <2>3
      <4>2. v[n + 1] = Read(v[(n + 1) - 1], argv[n + 1])
        BY <4>1, ReadingsAt
      <4> QED
        BY <4>1, <4>2
    <3> QED
      BY <1>2, <2>2, <2>3, <3>1
  <2> QED
    BY <2>3
<1>3. 0 .. k \subseteq S
  <2> HIDE DEF S
  <2> QED
    BY <1>1, <1>2, IntervalInduction
<1> QED
  BY <1>3

\* The parser after all words of argv, from p on.
ReadFrom(p, argv) == (CHOOSE u : Readings(p, argv, Len(argv), u))[Len(argv)]

\* What has been read is the last of the steps.
LEMMA ReadFromIs ==
    ASSUME NEW p, NEW argv, Len(argv) \in Nat, NEW u, Readings(p, argv, Len(argv), u)
    PROVE  ReadFrom(p, argv) = u[Len(argv)]
<1>1. PICK v : v = CHOOSE x : Readings(p, argv, Len(argv), x)
  OBVIOUS
<1>2. Readings(p, argv, Len(argv), v)
  BY <1>1
<1>3. v[Len(argv)] = u[Len(argv)]
  BY <1>2, ReadingsAgree
<1> QED
  BY <1>1, <1>3 DEF ReadFrom

\* do_command4 reads from the start.
LEMMA ReadAllIs ==
    ASSUME NEW argv, Len(argv) \in Nat
    PROVE  ReadAll(argv) = ReadFrom(Start, argv)
<1> DEFINE Up(u) == [n \in 0 .. Len(argv) |-> IF n = 0 THEN Start ELSE Read(u[n - 1], argv[n])]
           run == CHOOSE u : u = Up(u)
<1>1. ReadAll(argv) = run[Len(argv)]
  BY DEF ReadAll
<1>2. PICK w : Readings(Start, argv, Len(argv), w)
  BY ReadingsExist
<1>3. w = Up(w)
  <2>1. ASSUME NEW n \in 0 .. Len(argv)
        PROVE  w[n] = IF n = 0 THEN Start ELSE Read(w[n - 1], argv[n])
    <3>1. n = 0 \/ n \in 1 .. Len(argv)
      OBVIOUS
    <3> QED
      BY <1>2, <3>1 DEF Readings
  <2>2. [n \in 0 .. Len(argv) |-> w[n]] = Up(w)
    BY <2>1
  <2> HIDE DEF Up
  <2> QED
    BY <1>2, <2>2 DEF Readings
<1>4. run = Up(run)
  <2> HIDE DEF Up
  <2> QED
    BY <1>3
<1>5. Readings(Start, argv, Len(argv), run)
  <2> HIDE DEF run
  <2>1. \A n \in 0 .. Len(argv) : run[n] = IF n = 0 THEN Start ELSE Read(run[n - 1], argv[n])
    BY <1>4
  <2>2. run[0] = Start
    BY <2>1
  <2>3. \A n \in 1 .. Len(argv) : run[n] = Read(run[n - 1], argv[n])
    BY <2>1
  <2>4. run = [n \in 0 .. Len(argv) |-> run[n]]
    BY <1>4
  <2> QED
    BY <2>2, <2>3, <2>4 DEF Readings
<1> HIDE DEF run
<1> QED
  BY <1>1, <1>5, ReadFromIs

\* No words change nothing.
LEMMA ReadNothing ==
    ASSUME NEW p
    PROVE  ReadFrom(p, <<>>) = p
<1>1. PICK u : Readings(p, <<>>, 0, u)
  BY ReadingsExist
<1>2. Len(<<>>) = 0
  OBVIOUS
<1> QED
  BY <1>1, <1>2, ReadFromIs DEF Readings

\* One word is one step.
LEMMA ReadOne ==
    ASSUME NEW p, NEW w
    PROVE  ReadFrom(p, <<w>>) = Read(p, w)
<1>1. Len(<<w>>) = 1 /\ <<w>>[1] = w
  OBVIOUS
<1>2. PICK u : Readings(p, <<w>>, 1, u)
  BY ReadingsExist
<1>3. u[1] = Read(p, w)
  BY <1>1, <1>2 DEF Readings
<1> QED
  BY <1>1, <1>2, <1>3, ReadFromIs

\* Two words are two.
LEMMA ReadTwo ==
    ASSUME NEW p, NEW w, NEW x
    PROVE  ReadFrom(p, <<w, x>>) = Read(Read(p, w), x)
<1>1. Len(<<w, x>>) = 2 /\ <<w, x>>[1] = w /\ <<w, x>>[2] = x
  OBVIOUS
<1>2. PICK u : Readings(p, <<w, x>>, 2, u)
  BY ReadingsExist
<1>3. u[1] = Read(p, w) /\ u[2] = Read(u[1], x)
  BY <1>1, <1>2 DEF Readings
<1> QED
  BY <1>1, <1>2, <1>3, ReadFromIs

\* Reading two vectors one after the other.
LEMMA ReadJoined ==
    ASSUME NEW p, NEW S, NEW s \in Seq(S), NEW t \in Seq(S)
    PROVE  ReadFrom(p, s \o t) = ReadFrom(ReadFrom(p, s), t)
<1> DEFINE st == s \o t
<1>1. Len(s) \in Nat /\ Len(t) \in Nat /\ st \in Seq(S) /\ Len(st) = Len(s) + Len(t)
      /\ \A n \in 1 .. Len(s) + Len(t) : st[n] = IF n <= Len(s) THEN s[n] ELSE t[n - Len(s)]
  BY ConcatProperties, LenProperties
<1> HIDE DEF st
<1>2. PICK u : Readings(p, st, Len(st), u)
  <2>1. Len(st) \in Nat
    BY <1>1
  <2> QED
    BY <2>1, ReadingsExist
<1> DEFINE a == [n \in 0 .. Len(s) |-> u[n]]
           b == [n \in 0 .. Len(t) |-> u[Len(s) + n]]
<1>3. Readings(p, s, Len(s), a)
  <2>1. a[0] = p
    BY <1>1, <1>2 DEF Readings
  <2>2. ASSUME NEW n \in 1 .. Len(s)
        PROVE  a[n] = Read(a[n - 1], s[n])
    <3>1. u[n] = Read(u[n - 1], st[n]) /\ st[n] = s[n]
      <4>1. n \in 1 .. Len(st) /\ n \in 1 .. Len(s) + Len(t) /\ n <= Len(s)
        BY <1>1
      <4>2. st[n] = s[n]
        BY <1>1, <4>1
      <4> QED
        BY <1>2, <4>1, <4>2, ReadingsAt
    <3>2. a[n] = u[n] /\ a[n - 1] = u[n - 1]
      BY <1>1
    <3> HIDE DEF a
    <3> QED
      BY <3>1, <3>2
  <2>3. a = [n \in 0 .. Len(s) |-> a[n]]
    OBVIOUS
  <2> HIDE DEF a
  <2> QED
    BY <2>1, <2>2, <2>3 DEF Readings
<1>4. ReadFrom(p, s) = u[Len(s)]
  <2>1. a[Len(s)] = u[Len(s)]
    BY <1>1
  <2> HIDE DEF a
  <2> QED
    BY <1>1, <1>3, <2>1, ReadFromIs
<1>5. Readings(u[Len(s)], t, Len(t), b)
  <2>1. b[0] = u[Len(s)]
    BY <1>1
  <2>2. ASSUME NEW n \in 1 .. Len(t)
        PROVE  b[n] = Read(b[n - 1], t[n])
    <3>1. Len(s) + n \in 1 .. Len(st) /\ (Len(s) + n) - 1 = Len(s) + (n - 1) /\ (Len(s) + n) - Len(s) = n
          /\ ~(Len(s) + n <= Len(s))
      BY <1>1
    <3>2. u[Len(s) + n] = Read(u[Len(s) + (n - 1)], st[Len(s) + n])
      BY <1>2, <3>1 DEF Readings
    <3>3. st[Len(s) + n] = t[n]
      BY <1>1, <3>1
    <3>4. b[n] = u[Len(s) + n] /\ b[n - 1] = u[Len(s) + (n - 1)]
      BY <1>1
    <3> HIDE DEF b
    <3> QED
      BY <3>2, <3>3, <3>4
  <2>3. b = [n \in 0 .. Len(t) |-> b[n]]
    OBVIOUS
  <2> HIDE DEF b
  <2> QED
    BY <2>1, <2>2, <2>3 DEF Readings
<1>6. ReadFrom(u[Len(s)], t) = u[Len(st)]
  <2>1. b[Len(t)] = u[Len(st)]
    BY <1>1
  <2> HIDE DEF b
  <2> QED
    BY <1>1, <1>5, <2>1, ReadFromIs
<1>7. ReadFrom(p, st) = u[Len(st)]
  <2>1. Len(st) \in Nat
    BY <1>1
  <2> QED
    BY <1>2, <2>1, ReadFromIs
<1> QED
  BY <1>4, <1>6, <1>7 DEF st

-----------------------------------------------------------------------------
(* The words of a header.                                                  *)

IsParser(p) ==
    p = [command |-> p.command, options |-> p.options, chain |-> p.chain, rulenum |-> p.rulenum,
         policy |-> p.policy, newname |-> p.newname, jumpto |-> p.jumpto, goto |-> p.goto,
         table |-> p.table, protocol |-> p.protocol, match |-> p.match, loaded |-> p.loaded,
         serving |-> p.serving, invert |-> p.invert,
         hosts |-> p.hosts, vias |-> p.vias, addrs |-> p.addrs,
         want |-> p.want, last |-> p.last, exit |-> p.exit]

HeadOptions == {"-s", "-d", "-p", "--sport", "--dport"}

\* The option a header's option sets, if any.
Flags(o) == IF o \in {"-s", "-d", "-p"} THEN {FlagOf[o]} ELSE {}

\* r is p but for the fields that reading a header may touch.
SameCommand(p, r) ==
    /\ r.command = p.command /\ r.chain = p.chain /\ r.rulenum = p.rulenum
    /\ r.policy = p.policy /\ r.jumpto = p.jumpto /\ r.table = p.table

\* A parser that has failed.
LEMMA FailIs ==
    ASSUME NEW p
    PROVE  /\ IsParser(Fail(p)) /\ Fail(p).exit = TRUE /\ Fail(p).match = {}
           /\ Fail(p).want = "none"
<1>1. PICK q : q = Fail(p)
  OBVIOUS
<1>2. IsParser(q) /\ q.exit = TRUE /\ q.match = {} /\ q.want = "none"
  BY <1>1 DEF Fail, Start, IsParser
<1> QED
  BY <1>1, <1>2

\* The parser before the first word.
LEMMA StartIs ==
    /\ IsParser(Start) /\ Start.exit = FALSE /\ Start.match = {} /\ Start.want = "none"
    /\ Start.loaded = <<>> /\ Start.serving = 0
    /\ Start.invert = FALSE /\ Start.protocol = None /\ Start.options = {} /\ Start.command = {}
    /\ Start.chain = None /\ Start.rulenum = 0 /\ Start.policy = None /\ Start.jumpto = None
<1>1. PICK q : q = Start
  OBVIOUS
<1>2. /\ IsParser(q) /\ q.exit = FALSE /\ q.match = {} /\ q.want = "none"
      /\ q.loaded = <<>> /\ q.serving = 0
      /\ q.invert = FALSE /\ q.protocol = None /\ q.options = {} /\ q.command = {}
      /\ q.chain = None /\ q.rulenum = 0 /\ q.policy = None /\ q.jumpto = None
  BY <1>1 DEF Start, IsParser
<1> QED
  BY <1>1, <1>2

\* Options and words tell themselves apart.
LEMMA ArgumentFields ==
    ASSUME NEW o
    PROVE  /\ Opt(o).kind = "opt" /\ Opt(o).text = o
           /\ Word(o).kind = "word" /\ Word(o).text = o /\ Word(o).num = 0
BY DEF Opt, Word, Argument

\* What is not there is not missed, if no word is wanted, or an optional one.
LEMMA NoWordIs ==
    ASSUME NEW p, IsParser(p), p.exit = FALSE,
           p.want \in {"none", "num?", "chain?"}
    PROVE  /\ IsParser(NoWord(p)) /\ NoWord(p).exit = FALSE /\ NoWord(p).want = "none"
           /\ NoWord(p).match = p.match /\ NoWord(p).protocol = p.protocol
           /\ NoWord(p).loaded = p.loaded /\ NoWord(p).serving = p.serving
           /\ NoWord(p).options = p.options /\ NoWord(p).hosts = p.hosts
           /\ (p.invert = FALSE => NoWord(p).invert = FALSE)
           /\ p.want # "num?" => SameCommand(p, NoWord(p))
           /\ NoWord(p).command = p.command /\ NoWord(p).chain = p.chain
           /\ NoWord(p).policy = p.policy /\ NoWord(p).jumpto = p.jumpto
           /\ NoWord(p).table = p.table
<1>1. PICK q : q = NoWord(p)
  OBVIOUS
<1>2. q = [p EXCEPT !.rulenum = IF p.want = "num?" /\ p.last = "-I" THEN 1 ELSE @,
                    !.want = "none", !.invert = IF p.want = "none" THEN @ ELSE FALSE]
  BY <1>1 DEF NoWord
<1>3. /\ IsParser(q) /\ q.exit = FALSE /\ q.want = "none" /\ q.match = p.match
      /\ q.loaded = p.loaded /\ q.serving = p.serving
      /\ q.protocol = p.protocol /\ q.options = p.options /\ q.hosts = p.hosts
      /\ q.command = p.command /\ q.chain = p.chain /\ q.policy = p.policy
      /\ q.jumpto = p.jumpto /\ q.table = p.table
      /\ q.invert = (IF p.want = "none" THEN p.invert ELSE FALSE)
      /\ q.rulenum = (IF p.want = "num?" /\ p.last = "-I" THEN 1 ELSE p.rulenum)
  BY <1>2 DEF IsParser
<1> QED
  BY <1>1, <1>3 DEF SameCommand

\* What the option tables say of the options of a header.
LEMMA HeaderTables ==
    /\ FlagOf["-s"] = "s" /\ FlagOf["-d"] = "d" /\ FlagOf["-p"] = "p" /\ FlagOf["-j"] = "j"
    /\ "none" \notin WithArgument /\ HeadOptions \subseteq WithArgument
    /\ \A o \in HeadOptions : WantAfter(o) = "none"
BY DEF FlagOf, WithArgument, PortOptions, HeadOptions, WantAfter

\* An option that is read when no word is wanted.
LEMMA ReadOption ==
    ASSUME NEW p, IsParser(p), p.exit = FALSE, p.want \in {"none", "num?", "chain?"}, NEW o
    PROVE  Read(p, Opt(o)) = TakeOption(NoWord(p), o)
<1>1. NoWord(p).exit = FALSE
  BY NoWordIs
<1>2. ~IsValue(p, Opt(o))
  BY ArgumentFields DEF IsValue, WithArgument, PortOptions
<1> QED
  BY <1>1, <1>2, ArgumentFields DEF Read

\* What the match of a protocol leaves alone.
LEMMA PortMatchKeeps ==
    ASSUME NEW p, IsParser(p), NEW r, r = WithPortMatch(p)
    PROVE  /\ IsParser(r) /\ r.exit = p.exit /\ r.match = p.match /\ r.protocol = p.protocol
           /\ r.options = p.options /\ r.invert = p.invert /\ SameCommand(p, r)
<1>1. r = p \/ \E x, y : r = [p EXCEPT !.loaded = x, !.serving = y]
  BY Zenon DEF WithPortMatch, LoadMatch
<1>2. CASE r = p
  BY <1>2 DEF SameCommand
<1>3. CASE \E x, y : r = [p EXCEPT !.loaded = x, !.serving = y]
  <2>1. PICK x, y : r = [p EXCEPT !.loaded = x, !.serving = y]
    BY <1>3, Zenon
  <2>2. IsParser(r)
    BY <2>1 DEF IsParser
  <2>3. /\ r.exit = p.exit /\ r.match = p.match /\ r.protocol = p.protocol
        /\ r.options = p.options /\ r.invert = p.invert
    BY <2>1 DEF IsParser
  <2>4. /\ r.command = p.command /\ r.chain = p.chain /\ r.rulenum = p.rulenum
        /\ r.policy = p.policy /\ r.jumpto = p.jumpto /\ r.table = p.table
    BY <2>1 DEF IsParser
  <2> QED
    BY <2>2, <2>3, <2>4 DEF SameCommand
<1> QED
  BY <1>1, <1>2, <1>3, Zenon

\* Which matches two parsers have that stand alike.
AlikeMatches(p, q) == p.loaded = q.loaded /\ p.serving = q.serving

\* They bring in the same match.
LEMMA PortMatchAlike ==
    ASSUME NEW p, NEW q, IsParser(p), IsParser(q), AlikeMatches(p, q), p.protocol = q.protocol
    PROVE  AlikeMatches(WithPortMatch(p), WithPortMatch(q))
<1>1. PICK x, y : /\ x = Append(p.loaded, ProtocolMatch(p.protocol))
                  /\ y = IF /\ ProtocolMatch(p.protocol) \in PortMatches
                            /\ \/ \A k \in DOMAIN p.loaded : p.loaded[k] # ProtocolMatch(p.protocol)
                               \/ p.serving # 0 /\ p.loaded[p.serving] = ProtocolMatch(p.protocol)
                         THEN Len(p.loaded) + 1 ELSE p.serving
  OBVIOUS
<1>2. CASE p.serving = 0 /\ ProtocolMatch(p.protocol) \in PortMatches
  <2>1. PICK a, b : a = LoadMatch(p, ProtocolMatch(p.protocol)) /\ b = LoadMatch(q, ProtocolMatch(q.protocol))
    OBVIOUS
  <2>2. a = [p EXCEPT !.loaded = x, !.serving = y] /\ b = [q EXCEPT !.loaded = x, !.serving = y]
    BY <1>1, <2>1, Zenon DEF LoadMatch, AlikeMatches
  <2>3. AlikeMatches(a, b)
    BY <2>2 DEF AlikeMatches, IsParser
  <2>4. WithPortMatch(p) = a /\ WithPortMatch(q) = b
    BY <1>2, <2>1 DEF WithPortMatch, AlikeMatches
  <2> QED
    BY <2>3, <2>4
<1>3. CASE ~(p.serving = 0 /\ ProtocolMatch(p.protocol) \in PortMatches)
  <2>1. WithPortMatch(p) = p /\ WithPortMatch(q) = q
    BY <1>3 DEF WithPortMatch, AlikeMatches
  <2> QED
    BY <2>1
<1> QED
  BY <1>2, <1>3

\* The parser that looks for the match of an option.
Matched(p, o) == IF o \in PortOptions THEN WithPortMatch(p) ELSE p

\* The option of a header: once it was there it is refused, and those of ports where they do
\* not belong.
Refused(p, o) ==
    \/ o \in PortOptions /\ Misplaced(WithPortMatch(p), o)
    \/ o \notin PortOptions /\ FlagOf[o] \in p.options

\* An option of a header asks for its argument, or the line is refused.
LEMMA HeadOption ==
    ASSUME NEW p, IsParser(p), p.exit = FALSE, p.want = "none", p.invert = FALSE,
           NEW o \in HeadOptions, NEW r, r = Read(p, Opt(o))
    PROVE  /\ IsParser(r)
           /\ Refused(p, o) => r.exit = TRUE /\ r.match = {}
           /\ ~Refused(p, o) =>
                 /\ r.exit = FALSE /\ SameCommand(p, r) /\ r.want = o /\ r.last = o /\ r.invert = FALSE
                 /\ r.match = p.match /\ r.protocol = p.protocol
                 /\ r.options = p.options \cup Flags(o) /\ AlikeMatches(Matched(p, o), r)
<1>1. PICK q : q = NoWord(p)
  OBVIOUS
<1>2. /\ IsParser(q) /\ q.exit = FALSE /\ q.match = p.match /\ q.protocol = p.protocol
      /\ q.options = p.options /\ q.invert = FALSE /\ SameCommand(p, q) /\ AlikeMatches(p, q)
  BY <1>1, NoWordIs DEF AlikeMatches
<1>3. r = TakeOption(q, o)
  BY <1>1, ReadOption
<1>4. ASSUME NEW x, IsParser(x), x.exit = FALSE, x.match = p.match, x.protocol = p.protocol,
             x.options = p.options, x.invert = FALSE, SameCommand(p, x),
             NEW a, a = Awaiting(x, o, o)
      PROVE  /\ IsParser(a) /\ a.exit = FALSE /\ a.match = p.match /\ a.protocol = p.protocol
             /\ a.options = p.options /\ a.invert = FALSE /\ SameCommand(p, a)
             /\ a.want = o /\ a.last = o /\ AlikeMatches(x, a)
  BY <1>4 DEF Awaiting, IsParser, SameCommand, AlikeMatches
<1>6. CASE o \in PortOptions
  <2>1. PICK x, y : x = WithPortMatch(q) /\ y = WithPortMatch(p)
    OBVIOUS
  <2>2. r = IF Misplaced(x, o) THEN Fail(x) ELSE Awaiting(x, o, o)
    <3>1. r = TakePorts(q, o)
      BY <1>3, <1>6 DEF TakeOption, PortOptions
    <3>2. TakePorts(q, o) = IF Misplaced(WithPortMatch(q), o) THEN Fail(q)
                            ELSE Awaiting(WithPortMatch(q), o, o)
      BY Zenon DEF TakePorts, Fail
    <3>3. Fail(q) = Fail(x)
      BY DEF Fail
    <3> QED
      BY <2>1, <3>1, <3>2, <3>3
  <2>3. /\ IsParser(x) /\ x.exit = q.exit /\ x.match = q.match /\ x.protocol = q.protocol
        /\ x.options = q.options /\ x.invert = q.invert /\ SameCommand(q, x)
    BY <1>2, <2>1, PortMatchKeeps
  <2>4. y.match = p.match
    BY <2>1, PortMatchKeeps
  <2>5. AlikeMatches(y, x)
    BY <1>2, <2>1, PortMatchAlike
  <2>6. Misplaced(x, o) <=> Misplaced(y, o)
    BY <1>2, <2>3, <2>4, <2>5 DEF Misplaced, AlikeMatches
  <2>7. Misplaced(y, o) \in BOOLEAN /\ Misplaced(x, o) \in BOOLEAN
    BY DEF Misplaced
  <2>8. Flags(o) = {} /\ (Refused(p, o) <=> Misplaced(y, o)) /\ Matched(p, o) = y
    BY <1>6, <2>1 DEF Flags, Refused, PortOptions, Matched
  <2>9. CASE Misplaced(y, o)
    BY <2>2, <2>6, <2>7, <2>8, <2>9, FailIs
  <2>10. CASE ~Misplaced(y, o)
    <3>1. r = Awaiting(x, o, o)
      BY <2>2, <2>6, <2>7, <2>10
    <3>2. SameCommand(p, x)
      BY <1>2, <2>3 DEF SameCommand
    <3>3. /\ IsParser(r) /\ r.exit = FALSE /\ r.match = p.match /\ r.protocol = p.protocol
          /\ r.options = p.options /\ r.invert = FALSE /\ SameCommand(p, r)
          /\ r.want = o /\ r.last = o /\ AlikeMatches(x, r)
      BY <1>2, <1>4, <2>3, <3>1, <3>2
    <3>4. AlikeMatches(y, r)
      BY <2>5, <3>3 DEF AlikeMatches
    <3> QED
      BY <2>7, <2>8, <2>10, <3>3, <3>4
  <2> QED
    BY <2>9, <2>10
<1>7. CASE o \notin PortOptions
  <2>0. PICK a : a = Awaiting(q, o, o)
    OBVIOUS
  <2>a. /\ IsParser(a) /\ a.exit = FALSE /\ a.match = p.match /\ a.protocol = p.protocol
        /\ a.options = p.options /\ a.invert = FALSE /\ SameCommand(p, a)
        /\ a.want = o /\ a.last = o /\ AlikeMatches(q, a)
    BY <1>2, <1>4, <2>0
  <2>1. o \in {"-s", "-d", "-p"}
    BY <1>7 DEF HeadOptions, PortOptions
  <2>2. r = set_option(a, FlagOf[o])
    BY <1>3, <2>0, <2>1 DEF TakeOption, PortOptions
  <2>3. Flags(o) = {FlagOf[o]} /\ (Refused(p, o) <=> FlagOf[o] \in p.options) /\ Refused(p, o) \in BOOLEAN
    BY <1>7, <2>1 DEF Flags, Refused
  <2>4. PICK f : f = FlagOf[o]
    OBVIOUS
  <2>5. r = IF f \in p.options THEN Fail(a) ELSE [a EXCEPT !.options = @ \cup {f}]
    BY <2>a, <2>2, <2>4 DEF set_option
  <2>6. CASE f \in p.options
    BY <2>3, <2>4, <2>5, <2>6, FailIs
  <2>7. CASE f \notin p.options
    <3>1. /\ IsParser(r) /\ r.exit = FALSE /\ r.match = p.match /\ r.protocol = p.protocol
          /\ r.options = p.options \cup {f} /\ r.invert = FALSE /\ SameCommand(p, r)
          /\ r.want = o /\ r.last = o /\ AlikeMatches(a, r)
      BY <2>a, <2>5, <2>7 DEF IsParser, SameCommand, AlikeMatches
    <3>2. Refused(p, o) = FALSE /\ Flags(o) = {f} /\ AlikeMatches(Matched(p, o), r)
      BY <1>2, <1>7, <2>a, <2>3, <2>4, <2>7, <3>1 DEF Matched, AlikeMatches
    <3> QED
      BY <3>1, <3>2
  <2> QED
    BY <2>6, <2>7
<1> QED
  BY <1>6, <1>7

\* What makes a header's argument unreadable.
Unreadable(p, o, w) ==
    \/ o = "-p" /\ BadProtocol(w)
    \/ o \in PortOptions /\ ReversedPorts(p, w)

\* What a rule keeps of it.
Note(p, o, w) == <<o, w.text, FALSE, IF o \in PortOptions THEN p.serving ELSE 0>>

\* The argument adds to the match, or the line is refused.
LEMMA HeadArgument ==
    ASSUME NEW p, IsParser(p), p.exit = FALSE, NEW o \in HeadOptions, p.want = o, p.last = o,
           p.invert = FALSE, NEW w, NEW r, r = Read(p, w)
    PROVE  /\ IsParser(r)
           /\ Unreadable(p, o, w) => r.exit = TRUE /\ r.match = {}
           /\ ~Unreadable(p, o, w) =>
                 /\ r.exit = FALSE /\ SameCommand(p, r) /\ r.want = "none" /\ r.invert = FALSE
                 /\ r.match = p.match \cup {Note(p, o, w)}
                 /\ r.protocol = IF o = "-p" THEN w.text ELSE p.protocol
                 /\ r.options = p.options /\ AlikeMatches(p, r)
<1>1. o \in WithArgument /\ WantAfter(o) = "none"
  BY HeaderTables
<1>2. r = TakeArgument(p, w)
  BY <1>1 DEF Read, IsValue, TakeValue
<1>3. Rejected(p, w) <=> Unreadable(p, o, w)
  BY DEF Rejected, Unreadable, HeadOptions, PortOptions
<1>4. Unreadable(p, o, w) \in BOOLEAN
  BY DEF Unreadable, ReversedPorts
<1>5. CASE Unreadable(p, o, w)
  <2>1. r = Fail(p)
    BY <1>2, <1>3, <1>5 DEF TakeArgument
  <2> QED
    BY <1>4, <1>5, <2>1, FailIs
<1>6. CASE ~Unreadable(p, o, w)
  <2>1. PICK a : a = Answered(p, w)
    OBVIOUS
  <2>2. /\ IsParser(a) /\ a.exit = FALSE /\ a.match = p.match /\ a.protocol = p.protocol
        /\ a.options = p.options /\ a.invert = FALSE /\ SameCommand(p, a)
        /\ a.want = "none" /\ a.last = o /\ AlikeMatches(p, a)
    <3>1. ~TwoCounters(p.last, w)
      BY DEF TwoCounters, HeadOptions
    <3>2. a = [p EXCEPT !.want = "none", !.invert = FALSE]
      BY <1>1, <2>1, <3>1 DEF Answered
    <3> QED
      BY <3>2 DEF IsParser, SameCommand, AlikeMatches
  <2>3. PICK m : m = Note(p, o, w)
    OBVIOUS
  <2>4. m = <<o, w.text, p.invert, IF o \in PortOptions THEN p.serving ELSE 0>>
    BY <2>3 DEF Note
  <2>n. ~Rejected(p, w)
    BY <1>3, <1>6
  <2>5. CASE o \in {"-s", "-d"}
    <3>1. r = NoteHosts(a, w, m)
      BY <1>2, <2>1, <2>4, <2>n, <2>5 DEF TakeArgument, PortOptions
    <3>2. IsParser(r) /\ SameCommand(a, r)
      BY <2>2, <3>1 DEF NoteHosts, IsParser, SameCommand
    <3>3. /\ r.exit = FALSE /\ r.want = "none" /\ r.invert = FALSE /\ r.match = a.match \cup {m}
          /\ r.options = a.options
          /\ r.protocol = a.protocol
      BY <2>2, <3>1 DEF NoteHosts, IsParser
    <3>4. AlikeMatches(a, r)
      BY <2>2, <3>1 DEF NoteHosts, IsParser, AlikeMatches
    <3>5. SameCommand(p, r) /\ AlikeMatches(p, r)
      BY <2>2, <3>2, <3>4 DEF SameCommand, AlikeMatches
    <3> QED
      BY <1>4, <1>6, <2>2, <2>3, <2>5, <3>2, <3>3, <3>5
  <2>6. CASE o = "-p"
    <3>1. r = NoteProtocol(a, w, m)
      BY <1>2, <2>1, <2>4, <2>n, <2>6 DEF TakeArgument, PortOptions
    <3>2. IsParser(r) /\ SameCommand(a, r)
      BY <2>2, <3>1 DEF NoteProtocol, IsParser, SameCommand
    <3>3. /\ r.exit = FALSE /\ r.want = "none" /\ r.invert = FALSE /\ r.match = a.match \cup {m}
          /\ r.options = a.options
          /\ r.protocol = w.text
      BY <2>2, <3>1 DEF NoteProtocol, IsParser
    <3>4. AlikeMatches(a, r)
      BY <2>2, <3>1 DEF NoteProtocol, IsParser, AlikeMatches
    <3>5. SameCommand(p, r) /\ AlikeMatches(p, r)
      BY <2>2, <3>2, <3>4 DEF SameCommand, AlikeMatches
    <3> QED
      BY <1>4, <1>6, <2>2, <2>3, <2>6, <3>2, <3>3, <3>5
  <2>7. CASE o \in PortOptions
    <3>1. r = NoteMatch(a, m)
      BY <1>2, <2>1, <2>4, <2>n, <2>7 DEF TakeArgument, PortOptions
    <3>2. IsParser(r) /\ SameCommand(a, r)
      BY <2>2, <3>1 DEF NoteMatch, IsParser, SameCommand
    <3>3. /\ r.exit = FALSE /\ r.want = "none" /\ r.invert = FALSE /\ r.match = a.match \cup {m}
          /\ r.options = a.options
          /\ r.protocol = a.protocol
      BY <2>2, <3>1 DEF NoteMatch, IsParser
    <3>4. AlikeMatches(a, r)
      BY <2>2, <3>1 DEF NoteMatch, IsParser, AlikeMatches
    <3>5. SameCommand(p, r) /\ AlikeMatches(p, r)
      BY <2>2, <3>2, <3>4 DEF SameCommand, AlikeMatches
    <3> QED
      BY <1>4, <1>6, <2>2, <2>3, <2>7, <3>2, <3>3, <3>5 DEF PortOptions
  <2> QED
    BY <2>5, <2>6, <2>7 DEF HeadOptions, PortOptions
<1> QED
  BY <1>5, <1>6

\* After an exit nothing is read any more.
LEMMA ExitStays ==
    ASSUME NEW p, p.exit = TRUE, NEW argv, Len(argv) \in Nat
    PROVE  ReadFrom(p, argv) = p
<1>1. PICK u : Readings(p, argv, Len(argv), u)
  BY ReadingsExist
<1> DEFINE k == Len(argv)
           S == {n \in 0 .. k : u[n] = p}
<1>2. 0 \in S
  BY <1>1, ReadingsAt
<1>3. ASSUME NEW n \in 0 .. k - 1, n \in S
      PROVE  n + 1 \in S
  <2>1. n + 1 \in 1 .. k /\ (n + 1) - 1 = n
    OBVIOUS
  <2>2. u[n + 1] = Read(u[(n + 1) - 1], argv[n + 1])
    BY <1>1, <2>1, ReadingsAt
  <2>3. u[n + 1] = Read(p, argv[n + 1])
    BY <1>3, <2>1, <2>2
  <2>4. Read(p, argv[n + 1]) = p
    BY DEF Read
  <2> QED
    BY <2>1, <2>3, <2>4
<1>4. 0 .. k \subseteq S
  <2> HIDE DEF S
  <2> QED
    BY <1>2, <1>3, IntervalInduction
<1>5. u[k] = p
  BY <1>4
<1> QED
  BY <1>1, <1>5, ReadFromIs

\* Two parsers that have met the same options of a header.
Alongside(p, q) ==
    /\ IsParser(p) /\ IsParser(q) /\ p.exit \in BOOLEAN /\ p.exit = q.exit
    /\ p.match = q.match
    /\ ~p.exit =>
          /\ p.want = "none" /\ q.want = "none" /\ p.invert = FALSE /\ q.invert = FALSE
          /\ p.protocol = q.protocol /\ AlikeMatches(p, q)
          /\ \A f \in {"s", "d", "p"} : f \in p.options <=> f \in q.options

\* What a header leaves alone, and that it sets the options it has.
Follows(p, r, set) ==
    r.exit \/ (SameCommand(p, r) /\ p.options \subseteq r.options /\ set \subseteq r.options)

\* One option of a header and its argument.
Block(b, o) == b = <<>> \/ \E w : w.kind = "word" /\ b = <<Opt(o), w>>

\* An option of a header and its argument do the same to two parsers that stand alike.
LEMMA PairReads ==
    ASSUME NEW p, NEW q, Alongside(p, q), NEW o \in HeadOptions, NEW w,
           NEW r, r = Read(Read(p, Opt(o)), w), NEW s, s = Read(Read(q, Opt(o)), w)
    PROVE  Alongside(r, s) /\ Follows(p, r, Flags(o))
<1>1. /\ IsParser(p) /\ IsParser(q) /\ p.exit = q.exit /\ p.exit \in BOOLEAN /\ p.match = q.match
      /\ p.exit = FALSE =>
          /\ p.want = "none" /\ q.want = "none" /\ p.invert = FALSE /\ q.invert = FALSE
          /\ p.protocol = q.protocol /\ AlikeMatches(p, q)
          /\ \A f \in {"s", "d", "p"} : f \in p.options <=> f \in q.options
  BY DEF Alongside
<1>2. ASSUME NEW x, x.exit = TRUE, NEW v
      PROVE  Read(x, v) = x
  BY <1>2 DEF Read
<1>3. CASE p.exit = TRUE
  <2>1. r = p /\ s = q
    BY <1>1, <1>2, <1>3
  <2> QED
    BY <1>3, <2>1 DEF Follows
<1>4. CASE p.exit = FALSE
  <2>1. PICK x : x = Read(p, Opt(o))
    OBVIOUS
  <2>2. PICK y : y = Read(q, Opt(o))
    OBVIOUS
  <2>3. Refused(p, o) <=> Refused(q, o)
    <3>1. CASE o \in PortOptions
      <4>1. PICK a, b : a = WithPortMatch(p) /\ b = WithPortMatch(q)
        OBVIOUS
      <4>2. AlikeMatches(a, b)
        BY <1>1, <1>4, <4>1, PortMatchAlike
      <4>3. a.match = p.match /\ b.match = q.match
        BY <1>1, <4>1, PortMatchKeeps
      <4>4. Misplaced(a, o) <=> Misplaced(b, o)
        BY <1>1, <4>2, <4>3 DEF Misplaced, AlikeMatches
      <4> QED
        BY <3>1, <4>1, <4>4 DEF Refused
    <3>2. CASE o \notin PortOptions
      <4>1. FlagOf[o] \in {"s", "d", "p"}
        BY <3>2, HeaderTables DEF HeadOptions, PortOptions
      <4> QED
        BY <1>1, <1>4, <3>2, <4>1 DEF Refused
    <3> QED
      BY <3>1, <3>2
  <2>4. Refused(p, o) \in BOOLEAN /\ Refused(q, o) \in BOOLEAN
    BY DEF Refused, Misplaced
  <2>5. /\ IsParser(x) /\ (Refused(p, o) => x.exit = TRUE /\ x.match = {})
        /\ ~Refused(p, o) =>
                 /\ x.exit = FALSE /\ SameCommand(p, x) /\ x.want = o /\ x.last = o /\ x.invert = FALSE
                 /\ x.match = p.match /\ x.protocol = p.protocol
                 /\ x.options = p.options \cup Flags(o) /\ AlikeMatches(Matched(p, o), x)
    BY <1>1, <1>4, <2>1, HeadOption
  <2>6. /\ IsParser(y) /\ (Refused(q, o) => y.exit = TRUE /\ y.match = {})
        /\ ~Refused(q, o) =>
                 /\ y.exit = FALSE /\ SameCommand(q, y) /\ y.want = o /\ y.last = o /\ y.invert = FALSE
                 /\ y.match = q.match /\ y.protocol = q.protocol
                 /\ y.options = q.options \cup Flags(o) /\ AlikeMatches(Matched(q, o), y)
    BY <1>1, <1>4, <2>2, HeadOption
  <2>7. CASE Refused(p, o)
    <3>1. r = x /\ s = y /\ x.exit = TRUE /\ y.exit = TRUE
      BY <1>2, <2>1, <2>2, <2>3, <2>4, <2>5, <2>6, <2>7
    <3>2. x.match = {} /\ y.match = {}
      BY <2>3, <2>5, <2>6, <2>7
    <3> QED
      BY <2>5, <2>6, <3>1, <3>2 DEF Alongside, Follows
  <2>8. CASE ~Refused(p, o)
    <3>1. x.exit = FALSE /\ y.exit = FALSE
      BY <2>3, <2>4, <2>5, <2>6, <2>8
    <3>2. /\ IsParser(r)
          /\ ~Unreadable(x, o, w) =>
                 /\ r.exit = FALSE /\ SameCommand(x, r) /\ r.want = "none" /\ r.invert = FALSE
                 /\ r.match = x.match \cup {Note(x, o, w)}
                 /\ r.protocol = IF o = "-p" THEN w.text ELSE x.protocol
                 /\ r.options = x.options /\ AlikeMatches(x, r)
          /\ Unreadable(x, o, w) => r.exit = TRUE /\ r.match = {}
      <4>1. r = Read(x, w) /\ IsParser(x) /\ x.exit = FALSE /\ x.want = o /\ x.last = o /\ x.invert = FALSE
        BY <2>1, <2>5, <2>8, <3>1
      <4> QED
        BY <4>1, HeadArgument
    <3>3. /\ IsParser(s)
          /\ ~Unreadable(y, o, w) =>
                 /\ s.exit = FALSE /\ SameCommand(y, s) /\ s.want = "none" /\ s.invert = FALSE
                 /\ s.match = y.match \cup {Note(y, o, w)}
                 /\ s.protocol = IF o = "-p" THEN w.text ELSE y.protocol
                 /\ s.options = y.options /\ AlikeMatches(y, s)
          /\ Unreadable(y, o, w) => s.exit = TRUE /\ s.match = {}
      <4>1. s = Read(y, w) /\ IsParser(y) /\ y.exit = FALSE /\ y.want = o /\ y.last = o /\ y.invert = FALSE
        BY <2>2, <2>3, <2>6, <2>8, <3>1
      <4> QED
        BY <4>1, HeadArgument
    <3>4. x.protocol = y.protocol /\ x.match = y.match /\ AlikeMatches(x, y)
      <4>1. AlikeMatches(Matched(p, o), Matched(q, o))
        BY <1>1, <1>4, PortMatchAlike DEF Matched
      <4>2. AlikeMatches(Matched(p, o), x) /\ AlikeMatches(Matched(q, o), y)
        BY <2>3, <2>5, <2>6, <2>8
      <4> QED
        BY <1>1, <1>4, <2>3, <2>5, <2>6, <2>8, <4>1, <4>2 DEF AlikeMatches
    <3>5. Unreadable(x, o, w) \in BOOLEAN
      BY DEF Unreadable, ReversedPorts
    <3>a. Unreadable(x, o, w) <=> Unreadable(y, o, w)
      BY <3>4 DEF Unreadable, ReversedPorts, AlikeMatches
    <3>b. Note(x, o, w) = Note(y, o, w)
      BY <3>4 DEF Note, AlikeMatches
    <3>6. CASE Unreadable(x, o, w)
      BY <3>2, <3>3, <3>a, <3>5, <3>6 DEF Alongside, Follows
    <3>7. CASE ~Unreadable(x, o, w)
      <4>1. SameCommand(p, r)
        BY <2>5, <2>8, <3>2, <3>7 DEF SameCommand
      <4>2. r.options = p.options \cup Flags(o) /\ s.options = q.options \cup Flags(o)
        BY <2>3, <2>5, <2>6, <2>8, <3>2, <3>3, <3>a, <3>7
      <4>3. \A f \in {"s", "d", "p"} : f \in r.options <=> f \in s.options
        BY <1>1, <1>4, <4>2
      <4>4. r.match = s.match /\ r.protocol = s.protocol /\ AlikeMatches(r, s)
        BY <3>2, <3>3, <3>4, <3>a, <3>b, <3>7 DEF AlikeMatches
      <4>5. Alongside(r, s)
        BY <3>2, <3>3, <3>a, <3>5, <3>7, <4>3, <4>4 DEF Alongside
      <4>6. Follows(p, r, Flags(o))
        BY <4>1, <4>2 DEF Follows
      <4> QED
        BY <4>5, <4>6
    <3> QED
      BY <3>6, <3>7
  <2> QED
    BY <2>7, <2>8
<1> QED
  BY <1>1, <1>3, <1>4

\* So do both, or neither, being there.
LEMMA BlockReads ==
    ASSUME NEW p, NEW q, Alongside(p, q), NEW o \in HeadOptions, NEW b, Block(b, o)
    PROVE  /\ Alongside(ReadFrom(p, b), ReadFrom(q, b))
           /\ Follows(p, ReadFrom(p, b), {})
           /\ b # <<>> => Follows(p, ReadFrom(p, b), Flags(o))
<1>1. CASE b = <<>>
  BY <1>1, ReadNothing DEF Follows, SameCommand
<1>2. CASE b # <<>>
  <2>1. PICK w : b = <<Opt(o), w>>
    BY <1>2 DEF Block
  <2>2. /\ ReadFrom(p, b) = Read(Read(p, Opt(o)), w)
        /\ ReadFrom(q, b) = Read(Read(q, Opt(o)), w)
    BY <2>1, ReadTwo
  <2>3. Alongside(ReadFrom(p, b), ReadFrom(q, b)) /\ Follows(p, ReadFrom(p, b), Flags(o))
    BY <2>2, PairReads
  <2> QED
    BY <2>3 DEF Follows
<1> QED
  BY <1>1, <1>2

\* A header reads like its parts.
ReadsLike(s, set) ==
    \A p, q : Alongside(p, q) =>
        Alongside(ReadFrom(p, s), ReadFrom(q, s)) /\ Follows(p, ReadFrom(p, s), set)

\* One part after another.
LEMMA FollowsFollows ==
    ASSUME NEW p, NEW q, NEW r, NEW f, NEW g, Follows(p, q, f), Follows(q, r, g),
           q.exit = TRUE => r.exit = TRUE, q.exit \in BOOLEAN
    PROVE  Follows(p, r, f \cup g)
BY DEF Follows, SameCommand

\* Two parts that read alike do so together.
LEMMA JoinedReads ==
    ASSUME NEW S, NEW s \in Seq(S), NEW t \in Seq(S), NEW f, NEW g, ReadsLike(s, f), ReadsLike(t, g)
    PROVE  ReadsLike(s \o t, f \cup g)
<1> SUFFICES ASSUME NEW p, NEW q, Alongside(p, q)
             PROVE  /\ Alongside(ReadFrom(p, s \o t), ReadFrom(q, s \o t))
                    /\ Follows(p, ReadFrom(p, s \o t), f \cup g)
  BY DEF ReadsLike
<1>1. PICK a, b : a = ReadFrom(p, s) /\ b = ReadFrom(q, s)
  OBVIOUS
<1>2. Alongside(a, b) /\ Follows(p, a, f)
  BY <1>1 DEF ReadsLike
<1>3. PICK c, d : c = ReadFrom(a, t) /\ d = ReadFrom(b, t)
  OBVIOUS
<1>4. Alongside(c, d) /\ Follows(a, c, g)
  BY <1>2, <1>3 DEF ReadsLike
<1>5. ReadFrom(p, s \o t) = c /\ ReadFrom(q, s \o t) = d
  BY <1>1, <1>3, ReadJoined
<1>6. a.exit = TRUE => c.exit = TRUE
  <2>1. Len(t) \in Nat
    BY LenProperties
  <2> QED
    BY <2>1, <1>3, ExitStays
<1>7. a.exit \in BOOLEAN
  BY <1>2 DEF Alongside
<1>8. Follows(p, c, f \cup g)
  BY <1>2, <1>4, <1>6, <1>7, FollowsFollows
<1> QED
  BY <1>4, <1>5, <1>8

\* Each part reads alike.
LEMMA BlockHeads ==
    ASSUME NEW o \in HeadOptions, NEW b, Block(b, o), NEW set, set = IF b = <<>> THEN {} ELSE Flags(o)
    PROVE  ReadsLike(b, set)
BY BlockReads DEF ReadsLike

-----------------------------------------------------------------------------
\* The words of a header, part by part.
LEMMA AddressBlock ==
    ASSUME NEW o, NEW addr, NEW mask
    PROVE  Block(AddressArgs(o, addr, mask), o)
<1> DEFINE w == [Word(ToString(Network(addr, mask))) EXCEPT !.items = <<Numeric(addr, MaskWord(mask))>>]
<1>1. w.kind = "word"
  BY DEF Word, Argument
<1>2. AddressArgs(o, addr, mask) = <<>> \/ AddressArgs(o, addr, mask) = <<Opt(o), w>>
  BY DEF AddressArgs
<1> HIDE DEF w
<1> QED
  BY <1>1, <1>2 DEF Block

\* A port, or none.
LEMMA PortBlock ==
    ASSUME NEW o, NEW p0, NEW p1
    PROVE  Block(PortArgs(o, p0, p1), o)
<1> DEFINE x == PortRange(p0, p1)
           w == [Word(ToString(x)) EXCEPT !.num = IF x[1] > x[2] THEN -1 ELSE 0]
<1>1. w.kind = "word"
  BY DEF Word, Argument
<1>2. PortArgs(o, p0, p1) = <<>> \/ PortArgs(o, p0, p1) = <<Opt(o), w>>
  BY DEF PortArgs
<1> HIDE DEF w
<1> QED
  BY <1>1, <1>2 DEF Block

\* A protocol, or none.
LEMMA ProtoBlock ==
    ASSUME NEW proto
    PROVE  Block(ProtoArgs(proto), "-p") /\ (proto \in {"TCP", "UDP"} => ProtoArgs(proto) # <<>>)
<1>1. \A x : Word(x).kind = "word"
  BY ArgumentFields
<1>2. \/ proto \notin {"TCP", "UDP"} /\ ProtoArgs(proto) = <<>>
      \/ \E x \in {"tcp", "udp", "arp", "icmp"} : ProtoArgs(proto) = <<Opt("-p"), Word(x)>>
  BY DEF ProtoArgs
<1> QED
  BY <1>1, <1>2 DEF Block

\* Words, whatever they are.
Blocks(b, o, S) == Block(b, o) /\ b \in Seq(S)

\* The parts are words of one set.
LEMMA BlocksSet ==
    ASSUME NEW a, Block(a, "-s"), NEW b, Block(b, "-d"), NEW c, Block(c, "-p"),
           NEW d, Block(d, "--sport"), NEW e, Block(e, "--dport")
    PROVE  \E S : a \in Seq(S) /\ b \in Seq(S) /\ c \in Seq(S) /\ d \in Seq(S) /\ e \in Seq(S)
<1>1. ASSUME NEW x, NEW o, Block(x, o)
      PROVE  \E w : x \in {<<>>, <<Opt(o), w>>}
  BY <1>1 DEF Block
<1>2. PICK v1 : a \in {<<>>, <<Opt("-s"), v1>>}
  BY <1>1
<1>3. PICK v2 : b \in {<<>>, <<Opt("-d"), v2>>}
  BY <1>1
<1>4. PICK v3 : c \in {<<>>, <<Opt("-p"), v3>>}
  BY <1>1
<1>5. PICK v4 : d \in {<<>>, <<Opt("--sport"), v4>>}
  BY <1>1
<1>6. PICK v5 : e \in {<<>>, <<Opt("--dport"), v5>>}
  BY <1>1
<1> DEFINE S == {Opt("-s"), Opt("-d"), Opt("-p"), Opt("--sport"), Opt("--dport"), v1, v2, v3, v4, v5}
<1>7. ASSUME NEW o \in HeadOptions, NEW w \in S, NEW x, x \in {<<>>, <<Opt(o), w>>}
      PROVE  x \in Seq(S)
  <2>1. Opt(o) \in S
    BY DEF HeadOptions
  <2> HIDE DEF S
  <2>2. <<>> \in Seq(S) /\ \A u, v \in S : <<u, v>> \in Seq(S)
    OBVIOUS
  <2> QED
    BY <1>7, <2>1, <2>2
<1>8. v1 \in S /\ v2 \in S /\ v3 \in S /\ v4 \in S /\ v5 \in S
  OBVIOUS
<1> HIDE DEF S
<1>9. {"-s", "-d", "-p", "--sport", "--dport"} \subseteq HeadOptions
  BY DEF HeadOptions
<1>10. a \in Seq(S) /\ b \in Seq(S) /\ c \in Seq(S) /\ d \in Seq(S) /\ e \in Seq(S)
  BY <1>2, <1>3, <1>4, <1>5, <1>6, <1>7, <1>8, <1>9
<1> QED
  BY <1>10

HeadOf(header, a, b, c, d, e) ==
    /\ HeadArgs(header) = a \o b \o c \o (d \o e)
    /\ Block(a, "-s") /\ Block(b, "-d") /\ Block(c, "-p")
    /\ Block(d, "--sport") /\ Block(e, "--dport")
    /\ header.proto \in {"TCP", "UDP"} => c # <<>>

\* The words of a header are its parts, one after the other.
LEMMA HeadParts ==
    ASSUME NEW header
    PROVE  \E a, b, c, d, e : HeadOf(header, a, b, c, d, e)
<1> DEFINE a == AddressArgs("-s", header.s_addr, header.smsk)
           b == AddressArgs("-d", header.d_addr, header.dmsk)
           c == ProtoArgs(header.proto)
           d == PortArgs("--sport", header.spts[1], header.spts[2])
           e == PortArgs("--dport", header.dpts[1], header.dpts[2])
<1>1. /\ Block(a, "-s") /\ Block(b, "-d") /\ Block(c, "-p")
      /\ Block(d, "--sport") /\ Block(e, "--dport")
      /\ header.proto \in {"TCP", "UDP"} => c # <<>>
  BY AddressBlock, ProtoBlock, PortBlock
<1>2. HeadArgs(header) = a \o b \o c \o (IF header.proto \in {"TCP", "UDP"} THEN d \o e ELSE <<>>)
  BY DEF HeadArgs
<1> HIDE DEF a, b, c, d, e
<1>3. CASE header.proto \in {"TCP", "UDP"}
  <2>1. HeadOf(header, a, b, c, d, e)
    BY <1>1, <1>2, <1>3 DEF HeadOf
  <2> QED
    BY <2>1
<1>4. CASE header.proto \notin {"TCP", "UDP"}
  <2>1. HeadArgs(header) = a \o b \o c \o <<>>
    BY <1>2, <1>4
  <2>2. <<>> \o <<>> = <<>>
    OBVIOUS
  <2>3. Block(<<>>, "--sport") /\ Block(<<>>, "--dport")
    BY DEF Block
  <2>4. HeadArgs(header) = a \o b \o c \o (<<>> \o <<>>)
    BY <2>1, <2>2
  <2>5. HeadOf(header, a, b, c, <<>>, <<>>)
    BY <1>1, <1>4, <2>3, <2>4 DEF HeadOf
  <2> QED
    BY <2>5
<1> QED
  BY <1>3, <1>4

\* Reading a header does the same to two parsers that stand alike, changes nothing of the
\* command, and notes a protocol that is given.
LEMMA HeadReads ==
    ASSUME NEW header, NEW p, NEW q, Alongside(p, q)
    PROVE  LET r == ReadFrom(p, HeadArgs(header)) IN
           /\ Alongside(r, ReadFrom(q, HeadArgs(header)))
           /\ Follows(p, r, {})
           /\ header.proto \in {"TCP", "UDP"} => Follows(p, r, {"p"})
<1>0. PICK a, b, c, d, e : HeadOf(header, a, b, c, d, e)
  BY HeadParts
<1>1. /\ HeadArgs(header) = (a \o b \o c) \o (d \o e)
      /\ Block(a, "-s") /\ Block(b, "-d") /\ Block(c, "-p")
      /\ Block(d, "--sport") /\ Block(e, "--dport")
      /\ header.proto \in {"TCP", "UDP"} => c # <<>>
  BY <1>0 DEF HeadOf
<1>2. PICK S : a \in Seq(S) /\ b \in Seq(S) /\ c \in Seq(S) /\ d \in Seq(S) /\ e \in Seq(S)
  BY <1>1, BlocksSet
<1>3. {"-s", "-d", "-p", "--sport", "--dport"} \subseteq HeadOptions
  BY DEF HeadOptions
<1> DEFINE F(x, o) == IF x = <<>> THEN {} ELSE Flags(o)
<1>4. ReadsLike(a, F(a, "-s")) /\ ReadsLike(b, F(b, "-d")) /\ ReadsLike(c, F(c, "-p"))
      /\ ReadsLike(d, F(d, "--sport")) /\ ReadsLike(e, F(e, "--dport"))
  BY <1>1, <1>3, BlockHeads
<1> HIDE DEF F
<1>5. a \o b \in Seq(S) /\ (a \o b) \o c \in Seq(S) /\ d \o e \in Seq(S)
  BY <1>2, ConcatProperties
<1>6. ReadsLike(a \o b, F(a, "-s") \cup F(b, "-d"))
  BY <1>2, <1>4, JoinedReads
<1>7. ReadsLike((a \o b) \o c, (F(a, "-s") \cup F(b, "-d")) \cup F(c, "-p"))
  BY <1>2, <1>4, <1>5, <1>6, JoinedReads
<1>8. ReadsLike(d \o e, F(d, "--sport") \cup F(e, "--dport"))
  BY <1>2, <1>4, JoinedReads
<1> DEFINE G == ((F(a, "-s") \cup F(b, "-d")) \cup F(c, "-p")) \cup (F(d, "--sport") \cup F(e, "--dport"))
<1>9. ReadsLike(HeadArgs(header), G)
  <2>1. ReadsLike(((a \o b) \o c) \o (d \o e), G)
    BY <1>5, <1>7, <1>8, JoinedReads
  <2> HIDE DEF G
  <2> QED
    BY <1>1, <2>1
<1>10. header.proto \in {"TCP", "UDP"} => "p" \in G
  BY <1>1, HeaderTables DEF F, Flags
<1> HIDE DEF G
<1>11. Alongside(ReadFrom(p, HeadArgs(header)), ReadFrom(q, HeadArgs(header)))
       /\ Follows(p, ReadFrom(p, HeadArgs(header)), G)
  BY <1>9 DEF ReadsLike
<1>12. Follows(p, ReadFrom(p, HeadArgs(header)), {})
  BY <1>11 DEF Follows
<1>13. "p" \in G => Follows(p, ReadFrom(p, HeadArgs(header)), {"p"})
  BY <1>11 DEF Follows
<1> QED
  BY <1>10, <1>11, <1>12, <1>13

-----------------------------------------------------------------------------
(* The words before the header.                                            *)

\* Nothing of a rule has been read but perhaps its target.
Bare(p) ==
    /\ IsParser(p) /\ p.exit = FALSE /\ p.invert = FALSE /\ p.match = {} /\ p.loaded = <<>>
    /\ p.serving = 0 /\ p.protocol = None
    /\ p.options \subseteq {"j"}

\* What the option tables say of the options of a command.
LEMMA OptionTables ==
    /\ CommandOf["-A"] = "APPEND" /\ CommandOf["-D"] = "DELETE" /\ CommandOf["-R"] = "REPLACE"
    /\ CommandOf["-I"] = "INSERT" /\ CommandOf["-F"] = "FLUSH" /\ CommandOf["-P"] = "SET_POLICY"
    /\ {"-t", "-j", "-A", "-D", "-R", "-I", "-P"} \subseteq WithArgument
    /\ "-F" \notin WithArgument
    /\ \A o \in {"none", "num?", "num!", "policy!", "chain?"} : o \notin WithArgument
    /\ WantAfter("-t") = "none" /\ WantAfter("-j") = "none" /\ WantAfter("-A") = "none"
    /\ WantAfter("-D") = "num?" /\ WantAfter("-I") = "num?" /\ WantAfter("-R") = "num!"
    /\ WantAfter("-P") = "policy!"
BY DEF CommandOf, CommandOptions, WithArgument, PortOptions, WantAfter

\* -t and the table.
LEMMA TableReads ==
    ASSUME NEW t, NEW r, r = ReadFrom(Start, <<Opt("-t"), Word(t)>>)
    PROVE  /\ Bare(r) /\ r.want = "none" /\ r.command = {} /\ r.table = t
           /\ r.options = {} /\ r.jumpto = None /\ r.policy = None
<1>1. r = Read(Read(Start, Opt("-t")), Word(t))
  BY ReadTwo
<1>2. PICK q : q = NoWord(Start)
  OBVIOUS
<1>3. /\ IsParser(q) /\ q.exit = FALSE /\ q.match = {} /\ q.loaded = <<>> /\ q.serving = 0
      /\ q.protocol = None
      /\ q.options = {} /\ q.invert = FALSE /\ SameCommand(Start, q)
  BY <1>2, StartIs, NoWordIs
<1>4. PICK a : a = Read(Start, Opt("-t"))
  OBVIOUS
<1>5. a = Awaiting(q, "-t", "-t")
  BY <1>2, <1>3, <1>4, StartIs, ReadOption DEF TakeOption, PortOptions
<1>6. /\ IsParser(a) /\ a.exit = FALSE /\ a.match = {} /\ a.loaded = <<>> /\ a.serving = 0
      /\ a.protocol = None
      /\ a.options = {} /\ a.invert = FALSE /\ SameCommand(Start, a) /\ a.want = "-t" /\ a.last = "-t"
  <2>1. IsParser(a) /\ SameCommand(Start, a)
    BY <1>3, <1>5 DEF Awaiting, IsParser, SameCommand
  <2>2. /\ a.exit = FALSE /\ a.match = {} /\ a.loaded = <<>> /\ a.serving = 0 /\ a.protocol = None
        /\ a.options = {} /\ a.invert = FALSE /\ a.want = "-t" /\ a.last = "-t"
    BY <1>3, <1>5 DEF Awaiting, IsParser
  <2> QED
    BY <2>1, <2>2
<1>7. r = TakeArgument(a, Word(t))
  BY <1>1, <1>4, <1>6, OptionTables DEF Read, IsValue, TakeValue
<1>8. ~Rejected(a, Word(t))
  BY <1>6 DEF Rejected, PortOptions
<1>9. PICK c : c = Answered(a, Word(t))
  OBVIOUS
<1>10. /\ IsParser(c) /\ c.exit = FALSE /\ c.match = {} /\ c.loaded = <<>> /\ c.serving = 0
       /\ c.protocol = None
       /\ c.options = {} /\ c.invert = FALSE /\ SameCommand(Start, c) /\ c.want = "none"
  <2>1. c = [a EXCEPT !.want = "none", !.invert = FALSE]
    BY <1>6, <1>9, OptionTables DEF Answered, TwoCounters
  <2> QED
    BY <1>6, <2>1 DEF IsParser, SameCommand
<1>11. r = NoteTable(c, Word(t))
  BY <1>6, <1>7, <1>8, <1>9 DEF TakeArgument, PortOptions
<1>12. /\ IsParser(r) /\ r.exit = FALSE /\ r.match = {} /\ r.loaded = <<>> /\ r.serving = 0
       /\ r.protocol = None
       /\ r.options = {} /\ r.invert = FALSE /\ r.want = "none" /\ r.table = t
       /\ r.command = {} /\ r.jumpto = None /\ r.policy = None
  BY <1>10, <1>11, ArgumentFields, StartIs DEF NoteTable, IsParser, SameCommand
<1> QED
  BY <1>12 DEF Bare

\* An option that names a command.
LEMMA CommandReads ==
    ASSUME NEW p, Bare(p), p.want = "none", p.command = {},
           NEW o \in {"-A", "-D", "-R", "-I", "-P"}, NEW r, r = Read(p, Opt(o))
    PROVE  /\ Bare(r) /\ r.want = o /\ r.last = o /\ r.command = {CommandOf[o]}
           /\ r.table = p.table /\ r.options = p.options /\ r.jumpto = p.jumpto
           /\ r.policy = p.policy
<1>1. PICK q : q = NoWord(p)
  OBVIOUS
<1>2. /\ IsParser(q) /\ q.exit = FALSE /\ q.match = {} /\ q.loaded = <<>> /\ q.serving = 0
      /\ q.protocol = None
      /\ q.options = p.options /\ q.invert = FALSE /\ SameCommand(p, q)
  BY <1>1, NoWordIs DEF Bare
<1>3. r = TakeOption(q, o)
  BY <1>1, ReadOption DEF Bare
<1>4. PICK a : a = Awaiting(q, o, o)
  OBVIOUS
<1>5. r = add_command(a, o)
  BY <1>3, <1>4 DEF TakeOption, PortOptions
<1>6. /\ IsParser(a) /\ a.exit = FALSE /\ a.match = {} /\ a.loaded = <<>> /\ a.serving = 0
      /\ a.protocol = None
      /\ a.options = p.options /\ a.invert = FALSE /\ SameCommand(p, a)
      /\ a.want = o /\ a.last = o
  BY <1>2, <1>4 DEF Awaiting, IsParser, SameCommand
<1>7. a.command = {}
  BY <1>6 DEF SameCommand
<1>8. PICK k : k = CommandOf[o]
  OBVIOUS
<1>9. r = [a EXCEPT !.command = @ \cup {k}]
  BY <1>5, <1>6, <1>7, <1>8 DEF add_command
<1>10. /\ IsParser(r) /\ r.exit = FALSE /\ r.match = {} /\ r.loaded = <<>> /\ r.serving = 0
       /\ r.protocol = None
       /\ r.options = p.options /\ r.invert = FALSE /\ r.want = o /\ r.last = o
       /\ r.command = {k} /\ r.table = p.table /\ r.jumpto = p.jumpto /\ r.policy = p.policy
  BY <1>6, <1>7, <1>9 DEF IsParser, SameCommand
<1> QED
  BY <1>8, <1>10 DEF Bare

\* -F, after which a chain may follow.
LEMMA FlushReads ==
    ASSUME NEW p, Bare(p), p.want = "none", p.command = {}, NEW r, r = Read(p, Opt("-F"))
    PROVE  /\ Bare(r) /\ r.want = "chain?" /\ r.command = {"FLUSH"} /\ r.table = p.table
<1>1. PICK q : q = NoWord(p)
  OBVIOUS
<1>2. /\ IsParser(q) /\ q.exit = FALSE /\ q.match = {} /\ q.loaded = <<>> /\ q.serving = 0
      /\ q.protocol = None
      /\ q.options = p.options /\ q.invert = FALSE /\ SameCommand(p, q)
  BY <1>1, NoWordIs DEF Bare
<1>3. r = TakeOption(q, "-F")
  BY <1>1, ReadOption DEF Bare
<1>4. PICK a : a = Awaiting(q, "-F", "chain?")
  OBVIOUS
<1>5. r = add_command(a, "-F")
  BY <1>3, <1>4 DEF TakeOption, OptionalWords, PortOptions
<1>6. /\ IsParser(a) /\ a.exit = FALSE /\ a.match = {} /\ a.loaded = <<>> /\ a.serving = 0
      /\ a.protocol = None
      /\ a.options = p.options /\ a.invert = FALSE /\ SameCommand(p, a) /\ a.want = "chain?"
  BY <1>2, <1>4 DEF Awaiting, IsParser, SameCommand
<1>7. a.command = {}
  BY <1>6 DEF SameCommand
<1>8. r = [a EXCEPT !.command = @ \cup {"FLUSH"}]
  BY <1>5, <1>6, <1>7, OptionTables DEF add_command
<1>9. /\ IsParser(r) /\ r.exit = FALSE /\ r.match = {} /\ r.loaded = <<>> /\ r.serving = 0
      /\ r.protocol = None
      /\ r.options = p.options /\ r.invert = FALSE /\ r.want = "chain?"
      /\ r.command = {"FLUSH"} /\ r.table = p.table
  BY <1>6, <1>7, <1>8 DEF IsParser, SameCommand
<1> QED
  BY <1>9 DEF Bare

\* The chain of a command.
LEMMA ChainReads ==
    ASSUME NEW p, Bare(p), NEW o \in {"-A", "-D", "-R", "-I", "-P"}, p.want = o, p.last = o,
           NEW c, NEW r, r = Read(p, Word(c))
    PROVE  /\ Bare(r) /\ r.want = WantAfter(o) /\ r.last = o /\ r.command = p.command
           /\ r.chain = c /\ r.table = p.table /\ r.options = p.options
           /\ r.jumpto = p.jumpto /\ r.policy = p.policy
<1>1. r = TakeArgument(p, Word(c))
  BY OptionTables DEF Read, IsValue, TakeValue, Bare
<1>2. ~Rejected(p, Word(c))
  BY DEF Rejected, PortOptions
<1>3. PICK a : a = Answered(p, Word(c))
  OBVIOUS
<1>4. /\ IsParser(a) /\ a.exit = FALSE /\ a.match = {} /\ a.loaded = <<>> /\ a.serving = 0
      /\ a.protocol = None
      /\ a.options = p.options /\ a.invert = FALSE /\ a.want = WantAfter(o) /\ a.last = o
      /\ SameCommand(p, a)
  <2>1. PICK n : n = WantAfter(o)
    OBVIOUS
  <2>2. a = [p EXCEPT !.want = n, !.invert = IF n = "none" THEN FALSE ELSE @]
    BY <1>3, <2>1 DEF Answered, TwoCounters
  <2> QED
    BY <2>1, <2>2 DEF IsParser, SameCommand, Bare
<1>5. r = NoteChain(a, Word(c))
  BY <1>1, <1>2, <1>3 DEF TakeArgument, PortOptions
<1>6. /\ IsParser(r) /\ r.exit = FALSE /\ r.match = {} /\ r.loaded = <<>> /\ r.serving = 0
      /\ r.protocol = None
      /\ r.options = p.options /\ r.invert = FALSE /\ r.want = WantAfter(o) /\ r.last = o
      /\ r.command = p.command /\ r.chain = c /\ r.table = p.table
      /\ r.jumpto = p.jumpto /\ r.policy = p.policy
  BY <1>4, <1>5, ArgumentFields DEF NoteChain, IsParser, SameCommand
<1> QED
  BY <1>6 DEF Bare

\* A number word.
LEMMA NumFields ==
    ASSUME NEW i
    PROVE  Num(i).kind = "word" /\ Num(i).num = i
BY DEF Num, Argument

\* A rule number.
LEMMA NumberReads ==
    ASSUME NEW p, Bare(p), p.want \in {"num?", "num!"}, p.last \in {"-D", "-R", "-I"},
           NEW i \in Int, i > 0, NEW r, r = Read(p, Num(i))
    PROVE  /\ Bare(r) /\ r.want = "none" /\ r.rulenum = i /\ r.chain = p.chain
           /\ r.command = IF p.last = "-D" THEN {"DELETE_NUM"} ELSE p.command
           /\ r.table = p.table /\ r.options = p.options /\ r.jumpto = p.jumpto
<1>1. r = TakeNumber(p, Num(i))
  BY NumFields, OptionTables DEF Read, IsValue, TakeValue, TakeWord, Bare
<1>2. PICK q : q = IF p.last = "-D" THEN AsNumbered(p, "DELETE_NUM") ELSE p
  OBVIOUS
<1>3. /\ IsParser(q) /\ q.exit = FALSE /\ q.match = {} /\ q.loaded = <<>> /\ q.serving = 0
      /\ q.protocol = None
      /\ q.options = p.options /\ q.invert = FALSE /\ q.chain = p.chain /\ q.table = p.table
      /\ q.jumpto = p.jumpto /\ q.command = IF p.last = "-D" THEN {"DELETE_NUM"} ELSE p.command
  <2>1. CASE p.last = "-D"
    <3>1. q = [p EXCEPT !.command = {"DELETE_NUM"}]
      BY <1>2, <2>1 DEF AsNumbered
    <3> QED
      BY <2>1, <3>1 DEF IsParser, Bare
  <2>2. CASE p.last # "-D"
    BY <1>2, <2>2 DEF Bare
  <2> QED
    BY <2>1, <2>2
<1>4. r = [q EXCEPT !.rulenum = i, !.want = "none", !.invert = FALSE]
  <2>1. ~(Num(i).num < 1) /\ Num(i).num = i
    BY NumFields
  <2> QED
    BY <1>1, <1>2, <2>1 DEF TakeNumber
<1>5. /\ IsParser(r) /\ r.exit = FALSE /\ r.match = {} /\ r.loaded = <<>> /\ r.serving = 0
      /\ r.protocol = None
      /\ r.options = p.options /\ r.invert = FALSE /\ r.chain = p.chain /\ r.table = p.table
      /\ r.jumpto = p.jumpto /\ r.command = q.command /\ r.want = "none" /\ r.rulenum = i
  BY <1>3, <1>4 DEF IsParser
<1> QED
  BY <1>3, <1>5 DEF Bare

\* A policy, or what stands in its place.
LEMMA PolicyReads ==
    ASSUME NEW p, Bare(p), p.want = "policy!", NEW w, w.kind = "word", NEW r, r = Read(p, w)
    PROVE  /\ Bare(r) /\ r.want = "none" /\ r.policy = w.text /\ r.chain = p.chain
           /\ r.command = p.command /\ r.table = p.table /\ r.options = p.options
           /\ r.jumpto = p.jumpto
<1>1. r = TakeWord(p, w)
  BY OptionTables DEF Read, IsValue, TakeValue, Bare
<1>2. r = [p EXCEPT !.policy = w.text, !.want = "none", !.invert = FALSE]
  BY <1>1 DEF TakeWord
<1>3. /\ IsParser(r) /\ r.exit = FALSE /\ r.match = {} /\ r.loaded = <<>> /\ r.serving = 0
      /\ r.protocol = None
      /\ r.options = p.options /\ r.invert = FALSE /\ r.want = "none" /\ r.policy = w.text
      /\ r.chain = p.chain /\ r.command = p.command /\ r.table = p.table /\ r.jumpto = p.jumpto
  <2>1. IsParser(p) /\ p.exit = FALSE /\ p.match = {} /\ p.loaded = <<>> /\ p.serving = 0
        /\ p.protocol = None
    BY DEF Bare
  <2>2. IsParser(r)
    BY <1>2, <2>1 DEF IsParser
  <2> QED
    BY <1>2, <2>1, <2>2 DEF IsParser
<1> QED
  BY <1>3 DEF Bare

\* A word that nothing asks for.
LEMMA StrayReads ==
    ASSUME NEW p, Bare(p), p.want = "none", NEW w, w.kind = "word"
    PROVE  Read(p, w).exit = TRUE /\ IsParser(Read(p, w))
<1>1. ~IsValue(p, w)
  BY OptionTables DEF IsValue
<1>2. NoWord(p).exit = FALSE
  BY NoWordIs DEF Bare
<1>3. Read(p, w) = NonOption(NoWord(p), w)
  BY <1>1, <1>2 DEF Read, Bare
<1> QED
  BY <1>3, FailIs DEF NonOption

\* -j, and what follows it.
LEMMA TargetReads ==
    ASSUME NEW p, Bare(p), p.want = "none" \/ (p.want = "num?" /\ p.last # "-I"), p.options = {},
           NEW a, a = Read(p, Opt("-j"))
    PROVE  /\ a.want = "-j"
           /\ \A w, r : r = Read(a, w) =>
                 /\ Bare(r) /\ r.want = "none" /\ r.jumpto = w.text /\ r.chain = p.chain
                 /\ r.command = p.command /\ r.table = p.table /\ r.rulenum = p.rulenum
<1>1. PICK q : q = NoWord(p)
  OBVIOUS
<1>2. /\ IsParser(q) /\ q.exit = FALSE /\ q.match = {} /\ q.loaded = <<>> /\ q.serving = 0
      /\ q.protocol = None
      /\ q.options = {} /\ q.invert = FALSE /\ q.chain = p.chain /\ q.command = p.command
      /\ q.table = p.table
  BY <1>1, NoWordIs DEF Bare
<1>3. q.rulenum = p.rulenum
  BY <1>1 DEF NoWord, IsParser, Bare
<1>4. PICK b : b = Awaiting(q, "-j", "-j")
  OBVIOUS
<1>5. /\ IsParser(b) /\ b.exit = FALSE /\ b.match = {} /\ b.loaded = <<>> /\ b.serving = 0
      /\ b.protocol = None /\ b.rulenum = p.rulenum
      /\ b.options = {} /\ b.invert = FALSE /\ b.chain = p.chain /\ b.command = p.command
      /\ b.table = p.table /\ b.want = "-j" /\ b.last = "-j"
  BY <1>2, <1>3, <1>4 DEF Awaiting, IsParser
<1>6. a = TakeOption(q, "-j")
  <2>1. p.want \in {"none", "num?", "chain?"} /\ IsParser(p) /\ p.exit = FALSE
    BY DEF Bare
  <2> QED
    BY <1>1, <2>1, ReadOption
<1>7. a = set_option(b, "j")
  BY <1>4, <1>6, HeaderTables DEF TakeOption, PortOptions
<1>8. a = [b EXCEPT !.options = @ \cup {"j"}]
  BY <1>5, <1>7 DEF set_option
<1>9. /\ IsParser(a) /\ a.exit = FALSE /\ a.match = {} /\ a.loaded = <<>> /\ a.serving = 0
      /\ a.protocol = None /\ a.rulenum = p.rulenum
      /\ a.options = {"j"} /\ a.invert = FALSE /\ a.chain = p.chain /\ a.command = p.command
      /\ a.table = p.table /\ a.want = "-j" /\ a.last = "-j"
  BY <1>5, <1>8 DEF IsParser
<1>10. ASSUME NEW w, NEW r, r = Read(a, w)
       PROVE  /\ Bare(r) /\ r.want = "none" /\ r.jumpto = w.text /\ r.chain = p.chain
              /\ r.command = p.command /\ r.table = p.table /\ r.rulenum = p.rulenum
  <2>1. r = TakeArgument(a, w)
    BY <1>9, <1>10, OptionTables DEF Read, IsValue, TakeValue
  <2>2. ~Rejected(a, w)
    BY <1>9 DEF Rejected, PortOptions
  <2>3. PICK c : c = Answered(a, w)
    OBVIOUS
  <2>4. /\ IsParser(c) /\ c.exit = FALSE /\ c.match = {} /\ c.loaded = <<>> /\ c.serving = 0
        /\ c.protocol = None /\ c.rulenum = p.rulenum
        /\ c.options = {"j"} /\ c.invert = FALSE /\ c.chain = p.chain /\ c.command = p.command
        /\ c.table = p.table /\ c.want = "none"
    <3>1. c = [a EXCEPT !.want = "none", !.invert = FALSE]
      BY <1>9, <2>3, OptionTables DEF Answered, TwoCounters
    <3> QED
      BY <1>9, <3>1 DEF IsParser
  <2>5. r = NoteTarget(c, w)
    BY <1>9, <2>1, <2>2, <2>3 DEF TakeArgument, PortOptions
  <2>6. /\ IsParser(r) /\ r.exit = FALSE /\ r.match = {} /\ r.loaded = <<>> /\ r.serving = 0
        /\ r.protocol = None /\ r.rulenum = p.rulenum
        /\ r.options = {"j"} /\ r.invert = FALSE /\ r.chain = p.chain /\ r.command = p.command
        /\ r.table = p.table /\ r.want = "none" /\ r.jumpto = w.text
    BY <2>4, <2>5 DEF NoteTarget, IsParser
  <2> QED
    BY <2>6 DEF Bare
<1> QED
  BY <1>9, <1>10

\* A header is a sequence of words.
LEMMA HeadSet == ASSUME NEW header PROVE \E S : HeadArgs(header) \in Seq(S)
<1>1. PICK a, b, c, d, e : HeadOf(header, a, b, c, d, e)
  BY HeadParts
<1>2. PICK S : a \in Seq(S) /\ b \in Seq(S) /\ c \in Seq(S) /\ d \in Seq(S) /\ e \in Seq(S)
  BY <1>1, BlocksSet DEF HeadOf
<1>3. (a \o b) \o c \in Seq(S) /\ d \o e \in Seq(S)
  BY <1>2, ConcatProperties
<1>4. ((a \o b) \o c) \o (d \o e) \in Seq(S)
  BY <1>3, ConcatProperties
<1>5. HeadArgs(header) = ((a \o b) \o c) \o (d \o e)
  BY <1>1 DEF HeadOf
<1> QED
  BY <1>4, <1>5

\* All words of a request.
WordsIn(h, S) ==
    /\ TableArgs(h.tablename) \in Seq(S) /\ CommandArgs(h) \in Seq(S)
    /\ ChainArgs(h.actionType) \in Seq(S) /\ IndexArgs(h.index) \in Seq(S)
    /\ TargetArgs(h) \in Seq(S) /\ HeadArgs(h.table.head) \in Seq(S)

\* The words of a target.
LEMMA TargetShapes ==
    ASSUME NEW h
    PROVE  TargetArgs(h) \in {<<>>, <<Opt("-j")>>, <<Word(h.table.actionDesc)>>,
                              <<Opt("-j"), Word(h.table.actionDesc)>>}
<1>1. ASSUME NEW x, NEW y
      PROVE  <<x>> \o <<>> = <<x>> /\ <<x>> \o <<y>> = <<x, y>>
  <2>1. <<x>> \in Seq({x}) /\ <<x>> \in Seq({x, y}) /\ <<y>> \in Seq({x, y})
    OBVIOUS
  <2>2. <<x>> \o <<>> = <<x>>
    BY <2>1, ConcatEmptySeq
  <2>3. /\ <<x>> \o <<y>> \in Seq({x, y}) /\ Len(<<x>> \o <<y>>) = 2
        /\ (<<x>> \o <<y>>)[1] = x /\ (<<x>> \o <<y>>)[2] = y
    <3>1. Len(<<x>>) = 1 /\ Len(<<y>>) = 1 /\ <<x>>[1] = x /\ <<y>>[1] = y
      OBVIOUS
    <3> QED
      BY <2>1, <3>1, ConcatProperties
  <2>4. \A s \in Seq({x, y}) : Len(s) = 2 /\ s[1] = x /\ s[2] = y => s = <<x, y>>
    OBVIOUS
  <2> QED
    BY <2>2, <2>3, <2>4
<1> DEFINE v == IF h.table.actionDesc = "DESC_NONE" THEN <<>> ELSE <<Word(h.table.actionDesc)>>
<1>2. v \in {<<>>, <<Word(h.table.actionDesc)>>}
  OBVIOUS
<1>3. TargetArgs(h) \in {v, <<Opt("-j")>> \o v, <<>>}
  BY DEF TargetArgs
<1> HIDE DEF v
<1> QED
  BY <1>1, <1>2, <1>3

\* The words of a command: one option or none.
LEMMA CommandShapes ==
    ASSUME NEW h
    PROVE  CommandArgs(h) = <<>> \/ \E o : CommandArgs(h) = <<Opt(o)>>
<1>1. CommandArgs(h) \in {<<>>, <<Opt("-P")>>, <<Opt("-A")>>, <<Opt("-I")>>, <<Opt("-R")>>,
                          <<Opt("-D")>>, <<Opt("-F")>>}
  BY DEF CommandArgs
<1> QED
  BY <1>1

\* Every part of a request is a sequence of words.
LEMMA WordsSet == ASSUME NEW h PROVE \E S : WordsIn(h, S)
<1>1. PICK S0 : HeadArgs(h.table.head) \in Seq(S0)
  BY HeadSet
<1>2. PICK o : CommandArgs(h) = <<>> \/ CommandArgs(h) = <<Opt(o)>>
  BY CommandShapes
<1> DEFINE S == S0 \cup {Opt("-t"), Word(h.tablename), Opt(o), Word(h.actionType), Num(h.index),
                         Opt("-j"), Word(h.table.actionDesc)}
<1>3. S0 \subseteq S
  OBVIOUS
<1>4. /\ Opt("-t") \in S /\ Word(h.tablename) \in S /\ Opt(o) \in S /\ Word(h.actionType) \in S
      /\ Num(h.index) \in S /\ Opt("-j") \in S /\ Word(h.table.actionDesc) \in S
  OBVIOUS
<1> HIDE DEF S
<1>5. <<>> \in Seq(S) /\ (\A u \in S : <<u>> \in Seq(S)) /\ \A u, v \in S : <<u, v>> \in Seq(S)
  OBVIOUS
<1>6. HeadArgs(h.table.head) \in Seq(S)
  BY <1>1, <1>3
<1>7. TableArgs(h.tablename) \in Seq(S)
  BY <1>4, <1>5 DEF TableArgs
<1>8. CommandArgs(h) \in Seq(S)
  BY <1>2, <1>4, <1>5
<1>9. ChainArgs(h.actionType) \in Seq(S)
  BY <1>4, <1>5 DEF ChainArgs
<1>10. IndexArgs(h.index) \in Seq(S)
  BY <1>4, <1>5 DEF IndexArgs
<1>11. TargetArgs(h) \in Seq(S)
  BY <1>4, <1>5, TargetShapes
<1> QED
  BY <1>6, <1>7, <1>8, <1>9, <1>10, <1>11 DEF WordsIn

\* The parser after the words of a request's table and command, ...
AfterCommand(h) == ReadFrom(ReadFrom(Start, TableArgs(h.tablename)), CommandArgs(h))

\* ... of its chain and index, ...
AfterIndex(h) == ReadFrom(ReadFrom(AfterCommand(h), ChainArgs(h.actionType)), IndexArgs(h.index))

\* ... and of its target.
AfterTarget(h) == ReadFrom(AfterIndex(h), TargetArgs(h))

\* A request is read part by part; CLEAN and a deletion by number have no more than the first ones.
LEMMA ArgvReads ==
    ASSUME NEW h
    PROVE  ReadAll(to_argv(h)) =
              IF h.command = "CLEAN" THEN AfterCommand(h)
              ELSE IF h.command = "DELETE" /\ h.index > 0 THEN AfterIndex(h)
              ELSE ReadFrom(AfterTarget(h), HeadArgs(h.table.head))
<1>1. PICK S : WordsIn(h, S)
  BY WordsSet
<1>2. PICK a, b, c, d, e, f :
        /\ a = TableArgs(h.tablename) /\ b = CommandArgs(h) /\ c = ChainArgs(h.actionType)
        /\ d = IndexArgs(h.index) /\ e = TargetArgs(h) /\ f = HeadArgs(h.table.head)
  OBVIOUS
<1>3. a \in Seq(S) /\ b \in Seq(S) /\ c \in Seq(S) /\ d \in Seq(S) /\ e \in Seq(S) /\ f \in Seq(S)
  BY <1>1, <1>2 DEF WordsIn
<1>4. PICK ab, abc, abcd, abcde, all :
        /\ ab = a \o b /\ abc = ab \o c /\ abcd = abc \o d /\ abcde = abcd \o e /\ all = abcde \o f
  OBVIOUS
<1>5. /\ ab \in Seq(S) /\ abc \in Seq(S) /\ abcd \in Seq(S) /\ abcde \in Seq(S) /\ all \in Seq(S)
  BY <1>3, <1>4, ConcatProperties
<1>6. to_argv(h) = IF h.command = "CLEAN" THEN ab
                   ELSE IF h.command = "DELETE" /\ h.index > 0 THEN abcd ELSE all
  BY <1>2, <1>4 DEF to_argv
<1>7. ReadFrom(Start, ab) = AfterCommand(h)
  <2>1. ReadFrom(Start, a \o b) = ReadFrom(ReadFrom(Start, a), b)
    BY <1>3, ReadJoined
  <2> QED
    BY <1>2, <1>4, <2>1 DEF AfterCommand
<1>8. ReadFrom(Start, abc) = ReadFrom(AfterCommand(h), c)
  <2>1. ReadFrom(Start, ab \o c) = ReadFrom(ReadFrom(Start, ab), c)
    BY <1>3, <1>5, ReadJoined
  <2> QED
    BY <1>4, <1>7, <2>1
<1>9. ReadFrom(Start, abcd) = AfterIndex(h)
  <2>1. ReadFrom(Start, abc \o d) = ReadFrom(ReadFrom(Start, abc), d)
    BY <1>3, <1>5, ReadJoined
  <2> QED
    BY <1>2, <1>4, <1>8, <2>1 DEF AfterIndex
<1>10. ReadFrom(Start, abcde) = AfterTarget(h)
  <2>1. ReadFrom(Start, abcd \o e) = ReadFrom(ReadFrom(Start, abcd), e)
    BY <1>3, <1>5, ReadJoined
  <2> QED
    BY <1>2, <1>4, <1>9, <2>1 DEF AfterTarget
<1>11. ReadFrom(Start, all) = ReadFrom(AfterTarget(h), f)
  <2>1. ReadFrom(Start, abcde \o f) = ReadFrom(ReadFrom(Start, abcde), f)
    BY <1>3, <1>5, ReadJoined
  <2> QED
    BY <1>4, <1>10, <2>1
<1>12. \A s \in Seq(S) : ReadAll(s) = ReadFrom(Start, s)
  <2> TAKE s \in Seq(S)
  <2>1. Len(s) \in Nat
    BY LenProperties
  <2> QED
    BY <2>1, ReadAllIs
<1> QED
  BY <1>2, <1>5, <1>6, <1>7, <1>9, <1>11, <1>12

\* The match of a header is what is read of it from the start.
LEMMA HeadMatchIs ==
    ASSUME NEW header
    PROVE  HeadMatch(header) = ReadFrom(Start, HeadArgs(header)).match
<1>1. PICK S : HeadArgs(header) \in Seq(S)
  BY HeadSet
<1>2. Len(HeadArgs(header)) \in Nat
  BY <1>1, LenProperties
<1> QED
  BY <1>2, ReadAllIs DEF HeadMatch

-----------------------------------------------------------------------------
(* The end of the line.                                                    *)

\* What do_command4 leaves of a line that it accepts.
Accepted(p, f) ==
    /\ p.exit = FALSE /\ f.exit = FALSE
    /\ f.match = p.match /\ f.command = p.command /\ f.chain = p.chain /\ f.table = p.table
    /\ f.jumpto = p.jumpto /\ f.policy = p.policy
    /\ p.want # "num?" => f.rulenum = p.rulenum
    /\ p.command # {}
    /\ \A o \in p.options : \E c \in p.command : o \in commands_v_options[c]

\* A line that is accepted is what was read of it.
LEMMA FinishIs ==
    ASSUME NEW p, IsParser(p), p.exit \in BOOLEAN, p.exit = FALSE => p.want \in {"none", "num?", "chain?"},
           NEW f, f = Finish(p), f.exit # TRUE
    PROVE  Accepted(p, f)
<1>1. PICK q, g : q = LastWord(p) /\ g = WithAddresses(4, q)
  OBVIOUS
<1>2. ~(\/ g.exit \/ NatDrop(g) \/ g.command = {} \/ g.invert \/ BadAddresses(g)
        \/ ~generic_opt_check(g, commands_v_options) \/ g.chain \in LongNames
        \/ g.table \notin Tables \/ BadRule(g))
      /\ f = g
  <2>1. Finish(p) = IF \/ g.exit \/ NatDrop(g) \/ g.command = {} \/ g.invert \/ BadAddresses(g)
                       \/ ~generic_opt_check(g, commands_v_options) \/ g.chain \in LongNames
                       \/ g.table \notin Tables \/ BadRule(g)
                    THEN Fail(g) ELSE g
    BY <1>1 DEF Finish
  <2> QED
    BY <2>1, FailIs
<1>3. ~q.exit
  <2>1. CASE q.exit
    <3>1. g = Fail(q)
      BY <1>1, <2>1 DEF WithAddresses
    <3> QED
      BY <1>2, <3>1, FailIs
  <2> QED
    BY <2>1
<1>4. p.exit = FALSE
  <2>1. CASE p.exit = TRUE
    <3>1. q = Fail(p) \/ q = [p EXCEPT !.rulenum = IF p.want = "num?" /\ p.last = "-I" THEN 1 ELSE @,
                                !.want = "none", !.invert = IF p.want = "none" THEN @ ELSE FALSE]
      BY <1>1 DEF LastWord, NoWord
    <3>2. q.exit = TRUE
      BY <2>1, <3>1, FailIs DEF IsParser
    <3> QED
      BY <1>3, <3>2
  <2> QED
    BY <2>1
<1>5. p.want \notin WithArgument
  BY <1>4, OptionTables, HeaderTables
<1>6. q = NoWord(p)
  BY <1>1, <1>5 DEF LastWord
<1>7. /\ IsParser(q) /\ q.exit = FALSE /\ q.match = p.match /\ q.options = p.options
      /\ q.command = p.command /\ q.chain = p.chain /\ q.policy = p.policy /\ q.jumpto = p.jumpto
      /\ q.table = p.table /\ (p.want # "num?" => q.rulenum = p.rulenum)
  BY <1>4, <1>6, NoWordIs DEF SameCommand
<1>8. g = Fail(q) \/ \E a : g = [q EXCEPT !.addrs = a]
  BY <1>1 DEF WithAddresses
<1>9. g # Fail(q)
  BY <1>2, FailIs
<1>10. PICK a : g = [q EXCEPT !.addrs = a]
  BY <1>8, <1>9
<1>11. /\ g.exit = FALSE /\ g.match = q.match /\ g.options = q.options
       /\ g.command = q.command /\ g.chain = q.chain /\ g.policy = q.policy /\ g.jumpto = q.jumpto
       /\ g.table = q.table /\ g.rulenum = q.rulenum
  BY <1>7, <1>10 DEF IsParser
<1>12. p.command # {}
  BY <1>2, <1>7, <1>11
<1>13. \A o \in p.options : \E c \in p.command : o \in commands_v_options[c]
  BY <1>2, <1>7, <1>11 DEF generic_opt_check
<1> QED
  BY <1>2, <1>4, <1>7, <1>11, <1>12, <1>13 DEF Accepted

\* A line that ends where an argument is missing is refused.
LEMMA FinishPending ==
    ASSUME NEW p, p.want \in WithArgument
    PROVE  Finish(p).exit = TRUE
<1>1. PICK q, g : q = LastWord(p) /\ g = WithAddresses(4, q)
  OBVIOUS
<1>2. q = Fail(p)
  BY <1>1 DEF LastWord
<1>3. g = Fail(q)
  BY <1>1, <1>2, FailIs DEF WithAddresses
<1>4. Finish(p) = Fail(g)
  BY <1>1, <1>3, FailIs DEF Finish
<1> QED
  BY <1>4, FailIs

\* The words of a header begin with an option and its argument, if there are any.
Headed(s) ==
    s = <<>> \/ \E S : \E x, w \in S, t \in Seq(S) : w.kind = "word" /\ s = <<x, w>> \o t

\* A part in front of others.
LEMMA BlockJoin ==
    ASSUME NEW S, NEW o, NEW a \in Seq(S), Block(a, o), NEW t \in Seq(S), Headed(t)
    PROVE  a \o t \in Seq(S) /\ Headed(a \o t)
<1>1. a \o t \in Seq(S)
  BY ConcatProperties
<1>2. CASE a = <<>>
  <2>1. a \o t = t
    BY <1>2, ConcatEmptySeq
  <2> QED
    BY <1>1, <2>1
<1>3. CASE a # <<>>
  <2>1. PICK w : w.kind = "word" /\ a = <<Opt(o), w>>
    BY <1>3 DEF Block
  <2>2. PICK x : x = Opt(o)
    OBVIOUS
  <2>3. a = <<x, w>>
    BY <2>1, <2>2
  <2>4. x \in S /\ w \in S
    <3>1. Len(a) = 2 /\ a[1] = x /\ a[2] = w
      BY <2>3
    <3>2. a \in [1 .. Len(a) -> S]
      OBVIOUS
    <3>3. 1 \in 1 .. Len(a) /\ 2 \in 1 .. Len(a)
      BY <3>1
    <3>4. a[1] \in S /\ a[2] \in S
      BY <3>2, <3>3
    <3> QED
      BY <3>1, <3>4
  <2>5. Headed(<<x, w>> \o t)
    <3>1. PICK u : u = <<x, w>> \o t
      OBVIOUS
    <3>2. \E y, z \in S, v \in Seq(S) : z.kind = "word" /\ u = <<y, z>> \o v
      BY <2>1, <2>4, <3>1
    <3> QED
      BY <3>1, <3>2 DEF Headed
  <2> QED
    BY <1>1, <2>3, <2>5
<1> QED
  BY <1>2, <1>3

\* So do they.
LEMMA HeadIsHeaded == ASSUME NEW header PROVE Headed(HeadArgs(header))
<1>1. PICK a, b, c, d, e : HeadOf(header, a, b, c, d, e)
  BY HeadParts
<1>2. PICK S : a \in Seq(S) /\ b \in Seq(S) /\ c \in Seq(S) /\ d \in Seq(S) /\ e \in Seq(S)
  BY <1>1, BlocksSet DEF HeadOf
<1>3. Block(a, "-s") /\ Block(b, "-d") /\ Block(c, "-p") /\ Block(d, "--sport") /\ Block(e, "--dport")
  BY <1>1 DEF HeadOf
<1>4. <<>> \in Seq(S) /\ Headed(<<>>)
  BY DEF Headed
<1>5. e \o <<>> \in Seq(S) /\ Headed(e \o <<>>)
  BY <1>2, <1>3, <1>4, BlockJoin
<1>6. Headed(e)
  BY <1>2, <1>5, ConcatEmptySeq
<1>7. d \o e \in Seq(S) /\ Headed(d \o e)
  BY <1>2, <1>3, <1>6, BlockJoin
<1>8. c \o (d \o e) \in Seq(S) /\ Headed(c \o (d \o e))
  BY <1>2, <1>3, <1>7, BlockJoin
<1>9. b \o (c \o (d \o e)) \in Seq(S) /\ Headed(b \o (c \o (d \o e)))
  BY <1>2, <1>3, <1>8, BlockJoin
<1>10. Headed(a \o (b \o (c \o (d \o e))))
  BY <1>2, <1>3, <1>9, BlockJoin
<1>11. a \o b \in Seq(S) /\ (a \o b) \o c \in Seq(S)
  BY <1>2, ConcatProperties
<1>12. ((a \o b) \o c) \o (d \o e) = (a \o b) \o (c \o (d \o e))
  <2>1. PICK ab, de : ab = a \o b /\ de = d \o e
    OBVIOUS
  <2>2. ab \in Seq(S) /\ de \in Seq(S)
    BY <1>7, <1>11, <2>1
  <2>3. (ab \o c) \o de = ab \o (c \o de)
    <3>1. c \in Seq(S)
      BY <1>2
    <3>2. \A x, y, z \in Seq(S) : (x \o y) \o z = x \o (y \o z)
      BY ConcatAssociative
    <3> HIDE <1>2
    <3> QED
      BY <2>2, <3>1, <3>2, Zenon
  <2> QED
    BY <2>1, <2>3, Zenon
<1>13. (a \o b) \o (c \o (d \o e)) = a \o (b \o (c \o (d \o e)))
  <2>1. PICK cde : cde = c \o (d \o e)
    OBVIOUS
  <2>2. cde \in Seq(S)
    BY <1>8, <2>1
  <2>3. (a \o b) \o cde = a \o (b \o cde)
    BY <1>2, <2>2, ConcatAssociative
  <2> QED
    BY <2>1, <2>3, Zenon
<1>14. HeadArgs(header) = ((a \o b) \o c) \o (d \o e)
  BY <1>1 DEF HeadOf
<1> QED
  BY <1>10, <1>12, <1>13, <1>14

-----------------------------------------------------------------------------
(* The line of a request.                                                  *)

\* The header's words add the match, and change nothing else.
HeadLine(p, header, f) ==
    /\ f.match = HeadMatch(header) /\ f.command = p.command /\ f.chain = p.chain
    /\ f.table = p.table /\ f.jumpto = p.jumpto /\ f.policy = p.policy
    /\ f.rulenum = p.rulenum /\ f.exit = FALSE /\ p.command # {}
    /\ header.proto \in {"TCP", "UDP"} => p.command # {"SET_POLICY"}

\* What do_command4 makes of a header after the words of a command.
LEMMA LineWithHead ==
    ASSUME NEW p, Bare(p), p.want = "none", NEW header,
           NEW f, f = Finish(ReadFrom(p, HeadArgs(header))), f.exit # TRUE
    PROVE  HeadLine(p, header, f)
<1>1. Alongside(p, Start)
  <2>1. \A x \in {"s", "d", "p"} : x \notin p.options /\ x \notin Start.options
    BY StartIs DEF Bare
  <2> QED
    BY <2>1, StartIs DEF Bare, Alongside, AlikeMatches
<1>2. PICK r, q : r = ReadFrom(p, HeadArgs(header)) /\ q = ReadFrom(Start, HeadArgs(header))
  OBVIOUS
<1>3. /\ Alongside(r, q) /\ Follows(p, r, {})
      /\ header.proto \in {"TCP", "UDP"} => Follows(p, r, {"p"})
  BY <1>1, <1>2, HeadReads
<1>4. IsParser(r) /\ r.exit \in BOOLEAN /\ (r.exit = FALSE => r.want = "none") /\ r.match = q.match
  BY <1>3 DEF Alongside
<1>a. r.exit = FALSE => r.want \in {"none", "num?", "chain?"}
  BY <1>4
<1>b. IsParser(r) /\ r.exit \in BOOLEAN
  BY <1>4
<1>5. f = Finish(r) /\ f.exit # TRUE
  BY <1>2
<1>c. Accepted(r, f)
  BY <1>a, <1>b, <1>5, FinishIs
<1>6. /\ r.exit = FALSE /\ f.exit = FALSE
      /\ f.match = r.match /\ f.command = r.command /\ f.chain = r.chain /\ f.table = r.table
      /\ f.jumpto = r.jumpto /\ f.policy = r.policy
      /\ r.want # "num?" => f.rulenum = r.rulenum
      /\ r.command # {}
      /\ \A o \in r.options : \E c \in r.command : o \in commands_v_options[c]
  BY <1>c DEF Accepted
<1>7. SameCommand(p, r)
  BY <1>3, <1>6 DEF Follows
<1>8. f.match = HeadMatch(header)
  BY <1>2, <1>4, <1>6, HeadMatchIs
<1>9. header.proto \in {"TCP", "UDP"} => p.command # {"SET_POLICY"}
  <2> SUFFICES ASSUME header.proto \in {"TCP", "UDP"}, p.command = {"SET_POLICY"} PROVE FALSE
    OBVIOUS
  <2>1. "p" \in r.options
    BY <1>3, <1>6 DEF Follows
  <2>2. r.command = {"SET_POLICY"}
    BY <1>7 DEF SameCommand
  <2>3. "p" \in commands_v_options["SET_POLICY"]
    BY <1>6, <2>1, <2>2
  <2>4. commands_v_options["SET_POLICY"] = {"v", "c"}
    BY DEF commands_v_options
  <2> QED
    BY <2>3, <2>4
<1> QED
  BY <1>4, <1>6, <1>7, <1>8, <1>9 DEF SameCommand, HeadLine

\* A target option that is followed by the header's words, or by none: the line is refused.
LEMMA NoTarget ==
    ASSUME NEW p, Bare(p), p.want = "none" \/ (p.want = "num?" /\ p.last # "-I"), p.options = {},
           NEW a, a = Read(p, Opt("-j")), NEW header
    PROVE  Finish(ReadFrom(a, HeadArgs(header))).exit = TRUE
<1>1. a.want = "-j"
  BY TargetReads
<1>2. CASE HeadArgs(header) = <<>>
  <2>1. ReadFrom(a, HeadArgs(header)) = a
    BY <1>2, ReadNothing
  <2> QED
    BY <1>1, <2>1, FinishPending, OptionTables
<1>3. CASE HeadArgs(header) # <<>>
  <2>1. PICK S : \E x, w \in S, t \in Seq(S) : w.kind = "word" /\ HeadArgs(header) = <<x, w>> \o t
    BY <1>3, HeadIsHeaded DEF Headed
  <2>2. PICK x \in S, w \in S, t \in Seq(S) : w.kind = "word" /\ HeadArgs(header) = <<x, w>> \o t
    BY <2>1
  <2>3. PICK b : b = Read(a, x)
    OBVIOUS
  <2>4. Bare(b) /\ b.want = "none"
    BY <2>3, TargetReads
  <2>5. PICK c : c = Read(b, w)
    OBVIOUS
  <2>6. c.exit = TRUE /\ IsParser(c)
    BY <2>2, <2>4, <2>5, StrayReads
  <2>7. ReadFrom(a, HeadArgs(header)) = ReadFrom(c, t)
    <3>1. PICK y : y = <<x, w>>
      OBVIOUS
    <3>2. y \in Seq(S)
      BY <3>1
    <3>3. ReadFrom(a, y \o t) = ReadFrom(ReadFrom(a, y), t)
      BY <3>2, ReadJoined
    <3>4. ReadFrom(a, <<x, w>>) = c
      BY <2>3, <2>5, ReadTwo
    <3> QED
      BY <2>2, <3>1, <3>3, <3>4, Zenon
  <2>8. ReadFrom(c, t) = c
    <3>1. Len(t) \in Nat
      BY LenProperties
    <3> QED
      BY <2>6, <3>1, ExitStays
  <2>9. Finish(c).exit = TRUE
    BY <2>6, FinishIs DEF Accepted
  <2> QED
    BY <2>7, <2>8, <2>9
<1> QED
  BY <1>2, <1>3

\* The line of a command with -j: its verdict cannot be missing.
TargetLine(p, d, header, f) ==
    /\ d # "DESC_NONE"
    /\ f.match = HeadMatch(header) /\ f.command = p.command /\ f.chain = p.chain
    /\ f.table = p.table /\ f.jumpto = d /\ f.rulenum = p.rulenum /\ f.exit = FALSE

\* And it is the one asked for.
LEMMA LineWithTarget ==
    ASSUME NEW p, Bare(p), p.want = "none" \/ (p.want = "num?" /\ p.last # "-I"), p.options = {},
           NEW d, NEW v, v = IF d = "DESC_NONE" THEN <<Opt("-j")>> ELSE <<Opt("-j"), Word(d)>>,
           NEW header, NEW f, f = Finish(ReadFrom(ReadFrom(p, v), HeadArgs(header))), f.exit # TRUE
    PROVE  TargetLine(p, d, header, f)
<1>1. PICK a : a = Read(p, Opt("-j"))
  OBVIOUS
<1>2. d # "DESC_NONE"
  <2>1. CASE d = "DESC_NONE"
    <3>1. ReadFrom(p, v) = a
      BY <1>1, <2>1, ReadOne
    <3> QED
      BY <1>1, <3>1, NoTarget
  <2> QED
    BY <2>1
<1>3. PICK r : r = Read(a, Word(d))
  OBVIOUS
<1>4. ReadFrom(p, v) = r
  BY <1>1, <1>2, <1>3, ReadTwo
<1>5. /\ Bare(r) /\ r.want = "none" /\ r.jumpto = d /\ r.chain = p.chain
      /\ r.command = p.command /\ r.table = p.table /\ r.rulenum = p.rulenum
  BY <1>1, <1>3, TargetReads, ArgumentFields
<1>6. f = Finish(ReadFrom(r, HeadArgs(header))) /\ f.exit # TRUE
  BY <1>4
<1>7. Bare(r) /\ r.want = "none"
  BY <1>5
<1>8. HeadLine(r, header, f)
  BY <1>6, <1>7, LineWithHead
<1> QED
  BY <1>2, <1>5, <1>8 DEF HeadLine, TargetLine

-----------------------------------------------------------------------------
(* What do_command4 reads for a request.                                   *)

\* One word and the next.
LEMMA PairJoin ==
    ASSUME NEW x, NEW y
    PROVE  <<x>> \o <<>> = <<x>> /\ <<x>> \o <<y>> = <<x, y>> /\ <<y>> # <<>>
<1>1. <<x>> \in Seq({x, y}) /\ <<y>> \in Seq({x, y})
  OBVIOUS
<1>2. PICK a, b : a = <<x>> /\ b = <<y>>
  OBVIOUS
<1>3. a \in Seq({x, y}) /\ b \in Seq({x, y}) /\ Len(a) = 1 /\ Len(b) = 1 /\ a[1] = x /\ b[1] = y
  BY <1>1, <1>2
<1>4. /\ a \o b \in Seq({x, y}) /\ Len(a \o b) = 2
      /\ \A i \in 1 .. 2 : (a \o b)[i] = IF i <= 1 THEN a[i] ELSE b[i - 1]
  BY <1>3, ConcatProperties
<1>5. (a \o b)[1] = x /\ (a \o b)[2] = y
  BY <1>3, <1>4
<1>6. a \o b = <<x, y>>
  <2>1. PICK c, d : c = a \o b /\ d = <<x, y>>
    OBVIOUS
  <2>2. c \in Seq({x, y}) /\ Len(c) = 2 /\ c[1] = x /\ c[2] = y
    BY <1>4, <1>5, <2>1
  <2>3. d \in Seq({x, y}) /\ Len(d) = 2 /\ d[1] = x /\ d[2] = y
    BY <2>1
  <2>4. \A i \in 1 .. Len(c) : c[i] = d[i]
    BY <2>2, <2>3
  <2>5. c = d
    BY <2>2, <2>3, <2>4, SeqEqual
  <2> QED
    BY <2>1, <2>5
<1>7. a \o <<>> = a
  BY <1>3, ConcatEmptySeq
<1>8. <<y>> # <<>>
  OBVIOUS
<1> QED
  BY <1>2, <1>6, <1>7, <1>8, Zenon

\* The parser before the index of a command with a chain.
LEMMA ChainRead ==
    ASSUME NEW h, h.tablename # "NAME_NONE", h.actionType # "TYPE_NONE",
           NEW o \in {"-A", "-D", "-R", "-I", "-P"}, CommandArgs(h) = <<Opt(o)>>,
           NEW c, c = ReadFrom(AfterCommand(h), ChainArgs(h.actionType))
    PROVE  /\ Bare(c) /\ c.want = WantAfter(o) /\ c.last = o /\ c.command = {CommandOf[o]}
           /\ c.chain = h.actionType /\ c.table = h.tablename
           /\ c.options = {} /\ c.jumpto = None
<1>1. PICK a : a = ReadFrom(Start, <<Opt("-t"), Word(h.tablename)>>)
  OBVIOUS
<1>2. /\ Bare(a) /\ a.want = "none" /\ a.command = {} /\ a.table = h.tablename
      /\ a.options = {} /\ a.jumpto = None
  BY <1>1, TableReads
<1>3. TableArgs(h.tablename) = <<Opt("-t"), Word(h.tablename)>>
  BY DEF TableArgs
<1>4. PICK b : b = Read(a, Opt(o))
  OBVIOUS
<1>5. AfterCommand(h) = b
  <2>1. ReadFrom(a, <<Opt(o)>>) = b
    BY <1>4, ReadOne
  <2> QED
    BY <1>1, <1>3, <2>1 DEF AfterCommand
<1>6. /\ Bare(b) /\ b.want = o /\ b.last = o /\ b.command = {CommandOf[o]}
      /\ b.table = a.table /\ b.options = a.options /\ b.jumpto = a.jumpto
  BY <1>2, <1>4, CommandReads
<1>7. PICK d : d = Read(b, Word(h.actionType))
  OBVIOUS
<1>8. c = d
  <2>1. ReadFrom(b, <<Word(h.actionType)>>) = d
    BY <1>7, ReadOne
  <2> QED
    BY <1>5, <2>1 DEF ChainArgs
<1>9. /\ Bare(d) /\ d.want = WantAfter(o) /\ d.last = o /\ d.command = b.command
      /\ d.chain = h.actionType /\ d.table = b.table /\ d.options = b.options
      /\ d.jumpto = b.jumpto
  BY <1>6, <1>7, ChainReads
<1> QED
  BY <1>2, <1>6, <1>8, <1>9

\* A request's rule in the terms of the command line.
LineRule(h, f) ==
    /\ f.match = HeadMatch(h.table.head)
    /\ f.jumpto = IF h.table.actionDesc = "DESC_NONE" THEN None ELSE h.table.actionDesc

LinePlace(h, f) == f.exit = FALSE /\ f.table = h.tablename /\ f.chain = h.actionType

TargetDone(h, p, f) ==
    LineRule(h, f) /\ LinePlace(h, f) /\ f.command = p.command /\ f.rulenum = p.rulenum

TargetReady(h, p) ==
    /\ h.command \in {"APPEND", "DELETE"} /\ (h.command = "DELETE" => h.index = 0)
    /\ p = AfterIndex(h) /\ Bare(p) /\ p.options = {} /\ p.chain = h.actionType /\ p.table = h.tablename
    /\ p.want = "none" \/ (p.want = "num?" /\ p.last # "-I")

\* What do_command4 makes of the target and the header.
LEMMA TargetFinish ==
    ASSUME NEW h, NEW p, TargetReady(h, p), NEW f, f = do_command4(to_argv(h)), f.exit # TRUE
    PROVE  TargetDone(h, p, f)
<1>1. PICK d, v : d = h.table.actionDesc /\ v = TargetArgs(h)
  OBVIOUS
<1>2. v = IF d = "DESC_NONE" THEN <<Opt("-j")>> ELSE <<Opt("-j"), Word(d)>>
  <2>1. TargetArgs(h) = <<Opt("-j")>> \o (IF d = "DESC_NONE" THEN <<>> ELSE <<Word(d)>>)
    <3>1. h.command # "SET_POLICY" /\ h.command \in {"APPEND", "DELETE"}
      BY DEF TargetReady
    <3> QED
      BY <1>1, <3>1, Zenon DEF TargetArgs
  <2>2. PICK x, y : x = Opt("-j") /\ y = Word(d)
    OBVIOUS
  <2>3. <<x>> \o <<>> = <<x>> /\ <<x>> \o <<y>> = <<x, y>>
    BY PairJoin
  <2> QED
    BY <1>1, <2>1, <2>2, <2>3
<1>3. f = Finish(ReadFrom(ReadFrom(p, v), HeadArgs(h.table.head)))
  <2>1. h.command # "CLEAN" /\ ~(h.command = "DELETE" /\ h.index > 0)
    BY DEF TargetReady
  <2>2. ReadAll(to_argv(h)) = ReadFrom(AfterTarget(h), HeadArgs(h.table.head))
    BY <2>1, ArgvReads
  <2> QED
    BY <1>1, <2>2 DEF do_command4, AfterTarget, TargetReady
<1>4. TargetLine(p, d, h.table.head, f)
  <2>1. Bare(p) /\ p.options = {}
    BY DEF TargetReady
  <2>2. p.want = "none" \/ (p.want = "num?" /\ p.last # "-I")
    BY DEF TargetReady
  <2> QED
    BY <1>2, <1>3, <2>1, <2>2, LineWithTarget
<1> QED
  BY <1>1, <1>4 DEF TargetLine, LineRule, LinePlace, TargetDone, TargetReady

\* -A
LEMMA AppendLine ==
    ASSUME NEW h, h.command = "APPEND", h.table.priority = 0, h.index = 0,
           h.tablename # "NAME_NONE", h.actionType # "TYPE_NONE",
           NEW f, f = do_command4(to_argv(h)), f.exit # TRUE
    PROVE  LineRule(h, f) /\ LinePlace(h, f) /\ f.command = {"APPEND"}
<1>1. CommandArgs(h) = <<Opt("-A")>>
  BY DEF CommandArgs
<1>2. PICK c : c = ReadFrom(AfterCommand(h), ChainArgs(h.actionType))
  OBVIOUS
<1>3. /\ Bare(c) /\ c.want = WantAfter("-A") /\ c.last = "-A" /\ c.command = {CommandOf["-A"]}
      /\ c.chain = h.actionType /\ c.table = h.tablename /\ c.options = {}
  BY <1>1, <1>2, ChainRead
<1>4. AfterIndex(h) = c
  <2>1. IndexArgs(h.index) = <<>>
    BY DEF IndexArgs
  <2> QED
    BY <1>2, <2>1, ReadNothing DEF AfterIndex
<1>5. c.want = "none" /\ c.command = {"APPEND"}
  BY <1>3, OptionTables
<1>6. h.command \in {"APPEND", "DELETE"} /\ (h.command = "DELETE" => h.index = 0)
  OBVIOUS
<1>7. TargetDone(h, c, f)
  <2>1. c = AfterIndex(h) /\ Bare(c) /\ c.options = {} /\ c.chain = h.actionType /\ c.table = h.tablename
    BY <1>3, <1>4, <1>5, <1>6, <1>2
  <2>2. c.want = "none" \/ (c.want = "num?" /\ c.last # "-I")
    BY <1>3, <1>4, <1>5, <1>6, <1>2
  <2>3. h.command \in {"APPEND", "DELETE"}
    BY <1>3, <1>4, <1>5, <1>6, <1>2
  <2>4. h.command = "DELETE" => h.index = 0
    BY <1>3, <1>4, <1>5, <1>6, <1>2
  <2>5. TargetReady(h, c)
    BY <2>1, <2>2, <2>3, <2>4 DEF TargetReady
  <2> QED
    BY <2>5, TargetFinish
<1> QED
  BY <1>3, <1>4, <1>5, <1>7 DEF TargetDone

\* -D chain rule
LEMMA DeleteLine ==
    ASSUME NEW h, h.command = "DELETE", h.index = 0,
           h.tablename # "NAME_NONE", h.actionType # "TYPE_NONE",
           NEW f, f = do_command4(to_argv(h)), f.exit # TRUE
    PROVE  LineRule(h, f) /\ LinePlace(h, f) /\ f.command = {"DELETE"}
<1>1. CommandArgs(h) = <<Opt("-D")>>
  BY DEF CommandArgs
<1>2. PICK c : c = ReadFrom(AfterCommand(h), ChainArgs(h.actionType))
  OBVIOUS
<1>3. /\ Bare(c) /\ c.want = WantAfter("-D") /\ c.last = "-D" /\ c.command = {CommandOf["-D"]}
      /\ c.chain = h.actionType /\ c.table = h.tablename /\ c.options = {}
  BY <1>1, <1>2, ChainRead
<1>4. AfterIndex(h) = c
  <2>1. IndexArgs(h.index) = <<>>
    BY DEF IndexArgs
  <2> QED
    BY <1>2, <2>1, ReadNothing DEF AfterIndex
<1>5. c.want = "num?" /\ c.last # "-I" /\ c.command = {"DELETE"}
  BY <1>3, OptionTables
<1>6. h.command \in {"APPEND", "DELETE"} /\ (h.command = "DELETE" => h.index = 0)
  OBVIOUS
<1>7. TargetDone(h, c, f)
  <2>1. c = AfterIndex(h) /\ Bare(c) /\ c.options = {} /\ c.chain = h.actionType /\ c.table = h.tablename
    BY <1>3, <1>4, <1>5, <1>6, <1>2
  <2>2. c.want = "none" \/ (c.want = "num?" /\ c.last # "-I")
    BY <1>3, <1>4, <1>5, <1>6, <1>2
  <2>3. h.command \in {"APPEND", "DELETE"}
    BY <1>3, <1>4, <1>5, <1>6, <1>2
  <2>4. h.command = "DELETE" => h.index = 0
    BY <1>3, <1>4, <1>5, <1>6, <1>2
  <2>5. TargetReady(h, c)
    BY <2>1, <2>2, <2>3, <2>4 DEF TargetReady
  <2> QED
    BY <2>5, TargetFinish
<1> QED
  BY <1>3, <1>4, <1>5, <1>7 DEF TargetDone

\* The parser behind a rule number.
LEMMA PlaceRead ==
    ASSUME NEW h, h.tablename # "NAME_NONE", h.actionType # "TYPE_NONE", h.index \in Int, h.index > 0,
           NEW o \in {"-D", "-R", "-I"}, CommandArgs(h) = <<Opt(o)>>,
           NEW r, r = AfterIndex(h)
    PROVE  /\ Bare(r) /\ r.want = "none" /\ r.rulenum = h.index /\ r.chain = h.actionType
           /\ r.command = IF o = "-D" THEN {"DELETE_NUM"} ELSE {CommandOf[o]}
           /\ r.table = h.tablename /\ r.options = {} /\ r.jumpto = None
<1>1. PICK c : c = ReadFrom(AfterCommand(h), ChainArgs(h.actionType))
  OBVIOUS
<1>2. /\ Bare(c) /\ c.want = WantAfter(o) /\ c.last = o /\ c.command = {CommandOf[o]}
      /\ c.chain = h.actionType /\ c.table = h.tablename /\ c.options = {} /\ c.jumpto = None
  BY <1>1, ChainRead
<1>3. c.want \in {"num?", "num!"}
  BY <1>2, OptionTables
<1>4. r = Read(c, Num(h.index))
  <2>1. IndexArgs(h.index) = <<Num(h.index)>>
    BY DEF IndexArgs
  <2>2. ReadFrom(c, <<Num(h.index)>>) = Read(c, Num(h.index))
    BY ReadOne
  <2> QED
    BY <1>1, <2>1, <2>2 DEF AfterIndex
<1> QED
  BY <1>2, <1>3, <1>4, NumberReads

\* -I chain number
LEMMA InsertLine ==
    ASSUME NEW h, h.command = "APPEND", h.table.priority # 0, h.index \in Int, h.index > 0,
           h.tablename # "NAME_NONE", h.actionType # "TYPE_NONE",
           NEW f, f = do_command4(to_argv(h)), f.exit # TRUE
    PROVE  LineRule(h, f) /\ LinePlace(h, f) /\ f.command = {"INSERT"} /\ f.rulenum = h.index
<1>1. CommandArgs(h) = <<Opt("-I")>>
  BY DEF CommandArgs
<1>2. PICK r : r = AfterIndex(h)
  OBVIOUS
<1>3. /\ Bare(r) /\ r.want = "none" /\ r.rulenum = h.index /\ r.chain = h.actionType
      /\ r.command = {CommandOf["-I"]} /\ r.table = h.tablename /\ r.options = {}
  BY <1>1, <1>2, PlaceRead
<1>4. r.command = {"INSERT"}
  BY <1>3, OptionTables
<1>5. h.command \in {"APPEND", "DELETE"} /\ (h.command = "DELETE" => h.index = 0)
  OBVIOUS
<1>7. TargetDone(h, r, f)
  <2>1. r = AfterIndex(h) /\ Bare(r) /\ r.options = {} /\ r.chain = h.actionType /\ r.table = h.tablename
    BY <1>2, <1>3, <1>4, <1>5
  <2>2. r.want = "none" \/ (r.want = "num?" /\ r.last # "-I")
    BY <1>2, <1>3, <1>4, <1>5
  <2>3. h.command \in {"APPEND", "DELETE"}
    BY <1>2, <1>3, <1>4, <1>5
  <2>4. h.command = "DELETE" => h.index = 0
    BY <1>2, <1>3, <1>4, <1>5
  <2>5. TargetReady(h, r)
    BY <2>1, <2>2, <2>3, <2>4 DEF TargetReady
  <2> QED
    BY <2>5, TargetFinish
<1> QED
  BY <1>3, <1>4, <1>5, <1>7 DEF TargetDone

\* -R chain number
LEMMA ReplaceLine ==
    ASSUME NEW h, h.command = "ALTER", h.index \in Int, h.index > 0,
           h.tablename # "NAME_NONE", h.actionType # "TYPE_NONE",
           NEW f, f = do_command4(to_argv(h)), f.exit # TRUE
    PROVE  LineRule(h, f) /\ LinePlace(h, f) /\ f.command = {"REPLACE"} /\ f.rulenum = h.index
<1>1. CommandArgs(h) = <<Opt("-R")>>
  BY DEF CommandArgs
<1>2. PICK r : r = AfterIndex(h)
  OBVIOUS
<1>3. /\ Bare(r) /\ r.want = "none" /\ r.rulenum = h.index /\ r.chain = h.actionType
      /\ r.command = {CommandOf["-R"]} /\ r.table = h.tablename /\ r.options = {}
      /\ r.jumpto = None
  BY <1>1, <1>2, PlaceRead
<1>4. r.command = {"REPLACE"}
  BY <1>3, OptionTables
<1>5. PICK d, v : d = h.table.actionDesc /\ v = TargetArgs(h)
  OBVIOUS
<1>6. f = Finish(ReadFrom(ReadFrom(r, v), HeadArgs(h.table.head)))
  BY <1>2, <1>5, ArgvReads DEF do_command4, AfterTarget
<1>7. CASE d = "DESC_NONE"
  <2>1. v = <<>>
    BY <1>5, <1>7 DEF TargetArgs
  <2>2. ReadFrom(r, v) = r
    BY <2>1, ReadNothing
  <2>3. HeadLine(r, h.table.head, f)
    BY <1>3, <1>6, <2>2, LineWithHead
  <2> QED
    BY <1>3, <1>4, <1>5, <1>7, <2>3 DEF HeadLine, LineRule, LinePlace
<1>8. CASE d # "DESC_NONE"
  <2>1. v = <<Opt("-j"), Word(d)>>
    <3>1. PICK x, y : x = Opt("-j") /\ y = Word(d)
      OBVIOUS
    <3>2. <<x>> \o <<y>> = <<x, y>> /\ <<y>> # <<>>
      BY PairJoin
    <3>3. h.command # "SET_POLICY" /\ h.command \notin {"APPEND", "DELETE"}
      OBVIOUS
    <3>4. (IF d = "DESC_NONE" THEN <<>> ELSE <<Word(d)>>) = <<y>>
      BY <1>8, <3>1
    <3>5. v = <<Opt("-j")>> \o (IF d = "DESC_NONE" THEN <<>> ELSE <<Word(d)>>)
      BY <1>5, <3>2, <3>3, <3>4, Zenon DEF TargetArgs
    <3> QED
      BY <3>1, <3>2, <3>4, <3>5
  <2>2. v = IF d = "DESC_NONE" THEN <<Opt("-j")>> ELSE <<Opt("-j"), Word(d)>>
    BY <1>8, <2>1
  <2>3. TargetLine(r, d, h.table.head, f)
    BY <1>3, <1>6, <2>2, LineWithTarget
  <2> QED
    BY <1>3, <1>4, <1>5, <1>8, <2>3 DEF TargetLine, LineRule, LinePlace
<1> QED
  BY <1>7, <1>8

\* -D chain number
LEMMA DeleteNumLine ==
    ASSUME NEW h, h.command = "DELETE", h.index \in Int, h.index > 0,
           h.tablename # "NAME_NONE", h.actionType # "TYPE_NONE",
           NEW f, f = do_command4(to_argv(h)), f.exit # TRUE
    PROVE  LinePlace(h, f) /\ f.command = {"DELETE_NUM"} /\ f.rulenum = h.index
<1>1. CommandArgs(h) = <<Opt("-D")>>
  BY DEF CommandArgs
<1>2. PICK r : r = AfterIndex(h)
  OBVIOUS
<1>3. /\ Bare(r) /\ r.want = "none" /\ r.rulenum = h.index /\ r.chain = h.actionType
      /\ r.command = {"DELETE_NUM"} /\ r.table = h.tablename
  BY <1>1, <1>2, PlaceRead
<1>4. f = Finish(r)
  BY <1>2, ArgvReads DEF do_command4
<1>5. IsParser(r) /\ r.exit \in BOOLEAN
  BY <1>3 DEF Bare
<1>6. r.exit = FALSE => r.want \in {"none", "num?", "chain?"}
  BY <1>3
<1>7. Accepted(r, f)
  BY <1>4, <1>5, <1>6, FinishIs
<1> QED
  BY <1>3, <1>7 DEF Accepted, LinePlace

\* -F
LEMMA FlushLine ==
    ASSUME NEW h, h.command = "CLEAN", h.tablename # "NAME_NONE",
           NEW f, f = do_command4(to_argv(h)), f.exit # TRUE
    PROVE  f.exit = FALSE /\ f.command = {"FLUSH"} /\ f.table = h.tablename
<1>1. PICK a : a = ReadFrom(Start, <<Opt("-t"), Word(h.tablename)>>)
  OBVIOUS
<1>2. Bare(a) /\ a.want = "none" /\ a.command = {} /\ a.table = h.tablename
  BY <1>1, TableReads
<1>3. PICK r : r = Read(a, Opt("-F"))
  OBVIOUS
<1>4. AfterCommand(h) = r
  <2>1. TableArgs(h.tablename) = <<Opt("-t"), Word(h.tablename)>>
    BY DEF TableArgs
  <2>2. CommandArgs(h) = <<Opt("-F")>>
    BY DEF CommandArgs
  <2>3. ReadFrom(a, <<Opt("-F")>>) = r
    BY <1>3, ReadOne
  <2> QED
    BY <1>1, <2>1, <2>2, <2>3 DEF AfterCommand
<1>5. Bare(r) /\ r.want = "chain?" /\ r.command = {"FLUSH"} /\ r.table = h.tablename
  BY <1>2, <1>3, FlushReads
<1>6. f = Finish(r)
  BY <1>4, ArgvReads DEF do_command4
<1>7. IsParser(r) /\ r.exit \in BOOLEAN
  BY <1>5 DEF Bare
<1>8. r.exit = FALSE => r.want \in {"none", "num?", "chain?"}
  BY <1>5
<1>9. Accepted(r, f)
  BY <1>6, <1>7, <1>8, FinishIs
<1> QED
  BY <1>5, <1>9 DEF Accepted

\* After a word that nothing asks for no line is accepted, whatever follows.
LEMMA StrayLine ==
    ASSUME NEW p, Bare(p), p.want = "none", NEW w, w.kind = "word", NEW header
    PROVE  Finish(ReadFrom(Read(p, w), HeadArgs(header))).exit = TRUE
<1>1. PICK r : r = Read(p, w)
  OBVIOUS
<1>2. r.exit = TRUE /\ IsParser(r)
  BY <1>1, StrayReads
<1>3. PICK S : HeadArgs(header) \in Seq(S)
  BY HeadSet
<1>4. ReadFrom(r, HeadArgs(header)) = r
  <2>1. Len(HeadArgs(header)) \in Nat
    BY <1>3, LenProperties
  <2> QED
    BY <1>2, <2>1, ExitStays
<1>5. CASE Finish(r).exit # TRUE
  <2>1. PICK f : f = Finish(r)
    OBVIOUS
  <2>2. r.exit \in BOOLEAN
    BY <1>2
  <2>3. r.exit = FALSE => r.want \in {"none", "num?", "chain?"}
    BY <1>2
  <2>4. f.exit # TRUE
    BY <1>5, <2>1
  <2>5. Accepted(r, f)
    BY <1>2, <2>1, <2>2, <2>3, <2>4, FinishIs
  <2> QED
    BY <1>2, <2>5 DEF Accepted
<1> QED
  BY <1>1, <1>4, <1>5

\* -P
LEMMA PolicyLine ==
    ASSUME NEW h, h.command = "SET_POLICY", h.table.actionDesc # "DESC_NONE", h.index \in Int,
           h.tablename # "NAME_NONE", h.actionType # "TYPE_NONE",
           NEW f, f = do_command4(to_argv(h)), f.exit # TRUE
    PROVE  /\ LinePlace(h, f) /\ f.command = {"SET_POLICY"} /\ f.policy = h.table.actionDesc
           /\ h.table.head.proto \notin {"TCP", "UDP"}
<1>1. CommandArgs(h) = <<Opt("-P")>>
  BY DEF CommandArgs
<1>2. PICK c : c = ReadFrom(AfterCommand(h), ChainArgs(h.actionType))
  OBVIOUS
<1>3. /\ Bare(c) /\ c.want = WantAfter("-P") /\ c.last = "-P" /\ c.command = {CommandOf["-P"]}
      /\ c.chain = h.actionType /\ c.table = h.tablename /\ c.options = {}
  BY <1>1, <1>2, ChainRead
<1>4. c.want = "policy!" /\ c.command = {"SET_POLICY"}
  BY <1>3, OptionTables
<1>5. PICK w : w = Word(h.table.actionDesc)
  OBVIOUS
<1>6. w.kind = "word" /\ w.text = h.table.actionDesc
  BY <1>5, ArgumentFields
<1>7. TargetArgs(h) = <<w>>
  BY <1>5 DEF TargetArgs
<1>8. f = Finish(ReadFrom(ReadFrom(AfterIndex(h), <<w>>), HeadArgs(h.table.head)))
  BY <1>7, ArgvReads DEF do_command4, AfterTarget
<1>9. ReadFrom(AfterIndex(h), <<w>>) = Read(AfterIndex(h), w)
  BY ReadOne
<1>10. CASE h.index > 0
  <2>1. IndexArgs(h.index) = <<Num(h.index)>>
    BY <1>10 DEF IndexArgs
  <2>2. PICK n : n = Num(h.index)
    OBVIOUS
  <2>3. n.kind = "word"
    BY <2>2, NumFields
  <2>4. PICK r : r = Read(c, n)
    OBVIOUS
  <2>5. AfterIndex(h) = r
    <3>1. ReadFrom(c, <<n>>) = r
      BY <2>4, ReadOne
    <3> QED
      BY <1>2, <2>1, <2>2, <3>1 DEF AfterIndex
  <2>6. Bare(r) /\ r.want = "none"
    BY <1>3, <1>4, <2>3, <2>4, PolicyReads
  <2>7. Finish(ReadFrom(Read(r, w), HeadArgs(h.table.head))).exit = TRUE
    BY <1>6, <2>6, StrayLine
  <2> QED
    BY <1>8, <1>9, <2>5, <2>7
<1>11. CASE ~(h.index > 0)
  <2>1. AfterIndex(h) = c
    <3>1. IndexArgs(h.index) = <<>>
      BY <1>11 DEF IndexArgs
    <3> QED
      BY <1>2, <3>1, ReadNothing DEF AfterIndex
  <2>2. PICK r : r = Read(c, w)
    OBVIOUS
  <2>3. /\ Bare(r) /\ r.want = "none" /\ r.policy = w.text /\ r.chain = c.chain
        /\ r.command = c.command /\ r.table = c.table
    BY <1>3, <1>4, <1>6, <2>2, PolicyReads
  <2>4. f = Finish(ReadFrom(r, HeadArgs(h.table.head)))
    BY <1>8, <1>9, <2>1, <2>2
  <2>5. HeadLine(r, h.table.head, f)
    BY <2>3, <2>4, LineWithHead
  <2> QED
    BY <1>3, <1>4, <1>6, <2>3, <2>5 DEF HeadLine, LinePlace
<1> QED
  BY <1>10, <1>11

\* A request for all rules is no command of the tool.
LEMMA AllLine ==
    ASSUME NEW h, h.command = "ALLIN", h.index \in Int
    PROVE  do_command4(to_argv(h)).exit = TRUE
<1>1. PICK a : a = ReadFrom(Start, TableArgs(h.tablename))
  OBVIOUS
<1>2. Bare(a) /\ a.want = "none" /\ a.command = {}
  <2>1. CASE h.tablename = "NAME_NONE"
    <3>1. a = Start
      BY <1>1, <2>1, ReadNothing DEF TableArgs
    <3> QED
      BY <3>1, StartIs DEF Bare
  <2>2. CASE h.tablename # "NAME_NONE"
    <3>1. a = ReadFrom(Start, <<Opt("-t"), Word(h.tablename)>>)
      BY <1>1, <2>2 DEF TableArgs
    <3> QED
      BY <3>1, TableReads
  <2> QED
    BY <2>1, <2>2
<1>3. AfterCommand(h) = a
  <2>1. CommandArgs(h) = <<>>
    BY DEF CommandArgs
  <2> QED
    BY <1>1, <2>1, ReadNothing DEF AfterCommand
<1>4. AfterTarget(h) = AfterIndex(h)
  <2>1. TargetArgs(h) = <<>>
    BY DEF TargetArgs
  <2> QED
    BY <2>1, ReadNothing DEF AfterTarget
<1>5. do_command4(to_argv(h)) = Finish(ReadFrom(AfterIndex(h), HeadArgs(h.table.head)))
  BY <1>4, ArgvReads DEF do_command4
<1>6. CASE h.actionType = "TYPE_NONE" /\ ~(h.index > 0)
  <2>1. AfterIndex(h) = a
    <3>1. ChainArgs(h.actionType) = <<>> /\ IndexArgs(h.index) = <<>>
      BY <1>6 DEF ChainArgs, IndexArgs
    <3> QED
      BY <1>3, <3>1, ReadNothing DEF AfterIndex
  <2>2. PICK f : f = Finish(ReadFrom(a, HeadArgs(h.table.head)))
    OBVIOUS
  <2>3. CASE f.exit # TRUE
    <3>1. HeadLine(a, h.table.head, f)
      BY <1>2, <2>2, <2>3, LineWithHead
    <3> QED
      BY <1>2, <3>1 DEF HeadLine
  <2> QED
    BY <1>5, <2>1, <2>2, <2>3
<1>7. CASE h.actionType = "TYPE_NONE" /\ h.index > 0
  <2>1. PICK n : n = Num(h.index)
    OBVIOUS
  <2>2. AfterIndex(h) = Read(a, n)
    <3>1. ChainArgs(h.actionType) = <<>> /\ IndexArgs(h.index) = <<n>>
      BY <1>7, <2>1 DEF ChainArgs, IndexArgs
    <3> QED
      BY <1>3, <3>1, ReadNothing, ReadOne DEF AfterIndex
  <2>3. n.kind = "word"
    BY <2>1, NumFields
  <2>4. Bare(a) /\ a.want = "none"
    BY <1>2
  <2>5. Finish(ReadFrom(Read(a, n), HeadArgs(h.table.head))).exit = TRUE
    BY <2>3, <2>4, StrayLine
  <2> QED
    BY <1>5, <2>2, <2>5
<1>8. CASE h.actionType # "TYPE_NONE"
  <2>1. PICK w : w = Word(h.actionType)
    OBVIOUS
  <2>2. PICK r : r = Read(a, w)
    OBVIOUS
  <2>3. ReadFrom(AfterCommand(h), ChainArgs(h.actionType)) = r
    <3>1. ChainArgs(h.actionType) = <<w>>
      BY <1>8, <2>1 DEF ChainArgs
    <3> QED
      BY <1>3, <2>2, <3>1, ReadOne
  <2>4. w.kind = "word"
    BY <2>1, ArgumentFields
  <2>5. r.exit = TRUE /\ IsParser(r)
    BY <1>2, <2>2, <2>4, StrayReads
  <2>6. AfterIndex(h) = r
    <3>1. \E S : IndexArgs(h.index) \in Seq(S)
      BY WordsSet DEF WordsIn
    <3>2. Len(IndexArgs(h.index)) \in Nat
      BY <3>1, LenProperties
    <3>3. ReadFrom(r, IndexArgs(h.index)) = r
      BY <2>5, <3>2, ExitStays
    <3> QED
      BY <2>3, <3>3 DEF AfterIndex
  <2>7. Bare(a) /\ a.want = "none"
    BY <1>2
  <2>8. Finish(ReadFrom(Read(a, w), HeadArgs(h.table.head))).exit = TRUE
    BY <2>4, <2>7, StrayLine
  <2> QED
    BY <1>5, <2>2, <2>6, <2>8
<1> QED
  BY <1>6, <1>7, <1>8

-----------------------------------------------------------------------------
(* The image of the mirror in the kernel.                                  *)

Images(s) == [i \in 1 .. Len(s) |-> ImageOf(s[i])]

ImageType == {ImageOf(e) : e \in Entry}

\* The images of rules, one by one.
LEMMA ImagesFacts ==
    ASSUME NEW s \in Seq(Entry)
    PROVE  /\ Images(s) \in Seq(ImageType) /\ Len(Images(s)) = Len(s) /\ Len(s) \in Nat
           /\ \A i \in 1 .. Len(s) : Images(s)[i] = ImageOf(s[i])
<1>1. Len(s) \in Nat
  BY LenProperties
<1>2. \A i \in 1 .. Len(s) : ImageOf(s[i]) \in ImageType
  BY ElementOfSeq DEF ImageType
<1>3. Images(s) \in [1 .. Len(s) -> ImageType]
  BY <1>2 DEF Images
<1>4. Images(s) \in Seq(ImageType) /\ Len(Images(s)) = Len(s)
  BY <1>1, <1>3
<1> QED
  BY <1>1, <1>4 DEF Images

\* A rule put in is an image put in, ...
LEMMA ImagesInsert ==
    ASSUME NEW s \in Seq(Entry), NEW k \in 1 .. Len(s) + 1, NEW e \in Entry
    PROVE  Images(InsertAt(s, k, e)) = InsertAt(Images(s), k, ImageOf(e))
<1>1. PICK a, m : a = InsertAt(s, k, e) /\ m = Images(s)
  OBVIOUS
<1>2. a \in Seq(Entry) /\ Inserts(s, k, e, a)
  BY <1>1, InsertAtInserts
<1>3. /\ m \in Seq(ImageType) /\ Len(m) = Len(s) /\ Len(s) \in Nat
      /\ \A i \in 1 .. Len(s) : m[i] = ImageOf(s[i])
  BY <1>1, ImagesFacts
<1>4. PICK b : b = InsertAt(m, k, ImageOf(e))
  OBVIOUS
<1>5. b \in Seq(ImageType) /\ Inserts(m, k, ImageOf(e), b)
  <2>1. k \in 1 .. Len(m) + 1 /\ ImageOf(e) \in ImageType
    BY <1>3 DEF ImageType
  <2> QED
    BY <1>3, <1>4, <2>1, InsertAtInserts
<1>6. PICK c : c = Images(a)
  OBVIOUS
<1>7. /\ c \in Seq(ImageType) /\ Len(c) = Len(a)
      /\ \A i \in 1 .. Len(a) : c[i] = ImageOf(a[i])
  BY <1>2, <1>6, ImagesFacts
<1>8. Len(c) = Len(b)
  BY <1>2, <1>3, <1>5, <1>7 DEF Inserts
<1>9. ASSUME NEW i \in 1 .. Len(c) PROVE c[i] = b[i]
  <2>1. i \in 1 .. Len(s) + 1 /\ i \in 1 .. Len(m) + 1 /\ c[i] = ImageOf(a[i])
    BY <1>2, <1>3, <1>7 DEF Inserts
  <2>2. a[i] = IF i < k THEN s[i] ELSE IF i = k THEN e ELSE s[i - 1]
    BY <1>2, <2>1 DEF Inserts
  <2>3. b[i] = IF i < k THEN m[i] ELSE IF i = k THEN ImageOf(e) ELSE m[i - 1]
    BY <1>5, <2>1 DEF Inserts
  <2>4. (i < k => i \in 1 .. Len(s)) /\ (i # k /\ ~(i < k) => i - 1 \in 1 .. Len(s))
    BY <1>3, <2>1
  <2> QED
    BY <1>3, <2>1, <2>2, <2>3, <2>4
<1>10. c = b
  BY <1>5, <1>7, <1>8, <1>9, SeqEqual
<1> QED
  BY <1>1, <1>4, <1>6, <1>10

\* ... at the end appended, ...
LEMMA ImagesAppend ==
    ASSUME NEW s \in Seq(Entry), NEW e \in Entry
    PROVE  Images(InsertAt(s, Len(s) + 1, e)) = Append(Images(s), ImageOf(e))
<1>1. PICK k : k = Len(s) + 1
  OBVIOUS
<1>2. PICK a, m : a = InsertAt(s, k, e) /\ m = Images(s)
  OBVIOUS
<1>3. /\ m \in Seq(ImageType) /\ Len(m) = Len(s) /\ Len(s) \in Nat
  BY <1>2, ImagesFacts
<1>4. k \in 1 .. Len(s) + 1 /\ k \in 1 .. Len(m) + 1
  BY <1>1, <1>3
<1>5. PICK x : x = ImageOf(e)
  OBVIOUS
<1>6. x \in ImageType
  BY <1>5 DEF ImageType
<1>7. PICK b : b = InsertAt(m, k, x)
  OBVIOUS
<1>8. b \in Seq(ImageType) /\ Inserts(m, k, x, b)
  BY <1>3, <1>4, <1>6, <1>7, InsertAtInserts
<1>9. PICK c : c = Append(m, x)
  OBVIOUS
<1>10. c \in Seq(ImageType) /\ Len(c) = Len(m) + 1
       /\ \A i \in 1 .. Len(m) + 1 : c[i] = IF i <= Len(m) THEN m[i] ELSE x
  BY <1>3, <1>6, <1>9, AppendProperties
<1>11. ASSUME NEW i \in 1 .. Len(b) PROVE b[i] = c[i]
  BY <1>1, <1>3, <1>8, <1>10 DEF Inserts
<1>12. b = c
  BY <1>8, <1>10, <1>11, SeqEqual DEF Inserts
<1>13. Images(a) = b
  BY <1>2, <1>4, <1>5, <1>7, ImagesInsert
<1> QED
  BY <1>1, <1>2, <1>5, <1>9, <1>12, <1>13

\* ... a rule taken out an image taken out, ...
LEMMA ImagesRemove ==
    ASSUME NEW s \in Seq(Entry), NEW k \in 1 .. Len(s)
    PROVE  Images(RemoveAt(s, k)) = RemoveAt(Images(s), k)
<1>1. PICK a, m : a = RemoveAt(s, k) /\ m = Images(s)
  OBVIOUS
<1>2. /\ a \in Seq(Entry) /\ Len(a) = Len(s) - 1
      /\ \A i \in 1 .. Len(s) - 1 : a[i] = IF i < k THEN s[i] ELSE s[i + 1]
  BY <1>1, RemoveAtProperties
<1>3. /\ m \in Seq(ImageType) /\ Len(m) = Len(s) /\ Len(s) \in Nat
      /\ \A i \in 1 .. Len(s) : m[i] = ImageOf(s[i])
  BY <1>1, ImagesFacts
<1>4. PICK b : b = RemoveAt(m, k)
  OBVIOUS
<1>5. /\ b \in Seq(ImageType) /\ Len(b) = Len(m) - 1
      /\ \A i \in 1 .. Len(m) - 1 : b[i] = IF i < k THEN m[i] ELSE m[i + 1]
  <2>1. k \in 1 .. Len(m)
    BY <1>3
  <2> QED
    BY <1>3, <1>4, <2>1, RemoveAtProperties
<1>6. PICK c : c = Images(a)
  OBVIOUS
<1>7. /\ c \in Seq(ImageType) /\ Len(c) = Len(a)
      /\ \A i \in 1 .. Len(a) : c[i] = ImageOf(a[i])
  BY <1>2, <1>6, ImagesFacts
<1>8. Len(c) = Len(b)
  BY <1>2, <1>3, <1>5, <1>7
<1>9. ASSUME NEW i \in 1 .. Len(c) PROVE c[i] = b[i]
  <2>1. i \in 1 .. Len(s) - 1 /\ i \in 1 .. Len(m) - 1 /\ c[i] = ImageOf(a[i])
    BY <1>2, <1>3, <1>7
  <2>2. a[i] = IF i < k THEN s[i] ELSE s[i + 1]
    BY <1>2, <2>1
  <2>3. b[i] = IF i < k THEN m[i] ELSE m[i + 1]
    BY <1>5, <2>1
  <2>4. i \in 1 .. Len(s) /\ i + 1 \in 1 .. Len(s)
    BY <1>3, <2>1
  <2> QED
    BY <1>3, <2>1, <2>2, <2>3, <2>4
<1>10. c = b
  BY <1>5, <1>7, <1>8, <1>9, SeqEqual
<1> QED
  BY <1>1, <1>4, <1>6, <1>10

\* ... and a rule replaced an image replaced.
LEMMA ImagesReplace ==
    ASSUME NEW s \in Seq(Entry), NEW k \in 1 .. Len(s), NEW e \in Entry
    PROVE  Images(ReplaceAt(s, k, e)) = ReplaceAt(Images(s), k, ImageOf(e))
<1>1. PICK a, m : a = ReplaceAt(s, k, e) /\ m = Images(s)
  OBVIOUS
<1>2. /\ a \in Seq(Entry) /\ Len(a) = Len(s)
      /\ \A i \in 1 .. Len(s) : a[i] = IF i = k THEN e ELSE s[i]
  BY <1>1, ExceptSeq DEF ReplaceAt
<1>3. /\ m \in Seq(ImageType) /\ Len(m) = Len(s) /\ Len(s) \in Nat
      /\ \A i \in 1 .. Len(s) : m[i] = ImageOf(s[i])
  BY <1>1, ImagesFacts
<1>4. PICK b : b = ReplaceAt(m, k, ImageOf(e))
  OBVIOUS
<1>5. /\ b \in Seq(ImageType) /\ Len(b) = Len(m)
      /\ \A i \in 1 .. Len(m) : b[i] = IF i = k THEN ImageOf(e) ELSE m[i]
  <2>1. k \in 1 .. Len(m) /\ ImageOf(e) \in ImageType
    BY <1>3 DEF ImageType
  <2> QED
    BY <1>3, <1>4, <2>1, ExceptSeq DEF ReplaceAt
<1>6. PICK c : c = Images(a)
  OBVIOUS
<1>7. /\ c \in Seq(ImageType) /\ Len(c) = Len(a)
      /\ \A i \in 1 .. Len(a) : c[i] = ImageOf(a[i])
  BY <1>2, <1>6, ImagesFacts
<1>8. Len(c) = Len(b)
  BY <1>2, <1>3, <1>5, <1>7
<1>9. ASSUME NEW i \in 1 .. Len(c) PROVE c[i] = b[i]
  BY <1>2, <1>3, <1>5, <1>7
<1>10. c = b
  BY <1>5, <1>7, <1>8, <1>9, SeqEqual
<1> QED
  BY <1>1, <1>4, <1>6, <1>10

\* The tables that hold given policies and rules.
KernelOf(pol, rul) == [l \in Lists |-> [policy |-> pol[l], rules |-> Images(rul[l])]]

\* The image of the mirror is that of its chains, ...
LEMMA MirrorIs == IInv => MirrorImage = KernelOf(Pol, Rul)
<1> SUFFICES ASSUME IInv PROVE MirrorImage = KernelOf(Pol, Rul)
  OBVIOUS
<1>1. ASSUME NEW l \in Lists
      PROVE  /\ Last(list[l]).actionDesc = Pol[l]
             /\ [i \in 1 .. Len(list[l]) - 1 |-> ImageOf(list[l][i])] = Images(Rul[l])
  <2>1. PICK s, r : s = list[l] /\ r = Front(s)
    OBVIOUS
  <2>2. Len(r) = Len(s) - 1 /\ \A i \in 1 .. Len(s) - 1 : r[i] = s[i]
    BY <2>1, ListFacts
  <2>3. [i \in 1 .. Len(s) - 1 |-> ImageOf(s[i])] = Images(r)
    <3>1. \A i \in 1 .. Len(s) - 1 : ImageOf(s[i]) = ImageOf(r[i])
      BY <2>2
    <3> QED
      BY <2>2, <3>1 DEF Images
  <2> QED
    BY <2>1, <2>3 DEF Pol, Rul
<1> QED
  BY <1>1 DEF MirrorImage, KernelOf

\* ... and so after a step.
LEMMA MirrorWillBe == IInv' => MirrorImage' = KernelOf(Pol', Rul')
<1>1. (IInv => MirrorImage = KernelOf(Pol, Rul))'
  BY MirrorIs, PTL
<1> QED
  BY <1>1

-----------------------------------------------------------------------------
(* The kernel does what the mirror did.                                    *)

KernelDoes(line) == KernelResults(MirrorImage, line) = {MirrorImage'}

\* A line of one command.
LEMMA OneCommand == \A c : (CHOOSE x \in {c} : TRUE) = c
OBVIOUS

\* A command that changes the rules of one chain.
LEMMA RuleChange ==
    ASSUME IInv, IInv', NEW l \in Lists, NEW r, Rul' = [Rul EXCEPT ![l] = r], Pol' = Pol,
           NEW line, NEW c, line.command = {c}, c \notin {"FLUSH", "SET_POLICY"},
           <<line.table, line.chain>> = l,
           ChainResults(c, Images(Rul[l]), line) = {Images(r)}
    PROVE  KernelDoes(line)
<1>1. PICK k, n : k = MirrorImage /\ n = MirrorImage'
  OBVIOUS
<1>2. k = KernelOf(Pol, Rul) /\ n = KernelOf(Pol', Rul')
  BY <1>1, MirrorIs, MirrorWillBe
<1>3. k[l].rules = Images(Rul[l])
  BY <1>2 DEF KernelOf
<1>4. (CHOOSE x \in line.command : TRUE) = c
  BY OneCommand
<1>5. KernelResults(k, line) = {[k EXCEPT ![l].rules = s] : s \in ChainResults(c, k[l].rules, line)}
  BY <1>4 DEF KernelResults
<1>6. PICK m : m = Images(r)
  OBVIOUS
<1>7. KernelResults(k, line) = {[k EXCEPT ![l].rules = m]}
  BY <1>3, <1>5, <1>6
<1>8. [k EXCEPT ![l].rules = m] = n
  <2>1. Rul = [x \in Lists |-> Rul[x]]
    BY DEF Rul
  <2>2. \A x \in Lists : Rul'[x] = IF x = l THEN r ELSE Rul[x]
    BY <2>1
  <2>3. n = [x \in Lists |-> [policy |-> Pol[x], rules |-> Images(Rul'[x])]]
    BY <1>2 DEF KernelOf
  <2>4. n = [x \in Lists |-> IF x = l THEN [policy |-> Pol[x], rules |-> m]
                             ELSE [policy |-> Pol[x], rules |-> Images(Rul[x])]]
    BY <1>6, <2>2, <2>3
  <2>5. k = [x \in Lists |-> [policy |-> Pol[x], rules |-> Images(Rul[x])]]
    BY <1>2 DEF KernelOf
  <2> QED
    BY <2>4, <2>5
<1> QED
  BY <1>1, <1>7, <1>8 DEF KernelDoes

\* The rule a line specifies is the image of the one requested.
LEMMA SameRule ==
    ASSUME NEW h \in Requests, NEW g, g.table = h.table, NEW line, LineRule(g, line)
    PROVE  RuleOf(line) = ImageOf(h.table)
<1>1. h.table.head \in Heads
  BY RequestsAssumption DEF Handle, Ruletable
<1> QED
  BY <1>1 DEF RuleOf, ImageOf, MatchOf, LineRule

\* The request with what the mirror left in it.
Left(h) == [h EXCEPT !.index = out'.index]

\* The mirror changes no more of a request than its index.
LEMMA LeftIs ==
    ASSUME NEW h \in Requests
    PROVE  /\ Left(h).command = h.command /\ Left(h).table = h.table
           /\ Left(h).tablename = h.tablename /\ Left(h).actionType = h.actionType
           /\ Left(h).index = out'.index
BY RequestsAssumption DEF Left, Handle

\* A request that has a list names a table and a chain.
LEMMA ListNames ==
    ASSUME NEW h, Found(h)
    PROVE  h.tablename # "NAME_NONE" /\ h.actionType # "TYPE_NONE"
BY DEF Found, ListOf, Lists

\* -A or -I puts the rule where the mirror put it, whatever its priority.
LEMMA AppendFollowed ==
    ASSUME IInv, IInv', NEW h \in Requests, do_append(h), ~Refuse(h),
           NEW line, line = do_command4(to_argv(Left(h))), line.exit # TRUE
    PROVE  KernelDoes(line)
<1>1. h \in Handle
  BY RequestsAssumption
<1>2. PICK l : l = ListOf(h)
  OBVIOUS
<1>3. PICK k \in Nat : Placed(h, l, k)
  BY <1>1, <1>2, AppendPlaces
<1>4. l \in Lists /\ Found(h) /\ h.command = "APPEND"
  BY <1>2, <1>3 DEF Placed, do_append, Found
<1>5. /\ Rul' = [Rul EXCEPT ![l] = InsertAt(Rul[l], k, h.table)] /\ Pol' = Pol
      /\ k \in 1 .. Len(Rul[l]) + 1
  BY <1>3, <1>4, AddChanges
<1>6. Rul[l] \in Seq(Entry) /\ Len(Rul[l]) = Len(list[l]) - 1 /\ Len(list[l]) \in Nat /\ h.table \in Entry
  <2>1. Rul[l] = Front(list[l])
    BY <1>4 DEF Rul
  <2>2. h.table \in Entry
    BY <1>1, EntryFacts DEF Handle
  <2> QED
    BY <1>4, <2>1, <2>2, ListFacts
<1>7. PICK g : g = Left(h)
  OBVIOUS
<1>8. /\ g.command = "APPEND" /\ g.table = h.table /\ g.index = out'.index
      /\ g.tablename = h.tablename /\ g.actionType = h.actionType
  BY <1>4, <1>7, LeftIs
<1>9. g.tablename # "NAME_NONE" /\ g.actionType # "TYPE_NONE"
  BY <1>4, <1>8, ListNames
<1>10. line = do_command4(to_argv(g))
  BY <1>7
<1>11. CASE h.table.priority = 0
  <2>1. out'.index = 0
    BY <1>11 DEF do_append, Done
  <2>2. LineRule(g, line) /\ LinePlace(g, line) /\ line.command = {"APPEND"}
    BY <1>8, <1>9, <1>10, <1>11, <2>1, AppendLine
  <2>3. k = Len(Rul[l]) + 1
    BY <1>3, <1>6, <2>1 DEF Placed
  <2>4. PICK r : r = InsertAt(Rul[l], k, h.table)
    OBVIOUS
  <2>5. Images(r) = Append(Images(Rul[l]), RuleOf(line))
    <3>1. RuleOf(line) = ImageOf(h.table)
      BY <1>8, <2>2, SameRule
    <3> QED
      BY <1>6, <2>3, <2>4, <3>1, ImagesAppend
  <2>6. ChainResults("APPEND", Images(Rul[l]), line) = {Images(r)}
    BY <2>5 DEF ChainResults
  <2>7. <<line.table, line.chain>> = l
    BY <1>2, <1>8, <2>2 DEF LinePlace, ListOf
  <2> QED
    BY <1>4, <1>5, <2>2, <2>4, <2>6, <2>7, RuleChange
<1>12. CASE h.table.priority # 0
  <2>1. out'.index = k /\ k > 0
    <3>1. PICK j \in 1 .. Len(list[l]) + 1 : Done(InsertIndex(l, j))
      BY <1>2, <1>12 DEF do_append, do_insert
    <3>2. Len(list[l]) >= 1
      BY <1>4, ListFacts
    <3>3. InsertIndex(l, j) # 0
      BY <1>6, <3>1, <3>2 DEF InsertIndex
    <3>4. out'.index = InsertIndex(l, j)
      BY <3>1 DEF Done
    <3>5. out'.index # 0
      BY <3>3, <3>4
    <3>6. k = out'.index
      BY <1>3, <3>5 DEF Placed
    <3> QED
      BY <1>5, <3>6
  <2>2. LineRule(g, line) /\ LinePlace(g, line) /\ line.command = {"INSERT"} /\ line.rulenum = k
    <3>1. g.index \in Int /\ g.index > 0 /\ g.index = k
      BY <1>8, <2>1
    <3>2. g.table.priority # 0
      BY <1>8, <1>12
    <3> QED
      BY <1>8, <1>9, <1>10, <3>1, <3>2, InsertLine
  <2>4. PICK r : r = InsertAt(Rul[l], k, h.table)
    OBVIOUS
  <2>5. Images(r) = InsertAt(Images(Rul[l]), k, RuleOf(line))
    <3>1. RuleOf(line) = ImageOf(h.table)
      BY <1>8, <2>2, SameRule
    <3> QED
      BY <1>5, <1>6, <2>4, <3>1, ImagesInsert
  <2>6. ChainResults("INSERT", Images(Rul[l]), line) = {Images(r)}
    <3>1. Len(Images(Rul[l])) = Len(Rul[l]) /\ Len(Rul[l]) \in Nat
      BY <1>6, ImagesFacts
    <3>2. ~(k > Len(Images(Rul[l])) + 1)
      BY <1>5, <3>1
    <3> QED
      BY <2>2, <2>5, <3>2 DEF ChainResults
  <2>7. <<line.table, line.chain>> = l
    BY <1>2, <1>8, <2>2 DEF LinePlace, ListOf
  <2> QED
    BY <1>4, <1>5, <2>2, <2>4, <2>6, <2>7, RuleChange
<1> QED
  BY <1>11, <1>12

\* -R replaces the rule the mirror changed by one with the same image.
LEMMA AlterFollowed ==
    ASSUME IInv, IInv', NEW h \in Requests, do_alter(h), ~Refuse(h), mem' = "ok",
           NEW line, line = do_command4(to_argv(Left(h))), line.exit # TRUE
    PROVE  KernelDoes(line)
<1>1. WalkTo(ListOf(h), h.index) # 0 /\ h.command = "ALTER" /\ Found(h) /\ out'.index = h.index
  BY DEF do_alter, Done
<1>2. PICK l, k : l = ListOf(h) /\ k = h.index
  OBVIOUS
<1>3. PICK e, r : e = Altered(Rul[l][k], h.table) /\ r = ReplaceAt(Rul[l], k, e)
  OBVIOUS
<1>4. /\ l \in Lists /\ k \in 1 .. Len(Rul[l]) /\ Pol' = Pol /\ Rul' = [Rul EXCEPT ![l] = r]
  BY <1>1, <1>2, <1>3, AlterChanges
<1>5. Rul[l] \in Seq(Entry)
  BY <1>4, ListFacts DEF Rul
<1>6. e \in Entry /\ ImageOf(e) = ImageOf(h.table)
  <2>1. PICK x : x = Rul[l][k]
    OBVIOUS
  <2>2. x \in Entry
    BY <1>4, <1>5, <2>1, ElementOfSeq
  <2>3. h.table \in Ruletable
    BY RequestsAssumption DEF Handle
  <2>4. e \in Entry /\ e.head = h.table.head /\ e.actionDesc = h.table.actionDesc
    BY <1>3, <2>1, <2>2, <2>3 DEF Altered, Entry, Ruletable
  <2> QED
    BY <2>4 DEF ImageOf
<1>7. PICK g : g = Left(h)
  OBVIOUS
<1>8. /\ g.command = "ALTER" /\ g.table = h.table /\ g.index = k
      /\ g.tablename = h.tablename /\ g.actionType = h.actionType
  BY <1>1, <1>2, <1>7, LeftIs
<1>9. g.tablename # "NAME_NONE" /\ g.actionType # "TYPE_NONE"
  BY <1>1, <1>8, ListNames
<1>10. Len(Images(Rul[l])) = Len(Rul[l]) /\ Len(Rul[l]) \in Nat
  BY <1>5, ImagesFacts
<1>11. LineRule(g, line) /\ LinePlace(g, line) /\ line.command = {"REPLACE"} /\ line.rulenum = k
  <2>1. g.index \in Int /\ g.index > 0
    BY <1>4, <1>8, <1>10
  <2>2. line = do_command4(to_argv(g))
    BY <1>7
  <2> QED
    BY <1>8, <1>9, <2>1, <2>2, ReplaceLine
<1>12. Images(r) = ReplaceAt(Images(Rul[l]), k, RuleOf(line))
  <2>1. RuleOf(line) = ImageOf(h.table)
    BY <1>8, <1>11, SameRule
  <2> QED
    BY <1>3, <1>4, <1>5, <1>6, <2>1, ImagesReplace
<1>13. ChainResults("REPLACE", Images(Rul[l]), line) = {Images(r)}
  <2>1. ~(k > Len(Images(Rul[l])))
    BY <1>4, <1>10
  <2> QED
    BY <1>11, <1>12, <2>1 DEF ChainResults
<1>14. <<line.table, line.chain>> = l
  BY <1>2, <1>8, <1>11 DEF LinePlace, ListOf
<1> QED
  BY <1>4, <1>11, <1>13, <1>14, RuleChange

\* The kernel deletes the rule the mirror deleted when no other has its image.
LEMMA FirstImage ==
    ASSUME NEW s \in Seq(Entry), NEW t \in Entry, NEW m \in 1 .. Len(s), s[m] = t,
           \A i \in 1 .. m - 1 : s[i] # t,
           \A i \in 1 .. Len(s) : s[i] # t => ImageOf(s[i]) # ImageOf(t)
    PROVE  {j \in 1 .. Len(Images(s)) : FirstSame(Images(s), ImageOf(t), j)} = {m}
<1>1. PICK c, x : c = Images(s) /\ x = ImageOf(t)
  OBVIOUS
<1>2. Len(c) = Len(s) /\ Len(s) \in Nat /\ \A i \in 1 .. Len(s) : c[i] = ImageOf(s[i])
  BY <1>1, ImagesFacts
<1>3. ASSUME NEW i \in 1 .. Len(s) PROVE (c[i] = x) <=> (s[i] = t)
  BY <1>1, <1>2
<1>4. FirstSame(c, x, m)
  <2>1. c[m] = x
    BY <1>3
  <2>2. ASSUME NEW i \in 1 .. m - 1 PROVE c[i] # x
    <3>1. i \in 1 .. Len(s)
      BY <1>2
    <3> QED
      BY <1>3, <3>1
  <2> QED
    BY <2>1, <2>2 DEF FirstSame
<1>5. ASSUME NEW j \in 1 .. Len(c), FirstSame(c, x, j) PROVE j = m
  <2>1. c[j] = x /\ c[m] = x /\ \A i \in 1 .. j - 1 : c[i] # x
    BY <1>4, <1>5 DEF FirstSame
  <2>2. \A i \in 1 .. m - 1 : c[i] # x
    BY <1>4 DEF FirstSame
  <2>3. ~(j < m)
    BY <1>2, <2>1, <2>2
  <2>4. ~(m < j)
    BY <1>2, <2>1
  <2> QED
    BY <1>2, <2>3, <2>4
<1> QED
  BY <1>1, <1>2, <1>4, <1>5

\* -D takes out the rule the mirror took out, by number or by content.
LEMMA DeleteFollowed ==
    ASSUME IInv, IInv', NEW h \in Requests, do_delete(h), ~Refuse(h), mem' = "ok", ~Twin(h),
           NEW line, line = do_command4(to_argv(Left(h))), line.exit # TRUE
    PROVE  KernelDoes(line)
<1>1. h.command = "DELETE" /\ Found(h) /\ out'.index = h.index
  BY DEF do_delete, Done
<1>2. h.index \in Int /\ h.table \in Entry
  BY RequestsAssumption, EntryFacts DEF Handle
<1>3. PICK l, g : l = ListOf(h) /\ g = Left(h)
  OBVIOUS
<1>4. l \in Lists
  BY <1>1, <1>3 DEF Found
<1>5. /\ g.command = "DELETE" /\ g.table = h.table /\ g.index = h.index
      /\ g.tablename = h.tablename /\ g.actionType = h.actionType
  BY <1>1, <1>3, LeftIs
<1>6. g.tablename # "NAME_NONE" /\ g.actionType # "TYPE_NONE"
  BY <1>1, <1>5, ListNames
<1>7. line = do_command4(to_argv(g))
  BY <1>3
<1>8. PICK s : s = Rul[l]
  OBVIOUS
<1>9. /\ s \in Seq(Entry) /\ Len(s) = Len(list[l]) - 1 /\ length[l] = Len(list[l]) /\ Len(list[l]) \in Nat
      /\ \A i \in 1 .. Len(s) : s[i] = list[l][i]
  BY <1>4, <1>8, ListFacts DEF Rul
<1>10. CASE h.index = 0
  <2>1. PICK m \in 1 .. Len(list[l]) : FirstMatch(l, h.table, m) /\ Unlink(l, m)
    BY <1>3, <1>10 DEF do_delete
  <2>2. m \in 1 .. Len(list[l]) - 1
    BY <1>9, <2>1 DEF FirstMatch, Matches
  <2>3. PICK r : r = RemoveAt(s, m)
    OBVIOUS
  <2>4. Pol' = Pol /\ Rul' = [Rul EXCEPT ![l] = r] /\ m \in 1 .. Len(s)
    BY <1>4, <1>8, <2>1, <2>2, <2>3, UnlinkChanges
  <2>5. s[m] = h.table
    BY <1>9, <2>1, <2>4 DEF FirstMatch, Matches
  <2>6. \A i \in 1 .. m - 1 : s[i] # h.table
    <3>1. \A i \in 1 .. m - 1 : ~Matches(l, h.table, i)
      BY <2>1 DEF FirstMatch
    <3>2. \A i \in 1 .. m - 1 : i \in 1 .. Len(s) /\ i <= length[l] - 1
      BY <1>9, <2>4
    <3> QED
      BY <1>9, <3>1, <3>2 DEF Matches
  <2>7. \A i \in 1 .. Len(s) : s[i] # h.table => ImageOf(s[i]) # ImageOf(h.table)
    <3>1. \A i \in 1 .. Len(list[l]) - 1 :
             list[l][i] # h.table => ImageOf(list[l][i]) # ImageOf(h.table)
      <4>1. m \in 1 .. Len(list[l]) - 1 /\ list[l][m] = h.table
        BY <1>9, <2>2, <2>4, <2>5
      <4> QED
        BY <1>1, <1>3, <1>10, <4>1 DEF Twin
    <3> QED
      BY <1>9, <3>1
  <2>8. {j \in 1 .. Len(Images(s)) : FirstSame(Images(s), ImageOf(h.table), j)} = {m}
    <3>1. PICK t : t = h.table
      OBVIOUS
    <3>2. t \in Entry /\ s[m] = t
      BY <1>2, <2>5, <3>1
    <3>3. \A i \in 1 .. m - 1 : s[i] # t
      BY <2>6, <3>1
    <3>4. \A i \in 1 .. Len(s) : s[i] # t => ImageOf(s[i]) # ImageOf(t)
      BY <2>7, <3>1
    <3>5. {j \in 1 .. Len(Images(s)) : FirstSame(Images(s), ImageOf(t), j)} = {m}
      <4>1. s \in Seq(Entry) /\ m \in 1 .. Len(s)
        BY <1>9, <2>4
      <4> QED
        BY <3>2, <3>3, <3>4, <4>1, FirstImage
    <3> QED
      BY <3>1, <3>5
  <2>9. LineRule(g, line) /\ LinePlace(g, line) /\ line.command = {"DELETE"}
    <3>1. g.index = 0
      BY <1>5, <1>10
    <3> QED
      BY <1>5, <1>6, <1>7, <3>1, DeleteLine
  <2>10. RuleOf(line) = ImageOf(h.table)
    BY <1>5, <2>9, SameRule
  <2>11. Images(r) = RemoveAt(Images(s), m)
    BY <1>9, <2>3, <2>4, ImagesRemove
  <2>12. ChainResults("DELETE", Images(s), line) = {Images(r)}
    <3>1. ChainResults("DELETE", Images(s), line)
            = {RemoveAt(Images(s), k) :
                 k \in {j \in 1 .. Len(Images(s)) : FirstSame(Images(s), ImageOf(h.table), j)}}
      BY <2>10 DEF ChainResults
    <3>2. ChainResults("DELETE", Images(s), line) = {RemoveAt(Images(s), k) : k \in {m}}
      BY <2>8, <3>1
    <3> QED
      BY <2>11, <3>2
  <2>13. <<line.table, line.chain>> = l
    BY <1>3, <1>5, <2>9 DEF LinePlace, ListOf
  <2> QED
    BY <1>4, <1>8, <2>4, <2>9, <2>12, <2>13, RuleChange
<1>11. CASE h.index # 0
  <2>1. ~TooBig(l, h.index) /\ WalkTo(l, h.index) # 0 /\ Unlink(l, WalkTo(l, h.index))
    BY <1>3, <1>11 DEF do_delete
  <2>2. PICK m : m = h.index
    OBVIOUS
  <2>3. WalkTo(l, m) = m /\ m \in 1 .. Len(list[l]) - 1 /\ m \in Int /\ m > 0
    <3>1. ~(h.index < 1)
      BY <1>2, <1>4, <2>1, WalkInBounds
    <3>2. h.index >= 1
      BY <1>2, <3>1
    <3> QED
      BY <1>2, <1>4, <2>1, <2>2, <3>2, WalkInBounds
  <2>4. Unlink(l, m)
    BY <2>1, <2>2, <2>3
  <2>5. PICK r : r = RemoveAt(s, m)
    OBVIOUS
  <2>6. Pol' = Pol /\ Rul' = [Rul EXCEPT ![l] = r] /\ m \in 1 .. Len(s)
    BY <1>4, <1>8, <2>3, <2>4, <2>5, UnlinkChanges
  <2>7. LinePlace(g, line) /\ line.command = {"DELETE_NUM"} /\ line.rulenum = m
    <3>1. g.index \in Int /\ g.index > 0 /\ g.index = m
      BY <1>5, <2>2, <2>3
    <3> QED
      BY <1>5, <1>6, <1>7, <3>1, DeleteNumLine
  <2>8. Images(r) = RemoveAt(Images(s), m)
    BY <1>9, <2>5, <2>6, ImagesRemove
  <2>9. ChainResults("DELETE_NUM", Images(s), line) = {Images(r)}
    <3>1. Len(Images(s)) = Len(s) /\ Len(s) \in Nat
      BY <1>9, ImagesFacts
    <3>2. ~(m > Len(Images(s)))
      BY <2>6, <3>1
    <3> QED
      BY <2>7, <2>8, <3>2 DEF ChainResults
  <2>10. <<line.table, line.chain>> = l
    BY <1>3, <1>5, <2>7 DEF LinePlace, ListOf
  <2> QED
    BY <1>4, <1>8, <2>6, <2>7, <2>9, <2>10, RuleChange
<1> QED
  BY <1>10, <1>11

\* -F empties the chains whose lists the mirror emptied.
LEMMA CleanFollowed ==
    ASSUME IInv, IInv', NEW h \in Requests, free_all(h), ~Refuse(h),
           NEW line, line = do_command4(to_argv(Left(h))), line.exit # TRUE
    PROVE  KernelDoes(line)
<1>1. h.command = "CLEAN" /\ \E l \in Lists : OfTable(h, l)
  BY DEF free_all
<1>2. h.tablename # "NAME_NONE"
  BY <1>1 DEF OfTable, Lists
<1>3. Rul' = [l \in Lists |-> IF l[1] = h.tablename THEN <<>> ELSE Rul[l]] /\ Pol' = Pol
  BY CleanChanges
<1>4. PICK g : g = Left(h)
  OBVIOUS
<1>5. g.command = "CLEAN" /\ g.tablename = h.tablename
  BY <1>1, <1>4, LeftIs
<1>6. line.command = {"FLUSH"} /\ line.table = h.tablename
  <2>1. line = do_command4(to_argv(g))
    BY <1>4
  <2> QED
    BY <1>2, <1>5, <2>1, FlushLine
<1>7. PICK k, n : k = MirrorImage /\ n = MirrorImage'
  OBVIOUS
<1>8. k = KernelOf(Pol, Rul) /\ n = KernelOf(Pol', Rul')
  BY <1>7, MirrorIs, MirrorWillBe
<1>9. KernelResults(k, line)
        = {[x \in Lists |-> IF x[1] = line.table THEN [k[x] EXCEPT !.rules = <<>>] ELSE k[x]]}
  <2>1. (CHOOSE x \in line.command : TRUE) = "FLUSH"
    BY <1>6, OneCommand
  <2> QED
    BY <2>1 DEF KernelResults
<1>10. [x \in Lists |-> IF x[1] = line.table THEN [k[x] EXCEPT !.rules = <<>>] ELSE k[x]] = n
  <2>1. k = [x \in Lists |-> [policy |-> Pol[x], rules |-> Images(Rul[x])]]
    BY <1>8 DEF KernelOf
  <2>2. n = [x \in Lists |-> [policy |-> Pol'[x], rules |-> Images(Rul'[x])]]
    BY <1>8 DEF KernelOf
  <2>3. Images(<<>>) = <<>>
    <3>1. \A i \in 1 .. Len(<<>>) : FALSE
      OBVIOUS
    <3> QED
      BY <3>1 DEF Images
  <2>4. ASSUME NEW x \in Lists
        PROVE  [policy |-> Pol'[x], rules |-> Images(Rul'[x])]
                 = IF x[1] = line.table THEN [k[x] EXCEPT !.rules = <<>>] ELSE k[x]
    <3>1. k[x] = [policy |-> Pol[x], rules |-> Images(Rul[x])]
      BY <2>1
    <3>2. Rul'[x] = IF x[1] = h.tablename THEN <<>> ELSE Rul[x]
      BY <1>3
    <3>3. Images(Rul'[x]) = IF x[1] = h.tablename THEN <<>> ELSE Images(Rul[x])
      BY <2>3, <3>2
    <3> QED
      BY <1>3, <1>6, <3>1, <3>3
  <2> QED
    BY <2>2, <2>4
<1> QED
  BY <1>7, <1>9, <1>10 DEF KernelDoes

\* A policy the kernel takes becomes that of the mirror; it may also refuse.
LEMMA PolicyFollowed ==
    ASSUME IInv, IInv', NEW h \in Requests, do_set_policy(h), ~Refuse(h),
           NEW line, line = do_command4(to_argv(Left(h))), line.exit # TRUE
    PROVE  /\ KernelResults(MirrorImage, line) \subseteq {MirrorImage'}
           /\ h.table.head.proto \notin {"TCP", "UDP"}
<1>1. h.command = "SET_POLICY" /\ Found(h) /\ out'.index = h.index /\ h.index \in Int
  BY RequestsAssumption DEF do_set_policy, Done, Handle
<1>2. PICK l, d : l = ListOf(h) /\ d = h.table.actionDesc
  OBVIOUS
<1>3. l \in Lists /\ d # "DESC_NONE" /\ Rul' = Rul /\ Pol' = [Pol EXCEPT ![l] = d]
  BY <1>2, SetPolicyChanges
<1>4. PICK g : g = Left(h)
  OBVIOUS
<1>5. /\ g.command = "SET_POLICY" /\ g.table = h.table /\ g.index = h.index
      /\ g.tablename = h.tablename /\ g.actionType = h.actionType
  BY <1>1, <1>4, LeftIs
<1>6. /\ LinePlace(g, line) /\ line.command = {"SET_POLICY"} /\ line.policy = d
      /\ h.table.head.proto \notin {"TCP", "UDP"}
  <2>1. g.tablename # "NAME_NONE" /\ g.actionType # "TYPE_NONE"
    BY <1>1, <1>5, ListNames
  <2>2. line = do_command4(to_argv(g)) /\ g.index \in Int /\ g.table.actionDesc # "DESC_NONE"
    BY <1>1, <1>2, <1>3, <1>4, <1>5
  <2>3. /\ LinePlace(g, line) /\ line.command = {"SET_POLICY"} /\ line.policy = g.table.actionDesc
        /\ g.table.head.proto \notin {"TCP", "UDP"}
    BY <1>5, <2>1, <2>2, PolicyLine
  <2> QED
    BY <1>2, <1>5, <2>3
<1>7. <<line.table, line.chain>> = l
  BY <1>2, <1>5, <1>6 DEF LinePlace, ListOf
<1>8. PICK k, n : k = MirrorImage /\ n = MirrorImage'
  OBVIOUS
<1>9. k = KernelOf(Pol, Rul) /\ n = KernelOf(Pol', Rul')
  BY <1>8, MirrorIs, MirrorWillBe
<1>10. KernelResults(k, line) \subseteq {[k EXCEPT ![l].policy = d]}
  <2>1. (CHOOSE x \in line.command : TRUE) = "SET_POLICY"
    BY <1>6, OneCommand
  <2> QED
    BY <1>6, <1>7, <2>1 DEF KernelResults
<1>11. [k EXCEPT ![l].policy = d] = n
  <2>1. k = [x \in Lists |-> [policy |-> Pol[x], rules |-> Images(Rul[x])]]
    BY <1>9 DEF KernelOf
  <2>2. Pol = [x \in Lists |-> Pol[x]]
    BY DEF Pol
  <2>3. \A x \in Lists : Pol'[x] = IF x = l THEN d ELSE Pol[x]
    BY <1>3, <2>2
  <2>4. n = [x \in Lists |-> [policy |-> Pol'[x], rules |-> Images(Rul'[x])]]
    BY <1>9 DEF KernelOf
  <2>5. n = [x \in Lists |-> IF x = l THEN [policy |-> d, rules |-> Images(Rul[x])]
                             ELSE [policy |-> Pol[x], rules |-> Images(Rul[x])]]
    BY <1>3, <2>3, <2>4
  <2> QED
    BY <1>3, <2>1, <2>5
<1> QED
  BY <1>6, <1>8, <1>10, <1>11

-----------------------------------------------------------------------------
(* The line of a request the mirror has accepted.                          *)

\* The table of lines holds the line of every request, with any place in it.
LEMMA LineOfReads ==
    ASSUME NEW g, \/ g \in Requests
                  \/ \E r \in Requests, i \in 0 .. MaxRules + 1 : g = [r EXCEPT !.index = i]
    PROVE  LineOf[g] = do_command4(to_argv(g))
<1> DEFINE T == {[r EXCEPT !.index = i] : r \in Requests, i \in 0 .. MaxRules + 1}
           S == T \cup Requests
<1>1. g \in S
  <2>1. CASE g \in Requests
    BY <2>1
  <2>2. CASE g \notin Requests
    <3>1. PICK r \in Requests, i \in 0 .. MaxRules + 1 : g = [r EXCEPT !.index = i]
      BY <2>2
    <3>2. [r EXCEPT !.index = i] \in T
      OBVIOUS
    <3> QED
      BY <3>1, <3>2
  <2> QED
    BY <2>1, <2>2
<1>2. LineOf = [h \in S |-> do_command4(to_argv(h))]
  BY DEF LineOf
<1> HIDE DEF S
<1> QED
  BY <1>1, <1>2

\* A request whose index is as before is the same request.
LEMMA SameLeft ==
    ASSUME NEW h \in Requests, out'.index = h.index
    PROVE  Left(h) = h
BY RequestsAssumption DEF Left, Handle

\* What the mirror leaves in a request is the request, or it with a place of a list.
LEMMA LeftLine ==
    ASSUME IInv, NEW h \in Requests, do_command(h)
    PROVE  LineOf[Left(h)] = do_command4(to_argv(Left(h)))
<1>1. h \in Handle
  BY RequestsAssumption
<1>2. CASE out'.index = h.index
  <2>1. Left(h) = h
    BY <1>2, SameLeft
  <2> QED
    BY <2>1, LineOfReads
<1>3. CASE out'.index # h.index
  <2>1. do_append(h) /\ ~Refuse(h)
    BY <1>3 DEF do_command, do_set_policy, do_append, do_insert, do_alter, do_delete, free_all,
                unknown_command, Refuse, Done
  <2>2. PICK l : l = ListOf(h)
    OBVIOUS
  <2>3. l \in Lists /\ RuleCount < MaxRules
    BY <2>1, <2>2 DEF do_append, do_insert, AddBefore, Found
  <2>4. PICK k \in Nat : Placed(h, l, k)
    BY <1>1, <2>1, <2>2, AppendPlaces
  <2>5. k \in 1 .. Len(list[l]) /\ (out'.index = k \/ out'.index = 0)
    BY <2>4 DEF Placed
  <2>6. RuleCount \in Nat /\ Len(list[l]) - 1 <= RuleCount /\ Len(list[l]) \in Nat
    BY <2>3, RuleCountBound, ListFacts
  <2>7. PICK i : i = out'.index
    OBVIOUS
  <2>8. i \in 0 .. MaxRules + 1
    BY <2>3, <2>5, <2>6, <2>7, MaxRulesAssumption
  <2>9. Left(h) = [h EXCEPT !.index = i]
    BY <2>7 DEF Left
  <2> QED
    BY <2>8, <2>9, LineOfReads
<1> QED
  BY <1>2, <1>3

\* What the mirror does the kernel does, by the line of the request; a policy it may
\* also refuse.
LEMMA CommandFollowed ==
    ASSUME IInv, NEW h \in Requests, do_command(h), out'.ret = 1, mem' = "ok", ~Twin(h),
           NEW line, line = LineOf[Left(h)], ~line.exit
    PROVE  /\ KernelResults(MirrorImage, line) \subseteq {MirrorImage'}
           /\ h.table.head.proto \in {"TCP", "UDP"} => KernelDoes(line)
<1>1. line = do_command4(to_argv(Left(h))) /\ line.exit # TRUE
  BY LeftLine
<1>2. ~Refuse(h)
  BY DEF Refuse
<1>3. IInv'
  <2>1. Next
    BY DEF Next
  <2> QED
    BY <2>1, NextIInv
<1>4. KernelDoes(line) => KernelResults(MirrorImage, line) \subseteq {MirrorImage'}
  BY DEF KernelDoes
<1>5. CASE do_set_policy(h)
  BY <1>1, <1>2, <1>3, <1>5, PolicyFollowed
<1>6. CASE do_append(h)
  BY <1>1, <1>2, <1>3, <1>4, <1>6, AppendFollowed
<1>7. CASE do_alter(h)
  BY <1>1, <1>2, <1>3, <1>4, <1>7, AlterFollowed
<1>8. CASE do_delete(h)
  BY <1>1, <1>2, <1>3, <1>4, <1>8, DeleteFollowed
<1>9. CASE free_all(h)
  BY <1>1, <1>2, <1>3, <1>4, <1>9, CleanFollowed
<1>10. ~unknown_command(h)
  BY <1>2 DEF unknown_command
<1> QED
  BY <1>5, <1>6, <1>7, <1>8, <1>9, <1>10 DEF do_command

\* A report of the tool says what it asked for: the mirror leaves it as it was.
LEMMA ReportLeft ==
    ASSUME NEW h \in ToolRequests, do_command(h), out'.ret = 1
    PROVE  Left(h) = h
<1>1. h \in Requests
  BY ServiceRequestsAssumption
<1>2. out'.index = h.index
  BY ToolRequestsAssumption DEF do_command, do_set_policy, do_append, do_insert, do_alter, do_delete,
       free_all, unknown_command, Refuse, Done
<1> QED
  BY <1>1, <1>2, SameLeft

-----------------------------------------------------------------------------
(* The invariant of the service.                                           *)

\* What the tool's report says the kernel did.
Reported(k, h) == IF LineOf[h].exit THEN {} ELSE KernelResults(k, LineOf[h])

\* The kernel is at k: where the mirror's image m comes by the reports not served
\* yet, the one the thread has read and then those that wait.
LedBy(m, where, h, q, k) ==
    LET read == IF where = "message" THEN Reported(m, h) ELSE {m}
    IN \E x \in read : k \in IF q = <<>> THEN {x} ELSE Reported(x, Head(q))

Led == LedBy(MirrorImage, pc["iptables"], hd["iptables"], unixq, kernel)

\* The next line takes the kernel to the mirror's image, or ends the process.
ToldBy(m, line, k) == line.exit \/ KernelResults(k, line) = {m}

Told == ToldBy(MirrorImage, LineOf[hd["controller"]], kernel)

Wired ==
    /\ pc \in [Threads -> {"accept", "message", "kernel", "alert", "echo", "all_in"}]
    /\ hd \in [Threads -> Handle \cup {NoRequest}]
    /\ pc["controller"] = "message" => hd["controller"] \in ControllerRequests
    /\ pc["iptables"] = "message" => hd["iptables"] \in ToolRequests
    /\ unixq = <<>> \/ \E h \in ToolRequests : unixq = <<h>>
    /\ ~running => unixq = <<>> /\ \A t \in Threads : pc[t] = "accept"

Agrees ==
    /\ pc["controller"] = "kernel" => ~ReportPending /\ Told
    /\ pc["controller"] # "kernel" => Led

SInv ==
    /\ IInv
    /\ Wired
    /\ running /\ mem = "ok" /\ ~drift => Agrees

\* A step that is none of the mirror keeps its invariant and its image.
LEMMA MirrorStays ==
    ASSUME IInv, UNCHANGED mirror
    PROVE  IInv' /\ MirrorImage' = MirrorImage /\ mem' = mem
<1>1. list' = list /\ mem' = mem /\ UNCHANGED vars
  BY DEF mirror, vars
<1>2. IInv'
  BY <1>1, NextIInv
<1>3. MirrorImage' = MirrorImage
  BY <1>1 DEF MirrorImage
<1> QED
  BY <1>1, <1>2, <1>3

\* Only a refusal returns 0.
LEMMA RefusedIs ==
    ASSUME NEW h, do_command(h), out'.ret # 1
    PROVE  Refuse(h)
BY DEF do_command, do_set_policy, do_append, do_insert, do_alter, do_delete, free_all,
       unknown_command, Done

\* A request keeps the mirror in good order.
LEMMA CommandInv ==
    ASSUME IInv, NEW h \in Requests, do_command(h)
    PROVE  IInv' /\ out'.index \in Int /\ Left(h) \in Handle
<1>1. Next
  BY DEF Next
<1>2. IInv'
  BY <1>1, NextIInv
<1>3. out'.index \in Int
  BY <1>2 DEF IInv
<1>4. h \in Handle
  BY RequestsAssumption
<1> QED
  BY <1>2, <1>3, <1>4 DEF Left, Handle

\* The thread keeps the request with what the mirror left in it.
LEMMA KeptIs ==
    ASSUME Wired, NEW t \in Threads, hd' = [hd EXCEPT ![t].index = out'.index]
    PROVE  hd' = [hd EXCEPT ![t] = Left(hd[t])]
BY DEF Left

\* There are two threads.
LEMMA ThreadNames == "controller" \in Threads /\ "iptables" \in Threads /\ "controller" # "iptables"
BY DEF Threads

\* An exit leaves no thread, no report and nothing to claim.
LEMMA ExitInv ==
    ASSUME SInv, Exit, UNCHANGED mirror
    PROVE  SInv'
<1>1. IInv'
  BY MirrorStays DEF SInv
<1>2. Wired'
  BY ThreadNames DEF SInv, Exit, Wired
<1> QED
  BY <1>1, <1>2 DEF SInv, Exit

\* A request comes in; the reports are as before.
LEMMA AcceptInv ==
    ASSUME SInv, do_com_controller
    PROVE  SInv'
<1>1. IInv' /\ MirrorImage' = MirrorImage /\ mem' = mem
  BY MirrorStays DEF SInv, do_com_controller
<1>2. PICK h \in ControllerRequests :
         hd' = [hd EXCEPT !["controller"] = h] /\ pc' = [pc EXCEPT !["controller"] = "message"]
  BY Zenon DEF do_com_controller, Goto, WithRoom
<1>3. UNCHANGED <<kernel, unixq, running, drift>> /\ running /\ pc["controller"] = "accept"
  BY DEF do_com_controller
<1>4. h \in Handle
  BY ServiceRequestsAssumption, RequestsAssumption
<1>5. Wired'
  BY <1>2, <1>3, <1>4, ThreadNames DEF SInv, Wired
<1>6. pc'["controller"] # "kernel" /\ pc'["iptables"] = pc["iptables"] /\ hd'["iptables"] = hd["iptables"]
  BY <1>2, ThreadNames DEF SInv, Wired
<1>7. running /\ mem = "ok" /\ ~drift => Led'
  BY <1>1, <1>3, <1>6 DEF SInv, Agrees, Led
<1> QED
  BY <1>1, <1>3, <1>5, <1>6, <1>7 DEF SInv, Agrees

\* A message to the controller changes no table.
LEMMA SendInv ==
    ASSUME SInv, NEW t \in Threads, send_message(t)
    PROVE  SInv'
<1>1. UNCHANGED mirror
  BY DEF send_message
<1>2. CASE ~up /\ Exit
  BY <1>1, <1>2, ExitInv
<1>3. CASE up /\ Close(t) /\ UNCHANGED <<running, unixq>>
  <2>1. IInv' /\ MirrorImage' = MirrorImage /\ mem' = mem
    BY <1>1, MirrorStays DEF SInv
  <2>2. /\ pc' = [pc EXCEPT ![t] = "accept"] /\ hd' = [hd EXCEPT ![t] = NoRequest]
        /\ UNCHANGED <<kernel, unixq, running, drift>> /\ running
        /\ pc[t] \in {"alert", "echo", "all_in"}
    BY <1>3 DEF send_message, Close, Goto
  <2>3. Wired'
    BY <2>2, ThreadNames DEF SInv, Wired
  <2>4. /\ (pc'["controller"] = "kernel") <=> (pc["controller"] = "kernel")
        /\ (pc'["iptables"] = "message") <=> (pc["iptables"] = "message")
        /\ pc["iptables"] = "message" => hd'["iptables"] = hd["iptables"]
        /\ pc["controller"] = "kernel" => hd'["controller"] = hd["controller"]
    BY <2>2, ThreadNames DEF SInv, Wired
  <2>5. Led => Led'
    BY <2>1, <2>2, <2>4 DEF Led, LedBy
  <2>6. pc["controller"] = "kernel" /\ Told => Told'
    BY <2>1, <2>2, <2>4 DEF Told
  <2>7. ReportPending' = ReportPending
    BY <2>2, <2>4 DEF ReportPending
  <2> QED
    BY <2>1, <2>2, <2>3, <2>4, <2>5, <2>6, <2>7 DEF SInv, Agrees
<1> QED
  BY <1>2, <1>3 DEF send_message

\* The kernel goes where the mirror is.
LEMMA ToKernelInv ==
    ASSUME SInv, send_to_kernel
    PROVE  SInv'
<1>1. PICK line : line = LineOf[hd["controller"]]
  OBVIOUS
<1>2. UNCHANGED mirror /\ running /\ pc["controller"] = "kernel"
  BY DEF send_to_kernel
<1>3. IInv' /\ MirrorImage' = MirrorImage /\ mem' = mem
  BY <1>2, MirrorStays DEF SInv
<1>4. CASE Exit
  BY <1>2, <1>4, ExitInv
<1>5. CASE /\ ~line.exit /\ kernel' \in KernelResults(kernel, line) /\ Close("controller")
           /\ UNCHANGED <<unixq, running, drift>>
  <2>1. /\ pc' = [pc EXCEPT !["controller"] = "accept"]
        /\ hd' = [hd EXCEPT !["controller"] = NoRequest]
    BY <1>5 DEF Close, Goto
  <2>2. Wired'
    BY <1>2, <1>5, <2>1, ThreadNames DEF SInv, Wired
  <2>3. pc'["controller"] # "kernel" /\ pc'["iptables"] = pc["iptables"]
    BY <2>1, ThreadNames DEF SInv, Wired
  <2>4. ASSUME mem = "ok", ~drift PROVE Led'
    <3>1. ~ReportPending /\ Told
      BY <1>2, <2>4 DEF SInv, Agrees
    <3>2. kernel' = MirrorImage
      BY <1>1, <1>5, <3>1 DEF Told, ToldBy
    <3>3. unixq' = <<>> /\ pc'["iptables"] # "message"
      BY <1>5, <2>3, <3>1 DEF ReportPending
    <3> QED
      BY <1>3, <3>2, <3>3 DEF Led, LedBy
  <2> QED
    BY <1>3, <1>5, <2>2, <2>3, <2>4 DEF SInv, Agrees
<1>6. CASE drift' = TRUE /\ Goto("controller", "alert") /\ UNCHANGED <<hd, unixq, running>>
  <2>1. Wired'
    BY <1>2, <1>6, ThreadNames DEF SInv, Wired, Goto
  <2> QED
    BY <1>3, <1>6, <2>1 DEF SInv
<1> QED
  BY <1>1, <1>4, <1>5, <1>6 DEF send_to_kernel

\* A report is read: it waits no longer but is not yet served.
LEMMA ReadReportInv ==
    ASSUME SInv, do_com_iptables
    PROVE  SInv'
<1>1. IInv' /\ MirrorImage' = MirrorImage /\ mem' = mem
  BY MirrorStays DEF SInv, do_com_iptables
<1>2. PICK h \in ToolRequests : unixq = <<h>>
  BY DEF SInv, Wired, do_com_iptables
<1>3. Head(unixq) = h /\ Tail(unixq) = <<>>
  BY <1>2
<1>4. /\ hd' = [hd EXCEPT !["iptables"] = h] /\ pc' = [pc EXCEPT !["iptables"] = "message"]
      /\ unixq' = <<>> /\ UNCHANGED <<kernel, running, drift>> /\ running /\ pc["iptables"] = "accept"
  BY <1>3 DEF do_com_iptables, Goto
<1>5. h \in Handle
  BY ServiceRequestsAssumption, RequestsAssumption
<1>6. Wired'
  BY <1>4, <1>5, ThreadNames DEF SInv, Wired
<1>7. /\ pc'["controller"] = pc["controller"] /\ pc'["iptables"] = "message" /\ hd'["iptables"] = h
  BY <1>4, ThreadNames DEF SInv, Wired
<1>8. ASSUME mem = "ok", ~drift PROVE pc["controller"] # "kernel" /\ Led'
  <2>1. ReportPending
    BY DEF ReportPending, do_com_iptables
  <2>2. pc["controller"] # "kernel" /\ Led
    BY <1>4, <1>8, <2>1 DEF SInv, Agrees
  <2>3. kernel \in Reported(MirrorImage, h)
    <3>1. unixq # <<>>
      BY DEF do_com_iptables
    <3> QED
      BY <1>3, <1>4, <2>2, <3>1 DEF Led, LedBy
  <2>4. Led'
    BY <1>1, <1>4, <1>7, <2>3 DEF Led, LedBy
  <2> QED
    BY <2>2, <2>4
<1> QED
  BY <1>1, <1>4, <1>6, <1>7, <1>8 DEF SInv, Agrees

\* A request is served: unless it is refused, the kernel is one line behind.
LEMMA ServeInv ==
    ASSUME SInv, do_message_from_controller
    PROVE  SInv'
<1>1. PICK h : h = hd["controller"]
  OBVIOUS
<1>2. /\ running /\ pc["controller"] = "message" /\ UNCHANGED <<kernel, unixq, up, running>>
  BY DEF do_message_from_controller
<1>3. h \in ControllerRequests /\ h \in Requests
  BY <1>1, <1>2, ServiceRequestsAssumption DEF SInv, Wired
<1>4. CASE \/ UNCHANGED <<mirror, drift, hd>> /\ Goto("controller", "alert")
           \/ UNCHANGED <<mirror, drift>> /\ Close("controller")
           \/ UNCHANGED <<mirror, drift, hd>> /\ Goto("controller", "all_in")
  <2>1. IInv' /\ MirrorImage' = MirrorImage /\ mem' = mem
    BY <1>4, MirrorStays DEF SInv
  <2>2. \E w \in {"accept", "alert", "all_in"} : pc' = [pc EXCEPT !["controller"] = w]
    BY <1>4 DEF Goto, Close
  <2>3. hd' = hd \/ hd' = [hd EXCEPT !["controller"] = NoRequest]
    BY <1>4 DEF Close
  <2>4. Wired'
    BY <1>2, <2>2, <2>3, ThreadNames DEF SInv, Wired
  <2>5. /\ pc'["controller"] # "kernel" /\ pc'["iptables"] = pc["iptables"]
        /\ hd'["iptables"] = hd["iptables"]
    BY <2>2, <2>3, ThreadNames DEF SInv, Wired
  <2>6. Led => Led'
    BY <1>2, <2>1, <2>5 DEF Led
  <2> QED
    BY <1>2, <1>4, <2>1, <2>4, <2>5, <2>6 DEF SInv, Agrees
<1>5. CASE /\ TcpOrUdp(h) /\ do_command(h)
           /\ hd' = [hd EXCEPT !["controller"].index = out'.index]
           /\ Goto("controller", IF out'.ret = 1 THEN "kernel" ELSE "alert")
           /\ drift' = (drift \/ (out'.ret = 1 /\ (ReportPending \/ Twin(h))))
  <2>1. IInv' /\ Left(h) \in Handle
    BY <1>3, <1>5, CommandInv DEF SInv
  <2>2. hd' = [hd EXCEPT !["controller"] = Left(h)]
    BY <1>1, <1>5, KeptIs, ThreadNames DEF SInv
  <2>3. pc' = [pc EXCEPT !["controller"] = IF out'.ret = 1 THEN "kernel" ELSE "alert"]
    BY <1>5 DEF Goto
  <2>4. Wired'
    BY <1>2, <2>1, <2>2, <2>3, ThreadNames DEF SInv, Wired
  <2>5. /\ pc'["controller"] = (IF out'.ret = 1 THEN "kernel" ELSE "alert")
        /\ pc'["iptables"] = pc["iptables"]
        /\ hd'["iptables"] = hd["iptables"] /\ hd'["controller"] = Left(h)
    BY <2>2, <2>3, ThreadNames DEF SInv, Wired
  <2>6. ASSUME mem' = "ok", ~drift' PROVE Agrees'
    <3>1. mem = "ok" /\ ~drift /\ Led
      BY <1>2, <1>5, <2>6 DEF SInv, Agrees, do_command
    <3>2. CASE out'.ret = 1
      <4>1. ~ReportPending /\ ~Twin(h)
        BY <1>5, <2>6, <3>2
      <4>2. unixq = <<>> /\ pc["iptables"] # "message" /\ kernel = MirrorImage
        BY <3>1, <4>1 DEF ReportPending, Led, LedBy
      <4>3. PICK line : line = LineOf[Left(h)]
        OBVIOUS
      <4>4. ToldBy(MirrorImage', line, kernel)
        <5>1. CASE line.exit
          BY <5>1 DEF ToldBy
        <5>2. CASE ~line.exit
          <6>1. h.table.head.proto \in {"TCP", "UDP"}
            BY <1>5 DEF TcpOrUdp
          <6>2. IInv
            BY DEF SInv
          <6>3. do_command(h)
            BY <1>5
          <6>4. KernelDoes(line)
            BY <1>3, <2>6, <3>2, <4>1, <4>3, <5>2, <6>1, <6>2, <6>3, CommandFollowed
          <6> QED
            BY <4>2, <6>4 DEF KernelDoes, ToldBy
        <5> QED
          BY <5>1, <5>2
      <4>5. Told'
        BY <1>2, <2>5, <4>3, <4>4 DEF Told
      <4>6. ~ReportPending'
        BY <1>2, <2>5, <4>2 DEF ReportPending
      <4> QED
        BY <2>5, <3>2, <4>5, <4>6 DEF Agrees
    <3>3. CASE out'.ret # 1
      <4>1. Refuse(h)
        BY <1>5, <3>3, RefusedIs
      <4>2. MirrorImage' = MirrorImage
        BY <4>1 DEF Refuse, MirrorImage
      <4>3. Led'
        BY <1>2, <2>5, <3>1, <4>2 DEF Led
      <4> QED
        BY <2>5, <3>3, <4>3 DEF Agrees
    <3> QED
      BY <3>2, <3>3
  <2> QED
    BY <2>1, <2>4, <2>6 DEF SInv
<1> QED
  BY <1>1, <1>4, <1>5 DEF do_message_from_controller

\* A report is served: the mirror goes where the kernel went first.
LEMMA ServeReportInv ==
    ASSUME SInv, do_message_from_iptables
    PROVE  SInv'
<1>1. PICK h : h = hd["iptables"]
  OBVIOUS
<1>2. running /\ pc["iptables"] = "message" /\ UNCHANGED <<kernel, unixq, up, running>>
  BY DEF do_message_from_iptables
<1>3. h \in ToolRequests /\ h \in Requests
  BY <1>1, <1>2, ServiceRequestsAssumption DEF SInv, Wired
<1>4. ASSUME mem = "ok", ~drift
      PROVE  /\ pc["controller"] # "kernel" /\ ~LineOf[h].exit
             /\ \E x \in KernelResults(MirrorImage, LineOf[h]) :
                   kernel \in IF unixq = <<>> THEN {x} ELSE Reported(x, Head(unixq))
  <2>1. ReportPending
    BY <1>2 DEF ReportPending
  <2>2. pc["controller"] # "kernel" /\ Led
    BY <1>2, <1>4, <2>1 DEF SInv, Agrees
  <2>3. PICK x \in Reported(MirrorImage, h) :
           kernel \in IF unixq = <<>> THEN {x} ELSE Reported(x, Head(unixq))
    BY <1>1, <1>2, <2>2 DEF Led, LedBy
  <2>4. ~LineOf[h].exit /\ x \in KernelResults(MirrorImage, LineOf[h])
    BY <2>3 DEF Reported
  <2> QED
    BY <2>2, <2>3, <2>4
<1>5. CASE WantsAll(h) /\ Goto("iptables", "all_in") /\ UNCHANGED <<mirror, hd, drift>>
  <2>1. IInv' /\ MirrorImage' = MirrorImage /\ mem' = mem
    BY <1>5, MirrorStays DEF SInv
  <2>2. pc' = [pc EXCEPT !["iptables"] = "all_in"]
    BY <1>5 DEF Goto
  <2>3. Wired'
    BY <1>2, <1>5, <2>2, ThreadNames DEF SInv, Wired
  <2>4. LineOf[h].exit
    <3>1. LineOf[h] = do_command4(to_argv(h))
      BY <1>3, LineOfReads
    <3>2. h.command = "ALLIN" /\ h.index \in Int
      BY <1>3, <1>5, RequestsAssumption DEF WantsAll, Handle
    <3> QED
      BY <3>1, <3>2, AllLine
  <2>5. ~(mem = "ok" /\ ~drift)
    BY <1>4, <2>4
  <2> QED
    BY <1>5, <2>1, <2>3, <2>5 DEF SInv
<1>6. CASE /\ do_command(h)
           /\ hd' = [hd EXCEPT !["iptables"].index = out'.index]
           /\ Goto("iptables", IF out'.ret = 1 THEN "echo" ELSE "alert")
           /\ drift' = (drift \/ out'.ret = 0 \/ Twin(h))
  <2>1. IInv /\ IInv' /\ Left(h) \in Handle
    BY <1>3, <1>6, CommandInv DEF SInv
  <2>2. hd' = [hd EXCEPT !["iptables"] = Left(h)]
    BY <1>1, <1>6, KeptIs, ThreadNames DEF SInv
  <2>3. pc' = [pc EXCEPT !["iptables"] = IF out'.ret = 1 THEN "echo" ELSE "alert"]
    BY <1>6 DEF Goto
  <2>4. Wired'
    BY <1>2, <2>1, <2>2, <2>3, ThreadNames DEF SInv, Wired
  <2>5. pc'["controller"] = pc["controller"] /\ pc'["iptables"] # "message"
    BY <2>3, ThreadNames DEF SInv, Wired
  <2>6. ASSUME mem' = "ok", ~drift' PROVE Agrees'
    <3>1. mem = "ok" /\ ~drift /\ ~Twin(h) /\ out'.ret # 0
      BY <1>6, <2>6 DEF do_command
    <3>2. out'.ret = 1
      <4>1. out'.ret \in {0, 1}
        BY <2>1 DEF IInv
      <4> QED
        BY <3>1, <4>1
    <3>3. PICK line : line = LineOf[h]
      OBVIOUS
    <3>4. line = LineOf[Left(h)] /\ ~line.exit
      <4>1. Left(h) = h
        BY <1>3, <1>6, <3>2, ReportLeft
      <4> QED
        BY <1>4, <3>1, <3>3, <4>1
    <3>5. do_command(h)
      BY <1>6
    <3>6. KernelResults(MirrorImage, line) \subseteq {MirrorImage'}
      BY <1>3, <2>1, <2>6, <3>1, <3>2, <3>4, <3>5, CommandFollowed
    <3>7. kernel \in IF unixq = <<>> THEN {MirrorImage'} ELSE Reported(MirrorImage', Head(unixq))
      BY <1>4, <3>1, <3>3, <3>6
    <3>8. Led'
      BY <1>2, <2>5, <3>7 DEF Led, LedBy
    <3> QED
      BY <1>4, <2>5, <3>1, <3>8 DEF Agrees
  <2> QED
    BY <2>1, <2>4, <2>6 DEF SInv
<1> QED
  BY <1>1, <1>5, <1>6 DEF do_message_from_iptables

\* The tool changes the kernel and reports it: one report more to be served.
LEMMA ToolInv ==
    ASSUME SInv, Tool
    PROVE  SInv'
<1>1. UNCHANGED mirror /\ UNCHANGED <<pc, hd, up, running>> /\ Len(unixq) = 0
      /\ drift' = (drift \/ (running /\ pc["controller"] = "kernel"))
  BY DEF Tool
<1>2. IInv' /\ MirrorImage' = MirrorImage /\ mem' = mem
  BY <1>1, MirrorStays DEF SInv
<1>3. unixq = <<>>
  <2>1. \A h : Len(<<h>>) = 1
    OBVIOUS
  <2> QED
    BY <1>1, <2>1 DEF SInv, Wired
<1>4. PICK h \in ToolRequests :
         /\ ~LineOf[h].exit /\ kernel' \in KernelResults(kernel, LineOf[h])
         /\ unixq' = IF running THEN Append(unixq, h) ELSE unixq
  BY Zenon DEF Tool, WithRoom
<1>5. unixq' = IF running THEN <<h>> ELSE <<>>
  BY <1>3, <1>4
<1>6. Wired'
  BY <1>1, <1>5 DEF SInv, Wired
<1>7. ASSUME running, mem = "ok", ~drift, pc["controller"] # "kernel" PROVE Led'
  <2>1. Led
    BY <1>7 DEF SInv, Agrees
  <2>2. PICK x \in IF pc["iptables"] = "message" THEN Reported(MirrorImage, hd["iptables"])
                   ELSE {MirrorImage} : kernel = x
    BY <1>3, <2>1 DEF Led, LedBy
  <2>3. unixq' # <<>> /\ Head(unixq') = h
    BY <1>5, <1>7
  <2>4. kernel' \in Reported(x, h)
    BY <1>4, <2>2 DEF Reported
  <2> QED
    BY <1>1, <1>2, <2>2, <2>3, <2>4 DEF Led, LedBy
<1> QED
  BY <1>1, <1>2, <1>6, <1>7 DEF SInv, Agrees

\* After init_ruletables the mirror stands for empty tables that accept.
LEMMA StartImage == init_ruletables => MirrorImage = EmptyKernel
<1> SUFFICES ASSUME init_ruletables PROVE MirrorImage = EmptyKernel
  OBVIOUS
<1>1. IInv
  BY InitIInv
<1>2. PICK e : e = PolicyEntry("ACCEPT")
  OBVIOUS
<1>3. e.actionDesc = "ACCEPT" /\ Len(<<e>>) = 1 /\ Last(<<e>>) = e
  BY <1>2 DEF PolicyEntry, Last
<1>4. Front(<<e>>) = <<>>
  <2>1. Front(<<e>>) = SubSeq(<<e>>, 1, 0)
    BY <1>3 DEF Front
  <2> QED
    BY <2>1, SubSeqEmpty
<1>5. list = [l \in Lists |-> <<e>>]
  BY <1>2 DEF init_ruletables
<1>6. Images(<<>>) = <<>>
  <2>1. \A i \in 1 .. Len(<<>>) : FALSE
    OBVIOUS
  <2> QED
    BY <2>1 DEF Images
<1>7. \A l \in Lists : Pol[l] = "ACCEPT" /\ Images(Rul[l]) = <<>>
  BY <1>3, <1>4, <1>5, <1>6 DEF Pol, Rul
<1>8. MirrorImage = KernelOf(Pol, Rul)
  BY <1>1, MirrorIs
<1> QED
  BY <1>7, <1>8 DEF KernelOf, EmptyKernel

\* The daemon starts over; it claims nothing if the tables were not empty.
LEMMA RestartInv ==
    ASSUME SInv, Restart
    PROVE  SInv'
<1>1. init_ruletables'
  BY DEF Restart, init_ruletables
<1>2. IInv' /\ MirrorImage' = EmptyKernel
  <2>1. (init_ruletables => IInv)'
    BY InitIInv, PTL
  <2>2. (init_ruletables => MirrorImage = EmptyKernel)'
    BY StartImage, PTL
  <2>3. EmptyKernel' = EmptyKernel
    BY DEF EmptyKernel
  <2> QED
    BY <1>1, <2>1, <2>2, <2>3
<1>3. UNCHANGED <<kernel, pc, hd, unixq, up>> /\ drift' = (kernel # EmptyKernel)
  BY DEF Restart
<1>4. unixq = <<>> /\ \A t \in Threads : pc[t] = "accept"
  BY DEF Restart, SInv, Wired
<1>5. Wired'
  BY <1>3, <1>4, ThreadNames DEF SInv, Wired
<1>6. ~drift' => Led'
  BY <1>2, <1>3, <1>4, ThreadNames DEF Led, LedBy
<1> QED
  BY <1>2, <1>3, <1>4, <1>5, <1>6, ThreadNames DEF SInv, Agrees

\* Steps that change neither tables nor threads.
LEMMA IdleInv ==
    ASSUME SInv, UNCHANGED <<mirror, kernel, pc, hd, unixq, running, drift>>
    PROVE  SInv'
<1>1. IInv' /\ MirrorImage' = MirrorImage /\ mem' = mem
  BY MirrorStays DEF SInv
<1>2. Wired'
  BY DEF SInv, Wired
<1>3. Agrees => Agrees'
  BY <1>1 DEF Agrees, Led, Told, ReportPending
<1> QED
  BY <1>1, <1>2, <1>3 DEF SInv

\* The invariant holds at the start.
LEMMA ServiceInitInv == ServiceInit => SInv
<1> SUFFICES ASSUME ServiceInit PROVE SInv
  OBVIOUS
<1>1. init_ruletables
  BY DEF ServiceInit
<1>2. IInv /\ MirrorImage = EmptyKernel
  BY <1>1, InitIInv, StartImage
<1>3. /\ kernel = EmptyKernel /\ pc = [t \in Threads |-> "accept"]
      /\ hd = [t \in Threads |-> NoRequest] /\ unixq = <<>> /\ running = TRUE
  BY DEF ServiceInit
<1>4. Wired
  BY <1>3, ThreadNames DEF Wired
<1>5. Led /\ pc["controller"] # "kernel"
  BY <1>2, <1>3, ThreadNames DEF Led, LedBy
<1> QED
  BY <1>2, <1>4, <1>5 DEF SInv, Agrees

\* Every step of the daemon, the tool and the controller keeps it.
LEMMA ServiceNextInv == SInv /\ [ServiceNext]_svars => SInv'
<1> SUFFICES ASSUME SInv, [ServiceNext]_svars PROVE SInv'
  OBVIOUS
<1>1. CASE do_com_controller \/ do_message_from_controller \/ send_to_kernel
  BY <1>1, AcceptInv, ServeInv, ToKernelInv
<1>2. CASE do_com_iptables \/ do_message_from_iptables
  BY <1>2, ReadReportInv, ServeReportInv
<1>3. CASE \E t \in Threads : send_message(t)
  BY <1>3, SendInv
<1>4. CASE Tool
  BY <1>4, ToolInv
<1>5. CASE ControllerUp \/ ControllerDown \/ UNCHANGED svars
  <2>1. UNCHANGED <<mirror, kernel, pc, hd, unixq, running, drift>>
    BY <1>5 DEF ControllerUp, ControllerDown, svars, mirror
  <2> QED
    BY <2>1, IdleInv
<1>6. CASE Crash
  <2>1. Exit /\ UNCHANGED mirror
    BY <1>6 DEF Crash
  <2> QED
    BY <2>1, ExitInv
<1>7. CASE Restart
  BY <1>7, RestartInv
<1> QED
  BY <1>1, <1>2, <1>3, <1>4, <1>5, <1>6, <1>7 DEF ServiceNext

\* It gives both properties.
LEMMA SInvImplies == SInv => MirrorIsKernel /\ KernelCanFollow
<1> SUFFICES ASSUME SInv PROVE MirrorIsKernel /\ KernelCanFollow
  OBVIOUS
<1>1. MirrorIsKernel
  <2>1. ASSUME Quiet, ~drift PROVE kernel = MirrorImage
    <3>1. Led /\ unixq = <<>> /\ pc["iptables"] = "accept"
      BY <2>1, ThreadNames DEF Quiet, SInv, Agrees
    <3> QED
      BY <3>1 DEF Led, LedBy
  <2> QED
    BY <2>1 DEF MirrorIsKernel
<1>2. KernelCanFollow
  <2>1. ASSUME pc["controller"] = "kernel", mem = "ok", ~drift PROVE Told
    <3>1. running
      BY <2>1, ThreadNames DEF SInv, Wired
    <3> QED
      BY <2>1, <3>1 DEF SInv, Agrees
  <2> QED
    BY <2>1 DEF KernelCanFollow, Told, ToldBy
<1> QED
  BY <1>1, <1>2

\* The service is in good order in every reachable state: mirror, threads, reports and
\* kernel.
THEOREM ServiceInvariant == ServiceSpec => []SInv
  BY ServiceInitInv, ServiceNextInv, PTL DEF ServiceSpec

\* Between requests the mirror is the kernel's table in every reachable state in which
\* none of the five things named with MirrorIsKernel has happened, for any requests of
\* the controller and the tool and any bound on the rules.
THEOREM MirrorStaysKernel == ServiceSpec => []MirrorIsKernel
  BY ServiceInvariant, SInvImplies, PTL

\* A command the mirror accepted is one the kernel can do, in the same states.
THEOREM KernelFollows == ServiceSpec => []KernelCanFollow
  BY ServiceInvariant, SInvImplies, PTL
=============================================================================
