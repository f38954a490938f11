---------------------------- MODULE CommitProofs ----------------------------
(***************************************************************************)
(* Theorems about Commit: what holds of every handle, and what the xtables *)
(* lock gives, for any number of programs, chains, tables and calls.       *)
(*                                                                         *)
(* First the order of the programs under the lock.  Then what the calls do *)
(* to a handle, what the compiler makes of one and what the parser makes of*)
(* that; at the end the invariant of the programs, and the theorems.       *)
(***************************************************************************)
EXTENDS Commit, Foundations, FiniteSetTheorems, TLAPS

States == {"idle", "info", "use", "replaced", "wild"}

\* A program between its start and its end holds the lock, and the table its handle was
\* read from is the kernel's.
LockInv ==
    /\ pc \in [Procs -> States]
    /\ seen \in [Procs -> Nat]
    /\ version \in Nat
    /\ locking = Procs => \A p \in Procs : pc[p] # "idle" => lock = p
    /\ locking = Procs => \A p \in Procs : pc[p] = "use" => seen[p] = version

LEMMA InitLock == Init => LockInv
BY DEF Init, LockInv, States

\* A step that leaves version and seen alone and starts no program.
LEMMA Quiet ==
    ASSUME LockInv, UNCHANGED <<locking, lock, version, seen, pc>>
    PROVE  LockInv'
BY DEF LockInv

\* A program that ends gives the lock back; nobody else had it.
LEMMA LeaveLock ==
    ASSUME LockInv, NEW p \in Procs, pc[p] # "idle", Leave(p), UNCHANGED <<locking, version>>
    PROVE  LockInv'
BY DEF LockInv, Leave, States

LEMMA CallLock ==
    ASSUME LockInv, NEW p, NEW r, NEW z, Call(p, r, z)
    PROVE  LockInv'
BY Quiet DEF Call

LEMMA StepLock == LockInv /\ [Next]_vars => LockInv'
<1> SUFFICES ASSUME LockInv, [Next]_vars
             PROVE  LockInv'
  OBVIOUS
<1>1. ASSUME NEW p \in Procs, SO_GET_INFO(p)
      PROVE  LockInv'
  <2>1. /\ pc[p] = "idle" /\ pc' = [pc EXCEPT ![p] = "info"]
        /\ UNCHANGED <<locking, version, seen>>
        /\ p \in locking => lock = NoProc /\ lock' = p
    BY <1>1 DEF SO_GET_INFO, xtables_lock
  <2>2. locking = Procs => \A q \in Procs : pc[q] = "idle"
    BY <2>1, CommitAssumption DEF LockInv
  <2> QED
    BY <2>1, <2>2 DEF LockInv, States
<1>2. ASSUME NEW p \in Procs, SO_GET_ENTRIES(p)
      PROVE  LockInv'
  <2>1. /\ pc[p] = "info" /\ UNCHANGED <<locking, version>>
        /\ \/ Leave(p)
           \/ UNCHANGED <<lock, seen>> /\ pc' = [pc EXCEPT ![p] = "wild"]
           \/ /\ UNCHANGED lock /\ pc' = [pc EXCEPT ![p] = "use"]
              /\ seen' = [seen EXCEPT ![p] = version]
    BY <1>2 DEF SO_GET_ENTRIES
  <2>2. CASE Leave(p)
    BY <2>1, <2>2, LeaveLock
  <2>3. CASE UNCHANGED <<lock, seen>> /\ pc' = [pc EXCEPT ![p] = "wild"]
    BY <2>1, <2>3 DEF LockInv, States
  <2>4. CASE /\ UNCHANGED lock /\ pc' = [pc EXCEPT ![p] = "use"]
             /\ seen' = [seen EXCEPT ![p] = version]
    BY <2>1, <2>4 DEF LockInv, States
  <2> QED
    BY <2>1, <2>2, <2>3, <2>4
<1>3. ASSUME NEW p \in Procs, AddRule(p)
      PROVE  LockInv'
  BY <1>3, CallLock DEF AddRule
<1>4. ASSUME NEW p \in Procs, ReplaceRule(p)
      PROVE  LockInv'
  BY <1>4, CallLock DEF ReplaceRule
<1>5. ASSUME NEW p \in Procs, DeleteRule(p)
      PROVE  LockInv'
  BY <1>5, CallLock DEF DeleteRule
<1>6. ASSUME NEW p \in Procs, CheckRule(p)
      PROVE  LockInv'
  BY <1>6, CallLock DEF CheckRule
<1>7. ASSUME NEW p \in Procs, ChangeChain(p)
      PROVE  LockInv'
  BY <1>7, CallLock DEF ChangeChain
<1>8. ASSUME NEW p \in Procs, SetPolicy(p)
      PROVE  LockInv'
  BY <1>8, CallLock DEF SetPolicy
<1>9. ASSUME NEW p \in Procs, Zero(p)
      PROVE  LockInv'
  BY <1>9, CallLock DEF Zero
<1>10. ASSUME NEW p \in Procs, GiveUp(p)
       PROVE  LockInv'
  BY <1>10, LeaveLock DEF GiveUp
<1>11. ASSUME NEW p \in Procs, SO_SET_REPLACE(p)
       PROVE  LockInv'
  <2>1. /\ pc[p] = "use" /\ pc' = [pc EXCEPT ![p] = "replaced"]
        /\ version' = version + 1
        /\ UNCHANGED <<locking, lock, seen>>
    BY <1>11 DEF SO_SET_REPLACE
  <2>2. locking = Procs => \A q \in Procs \ {p} : pc[q] = "idle"
    BY <2>1 DEF LockInv
  <2> QED
    BY <2>1, <2>2 DEF LockInv, States
<1>12. ASSUME NEW p \in Procs, SO_SET_ADD_COUNTERS(p)
       PROVE  LockInv'
  BY <1>12, LeaveLock DEF SO_SET_ADD_COUNTERS
<1>13. ASSUME NEW i, Packet(i)
       PROVE  LockInv'
  BY <1>13, Quiet DEF Packet, procvars
<1>14. CASE UNCHANGED vars
  BY <1>14, Quiet DEF vars, procvars
<1> QED
  BY <1>1, <1>2, <1>3, <1>4, <1>5, <1>6, <1>7, <1>8, <1>9, <1>10, <1>11, <1>12, <1>13, <1>14 DEF Next

\* LockInv holds in every reachable state.
THEOREM LockHeld == Spec => []LockInv
BY InitLock, StepLock, PTL DEF Spec

-----------------------------------------------------------------------------
(* One reading.                                                            *)

\* The kernel's table and what SO_GET_INFO returned have their fields, and the hooks are
\* those of the table for whoever is between the two getsockopts.
ReadingInv ==
    /\ {"entries", "hook_entry"} \subseteq DOMAIN kernel
    /\ DOMAIN info = Procs
    /\ OneReading

LEMMA InitReading == Init => ReadingInv
<1>1. Init => {"entries", "hook_entry"} \subseteq DOMAIN kernel
  BY DEF Init, Counted, iptcc_compile_table
<1>2. Init => DOMAIN info = Procs /\ OneReading
  BY DEF Init, OneReading
<1> QED
  BY <1>1, <1>2 DEF ReadingInv

\* A step that starts no program keeps it, if it replaces the table only by one with the
\* same hooks.
LEMMA QuietReading ==
    ASSUME ReadingInv, LockInv, UNCHANGED <<locking, info>>,
           {"entries", "hook_entry"} \subseteq DOMAIN kernel',
           kernel'.hook_entry = kernel.hook_entry,
           \A q \in Procs : pc'[q] = "info" => pc[q] = "info"
    PROVE  ReadingInv'
BY DEF ReadingInv, OneReading

LEMMA LeaveReading ==
    ASSUME ReadingInv, LockInv, NEW p \in Procs, Leave(p), UNCHANGED locking,
           {"entries", "hook_entry"} \subseteq DOMAIN kernel',
           kernel'.hook_entry = kernel.hook_entry
    PROVE  ReadingInv'
BY DEF ReadingInv, OneReading, LockInv, Leave

LEMMA CallReading ==
    ASSUME ReadingInv, LockInv, NEW p, NEW r, NEW z, Call(p, r, z)
    PROVE  ReadingInv'
BY DEF ReadingInv, OneReading, Call

LEMMA StepReading == ReadingInv /\ LockInv /\ [Next]_vars => ReadingInv'
<1> SUFFICES ASSUME ReadingInv, LockInv, [Next]_vars
             PROVE  ReadingInv'
  OBVIOUS
<1>1. ASSUME NEW p \in Procs, SO_GET_INFO(p)
      PROVE  ReadingInv'
  <2>1. /\ info' = [info EXCEPT ![p] = [num_entries |-> Len(kernel.entries),
                                       hook_entry |-> kernel.hook_entry]]
        /\ pc' = [pc EXCEPT ![p] = "info"]
        /\ UNCHANGED <<locking, kernel>>
    BY <1>1 DEF SO_GET_INFO
  <2> QED
    BY <2>1 DEF ReadingInv, OneReading, LockInv
<1>2. ASSUME NEW p \in Procs, SO_GET_ENTRIES(p)
      PROVE  ReadingInv'
  <2>1. /\ UNCHANGED <<locking, kernel>>
        /\ \/ Leave(p)
           \/ UNCHANGED info /\ \E s \in {"wild", "use"} : pc' = [pc EXCEPT ![p] = s]
    BY <1>2 DEF SO_GET_ENTRIES
  <2>2. CASE Leave(p)
    BY <2>1, <2>2, LeaveReading DEF ReadingInv
  <2>3. CASE UNCHANGED info /\ \E s \in {"wild", "use"} : pc' = [pc EXCEPT ![p] = s]
    BY <2>1, <2>3 DEF ReadingInv, OneReading, LockInv
  <2> QED
    BY <2>1, <2>2, <2>3
<1>3. ASSUME NEW p \in Procs,
             \/ AddRule(p) \/ ReplaceRule(p) \/ DeleteRule(p) \/ CheckRule(p)
             \/ ChangeChain(p) \/ SetPolicy(p) \/ Zero(p)
      PROVE  ReadingInv'
  <2>1. CASE AddRule(p)
    BY <2>1, CallReading DEF AddRule
  <2>2. CASE ReplaceRule(p)
    BY <2>2, CallReading DEF ReplaceRule
  <2>3. CASE DeleteRule(p)
    BY <2>3, CallReading DEF DeleteRule
  <2>4. CASE CheckRule(p)
    BY <2>4, CallReading DEF CheckRule
  <2>5. CASE ChangeChain(p)
    BY <2>5, CallReading DEF ChangeChain
  <2>6. CASE SetPolicy(p)
    BY <2>6, CallReading DEF SetPolicy
  <2>7. CASE Zero(p)
    BY <2>7, CallReading DEF Zero
  <2> QED
    BY <1>3, <2>1, <2>2, <2>3, <2>4, <2>5, <2>6, <2>7
<1>4. ASSUME NEW p \in Procs, GiveUp(p)
      PROVE  ReadingInv'
  BY <1>4, LeaveReading DEF GiveUp, ReadingInv
\* Nobody else is between start and end: there is no reading to disturb.
<1>5. ASSUME NEW p \in Procs, SO_SET_REPLACE(p)
      PROVE  ReadingInv'
  <2>1. /\ pc[p] = "use" /\ pc' = [pc EXCEPT ![p] = "replaced"]
        /\ UNCHANGED <<locking, lock, info>>
        /\ kernel' = Fresh(iptcc_compile_table(handle[p]))
    BY <1>5 DEF SO_SET_REPLACE
  <2>2. locking = Procs => \A q \in Procs \ {p} : pc[q] = "idle"
    BY <2>1 DEF LockInv
  <2>3. {"entries", "hook_entry"} \subseteq DOMAIN kernel'
    BY <2>1 DEF Fresh, iptcc_compile_table
  <2> QED
    BY <2>1, <2>2, <2>3 DEF ReadingInv, OneReading, LockInv
<1>6. ASSUME NEW p \in Procs, SO_SET_ADD_COUNTERS(p)
      PROVE  ReadingInv'
  <2>1. /\ Leave(p) /\ UNCHANGED locking
        /\ \/ UNCHANGED kernel
           \/ \E e : kernel' = [kernel EXCEPT !.entries = e]
    BY <1>6 DEF SO_SET_ADD_COUNTERS
  <2>2. {"entries", "hook_entry"} \subseteq DOMAIN kernel' /\ kernel'.hook_entry = kernel.hook_entry
    BY <2>1 DEF ReadingInv
  <2> QED
    BY <2>1, <2>2, LeaveReading
<1>7. ASSUME NEW i, Packet(i)
      PROVE  ReadingInv'
  <2>1. /\ UNCHANGED <<locking, info, pc>>
        /\ kernel' = [kernel EXCEPT !.entries[i].cnt = Counter(@ + 1)]
    BY <1>7 DEF Packet, procvars
  <2>2. {"entries", "hook_entry"} \subseteq DOMAIN kernel' /\ kernel'.hook_entry = kernel.hook_entry
    BY <2>1 DEF ReadingInv
  <2> QED
    BY <2>1, <2>2, QuietReading
<1>8. CASE UNCHANGED vars
  BY <1>8 DEF vars, procvars, ReadingInv, OneReading
<1> QED
  BY <1>1, <1>2, <1>3, <1>4, <1>5, <1>6, <1>7, <1>8 DEF Next

\* Under the lock the hook entries SO_GET_INFO returned are those of the table whose
\* entries SO_GET_ENTRIES will return: the parser of TC_INIT never meets entries of
\* another table, whatever the other programs do.
THEOREM ReadOnce == Spec => []OneReading
<1>1. ReadingInv => OneReading
  BY DEF ReadingInv
<1> QED
  BY <1>1, InitReading, StepReading, LockHeld, PTL DEF Spec

-----------------------------------------------------------------------------
(* Lists of rules, and the jumps in them, after an insertion or a removal. *)

\* The number of jumps to d in a list of rules.
JumpCount(rules, d) == Cardinality(JumpsIn(rules, d))

\* A list is a function on the numbers up to its length.
LEMMA SeqFacts ==
    ASSUME NEW s, IsSeq(s)
    PROVE  Len(s) \in Nat /\ DOMAIN s = 1 .. Len(s)
BY DEF IsSeq

\* A sequence is a list, whatever set its elements were taken from.
LEMMA SeqIsSeq ==
    ASSUME NEW V, NEW s \in Seq(V)
    PROVE  IsSeq(s)
<1>1. Len(s) \in Nat /\ s \in [1 .. Len(s) -> V] /\ DOMAIN s = 1 .. Len(s)
  OBVIOUS
<1>2. PICK n, T : n = Len(s) /\ T = {s[i] : i \in DOMAIN s}
  OBVIOUS
<1>3. n \in Nat /\ s \in [1 .. n -> T]
  BY <1>1, <1>2
<1>4. s \in Seq(T)
  BY <1>3
<1> QED
  BY <1>2, <1>4 DEF IsSeq

\* A function on 1 .. n is a list.
LEMMA BuiltSeq ==
    ASSUME NEW n \in Nat, NEW s, s = [i \in 1 .. n |-> s[i]]
    PROVE  IsSeq(s) /\ Len(s) = n
BY DEF IsSeq

\* The jumps to a chain can be counted.
LEMMA JumpsInFinite ==
    ASSUME NEW rs, IsSeq(rs), NEW d
    PROVE  IsFiniteSet(JumpsIn(rs, d)) /\ JumpCount(rs, d) \in Nat
<1>1. JumpsIn(rs, d) \in SUBSET (1 .. Len(rs)) /\ Len(rs) \in Nat
  BY SeqFacts DEF JumpsIn
<1>2. IsFiniteSet(1 .. Len(rs))
  BY <1>1, FS_Interval
<1>3. IsFiniteSet(JumpsIn(rs, d))
  BY <1>1, <1>2, FS_Subset
<1> QED
  BY <1>3, FS_CardinalityType DEF JumpCount

\* InsertAt, element by element.
LEMMA InsertFacts ==
    ASSUME NEW rs, IsSeq(rs), NEW at \in 1 .. Len(rs) + 1, NEW r
    PROVE  /\ IsSeq(InsertAt(rs, at, r)) /\ Len(InsertAt(rs, at, r)) = Len(rs) + 1
           /\ \A i \in 1 .. Len(rs) + 1 :
                InsertAt(rs, at, r)[i] = IF i < at THEN rs[i] ELSE IF i = at THEN r ELSE rs[i - 1]
<1> DEFINE S == {rs[i] : i \in DOMAIN rs} \cup {r}
<1>1. rs \in Seq(S) /\ r \in S
  BY SeqFacts DEF IsSeq
<1> HIDE DEF S
<1>2. InsertAt(rs, at, r) \in Seq(S) /\ Inserts(rs, at, r, InsertAt(rs, at, r))
  BY <1>1, InsertAtInserts
<1> QED
  BY <1>2, SeqIsSeq DEF Inserts

\* Insertion adds one jump, or none.
LEMMA CountInsert ==
    ASSUME NEW rs, IsSeq(rs), NEW at \in 1 .. Len(rs) + 1, NEW r, NEW d
    PROVE  JumpCount(InsertAt(rs, at, r), d) = JumpCount(rs, d) + (IF r.jump = d THEN 1 ELSE 0)
<1> DEFINE new == InsertAt(rs, at, r)
           Rest == JumpsIn(new, d) \ {at}
           f == [k \in JumpsIn(rs, d) |-> IF k < at THEN k ELSE k + 1]
<1>1. Len(rs) \in Nat /\ DOMAIN rs = 1 .. Len(rs)
  BY SeqFacts
<1>3. /\ IsSeq(new) /\ Len(new) = Len(rs) + 1
      /\ \A i \in 1 .. Len(rs) + 1 :
            new[i] = IF i < at THEN rs[i] ELSE IF i = at THEN r ELSE rs[i - 1]
  BY InsertFacts
<1>4. IsSeq(new)
  BY <1>3
<1> HIDE DEF new
<1>5. DOMAIN new = 1 .. Len(rs) + 1
  BY <1>3, <1>4, SeqFacts
<1>6. f \in Bijection(JumpsIn(rs, d), Rest)
  <2>1. f \in [JumpsIn(rs, d) -> Rest]
    BY <1>1, <1>3, <1>5 DEF JumpsIn
  <2>2. \A a, b \in JumpsIn(rs, d) : f[a] = f[b] => a = b
    BY <1>1 DEF JumpsIn
  <2>3. \A k \in Rest : \E a \in JumpsIn(rs, d) : f[a] = k
    <3> TAKE k \in Rest
    <3>1. k \in 1 .. Len(rs) + 1 /\ k # at /\ new[k].jump = d
      BY <1>5 DEF JumpsIn
    <3>2. CASE k < at
      <4>1. k \in JumpsIn(rs, d)
        BY <3>1, <3>2, <1>1, <1>3 DEF JumpsIn
      <4> QED
        BY <4>1, <3>2
    <3>3. CASE k > at
      <4>1. k - 1 \in JumpsIn(rs, d)
        BY <3>1, <3>3, <1>1, <1>3 DEF JumpsIn
      <4> QED
        BY <4>1, <3>1, <3>3, <1>1
    <3> QED
      BY <3>1, <3>2, <3>3
  <2> QED
    BY <2>1, <2>2, <2>3 DEF Bijection, Injection, Surjection, IsInjective
<1>7. IsFiniteSet(Rest) /\ Cardinality(Rest) = JumpCount(rs, d)
  BY <1>6, JumpsInFinite, FS_Bijection DEF ExistsBijection, JumpCount
<1>8. JumpsIn(new, d) = IF r.jump = d THEN Rest \cup {at} ELSE Rest
  BY <1>3, <1>5 DEF JumpsIn
<1>9. JumpCount(new, d) = JumpCount(rs, d) + (IF r.jump = d THEN 1 ELSE 0)
  <2>1. Cardinality(Rest \cup {at}) = JumpCount(rs, d) + 1
    BY <1>7, FS_AddElement
  <2>2. JumpCount(rs, d) \in Nat
    BY JumpsInFinite
  <2>3. JumpCount(new, d) = Cardinality(JumpsIn(new, d))
    BY DEF JumpCount
  <2> HIDE DEF Rest
  <2>4. CASE r.jump = d
    BY <1>8, <2>1, <2>3, <2>4
  <2>5. CASE r.jump # d
    BY <1>7, <1>8, <2>2, <2>3, <2>5
  <2> QED
    BY <2>4, <2>5
<1> QED
  BY <1>9 DEF new

\* Sequences of one length with the same elements are the same.
LEMMA SameSeq ==
    ASSUME NEW a, NEW b, IsSeq(a), IsSeq(b), Len(a) = Len(b), \A i \in 1 .. Len(a) : a[i] = b[i]
    PROVE  a = b
BY DEF IsSeq

\* What a list is made of after a change: rules of before, and r.
MadeOf(new, rs, r) == \A i \in DOMAIN new : new[i] = r \/ \E k \in DOMAIN rs : new[i] = rs[k]

\* A list with an element inserted has no others.
LEMMA MadeByInsert ==
    ASSUME NEW rs, IsSeq(rs), NEW at \in 1 .. Len(rs) + 1, NEW r
    PROVE  MadeOf(InsertAt(rs, at, r), rs, r)
<1>1. Len(rs) \in Nat /\ DOMAIN rs = 1 .. Len(rs)
  BY SeqFacts
<1>2. DOMAIN InsertAt(rs, at, r) = 1 .. Len(rs) + 1
  BY InsertFacts, SeqFacts
<1> SUFFICES ASSUME NEW i \in 1 .. Len(rs) + 1
             PROVE  InsertAt(rs, at, r)[i] = r \/ \E k \in DOMAIN rs : InsertAt(rs, at, r)[i] = rs[k]
  BY <1>2 DEF MadeOf
<1>3. InsertAt(rs, at, r)[i] = IF i < at THEN rs[i] ELSE IF i = at THEN r ELSE rs[i - 1]
  BY InsertFacts
<1>4. /\ i < at => i \in DOMAIN rs
      /\ i > at => i - 1 \in DOMAIN rs
      /\ i < at \/ i = at \/ i > at
  BY <1>1
<1> QED
  BY <1>3, <1>4

\* A rule at the end adds its jump to the count.
LEMMA CountAppend ==
    ASSUME NEW rs, IsSeq(rs), NEW r, NEW d
    PROVE  /\ IsSeq(Append(rs, r)) /\ Len(Append(rs, r)) = Len(rs) + 1
           /\ MadeOf(Append(rs, r), rs, r)
           /\ JumpCount(Append(rs, r), d) = JumpCount(rs, d) + (IF r.jump = d THEN 1 ELSE 0)
<1>1. Len(rs) \in Nat /\ DOMAIN rs = 1 .. Len(rs)
  BY SeqFacts
<1>2. IsSeq(Append(rs, r)) /\ Len(Append(rs, r)) = Len(rs) + 1
  <2> DEFINE V == {rs[i] : i \in DOMAIN rs} \cup {r}
  <2>1. rs \in Seq(V) /\ r \in V
    BY <1>1 DEF IsSeq
  <2> HIDE DEF V
  <2>2. Append(rs, r) \in Seq(V) /\ Len(Append(rs, r)) = Len(rs) + 1
    BY <2>1
  <2> QED
    BY <2>2, SeqIsSeq
<1> DEFINE at == Len(rs) + 1
<1>3. at \in 1 .. Len(rs) + 1
  BY <1>1
<1>4. /\ IsSeq(InsertAt(rs, at, r)) /\ Len(InsertAt(rs, at, r)) = Len(rs) + 1
      /\ \A i \in 1 .. Len(rs) + 1 :
            InsertAt(rs, at, r)[i] = IF i < at THEN rs[i] ELSE IF i = at THEN r ELSE rs[i - 1]
  BY <1>3, InsertFacts
<1>5. \A i \in 1 .. Len(rs) + 1 : Append(rs, r)[i] = IF i = Len(rs) + 1 THEN r ELSE rs[i]
  BY <1>1 DEF IsSeq
<1>6. \A i \in 1 .. Len(rs) + 1 : Append(rs, r)[i] = InsertAt(rs, at, r)[i]
  BY <1>1, <1>4, <1>5
<1>7. Append(rs, r) = InsertAt(rs, at, r)
  BY <1>2, <1>4, <1>6, SameSeq
<1> HIDE DEF at
<1> QED
  BY <1>2, <1>3, <1>7, CountInsert, MadeByInsert

\* A rule taken out takes its jump with it.
LEMMA CountRemove ==
    ASSUME NEW rs, IsSeq(rs), NEW at \in 1 .. Len(rs), NEW d
    PROVE  /\ IsSeq(RemoveAt(rs, at)) /\ Len(RemoveAt(rs, at)) = Len(rs) - 1
           /\ MadeOf(RemoveAt(rs, at), rs, rs[at])
           /\ rs = InsertAt(RemoveAt(rs, at), at, rs[at])
           /\ JumpCount(RemoveAt(rs, at), d) = JumpCount(rs, d) - (IF rs[at].jump = d THEN 1 ELSE 0)
<1> DEFINE V == {rs[i] : i \in DOMAIN rs}
           less == RemoveAt(rs, at)
           more == InsertAt(less, at, rs[at])
<1>1. Len(rs) \in Nat /\ DOMAIN rs = 1 .. Len(rs)
  BY SeqFacts
<1>2. /\ less \in Seq(V) /\ Len(less) = Len(rs) - 1
      /\ \A i \in 1 .. Len(rs) - 1 : less[i] = IF i < at THEN rs[i] ELSE rs[i + 1]
  <2>1. rs \in Seq(V)
    BY DEF IsSeq
  <2> HIDE DEF V
  <2> QED
    BY <2>1, RemoveAtProperties
<1>3. IsSeq(less)
  BY <1>2, SeqIsSeq
<1> HIDE DEF V, less
<1>4. DOMAIN less = 1 .. Len(rs) - 1
  BY <1>1, <1>2, <1>3, SeqFacts
<1>5. MadeOf(less, rs, rs[at])
  <2> SUFFICES ASSUME NEW i \in 1 .. Len(rs) - 1
               PROVE  \E k \in DOMAIN rs : less[i] = rs[k]
    BY <1>4 DEF MadeOf
  <2>1. less[i] = IF i < at THEN rs[i] ELSE rs[i + 1]
    BY <1>2
  <2>2. i \in DOMAIN rs /\ i + 1 \in DOMAIN rs
    BY <1>1
  <2> QED
    BY <2>1, <2>2
<1>6. at \in 1 .. Len(less) + 1
  BY <1>1, <1>2
<1>7. /\ IsSeq(more) /\ Len(more) = Len(rs)
      /\ \A i \in 1 .. Len(rs) :
            more[i] = IF i < at THEN less[i] ELSE IF i = at THEN rs[at] ELSE less[i - 1]
  <2>1. Len(less) + 1 = Len(rs)
    BY <1>1, <1>2
  <2> QED
    BY <1>3, <1>6, <2>1, InsertFacts
<1> HIDE DEF more
<1>8. \A i \in 1 .. Len(rs) : more[i] = rs[i]
  <2> TAKE i \in 1 .. Len(rs)
  <2>1. CASE i < at
    <3>1. i \in 1 .. Len(rs) - 1
      BY <2>1, <1>1
    <3> QED
      BY <2>1, <3>1, <1>2, <1>7
  <2>2. CASE i = at
    BY <2>2, <1>7
  <2>3. CASE i > at
    <3>1. i - 1 \in 1 .. Len(rs) - 1 /\ ~(i - 1 < at) /\ (i - 1) + 1 = i
      BY <2>3, <1>1
    <3>2. less[i - 1] = rs[i]
      BY <3>1, <1>2
    <3>3. ~(i < at) /\ i # at
      BY <2>3
    <3> QED
      BY <3>2, <3>3, <1>7
  <2> QED
    BY <1>1, <2>1, <2>2, <2>3
<1>9. rs = more
  BY <1>7, <1>8, SameSeq
<1>10. JumpCount(more, d) = JumpCount(less, d) + (IF rs[at].jump = d THEN 1 ELSE 0)
  BY <1>3, <1>6, CountInsert DEF more
<1>11. JumpCount(less, d) \in Nat
  BY <1>3, JumpsInFinite
<1>12. JumpCount(less, d) = JumpCount(rs, d) - (IF rs[at].jump = d THEN 1 ELSE 0)
  <2>1. JumpCount(rs, d) = JumpCount(less, d) + (IF rs[at].jump = d THEN 1 ELSE 0)
    BY <1>9, <1>10
  <2> QED
    BY <1>11, <2>1
<1> QED
  BY <1>2, <1>3, <1>5, <1>9, <1>12, Zenon DEF less, more

\* A rule replaced takes its jump with it and the new one adds its own.
LEMMA CountReplace ==
    ASSUME NEW rs, IsSeq(rs), NEW at \in 1 .. Len(rs), NEW r, NEW d
    PROVE  /\ IsSeq(ReplaceAt(rs, at, r)) /\ Len(ReplaceAt(rs, at, r)) = Len(rs)
           /\ MadeOf(ReplaceAt(rs, at, r), rs, r)
           /\ JumpCount(ReplaceAt(rs, at, r), d) =
                 JumpCount(rs, d) - (IF rs[at].jump = d THEN 1 ELSE 0) + (IF r.jump = d THEN 1 ELSE 0)
<1> DEFINE new == ReplaceAt(rs, at, r)
           less == RemoveAt(rs, at)
           more == InsertAt(less, at, r)
<1>1. Len(rs) \in Nat /\ DOMAIN rs = 1 .. Len(rs)
  BY SeqFacts
<1>2. new = [i \in 1 .. Len(rs) |-> IF i = at THEN r ELSE rs[i]]
  BY <1>1 DEF ReplaceAt, IsSeq
<1>3. IsSeq(new) /\ Len(new) = Len(rs)
  <2>1. new = [i \in 1 .. Len(rs) |-> new[i]]
    BY <1>2
  <2> QED
    BY <1>1, <2>1, BuiltSeq
<1>4. MadeOf(new, rs, r)
  BY <1>1, <1>2 DEF MadeOf
<1>5. /\ IsSeq(less) /\ Len(less) = Len(rs) - 1 /\ rs = InsertAt(less, at, rs[at])
      /\ JumpCount(less, d) = JumpCount(rs, d) - (IF rs[at].jump = d THEN 1 ELSE 0)
  BY CountRemove
<1> HIDE DEF new, less
<1>6. at \in 1 .. Len(less) + 1 /\ Len(less) + 1 = Len(rs)
  BY <1>1, <1>5
<1>7. \A i \in 1 .. Len(rs) :
        rs[i] = IF i < at THEN less[i] ELSE IF i = at THEN rs[at] ELSE less[i - 1]
  <2>1. \A i \in 1 .. Len(less) + 1 :
            InsertAt(less, at, rs[at])[i] =
                IF i < at THEN less[i] ELSE IF i = at THEN rs[at] ELSE less[i - 1]
    BY <1>5, <1>6, InsertFacts
  <2> QED
    BY <1>5, <1>6, <2>1
<1>8. /\ IsSeq(more) /\ Len(more) = Len(rs)
      /\ \A i \in 1 .. Len(rs) :
            more[i] = IF i < at THEN less[i] ELSE IF i = at THEN r ELSE less[i - 1]
      /\ JumpCount(more, d) = JumpCount(less, d) + (IF r.jump = d THEN 1 ELSE 0)
  BY <1>5, <1>6, InsertFacts, CountInsert
<1> HIDE DEF more
<1>9. new = more
  <2>1. \A i \in 1 .. Len(rs) : new[i] = more[i]
    BY <1>2, <1>7, <1>8
  <2> QED
    BY <1>3, <1>8, <2>1, SameSeq
<1>10. JumpCount(new, d) =
         JumpCount(rs, d) - (IF rs[at].jump = d THEN 1 ELSE 0) + (IF r.jump = d THEN 1 ELSE 0)
  BY <1>5, <1>8, <1>9
<1> QED
  BY <1>3, <1>4, <1>10 DEF new

-----------------------------------------------------------------------------
(* The jumps of a table.                                                   *)

\* Finitely many chains with lists of rules.
ListsIn(chains) == IsFiniteSet(DOMAIN chains) /\ \A c \in DOMAIN chains : IsSeq(chains[c].rules)

\* The image of a finite set under a function.
LEMMA FiniteImage ==
    ASSUME NEW S, IsFiniteSet(S), NEW f
    PROVE  IsFiniteSet({f[x] : x \in S})
<1> DEFINE g == [x \in S |-> f[x]]
           T == {f[x] : x \in S}
<1>1. g \in Surjection(S, T)
  BY DEF Surjection
<1> QED
  BY <1>1, FS_Surjection

\* The jumps in some of the chains.
JumpsFrom(chains, cs, d) == UNION {{c} \X JumpsIn(chains[c].rules, d) : c \in cs}

\* The jumps to d from finitely many chains can be counted.
LEMMA JumpsFromFinite ==
    ASSUME NEW chains, ListsIn(chains), NEW cs \in SUBSET DOMAIN chains, NEW d
    PROVE  IsFiniteSet(JumpsFrom(chains, cs, d))
<1> DEFINE f == [c \in cs |-> {c} \X JumpsIn(chains[c].rules, d)]
<1>1. IsFiniteSet(cs)
  BY FS_Subset DEF ListsIn
<1>2. ASSUME NEW c \in cs
      PROVE  IsFiniteSet(f[c])
  <2>1. IsFiniteSet(JumpsIn(chains[c].rules, d))
    BY JumpsInFinite DEF ListsIn
  <2>2. IsFiniteSet({c})
    BY FS_Singleton
  <2> QED
    BY <2>1, <2>2, FS_Product
<1>3. JumpsFrom(chains, cs, d) = UNION {f[c] : c \in cs}
  BY DEF JumpsFrom
<1> HIDE DEF f
<1>4. IsFiniteSet({f[c] : c \in cs})
  BY <1>1, FiniteImage
<1> QED
  BY <1>2, <1>3, <1>4, FS_UNION

\* The jumps to d in a table can be counted.
LEMMA JumpsFinite ==
    ASSUME NEW chains, ListsIn(chains), NEW d
    PROVE  IsFiniteSet(Jumps(chains, d)) /\ Cardinality(Jumps(chains, d)) \in Nat
<1>1. Jumps(chains, d) = JumpsFrom(chains, DOMAIN chains, d)
  BY DEF Jumps, JumpsFrom
<1> QED
  BY <1>1, JumpsFromFinite, FS_CardinalityType

\* The jumps are those of one chain and those of the others.
LEMMA JumpsSplit ==
    ASSUME NEW chains, ListsIn(chains), NEW c \in DOMAIN chains, NEW d
    PROVE  /\ Cardinality(JumpsFrom(chains, DOMAIN chains \ {c}, d)) \in Nat
           /\ JumpCount(chains[c].rules, d) \in Nat
           /\ Cardinality(Jumps(chains, d)) =
                 Cardinality(JumpsFrom(chains, DOMAIN chains \ {c}, d)) + JumpCount(chains[c].rules, d)
<1> DEFINE Others == JumpsFrom(chains, DOMAIN chains \ {c}, d)
           Here == {c} \X JumpsIn(chains[c].rules, d)
<1>1. IsFiniteSet(Others)
  BY JumpsFromFinite
<1>2. IsFiniteSet(JumpsIn(chains[c].rules, d)) /\ JumpCount(chains[c].rules, d) \in Nat
  BY JumpsInFinite DEF ListsIn
<1>3. IsFiniteSet(Here) /\ Cardinality(Here) = JumpCount(chains[c].rules, d)
  <2>1. IsFiniteSet({c}) /\ Cardinality({c}) = 1
    BY FS_Singleton
  <2>2. IsFiniteSet(Here) /\ Cardinality(Here) = 1 * Cardinality(JumpsIn(chains[c].rules, d))
    BY <1>2, <2>1, FS_Product
  <2> HIDE DEF Here
  <2> QED
    BY <1>2, <2>2 DEF JumpCount
<1>4. Jumps(chains, d) = Others \cup Here
  BY DEF Jumps, JumpsFrom
<1>5. Others \cap Here = {}
  BY DEF JumpsFrom
<1>6. Cardinality(Others) \in Nat
  BY <1>1, FS_CardinalityType
<1> HIDE DEF Others, Here
<1>7. Cardinality(Others \cup Here) = Cardinality(Others) + Cardinality(Here) - Cardinality(Others \cap Here)
  BY <1>1, <1>3, FS_Union
<1>8. Cardinality(Others \cap Here) = 0
  BY <1>5, FS_EmptySet
<1>9. Cardinality(Jumps(chains, d)) = Cardinality(Others) + JumpCount(chains[c].rules, d)
  BY <1>2, <1>3, <1>4, <1>6, <1>7, <1>8
<1> QED
  BY <1>2, <1>6, <1>9 DEF Others

\* A change of one chain's list changes the number of jumps by what it changes there.
LEMMA EditTotal ==
    ASSUME NEW chains, ListsIn(chains), NEW new, DOMAIN new = DOMAIN chains,
           NEW c \in DOMAIN chains, IsSeq(new[c].rules),
           \A x \in DOMAIN chains \ {c} : new[x].rules = chains[x].rules, NEW d
    PROVE  Cardinality(Jumps(new, d)) =
              Cardinality(Jumps(chains, d)) - JumpCount(chains[c].rules, d) + JumpCount(new[c].rules, d)
<1>1. ListsIn(new)
  BY DEF ListsIn
<1>2. JumpsFrom(new, DOMAIN new \ {c}, d) = JumpsFrom(chains, DOMAIN chains \ {c}, d)
  BY DEF JumpsFrom
<1>3. /\ Cardinality(JumpsFrom(chains, DOMAIN chains \ {c}, d)) \in Nat
      /\ JumpCount(chains[c].rules, d) \in Nat
      /\ Cardinality(Jumps(chains, d)) =
            Cardinality(JumpsFrom(chains, DOMAIN chains \ {c}, d)) + JumpCount(chains[c].rules, d)
  BY JumpsSplit
<1>4. /\ JumpCount(new[c].rules, d) \in Nat
      /\ Cardinality(Jumps(new, d)) =
            Cardinality(JumpsFrom(chains, DOMAIN chains \ {c}, d)) + JumpCount(new[c].rules, d)
  BY <1>1, <1>2, JumpsSplit
<1> QED
  BY <1>3, <1>4

-----------------------------------------------------------------------------
(* Handles after a change of one list of rules.                            *)

\* HandleInv gives what CountsExact says of a handle.
LEMMA HandleExact ==
    ASSUME NEW h, HandleInv(h)
    PROVE  CountsExactIn(h)
BY DEF HandleInv, Lists, IsChain, IsRule, CountsExactIn

\* The chains of a handle have lists of rules.
LEMMA ListsAreLists ==
    ASSUME NEW h, Lists(h)
    PROVE  ListsIn(h.chains)
BY DEF Lists, ListsIn, IsChain

\* g has the lists of h.
SameLists(h, g) ==
    /\ Lists(g) /\ DOMAIN g.chains = DOMAIN h.chains
    /\ \A c \in DOMAIN h.chains : g.chains[c].rules = h.chains[c].rules

\* References of chain d grow by n if it is j.
LEMMA ReferLists ==
    ASSUME NEW h, Lists(h), NEW j \in DOMAIN h.chains \cup {NoChain}, NEW n \in Int
    PROVE  /\ SameLists(h, Refer(h, j, n))
           /\ \A d \in DOMAIN h.chains : Refer(h, j, n).chains[d].references =
                 h.chains[d].references + (IF j = d THEN n ELSE 0)
<1> DEFINE D == DOMAIN h.chains
           g == Refer(h, j, n)
<1>1. CASE j = NoChain
  <2>1. g = h /\ NoChain \notin D
    BY <1>1 DEF Refer, Lists
  <2>2. \A d \in D : h.chains[d].references \in Int /\ j # d
    BY <1>1 DEF Lists, IsChain
  <2> HIDE DEF g
  <2> QED
    BY <2>1, <2>2 DEF SameLists, g
<1>2. CASE j # NoChain
  <2>1. g = [h EXCEPT !.chains[j].references = @ + n] /\ j \in D
    BY <1>2 DEF Refer
  <2>2. "chains" \in DOMAIN g /\ g.chains = [h.chains EXCEPT ![j].references = @ + n]
    BY <2>1 DEF Lists
  <2>3. DOMAIN g.chains = D
    BY <2>2
  <2>4. \A d \in D \ {j} : g.chains[d] = h.chains[d]
    BY <2>2
  <2>5. g.chains[j] = [h.chains[j] EXCEPT !.references = @ + n]
    BY <2>1, <2>2
  <2>6. /\ g.chains[j].rules = h.chains[j].rules /\ g.chains[j].num_rules = h.chains[j].num_rules
        /\ g.chains[j].references = h.chains[j].references + n
        /\ DOMAIN g.chains[j] = DOMAIN h.chains[j]
    BY <2>1, <2>5 DEF Lists, IsChain
  <2> HIDE DEF g
  <2>7. IsChain(D, g.chains[j])
    BY <2>1, <2>6 DEF Lists, IsChain
  <2>8. \A d \in D : IsChain(D, g.chains[d])
    BY <2>4, <2>7 DEF Lists
  <2>9. Lists(g)
    BY <2>2, <2>3, <2>8 DEF Lists
  <2>10. \A d \in D : g.chains[d].rules = h.chains[d].rules
    BY <2>4, <2>6
  <2>11. \A d \in D : g.chains[d].references = h.chains[d].references + (IF j = d THEN n ELSE 0)
    <3> TAKE d \in D
    <3>1. h.chains[d].references \in Int
      BY DEF Lists, IsChain
    <3> QED
      BY <2>4, <2>6, <3>1
  <2> QED
    BY <2>3, <2>9, <2>10, <2>11 DEF SameLists, g
<1> QED
  BY <1>1, <1>2

\* A chain may be given any list of sound rules.
LEMMA WithRulesLists ==
    ASSUME NEW h, Lists(h), NEW c \in DOMAIN h.chains, NEW rs, IsSeq(rs), NEW n \in Int,
           Len(rs) = Len(h.chains[c].rules) + n,
           \A i \in DOMAIN rs : IsRule(DOMAIN h.chains, rs[i])
    PROVE  LET g == WithRules(h, c, rs, n) IN
           /\ Lists(g) /\ DOMAIN g.chains = DOMAIN h.chains
           /\ g.chains[c].rules = rs
           /\ \A d \in DOMAIN h.chains \ {c} : g.chains[d].rules = h.chains[d].rules
           /\ \A d \in DOMAIN h.chains : g.chains[d].references = h.chains[d].references
<1> DEFINE D == DOMAIN h.chains
           g == WithRules(h, c, rs, n)
<1>1. g = [h EXCEPT !.chains[c].rules = rs, !.chains[c].num_rules = @ + n]
  BY DEF WithRules
<1>2. "chains" \in DOMAIN g /\ g.chains = [h.chains EXCEPT ![c].rules = rs, ![c].num_rules = @ + n]
  BY <1>1 DEF Lists
<1>3. DOMAIN g.chains = D
  BY <1>2
<1>4. \A d \in D \ {c} : g.chains[d] = h.chains[d]
  BY <1>2
<1>5. g.chains[c] = [h.chains[c] EXCEPT !.rules = rs, !.num_rules = @ + n]
  BY <1>2 DEF Lists, IsChain
<1>6. /\ g.chains[c].rules = rs /\ g.chains[c].num_rules = h.chains[c].num_rules + n
      /\ g.chains[c].references = h.chains[c].references
      /\ DOMAIN g.chains[c] = DOMAIN h.chains[c]
  BY <1>5 DEF Lists, IsChain
<1> HIDE DEF g
<1>7. IsChain(D, g.chains[c])
  BY <1>6 DEF Lists, IsChain
<1>8. \A d \in D : IsChain(D, g.chains[d])
  BY <1>4, <1>7 DEF Lists
<1>9. Lists(g)
  BY <1>2, <1>3, <1>8 DEF Lists
<1> QED
  BY <1>3, <1>4, <1>6, <1>9 DEF g

\* The flag changed says nothing about the chains.
LEMMA ChangedSame ==
    ASSUME NEW h, Lists(h)
    PROVE  "chains" \in DOMAIN Changed(h) /\ Changed(h).chains = h.chains
BY DEF Changed, Lists

\* The invariant depends on the chains only.
LEMMA SameChains ==
    ASSUME NEW h, NEW g, "chains" \in DOMAIN g, g.chains = h.chains, HandleInv(h)
    PROVE  HandleInv(g)
BY DEF HandleInv, Lists

\* A change of chain c keeps the invariant if references change with its jumps.
LEMMA EditKeeps ==
    ASSUME NEW h, HandleInv(h), NEW g, Lists(g), DOMAIN g.chains = DOMAIN h.chains,
           NEW c \in DOMAIN h.chains,
           \A d \in DOMAIN h.chains \ {c} : g.chains[d].rules = h.chains[d].rules,
           \A d \in DOMAIN h.chains : g.chains[d].references =
               h.chains[d].references - JumpCount(h.chains[c].rules, d) + JumpCount(g.chains[c].rules, d)
    PROVE  HandleInv(g)
<1>1. ListsIn(h.chains) /\ IsSeq(g.chains[c].rules)
  BY ListsAreLists DEF HandleInv, Lists, IsChain
<1>2. \A d : Cardinality(Jumps(g.chains, d)) =
        Cardinality(Jumps(h.chains, d)) - JumpCount(h.chains[c].rules, d) + JumpCount(g.chains[c].rules, d)
  BY <1>1, EditTotal
<1> QED
  BY <1>2 DEF HandleInv

\* The rule made of an entry, and the reference it takes.
LEMMA JumpRule ==
    ASSUME NEW e, NEW D, NEW t \in D
    PROVE  IsRule(D, Rule(e, "JUMP", "", 0, t)) /\ Rule(e, "JUMP", "", 0, t).jump = t
<1>1. PICK r : r = Rule(e, "JUMP", "", 0, t)
  OBVIOUS
<1>2. "jump" \in DOMAIN r /\ "type" \in DOMAIN r /\ r.type = "JUMP" /\ r.jump = t
  BY <1>1 DEF Rule
<1> QED
  BY <1>1, <1>2 DEF IsRule

\* iptcc_map_target makes a rule of the table and counts its reference.
LEMMA MapTarget ==
    ASSUME NEW h, Lists(h), NEW e
    PROVE  LET m == iptcc_map_target(h, e) IN
           /\ IsRule(DOMAIN h.chains, m.r) /\ m.r.jump \in DOMAIN h.chains \cup {NoChain}
           /\ SameLists(h, m.h)
           /\ \A d \in DOMAIN h.chains : m.h.chains[d].references =
                 h.chains[d].references + (IF m.r.jump = d THEN 1 ELSE 0)
<1> DEFINE D == DOMAIN h.chains
           m == iptcc_map_target(h, e)
<1>1. NoChain \notin D /\ \A d \in D : h.chains[d].references \in Int
  BY DEF Lists, IsChain
<1>2. SameLists(h, h)
  BY DEF SameLists
<1>3. SameLists(h, Changed(h)) /\ Changed(h).chains = h.chains
  BY ChangedSame DEF SameLists, Lists
<1>4. CASE e.target \notin D \/ e.target \in {""} \cup DOMAIN StandardTargets
  <2>1. (m.h = h \/ m.h = Changed(h)) /\ m.r.type # "JUMP" /\ m.r.jump = NoChain
        /\ {"jump", "type"} \subseteq DOMAIN m.r
    BY <1>4 DEF iptcc_map_target, Rule
  <2> HIDE DEF m
  <2>2. SameLists(h, m.h) /\ \A d \in D : m.h.chains[d].references = h.chains[d].references
    BY <1>2, <1>3, <2>1
  <2> QED
    BY <1>1, <2>1, <2>2 DEF IsRule, m
<1>5. CASE e.target \in D /\ e.target \notin {""} \cup DOMAIN StandardTargets
  <2>1. PICK t : t = e.target
    OBVIOUS
  <2>2. m.h = Refer(h, t, 1) /\ m.r = Rule(e, "JUMP", "", 0, t)
    BY <1>5, <2>1 DEF iptcc_map_target
  <2> HIDE DEF m
  <2>3. t \in D
    BY <1>5, <2>1
  <2>5. /\ SameLists(h, Refer(h, t, 1))
        /\ \A d \in D : Refer(h, t, 1).chains[d].references =
                 h.chains[d].references + (IF t = d THEN 1 ELSE 0)
    BY <2>3, ReferLists
  <2>6. PICK r : r = m.r
    OBVIOUS
  <2>7. IsRule(D, r) /\ r.jump = t
    BY <2>2, <2>3, <2>6, JumpRule
  <2> QED
    BY <2>2, <2>3, <2>5, <2>6, <2>7 DEF m
<1> QED
  BY <1>4, <1>5

\* No rule is made for the name of the entries between chains.
Usable(e) == e.target # "ERROR"

\* The rules iptcc_map_target makes are sound, if the target is not that of an error entry.
LEMMA RuleSound ==
    ASSUME NEW e, NEW type, NEW target, NEW verdict, NEW jump, jump \notin BuiltIn,
           \/ type \in {"JUMP", "FALLTHROUGH"} /\ target = "" /\ verdict = 0
           \/ type = "STANDARD" /\ target = "" /\ verdict \in Int /\ verdict < 0
           \/ type = "MODULE" /\ target \notin {"", "ERROR"} /\ verdict = 0
    PROVE  SoundRule(Rule(e, type, target, verdict, jump))
<1>1. PICK r : r = Rule(e, type, target, verdict, jump)
  OBVIOUS
<1>2. /\ {"image", "target", "verdict", "type", "jump"} \subseteq DOMAIN r
      /\ r.type = type /\ r.target = target /\ r.verdict = verdict /\ r.jump = jump
  BY <1>1 DEF Rule
<1>3. SoundRule(r)
  BY <1>2 DEF SoundRule
<1> QED
  BY <1>1, <1>3

\* The rule is sound, and the handle as sound as before.
LEMMA MapSound ==
    ASSUME NEW h, Sound(h), NEW e, Usable(e), Mappable(h, e)
    PROVE  SoundRule(iptcc_map_target(h, e).r)
<1> DEFINE D == DOMAIN h.chains
           m == iptcc_map_target(h, e)
<1>1. PICK t : t = e.target
  OBVIOUS
<1>2. PICK r : r = m.r
  OBVIOUS
<1>3. t # "ERROR" /\ (t \in D => t \notin BuiltIn)
  BY <1>1 DEF Usable, Mappable
<1>4. NoChain \notin BuiltIn
  BY LibiptcAssumption
<1>5. CASE e.target = ""
  <2>1. m.r = Rule(e, "FALLTHROUGH", "", 0, NoChain)
    BY <1>5 DEF iptcc_map_target
  <2> HIDE DEF m
  <2>2. r = Rule(e, "FALLTHROUGH", "", 0, NoChain)
    BY <1>2, <2>1
  <2>3. SoundRule(r)
    BY <1>4, <2>2, RuleSound
  <2> QED
    BY <1>2, <2>3 DEF m
<1>6. CASE e.target # "" /\ e.target \in DOMAIN StandardTargets
  <2>1. PICK v : v = StandardTargets[e.target]
    OBVIOUS
  <2>2. m.r = Rule(e, "STANDARD", "", v, NoChain)
    BY <1>6, <2>1 DEF iptcc_map_target
  <2> HIDE DEF m
  <2>3. r = Rule(e, "STANDARD", "", v, NoChain)
    BY <1>2, <2>2
  <2>4. t \in DOMAIN StandardTargets /\ v = StandardTargets[t]
    BY <1>1, <1>6, <2>1
  <2>5. v \in Int /\ v < 0
    BY <2>4 DEF StandardTargets, RETURN
  <2>6. SoundRule(r)
    BY <1>4, <2>3, <2>5, RuleSound
  <2> QED
    BY <1>2, <2>6 DEF m
<1>7. CASE e.target # "" /\ e.target \notin DOMAIN StandardTargets /\ e.target \in D
  <2>1. m.r = Rule(e, "JUMP", "", 0, e.target)
    BY <1>7 DEF iptcc_map_target
  <2> HIDE DEF m
  <2>2. r = Rule(e, "JUMP", "", 0, t) /\ t \notin BuiltIn
    BY <1>1, <1>2, <1>3, <1>7, <2>1
  <2>3. SoundRule(r)
    BY <2>2, RuleSound
  <2> QED
    BY <1>2, <2>3 DEF m
<1>8. CASE e.target # "" /\ e.target \notin DOMAIN StandardTargets /\ e.target \notin D
  <2>1. m.r = Rule(e, "MODULE", e.target, 0, NoChain)
    BY <1>8 DEF iptcc_map_target
  <2> HIDE DEF m
  <2>2. r = Rule(e, "MODULE", t, 0, NoChain) /\ t # ""
    BY <1>1, <1>2, <1>8, <2>1
  <2>3. SoundRule(r)
    BY <1>3, <1>4, <2>2, RuleSound
  <2> QED
    BY <1>2, <2>3 DEF m
<1> QED
  BY <1>5, <1>6, <1>7, <1>8

-----------------------------------------------------------------------------
(* The calls on rules keep HandleInv, and Sound if the entry they are      *)
(* given is no error entry.                                                *)

\* The handle after a call, whatever it returned.
LEMMA Outcome == \A x : Done(x).h = x /\ Failed(x).h = x
BY DEF Done, Failed

\* A list made of one rule and those of another.
LEMMA MadeRules ==
    ASSUME NEW D, NEW new, NEW rs, NEW r, MadeOf(new, rs, r), IsRule(D, r),
           \A i \in DOMAIN rs : IsRule(D, rs[i])
    PROVE  \A i \in DOMAIN new : IsRule(D, new[i])
BY DEF MadeOf

SoundRules(rs) == \A i \in DOMAIN rs : SoundRule(rs[i])

\* If those are sound, so is it.
LEMMA MadeSound ==
    ASSUME NEW new, NEW rs, NEW r, MadeOf(new, rs, r), SoundRule(r), SoundRules(rs)
    PROVE  SoundRules(new)
BY DEF MadeOf, SoundRules

\* The rules of one chain of a sound handle.
LEMMA SoundList ==
    ASSUME NEW h, Sound(h), NEW c \in DOMAIN h.chains
    PROVE  SoundRules(h.chains[c].rules)
BY DEF Sound, SoundRules

\* A call that took h to g kept the invariants; the second one if B.
Kept(h, g, B) == HandleInv(g) /\ (B /\ Sound(h) => Sound(g))

\* A call that changes nothing.
LEMMA KeptSame ==
    ASSUME NEW h, HandleInv(h), NEW B
    PROVE  Kept(h, h, B)
BY DEF Kept

\* Soundness is about the lists.
LEMMA SameSound ==
    ASSUME NEW h, Sound(h), NEW k, SameLists(h, k)
    PROVE  Sound(k)
BY DEF Sound, SameLists

\* What a list of a handle with the invariant is.
LEMMA ListOf ==
    ASSUME NEW h, Lists(h), NEW c \in DOMAIN h.chains
    PROVE  LET x == h.chains[c] IN
           /\ IsSeq(x.rules) /\ Len(x.rules) \in Nat /\ DOMAIN x.rules = 1 .. Len(x.rules)
           /\ x.num_rules = Len(x.rules)
           /\ \A i \in DOMAIN x.rules : IsRule(DOMAIN h.chains, x.rules[i])
           /\ \A d : JumpCount(x.rules, d) \in Nat
           /\ x.references \in Int
BY SeqFacts, JumpsInFinite DEF Lists, IsChain

\* A call that replaces the list of chain c by rs, after references were changed to fit.
LEMMA EditCall ==
    ASSUME NEW h, HandleInv(h), NEW c \in DOMAIN h.chains, NEW k, SameLists(h, k),
           NEW rs, IsSeq(rs), NEW n \in Int, Len(rs) = Len(h.chains[c].rules) + n,
           \A i \in DOMAIN rs : IsRule(DOMAIN h.chains, rs[i]),
           \A d \in DOMAIN h.chains : k.chains[d].references =
               h.chains[d].references - JumpCount(h.chains[c].rules, d) + JumpCount(rs, d)
    PROVE  LET g == Changed(WithRules(k, c, rs, n))
           IN HandleInv(g) /\ (Sound(h) /\ SoundRules(rs) => Sound(g))
<1> DEFINE D == DOMAIN h.chains
           g == WithRules(k, c, rs, n)
<1>1. Lists(k) /\ DOMAIN k.chains = D /\ \A d \in D : k.chains[d].rules = h.chains[d].rules
  BY DEF SameLists
<1>2. /\ Lists(g) /\ DOMAIN g.chains = D /\ g.chains[c].rules = rs
      /\ \A d \in D \ {c} : g.chains[d].rules = k.chains[d].rules
      /\ \A d \in D : g.chains[d].references = k.chains[d].references
  <2>1. Len(rs) = Len(k.chains[c].rules) + n
    BY <1>1
  <2>2. c \in DOMAIN k.chains /\ \A i \in DOMAIN rs : IsRule(DOMAIN k.chains, rs[i])
    BY <1>1
  <2> HIDE DEF D, g
  <2>3. /\ Lists(g) /\ DOMAIN g.chains = DOMAIN k.chains
        /\ g.chains[c].rules = rs
        /\ \A d \in DOMAIN k.chains \ {c} : g.chains[d].rules = k.chains[d].rules
        /\ \A d \in DOMAIN k.chains : g.chains[d].references = k.chains[d].references
    BY <1>1, <2>1, <2>2, WithRulesLists DEF g
  <2> QED
    BY <1>1, <2>3
<1> HIDE DEF g
<1>3. /\ \A d \in D \ {c} : g.chains[d].rules = h.chains[d].rules
      /\ \A d \in D : g.chains[d].references =
            h.chains[d].references - JumpCount(h.chains[c].rules, d) + JumpCount(g.chains[c].rules, d)
  BY <1>1, <1>2
<1>4. HandleInv(g)
  BY <1>2, <1>3, EditKeeps
<1>5. Sound(h) /\ SoundRules(rs) => Sound(Changed(g))
  <2> SUFFICES ASSUME Sound(h), SoundRules(rs) PROVE Sound(Changed(g))
    OBVIOUS
  <2>1. DOMAIN Changed(g).chains = D /\ Changed(g).chains = g.chains
    BY <1>2, ChangedSame
  <2>2. \A d \in D : SoundRules(g.chains[d].rules)
    BY <1>2, <1>3, SoundList
  <2> QED
    BY <2>1, <2>2 DEF Sound, SoundRules
<1> QED
  BY <1>4, <1>5, SameChains, ChangedSame DEF HandleInv, g

\* Both walks of insert, replace and delete end at the rule with the number.
LEMMA LocatedThere ==
    ASSUME NEW x, NEW n \in Nat, Len(x.rules) \in Nat, x.num_rules = Len(x.rules)
    PROVE  Located(x, n) = n + 1
<1>1. PICK l \in Nat : l = Len(x.rules)
  OBVIOUS
<1>2. l - (l - n) + 1 = n + 1
  OBVIOUS
<1>3. Located(x, n) = n + 1 \/ Located(x, n) = l - (l - n) + 1
  BY <1>1 DEF Located
<1> QED
  BY <1>2, <1>3

\* TC_INSERT_ENTRY, successful or not.
LEMMA InsertKeeps ==
    ASSUME NEW h, HandleInv(h), NEW c, NEW e, NEW n \in Nat
    PROVE  Kept(h, TC_INSERT_ENTRY(h, c, e, n).h, Usable(e))
<1> DEFINE D == DOMAIN h.chains
           rs == h.chains[c].rules
           m == iptcc_map_target(h, e)
           at == IF n = h.chains[c].num_rules THEN Len(rs) + 1 ELSE Located(h.chains[c], n)
           new == InsertAt(rs, at, m.r)
<1>1. CASE c \notin D \/ n > h.chains[c].num_rules \/ ~Mappable(h, e)
  BY <1>1, Outcome, KeptSame DEF TC_INSERT_ENTRY
<1>2. CASE ~(c \notin D \/ n > h.chains[c].num_rules \/ ~Mappable(h, e))
  <2>1. c \in D /\ Lists(h)
    BY <1>2 DEF HandleInv
  <2>2. /\ IsSeq(rs) /\ Len(rs) \in Nat /\ h.chains[c].num_rules = Len(rs)
        /\ \A i \in DOMAIN rs : IsRule(D, rs[i])
        /\ \A d : JumpCount(rs, d) \in Nat
    BY <2>1, ListOf
  <2>3. at \in 1 .. Len(rs) + 1
    <3>1. n <= Len(rs)
      BY <1>2, <2>2
    <3>2. Located(h.chains[c], n) = n + 1
      BY <2>2, LocatedThere
    <3> QED
      BY <2>2, <3>1, <3>2
  <2>4. TC_INSERT_ENTRY(h, c, e, n).h = Changed(WithRules(m.h, c, new, 1))
    BY <1>2, Outcome DEF TC_INSERT_ENTRY
  <2>5. /\ IsRule(D, m.r) /\ SameLists(h, m.h)
        /\ \A d \in D : m.h.chains[d].references =
              h.chains[d].references + (IF m.r.jump = d THEN 1 ELSE 0)
    BY <2>1, MapTarget
  <2> HIDE DEF m, at
  <2>6. IsSeq(new) /\ Len(new) = Len(rs) + 1 /\ MadeOf(new, rs, m.r)
    BY <2>2, <2>3, InsertFacts, MadeByInsert
  <2>7. \A d : JumpCount(new, d) = JumpCount(rs, d) + (IF m.r.jump = d THEN 1 ELSE 0)
    BY <2>2, <2>3, CountInsert
  <2>8. \A i \in DOMAIN new : IsRule(D, new[i])
    BY <2>2, <2>5, <2>6, MadeRules
  <2>9. \A d \in D : m.h.chains[d].references =
           h.chains[d].references - JumpCount(rs, d) + JumpCount(new, d)
    <3> TAKE d \in D
    <3>1. h.chains[d].references \in Int
      BY <2>1, ListOf
    <3> QED
      BY <2>2, <2>5, <2>7, <3>1
  <2> HIDE DEF new
  <2>10. /\ HandleInv(Changed(WithRules(m.h, c, new, 1)))
         /\ Sound(h) /\ SoundRules(new) => Sound(Changed(WithRules(m.h, c, new, 1)))
    BY <2>1, <2>5, <2>6, <2>8, <2>9, EditCall
  <2>11. Usable(e) /\ Sound(h) => SoundRules(new)
    BY <1>2, <2>1, <2>6, MapSound, SoundList, MadeSound DEF m
  <2> QED
    BY <2>4, <2>10, <2>11 DEF Kept
<1> QED
  BY <1>1, <1>2

\* TC_APPEND_ENTRY.
LEMMA AppendKeeps ==
    ASSUME NEW h, HandleInv(h), NEW c, NEW e
    PROVE  Kept(h, TC_APPEND_ENTRY(h, c, e).h, Usable(e))
<1> DEFINE D == DOMAIN h.chains
           rs == h.chains[c].rules
           m == iptcc_map_target(h, e)
           new == Append(rs, m.r)
<1>1. CASE c \notin D \/ ~Mappable(h, e)
  BY <1>1, Outcome, KeptSame DEF TC_APPEND_ENTRY
<1>2. CASE ~(c \notin D \/ ~Mappable(h, e))
  <2>1. c \in D /\ Lists(h)
    BY <1>2 DEF HandleInv
  <2>2. /\ IsSeq(rs) /\ Len(rs) \in Nat
        /\ \A i \in DOMAIN rs : IsRule(D, rs[i])
        /\ \A d : JumpCount(rs, d) \in Nat
    BY <2>1, ListOf
  <2>4. TC_APPEND_ENTRY(h, c, e).h = Changed(WithRules(m.h, c, new, 1))
    BY <1>2, Outcome DEF TC_APPEND_ENTRY
  <2>5. /\ IsRule(D, m.r) /\ SameLists(h, m.h)
        /\ \A d \in D : m.h.chains[d].references =
              h.chains[d].references + (IF m.r.jump = d THEN 1 ELSE 0)
    BY <2>1, MapTarget
  <2> HIDE DEF m
  <2>6. /\ IsSeq(new) /\ Len(new) = Len(rs) + 1 /\ MadeOf(new, rs, m.r)
        /\ \A d : JumpCount(new, d) = JumpCount(rs, d) + (IF m.r.jump = d THEN 1 ELSE 0)
    BY <2>2, CountAppend
  <2>8. \A i \in DOMAIN new : IsRule(D, new[i])
    BY <2>2, <2>5, <2>6, MadeRules
  <2>9. \A d \in D : m.h.chains[d].references =
           h.chains[d].references - JumpCount(rs, d) + JumpCount(new, d)
    <3> TAKE d \in D
    <3>1. h.chains[d].references \in Int
      BY <2>1, ListOf
    <3> QED
      BY <2>2, <2>5, <2>6, <3>1
  <2> HIDE DEF new
  <2>10. /\ HandleInv(Changed(WithRules(m.h, c, new, 1)))
         /\ Sound(h) /\ SoundRules(new) => Sound(Changed(WithRules(m.h, c, new, 1)))
    BY <2>1, <2>5, <2>6, <2>8, <2>9, EditCall
  <2>11. Usable(e) /\ Sound(h) => SoundRules(new)
    BY <1>2, <2>1, <2>6, MapSound, SoundList, MadeSound DEF m
  <2> QED
    BY <2>4, <2>10, <2>11 DEF Kept
<1> QED
  BY <1>1, <1>2

\* iptcc_delete_rule gives back the reference of a jump.
LEMMA DroppedLists ==
    ASSUME NEW h, Lists(h), NEW r, r.jump \in DOMAIN h.chains \cup {NoChain}
    PROVE  /\ SameLists(h, Dropped(h, r))
           /\ \A d \in DOMAIN h.chains : Dropped(h, r).chains[d].references =
                 h.chains[d].references + (IF r.jump = d THEN -1 ELSE 0)
<1>1. PICK j : j = r.jump
  OBVIOUS
<1>2. /\ SameLists(h, Refer(h, j, -1))
      /\ \A d \in DOMAIN h.chains : Refer(h, j, -1).chains[d].references =
            h.chains[d].references + (IF j = d THEN -1 ELSE 0)
  <2>1. j \in DOMAIN h.chains \cup {NoChain} /\ -1 \in Int
    BY <1>1
  <2> QED
    BY <2>1, ReferLists
<1> QED
  BY <1>1, <1>2 DEF Dropped

\* TC_REPLACE_ENTRY: the reference of the old rule goes, that of the new one comes.
LEMMA ReplaceKeeps ==
    ASSUME NEW h, HandleInv(h), NEW c, NEW e, NEW n \in Nat
    PROVE  Kept(h, TC_REPLACE_ENTRY(h, c, e, n).h, Usable(e))
<1> DEFINE D == DOMAIN h.chains
           rs == h.chains[c].rules
           m == iptcc_map_target(h, e)
           at == Located(h.chains[c], n)
           k == Dropped(m.h, rs[at])
           new == ReplaceAt(rs, at, m.r)
<1>1. CASE c \notin D \/ n >= h.chains[c].num_rules \/ ~Mappable(h, e)
  BY <1>1, Outcome, KeptSame DEF TC_REPLACE_ENTRY
<1>2. CASE ~(c \notin D \/ n >= h.chains[c].num_rules \/ ~Mappable(h, e))
  <2>1. c \in D /\ Lists(h)
    BY <1>2 DEF HandleInv
  <2>2. /\ IsSeq(rs) /\ Len(rs) \in Nat /\ h.chains[c].num_rules = Len(rs)
        /\ DOMAIN rs = 1 .. Len(rs)
        /\ \A i \in DOMAIN rs : IsRule(D, rs[i])
        /\ \A d : JumpCount(rs, d) \in Nat
    BY <2>1, ListOf
  <2>3. at \in 1 .. Len(rs)
    <3>1. n < Len(rs)
      BY <1>2, <2>2
    <3>2. at = n + 1
      BY <2>2, LocatedThere
    <3> QED
      BY <2>2, <3>1, <3>2
  <2>4. TC_REPLACE_ENTRY(h, c, e, n).h = Changed(WithRules(k, c, new, 0))
    BY <1>2, Outcome DEF TC_REPLACE_ENTRY
  <2>5. /\ IsRule(D, m.r) /\ SameLists(h, m.h)
        /\ \A d \in D : m.h.chains[d].references =
              h.chains[d].references + (IF m.r.jump = d THEN 1 ELSE 0)
    BY <2>1, MapTarget
  <2> HIDE DEF m, at
  <2>6. /\ IsSeq(new) /\ Len(new) = Len(rs) + 0 /\ MadeOf(new, rs, m.r)
        /\ \A d : JumpCount(new, d) =
              JumpCount(rs, d) - (IF rs[at].jump = d THEN 1 ELSE 0) + (IF m.r.jump = d THEN 1 ELSE 0)
    BY <2>2, <2>3, CountReplace
  <2>7. rs[at].jump \in D \cup {NoChain}
    BY <2>2, <2>3 DEF IsRule
  <2>8. \A i \in DOMAIN new : IsRule(D, new[i])
    BY <2>2, <2>5, <2>6, MadeRules
  <2>9. /\ SameLists(m.h, k)
        /\ \A d \in D : k.chains[d].references =
              m.h.chains[d].references + (IF rs[at].jump = d THEN -1 ELSE 0)
    <3>1. Lists(m.h) /\ rs[at].jump \in DOMAIN m.h.chains \cup {NoChain} /\ DOMAIN m.h.chains = D
      BY <2>5, <2>7 DEF SameLists
    <3>2. \A d \in DOMAIN m.h.chains : k.chains[d].references =
              m.h.chains[d].references + (IF rs[at].jump = d THEN -1 ELSE 0)
      BY <3>1, DroppedLists
    <3>3. SameLists(m.h, k)
      BY <3>1, DroppedLists
    <3> QED
      BY <3>1, <3>2, <3>3
  <2> HIDE DEF k
  <2>10. SameLists(h, k)
    BY <2>5, <2>9 DEF SameLists
  <2>11. \A d \in D : k.chains[d].references =
           h.chains[d].references - JumpCount(rs, d) + JumpCount(new, d)
    <3> TAKE d \in D
    <3>1. PICK i, b, f, l : /\ i = h.chains[d].references /\ b = JumpCount(rs, d)
                            /\ f = (IF rs[at].jump = d THEN 1 ELSE 0)
                            /\ l = (IF m.r.jump = d THEN 1 ELSE 0)
      OBVIOUS
    <3>2. i \in Int /\ b \in Nat /\ f \in {0, 1} /\ l \in {0, 1}
      BY <2>1, <2>2, <3>1, ListOf
    <3>3. m.h.chains[d].references = i + l
      BY <2>5, <3>1
    <3>4. k.chains[d].references = m.h.chains[d].references + (IF rs[at].jump = d THEN -1 ELSE 0)
      BY <2>9
    <3>5. (IF rs[at].jump = d THEN -1 ELSE 0) = - f
      BY <3>1
    <3>6. JumpCount(new, d) = b - f + l
      BY <2>6, <3>1
    <3>7. k.chains[d].references = (i + l) + (- f)
      BY <3>3, <3>4, <3>5
    <3>8. (i + l) + (- f) = i - b + (b - f + l)
      BY <3>2
    <3> QED
      BY <3>1, <3>6, <3>7, <3>8
  <2> HIDE DEF new
  <2>12. /\ HandleInv(Changed(WithRules(k, c, new, 0)))
         /\ Sound(h) /\ SoundRules(new) => Sound(Changed(WithRules(k, c, new, 0)))
    BY <2>1, <2>10, <2>6, <2>8, <2>11, EditCall
  <2>13. Usable(e) /\ Sound(h) => SoundRules(new)
    BY <1>2, <2>1, <2>6, MapSound, SoundList, MadeSound DEF m
  <2> QED
    BY <2>4, <2>12, <2>13 DEF Kept
<1> QED
  BY <1>1, <1>2

\* delete_entry and delete_num_entry: the rule at a place is taken out.
LEMMA TakeOut ==
    ASSUME NEW h, HandleInv(h), NEW c \in DOMAIN h.chains, NEW at \in DOMAIN h.chains[c].rules
    PROVE  LET rs == h.chains[c].rules
           IN Kept(h, Changed(WithRules(Dropped(h, rs[at]), c, RemoveAt(rs, at), -1)), TRUE)
<1> DEFINE D == DOMAIN h.chains
           rs == h.chains[c].rules
           k == Dropped(h, rs[at])
           new == RemoveAt(rs, at)
<1>1. Lists(h)
  BY DEF HandleInv
<1>2. /\ IsSeq(rs) /\ Len(rs) \in Nat
      /\ DOMAIN rs = 1 .. Len(rs)
      /\ \A i \in DOMAIN rs : IsRule(D, rs[i])
      /\ \A d : JumpCount(rs, d) \in Nat
  BY <1>1, ListOf
<1>3. /\ IsSeq(new) /\ Len(new) = Len(rs) + -1 /\ MadeOf(new, rs, rs[at])
      /\ \A d : JumpCount(new, d) = JumpCount(rs, d) - (IF rs[at].jump = d THEN 1 ELSE 0)
  <2>1. at \in 1 .. Len(rs)
    BY <1>2
  <2>2. Len(rs) - 1 = Len(rs) + -1
    BY <1>2
  <2> HIDE DEF rs
  <2> QED
    BY <1>2, <2>1, <2>2, CountRemove
<1>4. rs[at].jump \in D \cup {NoChain} /\ IsRule(D, rs[at])
  BY <1>2 DEF IsRule
<1>5. \A i \in DOMAIN new : IsRule(D, new[i])
  BY <1>2, <1>3, <1>4, MadeRules
<1>6. /\ SameLists(h, k)
      /\ \A d \in D : k.chains[d].references =
            h.chains[d].references + (IF rs[at].jump = d THEN -1 ELSE 0)
  BY <1>1, <1>4, DroppedLists
<1> HIDE DEF k
<1>7. \A d \in D : k.chains[d].references =
         h.chains[d].references - JumpCount(rs, d) + JumpCount(new, d)
  <2> TAKE d \in D
  <2>1. h.chains[d].references \in Int
    BY <1>1, ListOf
  <2> QED
    BY <1>2, <1>3, <1>6, <2>1
<1> HIDE DEF new
<1>8. /\ HandleInv(Changed(WithRules(k, c, new, -1)))
      /\ Sound(h) /\ SoundRules(new) => Sound(Changed(WithRules(k, c, new, -1)))
  BY <1>3, <1>5, <1>6, <1>7, EditCall
<1>9. Sound(h) => SoundRules(new)
  <2> SUFFICES ASSUME Sound(h) PROVE SoundRules(new)
    OBVIOUS
  <2>1. SoundRules(rs)
    BY SoundList
  <2>2. SoundRule(rs[at])
    BY <2>1 DEF SoundRules
  <2> QED
    BY <1>3, <2>1, <2>2, MadeSound
<1> QED
  BY <1>8, <1>9 DEF Kept, k, new

\* TC_DELETE_NUM_ENTRY.
LEMMA DeleteNumKeeps ==
    ASSUME NEW h, HandleInv(h), NEW c, NEW n \in Nat
    PROVE  Kept(h, TC_DELETE_NUM_ENTRY(h, c, n).h, TRUE)
<1> DEFINE D == DOMAIN h.chains
           rs == h.chains[c].rules
           at == Located(h.chains[c], n)
<1>1. CASE c \notin D \/ n >= h.chains[c].num_rules
  BY <1>1, Outcome, KeptSame DEF TC_DELETE_NUM_ENTRY
<1>2. CASE ~(c \notin D \/ n >= h.chains[c].num_rules)
  <2>1. c \in D /\ Lists(h)
    BY <1>2 DEF HandleInv
  <2>2. /\ Len(rs) \in Nat /\ h.chains[c].num_rules = Len(rs)
        /\ DOMAIN rs = 1 .. Len(rs)
    BY <2>1, ListOf
  <2>3. at \in DOMAIN rs
    <3>1. n < Len(rs)
      BY <1>2, <2>2
    <3>2. at = n + 1
      BY <2>2, LocatedThere
    <3> QED
      BY <2>2, <3>1, <3>2
  <2>4. TC_DELETE_NUM_ENTRY(h, c, n).h =
          Changed(WithRules(Dropped(h, rs[at]), c, RemoveAt(rs, at), -1))
    BY <1>2, Outcome DEF TC_DELETE_NUM_ENTRY
  <2> QED
    BY <2>1, <2>3, <2>4, TakeOut
<1> QED
  BY <1>1, <1>2

\* delete_entry gives back the reference its search took; check_entry is the search.
LEMMA DeleteKeeps ==
    ASSUME NEW h, HandleInv(h), NEW c, NEW e, NEW dry_run
    PROVE  Kept(h, delete_entry(h, c, e, dry_run).h, TRUE)
<1> DEFINE D == DOMAIN h.chains
           rs == h.chains[c].rules
           m == iptcc_map_target(h, e)
           g == Refer(m.h, m.r.jump, -1)
           found == {i \in DOMAIN rs : Same(m.r, rs[i])}
           i == Min(found)
<1>1. CASE c \notin D \/ ~Mappable(h, e)
  BY <1>1, Outcome, KeptSame DEF delete_entry
<1>2. CASE ~(c \notin D \/ ~Mappable(h, e))
  <2>1. c \in D /\ Lists(h)
    BY <1>2 DEF HandleInv
  <2>2. /\ Len(rs) \in Nat /\ DOMAIN rs = 1 .. Len(rs)
    BY <2>1, ListOf
  <2>3. delete_entry(h, c, e, dry_run).h =
          IF found = {} \/ dry_run THEN g
          ELSE Changed(WithRules(Dropped(g, rs[i]), c, RemoveAt(rs, i), -1))
    BY <1>2, Outcome DEF delete_entry
  <2>4. /\ m.r.jump \in D \cup {NoChain} /\ SameLists(h, m.h)
        /\ \A d \in D : m.h.chains[d].references =
              h.chains[d].references + (IF m.r.jump = d THEN 1 ELSE 0)
    BY <2>1, MapTarget
  <2>5. found # {} => i \in DOMAIN rs
    <3> SUFFICES ASSUME found # {} PROVE i \in found
      OBVIOUS
    <3>1. found \subseteq Nat
      BY <2>2
    <3> HIDE DEF found
    <3> QED
      BY <3>1, LeastNatural DEF Min
  <2> HIDE DEF m, found, i
  <2>6. /\ SameLists(m.h, g)
        /\ \A d \in D : g.chains[d].references =
              m.h.chains[d].references + (IF m.r.jump = d THEN -1 ELSE 0)
    <3>1. PICK k, d : k = m.h /\ d = m.r.jump
      OBVIOUS
    <3>2. Lists(k) /\ d \in DOMAIN k.chains \cup {NoChain} /\ DOMAIN k.chains = D
      BY <2>4, <3>1 DEF SameLists
    <3> DEFINE There(y, n) ==
                 /\ SameLists(k, y)
                 /\ \A f \in DOMAIN k.chains : y.chains[f].references =
                       k.chains[f].references + (IF d = f THEN n ELSE 0)
    <3>3. ASSUME NEW n \in Int
          PROVE  There(Refer(k, d, n), n)
      BY <3>2, ReferLists
    <3>4. g = Refer(k, d, -1) /\ There(g, -1)
      <4>1. g = Refer(k, d, -1)
        BY <3>1
      <4> HIDE DEF There
      <4>2. There(Refer(k, d, -1), -1)
        BY <3>3
      <4> QED
        BY <4>1, <4>2, Zenon
    <3>5. SameLists(m.h, g)
      BY <3>1, <3>4
    <3>6. \A f \in D : g.chains[f].references = k.chains[f].references + (IF d = f THEN -1 ELSE 0)
      BY <3>2, <3>4
    <3> QED
      BY <3>1, <3>5, <3>6
  <2> HIDE DEF g
  <2>7. SameLists(h, g)
    BY <2>4, <2>6 DEF SameLists
  <2>8. \A d \in D : g.chains[d].references = h.chains[d].references
    <3> TAKE d \in D
    <3>1. h.chains[d].references \in Int
      BY <2>1, ListOf
    <3> QED
      BY <2>4, <2>6, <3>1
  <2>9. HandleInv(g) /\ g.chains[c].rules = rs /\ c \in DOMAIN g.chains
    <3>1. \A d : Jumps(g.chains, d) = Jumps(h.chains, d)
      BY <2>7 DEF Jumps, SameLists
    <3> QED
      BY <2>1, <2>7, <2>8, <3>1 DEF SameLists, HandleInv
  <2>10. found # {} => Kept(g, Changed(WithRules(Dropped(g, rs[i]), c, RemoveAt(rs, i), -1)), TRUE)
    BY <2>5, <2>9, TakeOut
  <2>11. Sound(h) => Sound(g)
    BY <2>7, SameSound
  <2> QED
    BY <2>3, <2>9, <2>10, <2>11 DEF Kept
<1> QED
  BY <1>1, <1>2

-----------------------------------------------------------------------------
(* The calls on counters.                                                  *)

\* A handle with the lists of jumps and the references of another.
LEMMA SameJumpsKeep ==
    ASSUME NEW h, HandleInv(h), NEW g, Lists(g), DOMAIN g.chains = DOMAIN h.chains,
           \A d \in DOMAIN h.chains :
              /\ g.chains[d].references = h.chains[d].references
              /\ DOMAIN g.chains[d].rules = DOMAIN h.chains[d].rules
              /\ \A i \in DOMAIN h.chains[d].rules :
                    g.chains[d].rules[i].jump = h.chains[d].rules[i].jump
    PROVE  HandleInv(g)
<1>1. ASSUME NEW d
      PROVE  Jumps(g.chains, d) = Jumps(h.chains, d)
  <2>1. \A c \in DOMAIN h.chains : JumpsIn(g.chains[c].rules, d) = JumpsIn(h.chains[c].rules, d)
    BY DEF JumpsIn
  <2> QED
    BY <2>1 DEF Jumps
<1> QED
  BY <1>1 DEF HandleInv

\* A rule marked as zeroed jumps where it did.
LEMMA ZeroedRule ==
    ASSUME NEW D, NEW r, IsRule(D, r)
    PROVE  IsRule(D, Zeroed(r)) /\ Zeroed(r).jump = r.jump
BY DEF IsRule, Zeroed

\* It is as sound as before.
LEMMA ZeroedSound ==
    ASSUME NEW r, SoundRule(r)
    PROVE  SoundRule(Zeroed(r))
<1>1. CASE r.map # "NORMAL"
  BY <1>1 DEF Zeroed
<1>2. CASE r.map = "NORMAL"
  <2>1. PICK q : q = [r EXCEPT !.map = "ZEROED"]
    OBVIOUS
  <2>2. Zeroed(r) = q
    BY <1>2, <2>1 DEF Zeroed
  <2>3. /\ DOMAIN q = DOMAIN r /\ q.type = r.type /\ q.target = r.target
        /\ q.verdict = r.verdict /\ q.jump = r.jump
    BY <2>1 DEF SoundRule
  <2> QED
    BY <2>2, <2>3 DEF SoundRule
<1> QED
  BY <1>1, <1>2

\* A chain marked as zeroed.
LEMMA ZeroedChain ==
    ASSUME NEW D, NEW x, IsChain(D, x)
    PROVE  /\ IsChain(D, Zeroed(x)) /\ Zeroed(x).rules = x.rules
           /\ Zeroed(x).references = x.references
BY DEF IsChain, Zeroed

\* A chain whose list is replaced by one of the same length with the same jumps.
LEMMA ChainWith ==
    ASSUME NEW D, NEW x, IsChain(D, x), NEW y, y = [x EXCEPT !.rules = y.rules],
           IsSeq(y.rules), Len(y.rules) = Len(x.rules),
           \A i \in DOMAIN y.rules : IsRule(D, y.rules[i])
    PROVE  IsChain(D, y) /\ y.references = x.references
<1>1. DOMAIN y = DOMAIN x /\ y.num_rules = x.num_rules /\ y.references = x.references
  BY DEF IsChain
<1> QED
  BY <1>1 DEF IsChain

\* The handle after a change of chain c that keeps its jumps.
LEMMA ChainKeeps ==
    ASSUME NEW h, HandleInv(h), NEW c \in DOMAIN h.chains, NEW x, IsChain(DOMAIN h.chains, x),
           x.references = h.chains[c].references,
           DOMAIN x.rules = DOMAIN h.chains[c].rules,
           \A i \in DOMAIN x.rules : x.rules[i].jump = h.chains[c].rules[i].jump
    PROVE  Kept(h, Changed([h EXCEPT !.chains[c] = x]), SoundRules(x.rules))
<1> DEFINE D == DOMAIN h.chains
           g == [h EXCEPT !.chains[c] = x]
<1>1. "chains" \in DOMAIN g /\ g.chains = [h.chains EXCEPT ![c] = x]
  BY DEF HandleInv, Lists
<1> HIDE DEF g
<1>2. DOMAIN g.chains = D /\ g.chains[c] = x /\ \A d \in D \ {c} : g.chains[d] = h.chains[d]
  BY <1>1
<1>3. Lists(g)
  <2>1. \A d \in D : IsChain(D, g.chains[d])
    BY <1>2 DEF HandleInv, Lists
  <2> QED
    BY <1>1, <1>2, <2>1 DEF HandleInv, Lists
<1>4. \A d \in D :
        /\ g.chains[d].references = h.chains[d].references
        /\ DOMAIN g.chains[d].rules = DOMAIN h.chains[d].rules
        /\ \A i \in DOMAIN h.chains[d].rules : g.chains[d].rules[i].jump = h.chains[d].rules[i].jump
  BY <1>2
<1>5. HandleInv(g)
  BY <1>2, <1>3, <1>4, SameJumpsKeep
<1>6. SoundRules(x.rules) /\ Sound(h) => Sound(Changed(g))
  <2>1. Changed(g).chains = g.chains
    BY <1>3, ChangedSame
  <2> QED
    BY <1>2, <2>1 DEF Sound, SoundRules
<1> QED
  BY <1>3, <1>5, <1>6, SameChains, ChangedSame DEF Kept, g

\* TC_ZERO_ENTRIES.
LEMMA ZeroKeeps ==
    ASSUME NEW h, HandleInv(h), NEW c
    PROVE  Kept(h, TC_ZERO_ENTRIES(h, c).h, TRUE)
<1> DEFINE D == DOMAIN h.chains
           z == Zeroed(h.chains[c])
           x == [z EXCEPT !.rules = [i \in DOMAIN z.rules |-> Zeroed(z.rules[i])]]
<1>1. CASE c \notin D
  BY <1>1, Outcome, KeptSame DEF TC_ZERO_ENTRIES
<1>2. CASE c \in D
  <2>1. TC_ZERO_ENTRIES(h, c).h = Changed([h EXCEPT !.chains[c] = x])
    BY <1>2, Outcome DEF TC_ZERO_ENTRIES
  <2>2. /\ IsChain(D, z) /\ z.rules = h.chains[c].rules /\ z.references = h.chains[c].references
    <3>1. IsChain(D, h.chains[c])
      BY <1>2 DEF HandleInv, Lists
    <3> QED
      BY <3>1, ZeroedChain
  <2> HIDE DEF z
  <2>3. /\ "rules" \in DOMAIN z /\ IsSeq(z.rules) /\ Len(z.rules) \in Nat
        /\ DOMAIN z.rules = 1 .. Len(z.rules)
        /\ \A i \in DOMAIN z.rules : IsRule(D, z.rules[i])
    BY <2>2, SeqFacts DEF IsChain
  <2>4. x.rules = [i \in 1 .. Len(z.rules) |-> Zeroed(z.rules[i])]
    BY <2>3
  <2>5. IsSeq(x.rules) /\ Len(x.rules) = Len(z.rules) /\ DOMAIN x.rules = DOMAIN z.rules
    <3>1. x.rules = [i \in 1 .. Len(z.rules) |-> x.rules[i]]
      BY <2>4
    <3> QED
      BY <2>3, <3>1, <2>4, BuiltSeq
  <2>6. \A i \in DOMAIN x.rules : IsRule(D, x.rules[i]) /\ x.rules[i].jump = z.rules[i].jump
    BY <2>3, <2>4, ZeroedRule
  <2>7. x = [z EXCEPT !.rules = x.rules]
    BY <2>3
  <2> HIDE DEF x
  <2>8. IsChain(D, x) /\ x.references = z.references
    BY <2>2, <2>5, <2>6, <2>7, ChainWith
  <2>9. Kept(h, Changed([h EXCEPT !.chains[c] = x]), SoundRules(x.rules))
    BY <1>2, <2>2, <2>5, <2>6, <2>8, ChainKeeps
  <2>10. Sound(h) => SoundRules(x.rules)
    <3>1. Sound(h) => SoundRules(z.rules)
      BY <1>2, <2>2, SoundList
    <3> QED
      BY <2>4, <2>5, <3>1, ZeroedSound DEF SoundRules, x
  <2> QED
    BY <2>1, <2>9, <2>10 DEF Kept
<1> QED
  BY <1>1, <1>2

\* TC_ZERO_COUNTER.
LEMMA ZeroCounterKeeps ==
    ASSUME NEW h, HandleInv(h), NEW c, NEW n
    PROVE  Kept(h, TC_ZERO_COUNTER(h, c, n).h, TRUE)
<1> DEFINE D == DOMAIN h.chains
           z == h.chains[c]
           x == [z EXCEPT !.rules[n] = Zeroed(z.rules[n])]
<1>1. CASE c \notin D \/ n \notin DOMAIN h.chains[c].rules
  BY <1>1, Outcome, KeptSame DEF TC_ZERO_COUNTER
<1>2. CASE ~(c \notin D \/ n \notin DOMAIN h.chains[c].rules)
  <2>1. TC_ZERO_COUNTER(h, c, n).h = Changed([h EXCEPT !.chains[c] = x])
    <3>1. [h EXCEPT !.chains[c].rules[n] = Zeroed(@)] = [h EXCEPT !.chains[c] = x]
      OBVIOUS
    <3> HIDE DEF x
    <3> QED
      BY <1>2, <3>1, Outcome DEF TC_ZERO_COUNTER
  <2>2. IsChain(D, z) /\ n \in DOMAIN z.rules
    BY <1>2 DEF HandleInv, Lists
  <2> HIDE DEF z
  <2>3. /\ "rules" \in DOMAIN z /\ IsSeq(z.rules) /\ Len(z.rules) \in Nat
        /\ DOMAIN z.rules = 1 .. Len(z.rules)
        /\ \A i \in DOMAIN z.rules : IsRule(D, z.rules[i])
    BY <2>2, SeqFacts DEF IsChain
  <2>4. x.rules = [z.rules EXCEPT ![n] = Zeroed(z.rules[n])]
    BY <2>3
  <2>5. x.rules = [i \in 1 .. Len(z.rules) |-> IF i = n THEN Zeroed(z.rules[i]) ELSE z.rules[i]]
    <3>1. z.rules \in Seq({z.rules[i] : i \in DOMAIN z.rules})
      BY <2>3 DEF IsSeq
    <3> QED
      BY <2>2, <2>3, <2>4, <3>1
  <2>6. IsSeq(x.rules) /\ Len(x.rules) = Len(z.rules) /\ DOMAIN x.rules = DOMAIN z.rules
    <3>1. x.rules = [i \in 1 .. Len(z.rules) |-> x.rules[i]]
      BY <2>5
    <3> QED
      BY <2>3, <3>1, <2>5, BuiltSeq
  <2>7. \A i \in DOMAIN x.rules : IsRule(D, x.rules[i]) /\ x.rules[i].jump = z.rules[i].jump
    BY <2>3, <2>5, ZeroedRule
  <2>8. x = [z EXCEPT !.rules = x.rules]
    BY <2>3
  <2> HIDE DEF x
  <2>9. IsChain(D, x) /\ x.references = z.references
    BY <2>2, <2>6, <2>7, <2>8, ChainWith
  <2>10. Kept(h, Changed([h EXCEPT !.chains[c] = x]), SoundRules(x.rules))
    BY <1>2, <2>6, <2>7, <2>9, ChainKeeps DEF z
  <2>11. Sound(h) => SoundRules(x.rules)
    <3>1. Sound(h) => SoundRules(z.rules)
      BY <1>2, SoundList DEF z
    <3> QED
      BY <2>5, <2>6, <3>1, ZeroedSound DEF SoundRules, x
  <2> QED
    BY <2>1, <2>10, <2>11 DEF Kept
<1> QED
  BY <1>1, <1>2

-----------------------------------------------------------------------------
(* The calls on chains.                                                    *)

\* The empty list has no jumps.
LEMMA NoJumps ==
    /\ IsSeq(<<>>) /\ Len(<<>>) = 0 /\ DOMAIN <<>> = {}
    /\ \A d : JumpsIn(<<>>, d) = {} /\ JumpCount(<<>>, d) = 0
<1>1. \A d : JumpsIn(<<>>, d) = {}
  BY DEF JumpsIn
<1> QED
  BY <1>1, FS_EmptySet DEF JumpCount, IsSeq

\* TC_FLUSH_ENTRIES: every chain the rules jumped to loses as many references.
LEMMA FlushKeeps ==
    ASSUME NEW h, HandleInv(h), NEW c
    PROVE  Kept(h, TC_FLUSH_ENTRIES(h, c).h, TRUE)
<1> DEFINE D == DOMAIN h.chains
           rs == h.chains[c].rules
           given(d) == Cardinality(JumpsIn(rs, d))
           chains == [d \in D |-> [h.chains[d] EXCEPT !.references = @ - given(d)]]
           new == [chains EXCEPT ![c].rules = <<>>, ![c].num_rules = 0]
           g == [h EXCEPT !.chains = new]
<1>1. CASE c \notin D
  BY <1>1, Outcome, KeptSame DEF TC_FLUSH_ENTRIES
<1>2. CASE c \in D
  <2>1. TC_FLUSH_ENTRIES(h, c).h = Changed(g)
    BY <1>2, Outcome DEF TC_FLUSH_ENTRIES
  <2>2. Lists(h) /\ \A d \in D : IsChain(D, h.chains[d])
    BY DEF HandleInv, Lists
  <2>3. "chains" \in DOMAIN g /\ g.chains = new
    BY <2>2 DEF Lists
  <2>4. /\ IsSeq(rs) /\ Len(rs) \in Nat /\ DOMAIN rs = 1 .. Len(rs)
        /\ \A d : JumpCount(rs, d) \in Nat
    BY <1>2, <2>2, ListOf
  <2>5. \A d : given(d) = JumpCount(rs, d)
    BY DEF JumpCount
  <2> HIDE DEF given
  <2>6. \A d \in D : /\ DOMAIN chains[d] = DOMAIN h.chains[d]
                     /\ chains[d].rules = h.chains[d].rules
                     /\ chains[d].num_rules = h.chains[d].num_rules
                     /\ chains[d].references = h.chains[d].references - JumpCount(rs, d)
    BY <2>2, <2>5 DEF IsChain
  <2>7. DOMAIN chains = D
    OBVIOUS
  <2> HIDE DEF chains
  <2>8. /\ DOMAIN new = D /\ \A d \in D \ {c} : new[d] = chains[d]
        /\ new[c] = [chains[c] EXCEPT !.rules = <<>>, !.num_rules = 0]
    BY <1>2, <2>7
  <2> HIDE DEF new
  <2>9. /\ new[c].rules = <<>> /\ new[c].num_rules = 0 /\ DOMAIN new[c] = DOMAIN h.chains[c]
        /\ new[c].references = h.chains[c].references - JumpCount(rs, c)
    BY <1>2, <2>2, <2>6, <2>8 DEF IsChain
  <2>10. \A d \in D : new[d].references = h.chains[d].references - JumpCount(rs, d)
    BY <2>6, <2>8, <2>9
  <2>11. \A d \in D : h.chains[d].references \in Int /\ new[d].references \in Int
    BY <2>2, <2>4, <2>10 DEF IsChain
  <2>12. IsChain(D, new[c])
    BY <1>2, <2>2, <2>9, <2>11, NoJumps DEF IsChain
  <2>13. \A d \in D \ {c} : IsChain(D, new[d])
    BY <2>2, <2>6, <2>8, <2>11 DEF IsChain
  <2>14. Lists(g)
    BY <1>2, <2>2, <2>3, <2>8, <2>12, <2>13 DEF Lists
  <2>15. \A d \in D : g.chains[d].references =
            h.chains[d].references - JumpCount(rs, d) + JumpCount(g.chains[c].rules, d)
    BY <2>3, <2>4, <2>9, <2>10, <2>11, NoJumps
  <2>16. DOMAIN g.chains = D /\ \A d \in D \ {c} : g.chains[d].rules = h.chains[d].rules
    BY <2>3, <2>6, <2>8
  <2> HIDE DEF g
  <2>17. HandleInv(g)
    BY <1>2, <2>14, <2>15, <2>16, EditKeeps
  <2>18. Sound(h) => Sound(Changed(g))
    <3>1. Changed(g).chains = g.chains /\ DOMAIN g.chains[c].rules = {}
      BY <2>3, <2>9, <2>14, ChangedSame, NoJumps
    <3> QED
      BY <2>16, <3>1 DEF Sound
  <2> QED
    BY <2>1, <2>14, <2>17, <2>18, SameChains, ChangedSame DEF Kept
<1> QED
  BY <1>1, <1>2

\* No rule jumps to what is not a chain or has no references.
LEMMA NobodyJumps ==
    ASSUME NEW h, HandleInv(h), NEW d,
           \/ d \notin DOMAIN h.chains /\ d # NoChain
           \/ d \in DOMAIN h.chains /\ h.chains[d].references <= 0
    PROVE  /\ Jumps(h.chains, d) = {} /\ Cardinality(Jumps(h.chains, d)) = 0
           /\ \A c \in DOMAIN h.chains : \A i \in DOMAIN h.chains[c].rules : h.chains[c].rules[i].jump # d
<1>1. Jumps(h.chains, d) = {}
  <2>1. CASE d \notin DOMAIN h.chains /\ d # NoChain
    <3>1. \A c \in DOMAIN h.chains : JumpsIn(h.chains[c].rules, d) = {}
      BY <2>1 DEF JumpsIn, HandleInv, Lists, IsChain, IsRule
    <3> QED
      BY <3>1 DEF Jumps
  <2>2. CASE d \in DOMAIN h.chains /\ h.chains[d].references <= 0
    <3>1. IsFiniteSet(Jumps(h.chains, d)) /\ Cardinality(Jumps(h.chains, d)) \in Nat
      BY ListsAreLists, JumpsFinite DEF HandleInv
    <3>2. Cardinality(Jumps(h.chains, d)) = 0
      BY <2>2, <3>1 DEF HandleInv
    <3> QED
      BY <3>1, <3>2, FS_EmptySet
  <2> QED
    BY <2>1, <2>2
<1>2. \A c \in DOMAIN h.chains : \A i \in DOMAIN h.chains[c].rules : h.chains[c].rules[i].jump # d
  <2> SUFFICES ASSUME NEW c \in DOMAIN h.chains, NEW i \in DOMAIN h.chains[c].rules,
                      h.chains[c].rules[i].jump = d
               PROVE  FALSE
    OBVIOUS
  <2>1. i \in JumpsIn(h.chains[c].rules, d)
    BY DEF JumpsIn
  <2>2. <<c, i>> \in {c} \X JumpsIn(h.chains[c].rules, d)
    BY <2>1
  <2>3. <<c, i>> \in Jumps(h.chains, d)
    BY <2>2 DEF Jumps
  <2> QED
    BY <1>1, <2>3
<1>3. Cardinality(Jumps(h.chains, d)) = 0
  BY <1>1, FS_EmptySet
<1> QED
  BY <1>1, <1>2, <1>3

\* TC_CREATE_CHAIN: nothing jumps to the new chain yet.
LEMMA CreateKeeps ==
    ASSUME NEW h, HandleInv(h), NEW c, c # NoChain
    PROVE  Kept(h, TC_CREATE_CHAIN(h, c).h, c \in ChainNames)
<1> DEFINE D == DOMAIN h.chains
           new == [d \in D \cup {c} |-> IF d = c THEN NewChain ELSE h.chains[d]]
           g == [h EXCEPT !.chains = new]
<1>1. CASE c \in D \cup DOMAIN StandardTargets
  BY <1>1, Outcome, KeptSame DEF TC_CREATE_CHAIN
<1>2. CASE c \notin D \cup DOMAIN StandardTargets
  <2>1. TC_CREATE_CHAIN(h, c).h = Changed(g)
    BY <1>2, Outcome DEF TC_CREATE_CHAIN
  <2>2. Lists(h) /\ \A d \in D : IsChain(D, h.chains[d])
    BY DEF HandleInv, Lists
  <2>3. "chains" \in DOMAIN g /\ g.chains = new
    BY <2>2 DEF Lists
  <2>4. /\ {"references", "num_rules", "rules"} \subseteq DOMAIN NewChain
        /\ NewChain.references = 0 /\ NewChain.num_rules = 0 /\ NewChain.rules = <<>>
    BY DEF NewChain
  <2>5. DOMAIN new = D \cup {c} /\ new[c] = NewChain /\ \A d \in D : new[d] = h.chains[d]
    BY <1>2
  <2> HIDE DEF new
  <2>6. IsChain(D \cup {c}, new[c])
    BY <2>4, <2>5, NoJumps DEF IsChain
  <2>7. \A d \in D : IsChain(D \cup {c}, new[d])
    BY <2>2, <2>5 DEF IsChain, IsRule
  <2>8. IsFiniteSet(D \cup {c})
    BY <2>2, FS_AddElement DEF Lists
  <2>9. Lists(g)
    BY <2>2, <2>3, <2>5, <2>6, <2>7, <2>8 DEF Lists
  <2>10. ASSUME NEW d
         PROVE  Jumps(new, d) = Jumps(h.chains, d)
    <3>1. {c} \X JumpsIn(new[c].rules, d) = {}
      BY <2>4, <2>5, NoJumps
    <3> QED
      BY <2>5, <3>1 DEF Jumps
  <2>11. Cardinality(Jumps(h.chains, c)) = 0
    BY <1>2, NobodyJumps
  <2>12. \A d \in D \cup {c} : new[d].references = Cardinality(Jumps(new, d))
    BY <2>4, <2>5, <2>10, <2>11 DEF HandleInv
  <2>13. HandleInv(g)
    BY <2>3, <2>5, <2>9, <2>12 DEF HandleInv
  <2> HIDE DEF g
  <2>14. c \in ChainNames /\ Sound(h) => Sound(Changed(g))
    <3>1. Changed(g).chains = new /\ DOMAIN new[c].rules = {}
      BY <2>3, <2>4, <2>5, <2>9, ChangedSame, NoJumps
    <3> QED
      BY <2>5, <3>1 DEF Sound
  <2> QED
    BY <2>1, <2>9, <2>13, <2>14, SameChains, ChangedSame DEF Kept
<1> QED
  BY <1>1, <1>2

\* TC_DELETE_CHAIN: only a chain nothing jumps to is deleted.
LEMMA DeleteChainKeeps ==
    ASSUME NEW h, HandleInv(h), NEW c
    PROVE  Kept(h, TC_DELETE_CHAIN(h, c).h, TRUE)
<1> DEFINE D == DOMAIN h.chains
           new == [d \in D \ {c} |-> h.chains[d]]
           g == [h EXCEPT !.chains = new]
<1>1. CASE \/ c \notin DOMAIN h.chains \/ c \in BuiltIn
           \/ h.chains[c].references > 0 \/ h.chains[c].num_rules # 0
  BY <1>1, Outcome, KeptSame DEF TC_DELETE_CHAIN
<1>2. CASE ~(\/ c \notin DOMAIN h.chains \/ c \in BuiltIn
             \/ h.chains[c].references > 0 \/ h.chains[c].num_rules # 0)
  <2>1. TC_DELETE_CHAIN(h, c).h = Changed(g)
    BY <1>2, Outcome DEF TC_DELETE_CHAIN
  <2>2. Lists(h) /\ c \in D /\ \A d \in D : IsChain(D, h.chains[d])
    BY <1>2 DEF HandleInv, Lists
  <2>3. "chains" \in DOMAIN g /\ g.chains = new
    BY <2>2 DEF Lists
  <2>4. h.chains[c].references <= 0 /\ DOMAIN h.chains[c].rules = {}
    <3>1. h.chains[c].references \in Int /\ Len(h.chains[c].rules) = 0
          /\ DOMAIN h.chains[c].rules = 1 .. Len(h.chains[c].rules)
      BY <1>2, <2>2, ListOf
    <3> QED
      BY <1>2, <3>1
  <2>5. DOMAIN new = D \ {c} /\ \A d \in D \ {c} : new[d] = h.chains[d]
    OBVIOUS
  <2> HIDE DEF new
  <2>6. \A d \in D : \A i \in DOMAIN h.chains[d].rules : h.chains[d].rules[i].jump # c
    BY <2>2, <2>4, NobodyJumps
  <2>7. c # NoChain
    BY <2>2 DEF Lists
  <2>8. \A d \in D \ {c} : IsChain(D \ {c}, new[d])
    BY <2>2, <2>5, <2>6, <2>7 DEF IsChain, IsRule
  <2>9. IsFiniteSet(D \ {c})
    BY <2>2, FS_RemoveElement DEF Lists
  <2>10. Lists(g)
    BY <2>2, <2>3, <2>5, <2>8, <2>9 DEF Lists
  <2>11. ASSUME NEW d
         PROVE  Jumps(new, d) = Jumps(h.chains, d)
    <3>1. {c} \X JumpsIn(h.chains[c].rules, d) = {}
      BY <2>4 DEF JumpsIn
    <3> QED
      BY <2>5, <3>1 DEF Jumps
  <2>12. HandleInv(g)
    BY <2>3, <2>5, <2>10, <2>11 DEF HandleInv
  <2> HIDE DEF g
  <2>13. Sound(h) => Sound(Changed(g))
    <3>1. Changed(g).chains = new
      BY <2>3, <2>10, ChangedSame
    <3> QED
      BY <1>2, <2>5, <3>1 DEF Sound
  <2> QED
    BY <2>1, <2>10, <2>12, <2>13, SameChains, ChangedSame DEF Kept
<1> QED
  BY <1>1, <1>2

\* TC_RENAME_CHAIN: the jumps follow the chain.
LEMMA RenameKeeps ==
    ASSUME NEW h, HandleInv(h), NEW was, NEW new, new # NoChain
    PROVE  Kept(h, TC_RENAME_CHAIN(h, was, new).h, new \in ChainNames)
<1> DEFINE D == DOMAIN h.chains
           E == (D \ {was}) \cup {new}
           Redirected(r) == IF r.jump = was THEN [r EXCEPT !.jump = new] ELSE r
           src(d) == IF d = new THEN was ELSE d
           from(d) == h.chains[src(d)]
           chains == [d \in E |-> [from(d) EXCEPT !.rules = [i \in DOMAIN @ |-> Redirected(@[i])]]]
           g == [h EXCEPT !.chains = chains]
<1>1. CASE new \in D \cup DOMAIN StandardTargets \/ was \notin D \/ was \in BuiltIn
  BY <1>1, Outcome, KeptSame DEF TC_RENAME_CHAIN
<1>2. CASE ~(new \in D \cup DOMAIN StandardTargets \/ was \notin D \/ was \in BuiltIn)
  <2>1. TC_RENAME_CHAIN(h, was, new).h = Changed(g)
    BY <1>2, Outcome DEF TC_RENAME_CHAIN
  <2>2. /\ Lists(h) /\ was \in D /\ new \notin D /\ was # new /\ was # NoChain /\ NoChain \notin D
        /\ \A d \in D : IsChain(D, h.chains[d])
    BY <1>2 DEF HandleInv, Lists
  <2>3. "chains" \in DOMAIN g /\ g.chains = chains
    BY <2>2 DEF Lists
  <2>4. \A d \in E : src(d) \in D /\ (d = src(d) \/ d = new)
    BY <2>2
  <2>5. /\ DOMAIN chains = E
        /\ \A d \in E : chains[d] =
              [from(d) EXCEPT !.rules = [i \in DOMAIN from(d).rules |-> Redirected(from(d).rules[i])]]
    OBVIOUS
  <2> HIDE DEF chains, g
  \* What becomes of a rule.
  <2>6. ASSUME NEW r, IsRule(D, r)
        PROVE  /\ IsRule(E, Redirected(r))
               /\ \A d \in E : Redirected(r).jump = d <=> r.jump = src(d)
    <3>1. {"jump", "type"} \subseteq DOMAIN r
      BY <2>6 DEF IsRule
    <3>2. CASE r.jump = was
      <4>1. r.type = "JUMP"
        BY <2>2, <2>6, <3>2 DEF IsRule
      <4>2. PICK q : q = Redirected(r)
        OBVIOUS
      <4>3. q.jump = new /\ q.type = r.type /\ {"jump", "type"} \subseteq DOMAIN q
        BY <3>1, <3>2, <4>2
      <4>4. IsRule(E, q)
        BY <4>1, <4>3 DEF IsRule
      <4> QED
        BY <2>2, <3>2, <4>2, <4>3, <4>4
    <3>3. CASE r.jump # was
      <4>1. Redirected(r) = r
        BY <3>3
      <4>2. r.jump # new
        BY <1>2, <2>2, <2>6 DEF IsRule
      <4>3. IsRule(E, r)
        BY <2>6, <3>3 DEF IsRule
      <4> QED
        BY <3>3, <4>1, <4>2, <4>3
    <3> QED
      BY <3>2, <3>3
  <2>7. ASSUME NEW r, SoundRule(r), new \notin BuiltIn
         PROVE  SoundRule(Redirected(r))
    <3>1. CASE r.jump # was
      BY <2>7, <3>1
    <3>2. CASE r.jump = was
      <4>1. PICK q : q = [r EXCEPT !.jump = new]
        OBVIOUS
      <4>2. Redirected(r) = q
        BY <3>2, <4>1
      <4>3. /\ DOMAIN q = DOMAIN r /\ q.type = r.type /\ q.target = r.target
            /\ q.verdict = r.verdict /\ q.jump = new
        BY <2>7, <4>1 DEF SoundRule
      <4> QED
        BY <2>7, <4>2, <4>3 DEF SoundRule
    <3> QED
      BY <3>1, <3>2
  <2> HIDE DEF Redirected
  <2>8. ASSUME NEW d \in E
        PROVE  /\ IsChain(E, chains[d]) /\ chains[d].references = from(d).references
               /\ \A t \in E : JumpsIn(chains[d].rules, t) = JumpsIn(from(d).rules, src(t))
    <3>1. PICK x : x = from(d)
      OBVIOUS
    <3>2. IsChain(D, x)
      BY <2>2, <2>4, <3>1
    <3>3. /\ {"references", "num_rules", "rules"} \subseteq DOMAIN x
          /\ IsSeq(x.rules) /\ x.num_rules = Len(x.rules) /\ x.references \in Int
          /\ \A i \in DOMAIN x.rules : IsRule(D, x.rules[i])
          /\ Len(x.rules) \in Nat /\ DOMAIN x.rules = 1 .. Len(x.rules)
      BY <3>2, SeqFacts DEF IsChain
    <3>4. PICK rs : rs = [i \in 1 .. Len(x.rules) |-> Redirected(x.rules[i])]
      OBVIOUS
    <3>5. chains[d] = [x EXCEPT !.rules = rs]
      BY <2>5, <3>1, <3>3, <3>4
    <3>6. /\ DOMAIN chains[d] = DOMAIN x /\ chains[d].rules = rs
          /\ chains[d].num_rules = x.num_rules /\ chains[d].references = x.references
      BY <3>3, <3>5
    <3>7. IsSeq(rs) /\ Len(rs) = Len(x.rules) /\ DOMAIN rs = DOMAIN x.rules
      <4>1. rs = [i \in 1 .. Len(x.rules) |-> rs[i]]
        BY <3>4
      <4> QED
        BY <3>3, <3>4, <4>1, BuiltSeq
    <3>8. \A i \in DOMAIN rs : /\ IsRule(E, rs[i])
                               /\ \A t \in E : rs[i].jump = t <=> x.rules[i].jump = src(t)
      BY <2>6, <3>3, <3>4
    <3>9. IsChain(E, chains[d])
      BY <3>3, <3>6, <3>7, <3>8 DEF IsChain
    <3>10. \A t \in E : JumpsIn(chains[d].rules, t) = JumpsIn(x.rules, src(t))
      BY <3>6, <3>7, <3>8 DEF JumpsIn
    <3> QED
      BY <3>1, <3>6, <3>9, <3>10
  <2>9. IsFiniteSet(E) /\ NoChain \notin E
    <3>1. IsFiniteSet(D \ {was})
      BY <2>2, FS_RemoveElement DEF Lists
    <3> QED
      BY <2>2, <3>1, FS_AddElement
  <2>10. Lists(g)
    BY <2>3, <2>5, <2>8, <2>9 DEF Lists
  <2>11. ASSUME NEW t \in E
         PROVE  Cardinality(Jumps(chains, t)) = Cardinality(Jumps(h.chains, src(t)))
    <3>1. JumpsFrom(chains, E \ {new}, t) = JumpsFrom(h.chains, D \ {was}, src(t))
      <4>1. E \ {new} = D \ {was}
        BY <2>2
      <4>2. \A d \in D \ {was} : JumpsIn(chains[d].rules, t) = JumpsIn(h.chains[d].rules, src(t))
        BY <2>2, <2>8
      <4> QED
        BY <4>1, <4>2 DEF JumpsFrom
    <3>2. JumpCount(chains[new].rules, t) = JumpCount(h.chains[was].rules, src(t))
      BY <2>8 DEF JumpCount
    <3>3. ListsIn(chains) /\ ListsIn(h.chains) /\ new \in DOMAIN chains
      BY <2>2, <2>3, <2>5, <2>10, ListsAreLists
    <3>4. Cardinality(Jumps(chains, t)) =
            Cardinality(JumpsFrom(chains, E \ {new}, t)) + JumpCount(chains[new].rules, t)
      BY <2>5, <3>3, JumpsSplit
    <3>5. Cardinality(Jumps(h.chains, src(t))) =
            Cardinality(JumpsFrom(h.chains, D \ {was}, src(t))) + JumpCount(h.chains[was].rules, src(t))
      BY <2>2, <3>3, JumpsSplit
    <3> QED
      BY <3>1, <3>2, <3>4, <3>5
  <2>12. \A t \in E : chains[t].references = Cardinality(Jumps(chains, t))
    BY <2>4, <2>8, <2>11 DEF HandleInv
  <2>13. HandleInv(g)
    BY <2>3, <2>5, <2>10, <2>12 DEF HandleInv
  <2>14. new \in ChainNames /\ Sound(h) => Sound(Changed(g))
    <3> SUFFICES ASSUME new \in ChainNames, Sound(h) PROVE Sound(Changed(g))
      OBVIOUS
    <3>1. Changed(g).chains = chains
      BY <2>3, <2>10, ChangedSame
    <3>2. BuiltIn \subseteq E /\ E \subseteq ChainNames /\ new \notin BuiltIn
      BY <1>2, <2>2 DEF Sound
    <3>3. ASSUME NEW d \in E
          PROVE  SoundRules(chains[d].rules)
      <4>1. PICK x : x = from(d)
        OBVIOUS
      <4>2. SoundRules(x.rules) /\ IsChain(D, x)
        BY <2>2, <2>4, <4>1, SoundList
      <4>3. chains[d] = [x EXCEPT !.rules = [i \in DOMAIN x.rules |-> Redirected(x.rules[i])]]
        BY <2>5, <4>1
      <4>4. chains[d].rules = [i \in DOMAIN x.rules |-> Redirected(x.rules[i])]
        BY <4>2, <4>3 DEF IsChain
      <4>5. \A i \in DOMAIN x.rules : SoundRule(Redirected(x.rules[i]))
        BY <3>2, <4>2, <2>7 DEF SoundRules
      <4> QED
        BY <4>4, <4>5 DEF SoundRules
    <3> QED
      BY <2>5, <3>1, <3>2, <3>3 DEF Sound, SoundRules
  <2> QED
    BY <2>1, <2>10, <2>13, <2>14, SameChains, ChangedSame DEF Kept
<1> QED
  BY <1>1, <1>2

\* TC_SET_POLICY.
LEMMA PolicyKeeps ==
    ASSUME NEW h, HandleInv(h), NEW c, NEW policy, NEW counters
    PROVE  Kept(h, TC_SET_POLICY(h, c, policy, counters).h, TRUE)
<1> DEFINE D == DOMAIN h.chains
           z == h.chains[c]
           x == IF counters = -1
                THEN [z EXCEPT !.verdict = StandardTargets[policy], !.map = "NOMAP"]
                ELSE [z EXCEPT !.verdict = StandardTargets[policy], !.map = "SET", !.cnt = counters]
<1>1. CASE c \notin D \/ c \notin BuiltIn \/ policy \notin {"ACCEPT", "DROP"}
  BY <1>1, Outcome, KeptSame DEF TC_SET_POLICY
<1>2. CASE ~(c \notin D \/ c \notin BuiltIn \/ policy \notin {"ACCEPT", "DROP"})
  <2>1. TC_SET_POLICY(h, c, policy, counters).h = Changed([h EXCEPT !.chains[c] = x])
    BY <1>2, Outcome DEF TC_SET_POLICY
  <2>2. IsChain(D, z)
    BY <1>2 DEF HandleInv, Lists
  <2>3. /\ DOMAIN x = DOMAIN z /\ x.rules = z.rules
        /\ x.num_rules = z.num_rules /\ x.references = z.references
    BY <2>2 DEF IsChain
  <2> HIDE DEF x
  <2>4. IsChain(D, x)
    BY <2>2, <2>3 DEF IsChain
  <2>5. Kept(h, Changed([h EXCEPT !.chains[c] = x]), SoundRules(x.rules))
    BY <1>2, <2>3, <2>4, ChainKeeps
  <2>6. Sound(h) => SoundRules(x.rules)
    BY <1>2, <2>3, SoundList
  <2> QED
    BY <2>1, <2>5, <2>6 DEF Kept
<1> QED
  BY <1>1, <1>2

-----------------------------------------------------------------------------
(* A handle parsed from any entries has exact counts and no dangling jump. *)

\* A list of entries none of which is named NoChain.
IsBlob(entries) ==
    /\ IsSeq(entries)
    /\ \A i \in DOMAIN entries :
          /\ {"name", "image", "target", "verdict"} \subseteq DOMAIN entries[i]
          /\ entries[i].name # NoChain

\* The starts of chains are places in the table.
LEMMA StartFacts ==
    ASSUME NEW blob, IsBlob(blob.entries)
    PROVE  /\ Len(blob.entries) \in Nat
           /\ Starts(blob) \subseteq 1 .. Len(blob.entries) - 1
           /\ IsFiniteSet(Starts(blob))
<1>1. Len(blob.entries) \in Nat
  BY SeqFacts DEF IsBlob
<1>2. Starts(blob) \subseteq 1 .. Len(blob.entries) - 1
  BY DEF Starts
<1>3. IsFiniteSet(1 .. Len(blob.entries) - 1)
  BY <1>1, FS_Interval
<1> QED
  BY <1>1, <1>2, <1>3, FS_Subset

\* Min of a set of positions.
LEMMA LeastIn ==
    ASSUME NEW T, T \subseteq Nat, T # {}
    PROVE  Min(T) \in T /\ \A y \in T : Min(T) <= y
BY LeastNatural DEF Min

\* The entries of a chain end behind its begin.
LEMMA LastFacts ==
    ASSUME NEW blob, IsBlob(blob.entries), NEW i \in Starts(blob)
    PROVE  /\ i \in Nat /\ i <= LastEntry(blob, i)
           /\ LastEntry(blob, i) \in Nat /\ FirstEntry(blob, i) \in Nat
<1> DEFINE T == {j \in Starts(blob) \cup {Len(blob.entries)} : j > i}
<1>1. Starts(blob) \subseteq Nat /\ Len(blob.entries) \in Nat /\ i < Len(blob.entries) /\ i \in Nat
  BY StartFacts
<1>2. T \subseteq Nat /\ Len(blob.entries) \in T
  BY <1>1
<1>3. LastEntry(blob, i) = Min(T) - 1
  BY DEF LastEntry
<1>4. Min(T) \in T
  <2> HIDE DEF T
  <2> QED
    BY <1>2, LeastIn
<1>5. Min(T) \in Nat /\ Min(T) > i
  BY <1>1, <1>4
<1> HIDE DEF T
<1>6. FirstEntry(blob, i) \in Nat
  BY <1>1 DEF FirstEntry
<1> QED
  BY <1>1, <1>3, <1>5, <1>6

\* No chain is named NoChain.
LEMMA ChainOfNamed ==
    ASSUME NEW blob, IsBlob(blob.entries), NEW i \in Starts(blob)
    PROVE  ChainOf(blob, i) # NoChain
<1>1. CASE blob.entries[i].target = "ERROR"
  <2>1. i \in DOMAIN blob.entries
    BY StartFacts, SeqFacts DEF IsBlob
  <2> QED
    BY <1>1, <2>1 DEF ChainOf, IsBlob
<1>2. CASE blob.entries[i].target # "ERROR"
  <2> DEFINE T == {k \in DOMAIN Order : Order[k] \in BuiltIn /\ blob.hook_entry[Order[k]] = i}
  <2>1. ChainOf(blob, i) = Order[Min(T)]
    BY <1>2 DEF ChainOf
  <2>2. PICK b \in BuiltIn : blob.hook_entry[b] = i
    BY <1>2 DEF Starts
  <2>3. \E k \in DOMAIN Order : Order[k] = b
    BY <2>2, LibiptcAssumption DEF ChainNames
  <2>4. T # {}
    BY <2>2, <2>3
  <2>5. T \subseteq Nat
    BY LibiptcAssumption
  <2>6. Min(T) \in T
    <3> HIDE DEF T
    <3> QED
      BY <2>4, <2>5, LeastIn
  <2> QED
    BY <2>1, <2>6, LibiptcAssumption DEF ChainNames
<1> QED
  BY <1>1, <1>2

\* The fields of a rule of the first pass.
LEMMA ParsedFields ==
    ASSUME NEW e, NEW at, NEW r, r = ParsedRule(e, at)
    PROVE  {"jump", "type", "verdict"} \subseteq DOMAIN r /\ r.jump = NoChain
BY DEF ParsedRule

\* A chain of the first pass.
LEMMA FirstPass ==
    ASSUME NEW blob, IsBlob(blob.entries), ~Unparsable(blob), NEW i \in Starts(blob)
    PROVE  LET p == __iptcc_p_del_policy(blob, i) IN
           /\ {"references", "num_rules", "rules"} \subseteq DOMAIN p
           /\ IsSeq(p.rules) /\ p.num_rules = Len(p.rules) /\ p.references = 0
           /\ \A k \in DOMAIN p.rules :
                 {"jump", "type", "verdict"} \subseteq DOMAIN p.rules[k] /\ p.rules[k].jump = NoChain
<1>1. PICK a, z : a = FirstEntry(blob, i) /\ z = LastEntry(blob, i)
  OBVIOUS
<1>2. a \in Nat /\ z \in Nat /\ a <= z
  BY <1>1, LastFacts DEF Unparsable
<1>3. PICK p : p = __iptcc_p_del_policy(blob, i)
  OBVIOUS
<1>4. PICK rs : rs = [k \in 1 .. z - a |-> ParsedRule(blob.entries[a + k - 1], a + k - 1)]
  OBVIOUS
<1>5. /\ {"references", "num_rules", "rules"} \subseteq DOMAIN p
      /\ p.rules = rs /\ p.num_rules = z - a /\ p.references = 0
  BY <1>1, <1>3, <1>4 DEF __iptcc_p_del_policy
<1>6. z - a \in Nat
  BY <1>2
<1>7. IsSeq(rs) /\ Len(rs) = z - a
  <2>1. rs = [k \in 1 .. z - a |-> rs[k]]
    BY <1>4
  <2> QED
    BY <1>6, <2>1, BuiltSeq
<1>8. \A k \in DOMAIN rs : {"jump", "type", "verdict"} \subseteq DOMAIN rs[k] /\ rs[k].jump = NoChain
  BY <1>4, ParsedFields
<1> QED
  BY <1>3, <1>5, <1>7, <1>8

\* A resolved jump leads to a chain of the table.
LEMMA ResolvedRule ==
    ASSUME NEW blob, NEW r, {"jump", "type", "verdict"} \subseteq DOMAIN r, r.jump = NoChain,
           IsBlob(blob.entries),
           r.type = "JUMP" => Targets(blob, r.verdict) # {}
    PROVE  IsRule({ChainOf(blob, i) : i \in Starts(blob)}, Resolved(blob, r))
<1>1. CASE r.type # "JUMP"
  BY <1>1 DEF Resolved, IsRule
<1>2. CASE r.type = "JUMP"
  <2>1. PICK c : c = ChainOf(blob, Min(Targets(blob, r.verdict)))
    OBVIOUS
  <2>2. PICK q : q = [r EXCEPT !.jump = c, !.verdict = 0]
    OBVIOUS
  <2>3. Resolved(blob, r) = q
    BY <1>2, <2>1, <2>2 DEF Resolved
  <2>4. {"jump", "type"} \subseteq DOMAIN q /\ q.type = "JUMP" /\ q.jump = c
    BY <1>2, <2>2
  <2>5. Min(Targets(blob, r.verdict)) \in Starts(blob)
    <3>1. Targets(blob, r.verdict) \subseteq Starts(blob) /\ Starts(blob) \subseteq Nat
      BY StartFacts DEF Targets
    <3>2. Targets(blob, r.verdict) \subseteq Nat /\ Targets(blob, r.verdict) # {}
      BY <1>2, <3>1
    <3> QED
      BY <3>1, <3>2, LeastIn
  <2> QED
    BY <2>1, <2>3, <2>4, <2>5 DEF IsRule
<1> QED
  BY <1>1, <1>2

\* What parse_table makes of entries it can parse, whoever wrote them.
LEMMA ParseKeeps ==
    ASSUME NEW blob, IsBlob(blob.entries), ~Unparsable(blob), ~Unresolved(blob)
    PROVE  HandleInv(parse_table(blob))
<1> DEFINE N == {ChainOf(blob, i) : i \in Starts(blob)}
           start == [c \in N |-> CHOOSE i \in Starts(blob) : ChainOf(blob, i) = c]
           first == [c \in DOMAIN start |-> __iptcc_p_del_policy(blob, start[c])]
           second == [c \in DOMAIN first |->
                        [first[c] EXCEPT !.rules = [k \in DOMAIN @ |-> Resolved(blob, @[k])]]]
           chains == [c \in DOMAIN second |->
                        [second[c] EXCEPT !.references = Cardinality(Jumps(second, c))]]
           g == parse_table(blob)
<1>1. "chains" \in DOMAIN g /\ g.chains = chains
  BY DEF parse_table
<1> HIDE DEF g
<1>2. IsFiniteSet(N) /\ NoChain \notin N
  <2>1. PICK f : f = [i \in Starts(blob) |-> ChainOf(blob, i)]
    OBVIOUS
  <2>2. N = {f[i] : i \in Starts(blob)}
    BY <2>1
  <2>3. IsFiniteSet({f[i] : i \in Starts(blob)})
    BY StartFacts, FiniteImage
  <2> QED
    BY <2>2, <2>3, ChainOfNamed
<1>3. \A c \in N : start[c] \in Starts(blob)
  OBVIOUS
<1>4. ASSUME NEW c \in N
      PROVE  /\ {"references", "num_rules", "rules"} \subseteq DOMAIN second[c]
             /\ IsSeq(second[c].rules) /\ second[c].num_rules = Len(second[c].rules)
             /\ \A k \in DOMAIN second[c].rules : IsRule(N, second[c].rules[k])
  <2>1. PICK i : i = start[c]
    OBVIOUS
  <2>2. i \in Starts(blob)
    BY <1>3, <2>1
  <2>3. PICK p : p = __iptcc_p_del_policy(blob, i)
    OBVIOUS
  <2>4. first[c] = p
    BY <2>1, <2>3
  <2>5. /\ {"references", "num_rules", "rules"} \subseteq DOMAIN p
        /\ IsSeq(p.rules) /\ p.num_rules = Len(p.rules)
        /\ \A k \in DOMAIN p.rules :
              {"jump", "type", "verdict"} \subseteq DOMAIN p.rules[k] /\ p.rules[k].jump = NoChain
    BY <2>2, <2>3, FirstPass
  <2>6. \A k \in DOMAIN p.rules : p.rules[k].type = "JUMP" => Targets(blob, p.rules[k].verdict) # {}
    BY <2>2, <2>3 DEF Unresolved
  <2>7. \A k \in DOMAIN p.rules : IsRule(N, Resolved(blob, p.rules[k]))
    BY <2>5, <2>6, ResolvedRule
  <2>8. Len(p.rules) \in Nat /\ DOMAIN p.rules = 1 .. Len(p.rules)
    BY <2>5, SeqFacts
  <2>9. PICK rs : rs = [k \in 1 .. Len(p.rules) |-> Resolved(blob, p.rules[k])]
    OBVIOUS
  <2>10. second[c] = [p EXCEPT !.rules = rs]
    BY <2>4, <2>8, <2>9
  <2> HIDE DEF second, first, start
  <2>11. DOMAIN second[c] = DOMAIN p /\ second[c].rules = rs /\ second[c].num_rules = p.num_rules
    BY <2>5, <2>10
  <2>12. IsSeq(rs) /\ Len(rs) = Len(p.rules)
    <3>1. rs = [k \in 1 .. Len(p.rules) |-> rs[k]]
      BY <2>9
    <3> QED
      BY <2>8, <3>1, BuiltSeq
  <2>13. \A k \in DOMAIN rs : IsRule(N, rs[k])
    BY <2>7, <2>8, <2>9
  <2> HIDE DEF N
  <2> QED
    BY <2>5, <2>11, <2>12, <2>13
<1>5. DOMAIN second = N
  OBVIOUS
<1> HIDE DEF N, start, first, second
<1>6. ListsIn(second)
  BY <1>2, <1>4, <1>5 DEF ListsIn
<1>7. \A d : Cardinality(Jumps(second, d)) \in Nat
  BY <1>6, JumpsFinite
<1>8. DOMAIN chains = N
  BY <1>5
<1>9. ASSUME NEW c \in N
      PROVE  /\ IsChain(N, chains[c]) /\ chains[c].references = Cardinality(Jumps(second, c))
             /\ chains[c].rules = second[c].rules
  <2>1. PICK n \in Nat : n = Cardinality(Jumps(second, c))
    BY <1>7
  <2>2. PICK s : s = second[c]
    OBVIOUS
  <2>3. chains[c] = [s EXCEPT !.references = n]
    BY <1>5, <2>1, <2>2
  <2>4. /\ {"references", "num_rules", "rules"} \subseteq DOMAIN s
        /\ IsSeq(s.rules) /\ s.num_rules = Len(s.rules)
        /\ \A k \in DOMAIN s.rules : IsRule(N, s.rules[k])
    BY <1>4, <2>2
  <2> HIDE DEF chains
  <2>5. /\ DOMAIN chains[c] = DOMAIN s /\ chains[c].rules = s.rules
        /\ chains[c].num_rules = s.num_rules /\ chains[c].references = n
    BY <2>3, <2>4
  <2>6. IsChain(N, chains[c])
    BY <2>4, <2>5 DEF IsChain
  <2> QED
    BY <2>1, <2>2, <2>5, <2>6
<1> HIDE DEF chains
<1>10. \A d : Jumps(chains, d) = Jumps(second, d)
  BY <1>5, <1>8, <1>9 DEF Jumps
<1>11. Lists(g)
  BY <1>1, <1>2, <1>8, <1>9 DEF Lists
<1>12. HandleInv(g)
  BY <1>1, <1>8, <1>9, <1>10, <1>11 DEF HandleInv
<1> QED
  BY <1>12 DEF g

-----------------------------------------------------------------------------
(* Where the compiler lays the entries of each chain.                      *)

\* What the compiler needs of a handle: chains with lists of rules.
HasRules(h) == \A c \in DOMAIN h.chains : IsSeq(h.chains[c].rules)

\* A chain has so many entries.
LEMMA SizeNat ==
    ASSUME NEW h, HasRules(h), NEW c
    PROVE  Size(h, c) \in Nat
<1>1. CASE c \in DOMAIN h.chains
  <2>1. PICK n \in Nat : n = Len(h.chains[c].rules)
    BY <1>1, SeqFacts DEF HasRules
  <2>2. Size(h, c) = Header(c) + n + 1
    BY <1>1, <2>1 DEF Size
  <2>3. Header(c) \in Nat
    BY DEF Header
  <2> QED
    BY <2>2, <2>3
<1>2. CASE c \notin DOMAIN h.chains
  BY <1>2 DEF Size
<1> QED
  BY <1>1, <1>2

\* Offsets is well defined.
LEMMA OffsetsMade ==
    ASSUME NEW h, HasRules(h)
    PROVE  /\ Len(Order) \in Nat /\ DOMAIN Order = 1 .. Len(Order)
           /\ Offsets(h) \in [0 .. Len(Order) -> Nat] /\ Offsets(h)[0] = 1
           /\ \A i \in 1 .. Len(Order) : Offsets(h)[i] = Offsets(h)[i - 1] + Size(h, Order[i])
<1>1. Len(Order) \in Nat /\ DOMAIN Order = 1 .. Len(Order)
  BY LibiptcAssumption
<1>2. PICK k \in Nat : k = Len(Order)
  BY <1>1
<1>3. PICK z : z = [i \in 1 .. k |-> Size(h, Order[i])]
  OBVIOUS
<1>4. \A i \in 1 .. k : z[i] = Size(h, Order[i]) /\ z[i] \in Nat
  BY <1>3, SizeNat
<1> DEFINE G == [p \in (1 .. k) \X Nat |-> p[2] + z[p[1]]]
           Is(f) == f = [i \in 0 .. k |-> IF i = 0 THEN 1 ELSE f[i - 1] + Size(h, Order[i])]
<1>5. PICK w : StepsOf(k, Nat, 1, G, w)
  <2>1. G \in [(1 .. k) \X Nat -> Nat]
    BY <1>4
  <2> HIDE DEF G
  <2> QED
    BY <1>2, <2>1, StepRecursion
<1>6. \A i \in 1 .. k : w[i] = w[i - 1] + z[i]
  <2> TAKE i \in 1 .. k
  <2>1. w \in [0 .. k -> Nat] /\ w[i] = G[<<i, w[i - 1]>>]
    <3> HIDE DEF G
    <3> QED
      BY <1>5 DEF StepsOf
  <2>2. i - 1 \in 0 .. k /\ w[i - 1] \in Nat
    BY <1>2, <2>1
  <2> QED
    BY <2>1, <2>2
<1>7. Is(w)
  <2>1. w \in [0 .. k -> Nat] /\ w[0] = 1
    BY <1>5 DEF StepsOf
  <2>2. \A i \in 0 .. k : w[i] = IF i = 0 THEN 1 ELSE w[i - 1] + Size(h, Order[i])
    BY <1>2, <1>4, <1>6, <2>1
  <2>3. w = [i \in 0 .. k |-> w[i]]
    BY <2>1
  <2> QED
    BY <2>2, <2>3
<1>8. Offsets(h) = CHOOSE f : Is(f)
  BY <1>2 DEF Offsets
<1> DEFINE o == Offsets(h)
<1>9. Is(o)
  <2> HIDE DEF o
  <2>1. Is(CHOOSE f : Is(f))
    BY <1>7
  <2> QED
    BY <1>8, <2>1 DEF o
<1> HIDE DEF o
<1>10. o[0] = 1 /\ \A i \in 1 .. k : o[i] = o[i - 1] + z[i]
  <2>1. \A i \in 0 .. k : o[i] = IF i = 0 THEN 1 ELSE o[i - 1] + Size(h, Order[i])
    BY <1>9
  <2>2. 0 \in 0 .. k /\ \A i \in 1 .. k : i \in 0 .. k /\ i # 0
    BY <1>2
  <2> QED
    BY <1>4, <2>1, <2>2
<1> DEFINE T == {i \in 0 .. k : o[i] \in Nat}
<1>11. 0 .. k \subseteq T
  <2>1. 0 \in T
    BY <1>2, <1>10
  <2>2. \A i \in 0 .. k - 1 : i \in T => i + 1 \in T
    <3> SUFFICES ASSUME NEW i \in 0 .. k - 1, o[i] \in Nat PROVE i + 1 \in T
      OBVIOUS
    <3>1. i + 1 \in 1 .. k /\ i + 1 \in 0 .. k /\ (i + 1) - 1 = i
      BY <1>2
    <3>2. o[i + 1] = o[i] + z[i + 1] /\ z[i + 1] \in Nat
      BY <1>4, <1>10, <3>1
    <3> QED
      BY <3>1, <3>2
  <2> HIDE DEF T
  <2> QED
    BY <1>2, <2>1, <2>2, IntervalInduction
<1>12. o = [i \in 0 .. k |-> o[i]]
  <2>1. PICK q : q = [i \in 0 .. k |-> IF i = 0 THEN 1 ELSE o[i - 1] + Size(h, Order[i])]
    OBVIOUS
  <2>2. o = q
    BY <1>9, <2>1
  <2> QED
    BY <2>1, <2>2
<1>13. o \in [0 .. k -> Nat]
  BY <1>11, <1>12
<1> QED
  BY <1>1, <1>2, <1>4, <1>10, <1>13 DEF o

\* Parts for the chains of a handle, each as long as the chain's entries.
PartsFor(h, V, ss) ==
    ss \in [1 .. Len(Order) -> Seq(V)] /\ \A i \in 1 .. Len(Order) : Len(ss[i]) = Size(h, Order[i])

\* Where the parts are in a list f.
LaidOut(h, V, ss, f) ==
    /\ f \in Seq(V) /\ Len(f) = new_number(h)
    /\ \A i \in 1 .. Len(Order) : \A j \in 1 .. Size(h, Order[i]) :
          f[Offsets(h)[i - 1] + j - 1] = ss[i][j]

\* The entries of the chains are laid at their offsets.
LEMMA LaidParts ==
    ASSUME NEW h, HasRules(h), NEW V, NEW ss, PartsFor(h, V, ss), NEW e \in V
    PROVE  LaidOut(h, V, ss, FlattenSeq(ss) \o <<e>>)
<1>1. PICK k : k = Len(Order)
  OBVIOUS
<1>2. PICK o : o = Offsets(h)
  OBVIOUS
<1>3. /\ k \in Nat /\ o \in [0 .. k -> Nat] /\ o[0] = 1
      /\ \A i \in 1 .. k : o[i] = o[i - 1] + Len(ss[i])
  BY <1>1, <1>2, OffsetsMade DEF PartsFor
<1>4. EndsOf(k, ss, o)
  BY <1>3 DEF EndsOf
<1>5. Parts(V, k, ss)
  <2>1. ss \in [1 .. k -> Seq(V)]
    BY <1>1 DEF PartsFor
  <2>2. Len(ss) = k
    <3>1. ss \in Seq(Seq(V))
      BY <1>3, <2>1
    <3> QED
      BY <1>3, <2>1, <3>1
  <2> QED
    BY <1>3, <2>1, <2>2 DEF Parts
<1>6. PICK g : g = FlattenSeq(ss)
  OBVIOUS
<1>7. /\ g \in Seq(V) /\ Len(g) = o[k] - 1
      /\ \A i \in 1 .. k : \A j \in 1 .. Len(ss[i]) : g[o[i - 1] + j - 1] = ss[i][j]
  BY <1>4, <1>5, <1>6, Flattened
<1>8. PICK n \in Nat : n = new_number(h) /\ n = o[k]
  BY <1>1, <1>2, <1>3 DEF new_number
<1>9. Len(g) = n - 1 /\ Len(g) \in Nat /\ n # 0
  BY <1>7, <1>8
<1>10. PICK f : f = g \o <<e>>
  OBVIOUS
<1>11. f \in Seq(V) /\ Len(f) = n /\ f[n] = e /\ \A i \in 1 .. n - 1 : f[i] = g[i]
  BY <1>7, <1>9, <1>10
<1>12. ASSUME NEW i \in 1 .. k, NEW j \in 1 .. Len(ss[i])
       PROVE  f[o[i - 1] + j - 1] = ss[i][j]
  <2>1. PICK a, b, z \in Nat : a = o[i - 1] /\ b = o[i] /\ z = Len(ss[i])
    BY <1>4, <1>5, PartFacts
  <2>2. b = a + z /\ a >= 1 /\ j \in 1 .. z
    <3>1. i - 1 \in 0 .. k
      BY <1>3
    <3>2. o[i - 1] >= 1
      BY <1>4, <1>5, <3>1, EndsPositive
    <3> QED
      BY <1>3, <2>1, <3>2
  <2>3. o[i] <= o[k]
    <3>1. i \in 0 .. k /\ k \in 0 .. k /\ i <= k
      BY <1>3
    <3> QED
      BY <1>4, <1>5, <3>1, EndsGrow
  <2>4. b <= n
    BY <1>8, <2>1, <2>3
  <2>5. a + j - 1 \in 1 .. n - 1
    BY <2>2, <2>4
  <2>6. f[a + j - 1] = g[a + j - 1]
    BY <1>11, <2>5
  <2>7. g[o[i - 1] + j - 1] = ss[i][j]
    BY <1>7
  <2> QED
    BY <2>1, <2>6, <2>7
<1>13. \A i \in 1 .. k : Size(h, Order[i]) = Len(ss[i])
  BY <1>1 DEF PartsFor
<1> QED
  BY <1>1, <1>2, <1>6, <1>8, <1>10, <1>11, <1>12, <1>13 DEF LaidOut

-----------------------------------------------------------------------------
(* The spans of two chains do not overlap, and together they cover the     *)
(* table.                                                                  *)

\* Place is the inverse of Order.
LEMMA PlaceOf ==
    /\ \A c \in ChainNames : Place[c] \in DOMAIN Order /\ Order[Place[c]] = c
    /\ \A i \in DOMAIN Order : Order[i] \in ChainNames /\ Place[Order[i]] = i
<1>1. ASSUME NEW c \in ChainNames
      PROVE  Place[c] \in DOMAIN Order /\ Order[Place[c]] = c
  <2>1. \E i \in DOMAIN Order : Order[i] = c
    BY DEF ChainNames
  <2> QED
    BY <2>1 DEF Place
<1>2. ASSUME NEW i \in DOMAIN Order
      PROVE  Order[i] \in ChainNames /\ Place[Order[i]] = i
  <2>1. Order[i] \in ChainNames
    BY DEF ChainNames
  <2> QED
    BY <1>1, <2>1, LibiptcAssumption
<1> QED
  BY <1>1, <1>2

\* The chains of h, with their lists, are among the names there are.
Placed(h) == HasRules(h) /\ DOMAIN h.chains \subseteq ChainNames

\* The entries of a chain lie inside the table.
LEMMA ChainSpan ==
    ASSUME NEW h, Placed(h), NEW c \in DOMAIN h.chains
    PROVE  /\ head_offset(h, c) \in Nat /\ head_offset(h, c) >= 1
           /\ Len(h.chains[c].rules) \in Nat /\ Header(c) \in {0, 1}
           /\ Size(h, c) = Header(c) + Len(h.chains[c].rules) + 1
           /\ new_number(h) \in Nat
           /\ head_offset(h, c) + Size(h, c) <= new_number(h)
<1>1. PICK o, k : o = Offsets(h) /\ k = Len(Order)
  OBVIOUS
<1>2. /\ k \in Nat /\ DOMAIN Order = 1 .. k /\ o \in [0 .. k -> Nat] /\ o[0] = 1
      /\ \A i \in 1 .. k : o[i] = o[i - 1] + Size(h, Order[i])
  BY <1>1, OffsetsMade DEF Placed
<1>3. PICK m \in 1 .. k : m = Place[c] /\ Order[m] = c
  BY <1>2, PlaceOf DEF Placed
<1>4. PICK n \in Nat : n = Len(h.chains[c].rules)
  BY SeqFacts DEF Placed, HasRules
<1>5. PICK s \in Nat : s = Size(h, c) /\ s = Header(c) + n + 1
  <2>1. Header(c) \in Nat
    BY DEF Header
  <2> QED
    BY <1>4, <2>1 DEF Size
<1>6. m - 1 \in 0 .. k /\ m \in 0 .. k /\ 0 \in 0 .. k /\ k \in 0 .. k
  BY <1>2
<1>7. \A i \in 1 .. k : o[i - 1] <= o[i]
  <2> TAKE i \in 1 .. k
  <2>1. i - 1 \in 0 .. k /\ i \in 0 .. k
    BY <1>2
  <2>2. Size(h, Order[i]) \in Nat /\ o[i - 1] \in Nat
    BY <1>2, <2>1, SizeNat DEF Placed
  <2> QED
    BY <1>2, <2>2
<1>8. o[0] <= o[m - 1] /\ o[m] <= o[k]
  <2>1. \A i, l \in 0 .. k : i <= l => o[i] <= o[l]
    BY <1>2, <1>7, Growing
  <2>2. 0 <= m - 1 /\ m <= k
    BY <1>2
  <2> QED
    BY <1>6, <2>1, <2>2
<1>9. PICK a, b, z \in Nat : a = o[m - 1] /\ b = o[m] /\ z = o[k]
  BY <1>2, <1>6
<1>10. head_offset(h, c) = a /\ new_number(h) = z /\ b = a + s
  BY <1>1, <1>2, <1>3, <1>5, <1>9 DEF head_offset, new_number
<1>11. Header(c) \in {0, 1}
  BY DEF Header
<1>12. 1 <= a /\ b <= z
  BY <1>2, <1>8, <1>9
<1>13. a >= 1 /\ a + s <= z
  BY <1>10, <1>12
<1>14. Len(h.chains[c].rules) \in Nat /\ Size(h, c) = Header(c) + Len(h.chains[c].rules) + 1
  BY <1>4, <1>5
<1>15. /\ head_offset(h, c) \in Nat /\ head_offset(h, c) >= 1 /\ new_number(h) \in Nat
       /\ head_offset(h, c) + Size(h, c) <= new_number(h)
  BY <1>5, <1>10, <1>13
<1> QED
  BY <1>11, <1>14, <1>15

\* No two chains have an entry in common.
LEMMA SpansApart ==
    ASSUME NEW h, Placed(h), NEW c \in DOMAIN h.chains, NEW d \in DOMAIN h.chains, c # d
    PROVE  \/ head_offset(h, c) + Size(h, c) <= head_offset(h, d)
           \/ head_offset(h, d) + Size(h, d) <= head_offset(h, c)
<1>1. PICK o, k : o = Offsets(h) /\ k = Len(Order)
  OBVIOUS
<1>2. /\ k \in Nat /\ DOMAIN Order = 1 .. k /\ o \in [0 .. k -> Nat]
      /\ \A i \in 1 .. k : o[i] = o[i - 1] + Size(h, Order[i])
  BY <1>1, OffsetsMade DEF Placed
<1>3. PICK m, l \in 1 .. k : m = Place[c] /\ Order[m] = c /\ l = Place[d] /\ Order[l] = d
  <2>1. c \in ChainNames /\ d \in ChainNames
    BY DEF Placed
  <2>2. \A b \in ChainNames : Place[b] \in DOMAIN Order /\ Order[Place[b]] = b
    BY PlaceOf
  <2> QED
    BY <1>2, <2>1, <2>2
<1>4. \A i \in 1 .. k : o[i - 1] <= o[i]
  <2> TAKE i \in 1 .. k
  <2>1. i - 1 \in 0 .. k /\ i \in 0 .. k
    BY <1>2
  <2>2. Size(h, Order[i]) \in Nat /\ o[i - 1] \in Nat
    BY <1>2, <2>1, SizeNat DEF Placed
  <2> QED
    BY <1>2, <2>2
<1>5. m <= l - 1 \/ l <= m - 1
  BY <1>3
<1>6. /\ m - 1 \in 0 .. k /\ m \in 0 .. k /\ l - 1 \in 0 .. k /\ l \in 0 .. k
  BY <1>2
<1>7. (m <= l - 1 => o[m] <= o[l - 1]) /\ (l <= m - 1 => o[l] <= o[m - 1])
  <2>1. \A i, q \in 0 .. k : i <= q => o[i] <= o[q]
    BY <1>2, <1>4, Growing
  <2> QED
    BY <1>6, <2>1
<1>8. /\ head_offset(h, c) = o[m - 1] /\ head_offset(h, d) = o[l - 1]
      /\ o[m] = head_offset(h, c) + Size(h, c) /\ o[l] = head_offset(h, d) + Size(h, d)
  BY <1>1, <1>2, <1>3 DEF head_offset
<1>9. PICK x, y, z, w : x = head_offset(h, c) /\ y = head_offset(h, d) /\ z = Size(h, c) /\ w = Size(h, d)
  OBVIOUS
<1>10. (m <= l - 1 => x + z <= y) /\ (l <= m - 1 => y + w <= x)
  BY <1>7, <1>8, <1>9
<1> QED
  BY <1>5, <1>9, <1>10

\* Every entry but the last is one of a chain.
LEMMA SpansCover ==
    ASSUME NEW h, Placed(h), NEW i \in Nat, 1 <= i, i < new_number(h)
    PROVE  \E c \in DOMAIN h.chains : head_offset(h, c) <= i /\ i < head_offset(h, c) + Size(h, c)
<1>1. PICK o, k : o = Offsets(h) /\ k = Len(Order)
  OBVIOUS
<1>2. /\ k \in Nat /\ DOMAIN Order = 1 .. k /\ o \in [0 .. k -> Nat] /\ o[0] = 1
      /\ \A m \in 1 .. k : o[m] = o[m - 1] + Size(h, Order[m])
  BY <1>1, OffsetsMade DEF Placed
<1> DEFINE In(c) == head_offset(h, c) <= i /\ i < head_offset(h, c) + Size(h, c)
           T == {m \in 0 .. k : i < o[m] => \E c \in DOMAIN h.chains : In(c)}
<1>3. 0 \in T
  BY <1>2
<1>4. \A m \in 0 .. k - 1 : m \in T => m + 1 \in T
  <2> SUFFICES ASSUME NEW m \in 0 .. k - 1, m \in T, i < o[m + 1]
               PROVE  \E c \in DOMAIN h.chains : In(c)
    BY <1>2
  <2>1. m + 1 \in 1 .. k /\ (m + 1) - 1 = m /\ m \in 0 .. k /\ m + 1 \in DOMAIN Order
    BY <1>2
  <2>2. CASE i < o[m]
    BY <2>2
  <2>3. CASE ~(i < o[m])
    <3>1. PICK c : c = Order[m + 1]
      OBVIOUS
    <3>2. c \in ChainNames /\ Place[c] = m + 1
      BY <2>1, <3>1, PlaceOf
    <3>3. head_offset(h, c) = o[m]
      BY <1>1, <2>1, <3>2 DEF head_offset
    <3>4. o[m + 1] = o[m] + Size(h, c) /\ o[m] \in Nat
      BY <1>2, <2>1, <3>1
    <3>5. i < o[m] + Size(h, c) /\ o[m] <= i
      BY <2>3, <3>4
    <3>6. Size(h, c) # 0
      BY <3>4, <3>5
    <3>7. c \in DOMAIN h.chains
      BY <3>6 DEF Size
    <3> QED
      BY <3>3, <3>5, <3>7
  <2> QED
    BY <2>2, <2>3
<1> HIDE DEF T
<1>5. 0 .. k \subseteq T
  BY <1>2, <1>3, <1>4, IntervalInduction
<1>6. k \in T /\ i < o[k]
  BY <1>1, <1>2, <1>5 DEF new_number
<1> QED
  BY <1>6 DEF T

-----------------------------------------------------------------------------
(* The entries of one chain.                                               *)

\* The entries of chain c in the blob of h.
ChainEntries(h, c) ==
    IF c \notin DOMAIN h.chains THEN <<>>
    ELSE (IF c \in BuiltIn THEN <<>> ELSE <<ErrorEntry(c)>>)
         \o [i \in DOMAIN h.chains[c].rules |->
                iptcc_compile_rule(h, h.chains[c].rules[i], rule_offset(h, c, i))]
         \o <<Entry(NoName, NoMatch, "", IF c \in BuiltIn THEN h.chains[c].verdict ELSE RETURN,
                    h.chains[c].cnt)>>

\* The entries of a compiled table are those of its chains, one chain after the other.
LEMMA CompiledEntries ==
    ASSUME NEW h
    PROVE  iptcc_compile_table(h).entries =
             FlattenSeq([i \in DOMAIN Order |-> ChainEntries(h, Order[i])]) \o <<ErrorEntry("ERROR")>>
BY DEF iptcc_compile_table, Laid, ChainEntries

Named(e) == {"name", "image", "target", "verdict"} \subseteq DOMAIN e /\ e.name # NoChain

\* An entry has a name.
LEMMA EntryNamed ==
    ASSUME NEW name, NEW image, NEW target, NEW verdict, NEW cnt, name # NoChain
    PROVE  Named(Entry(name, image, target, verdict, cnt))
BY DEF Entry, Named

\* So has a compiled rule.
LEMMA RuleNamed ==
    ASSUME NEW h, NEW r, NEW at
    PROVE  Named(iptcc_compile_rule(h, r, at))
<1>1. NoName # NoChain
  BY DEF NoName, NoChain
<1>2. CASE r.type = "JUMP"
  BY <1>1, <1>2, EntryNamed DEF iptcc_compile_rule
<1>3. CASE r.type = "FALLTHROUGH"
  BY <1>1, <1>3, EntryNamed DEF iptcc_compile_rule
<1>4. CASE r.type \notin {"JUMP", "FALLTHROUGH"}
  BY <1>1, <1>4, EntryNamed DEF iptcc_compile_rule
<1> QED
  BY <1>2, <1>3, <1>4

\* Three lists in a row.
LEMMA InARow ==
    ASSUME NEW V, NEW a \in Seq(V), NEW b \in Seq(V), NEW c \in Seq(V)
    PROVE  LET s == a \o b \o c IN
           /\ s \in Seq(V) /\ Len(s) = Len(a) + Len(b) + Len(c)
           /\ \A i \in 1 .. Len(a) : s[i] = a[i]
           /\ \A i \in 1 .. Len(b) : s[Len(a) + i] = b[i]
           /\ \A i \in 1 .. Len(c) : s[Len(a) + Len(b) + i] = c[i]
<1>1. PICK u : u = a \o b
  OBVIOUS
<1>2. /\ u \in Seq(V) /\ Len(u) = Len(a) + Len(b)
      /\ \A i \in 1 .. Len(a) + Len(b) : u[i] = IF i <= Len(a) THEN a[i] ELSE b[i - Len(a)]
  BY <1>1, ConcatProperties
<1>3. PICK s : s = u \o c
  OBVIOUS
<1>4. /\ s \in Seq(V) /\ Len(s) = Len(u) + Len(c)
      /\ \A i \in 1 .. Len(u) + Len(c) : s[i] = IF i <= Len(u) THEN u[i] ELSE c[i - Len(u)]
  <2>1. u \in Seq(V)
    BY <1>2
  <2> QED
    BY <1>3, <2>1, ConcatProperties
<1>5. PICK x, y, z \in Nat : x = Len(a) /\ y = Len(b) /\ z = Len(c)
  OBVIOUS
<1>6. Len(u) = x + y /\ Len(s) = x + y + z
  BY <1>2, <1>4, <1>5
<1>7. \A i \in 1 .. x + y : s[i] = u[i]
  BY <1>4, <1>5, <1>6
<1>8. \A i \in 1 .. x : s[i] = a[i]
  <2> TAKE i \in 1 .. x
  <2>1. i \in 1 .. x + y /\ i <= x
    OBVIOUS
  <2> QED
    BY <1>2, <1>5, <1>7, <2>1
<1>9. \A i \in 1 .. y : s[x + i] = b[i]
  <2> TAKE i \in 1 .. y
  <2>1. x + i \in 1 .. x + y /\ ~(x + i <= x) /\ (x + i) - x = i
    OBVIOUS
  <2> QED
    BY <1>2, <1>5, <1>7, <2>1
<1>10. \A i \in 1 .. z : s[x + y + i] = c[i]
  <2> TAKE i \in 1 .. z
  <2>1. x + y + i \in 1 .. x + y + z /\ ~(x + y + i <= x + y) /\ (x + y + i) - (x + y) = i
    OBVIOUS
  <2> QED
    BY <1>4, <1>5, <1>6, <2>1
<1> QED
  BY <1>1, <1>3, <1>4, <1>5, <1>6, <1>8, <1>9, <1>10

\* The entries of a chain: header, rules, foot.
PartOf(h, c, s) ==
    /\ c \notin BuiltIn => s[1] = ErrorEntry(c)
    /\ \A i \in DOMAIN h.chains[c].rules :
          s[Header(c) + i] = iptcc_compile_rule(h, h.chains[c].rules[i], rule_offset(h, c, i))
    /\ s[Size(h, c)] = Entry(NoName, NoMatch, "",
                             IF c \in BuiltIn THEN h.chains[c].verdict ELSE RETURN, h.chains[c].cnt)

\* The entries of one chain are where they belong.
LEMMA ChainPart ==
    ASSUME NEW h, HasRules(h), NEW c \in ChainNames
    PROVE  LET s == ChainEntries(h, c) IN
           /\ IsSeq(s) /\ Len(s) = Size(h, c)
           /\ \A j \in DOMAIN s : Named(s[j])
           /\ c \in DOMAIN h.chains => PartOf(h, c, s)
<1>1. CASE c \notin DOMAIN h.chains
  <2>1. ChainEntries(h, c) = <<>> /\ Size(h, c) = 0
    BY <1>1 DEF ChainEntries, Size
  <2>2. IsSeq(<<>>) /\ Len(<<>>) = 0 /\ DOMAIN <<>> = {}
    BY NoJumps
  <2> QED
    BY <1>1, <2>1, <2>2
<1>2. CASE c \in DOMAIN h.chains
  <2>1. PICK rs, z : rs = h.chains[c].rules
            /\ z = Entry(NoName, NoMatch, "",
                         IF c \in BuiltIn THEN h.chains[c].verdict ELSE RETURN, h.chains[c].cnt)
    OBVIOUS
  <2>2. PICK n \in Nat : n = Len(rs) /\ DOMAIN rs = 1 .. n
    BY <1>2, <2>1, SeqFacts DEF HasRules
  <2>3. PICK b : b = [i \in 1 .. n |-> iptcc_compile_rule(h, rs[i], rule_offset(h, c, i))]
    OBVIOUS
  <2>4. PICK a : a = IF c \in BuiltIn THEN <<>> ELSE <<ErrorEntry(c)>>
    OBVIOUS
  <2>5. ChainEntries(h, c) = a \o b \o <<z>>
    BY <1>2, <2>1, <2>2, <2>3, <2>4 DEF ChainEntries
  <2>6. \A i \in 1 .. n : Named(b[i])
    BY <2>3, RuleNamed
  <2>7. Named(ErrorEntry(c))
    BY EntryNamed, LibiptcAssumption DEF ErrorEntry
  <2>8. Named(z)
    BY <2>1, EntryNamed DEF NoName, NoChain
  <2> DEFINE V == {b[i] : i \in 1 .. n} \cup {z, ErrorEntry(c)}
  <2>9. a \in Seq(V) /\ Len(a) = Header(c) /\ (c \notin BuiltIn => a[1] = ErrorEntry(c))
    <3>1. PICK x : x = ErrorEntry(c)
      OBVIOUS
    <3>2. x \in V
      BY <3>1
    <3> HIDE DEF V
    <3>3. CASE c \in BuiltIn
      BY <2>4, <3>3 DEF Header
    <3>4. CASE c \notin BuiltIn
      <4>1. a = <<x>>
        BY <2>4, <3>1, <3>4
      <4> QED
        BY <3>1, <3>2, <3>4, <4>1 DEF Header
    <3> QED
      BY <3>3, <3>4
  <2>10. b \in Seq(V) /\ Len(b) = n
    BY <2>3
  <2>11. <<z>> \in Seq(V) /\ Len(<<z>>) = 1 /\ <<z>>[1] = z
    OBVIOUS
  <2>12. \A v \in V : Named(v)
    BY <2>6, <2>7, <2>8
  <2> HIDE DEF V
  <2>13. PICK w : w = <<z>>
    OBVIOUS
  <2>14. PICK s : s = a \o b \o w
    OBVIOUS
  <2>15. /\ s \in Seq(V) /\ Len(s) = Len(a) + Len(b) + Len(w)
         /\ \A i \in 1 .. Len(a) : s[i] = a[i]
         /\ \A i \in 1 .. Len(b) : s[Len(a) + i] = b[i]
         /\ \A i \in 1 .. Len(w) : s[Len(a) + Len(b) + i] = w[i]
    <3>1. a \in Seq(V) /\ b \in Seq(V) /\ w \in Seq(V)
      BY <2>9, <2>10, <2>11, <2>13
    <3> QED
      BY <2>14, <3>1, InARow
  <2>16. PICK m \in {0, 1} : m = Header(c)
    BY DEF Header
  <2>17. Len(s) = m + n + 1 /\ Size(h, c) = m + n + 1
    BY <1>2, <2>1, <2>2, <2>9, <2>10, <2>11, <2>13, <2>15, <2>16 DEF Size
  <2>18. c \notin BuiltIn => s[1] = ErrorEntry(c)
    <3> SUFFICES ASSUME c \notin BuiltIn PROVE s[1] = ErrorEntry(c)
      OBVIOUS
    <3>1. Len(a) = 1 /\ a[1] = ErrorEntry(c)
      BY <2>9 DEF Header
    <3> QED
      BY <2>15, <3>1
  <2>19. \A i \in 1 .. n : s[m + i] = b[i]
    BY <2>9, <2>10, <2>15, <2>16
  <2>20. s[m + n + 1] = z
    <3>1. 1 \in 1 .. Len(w) /\ w[1] = z
      BY <2>11, <2>13
    <3>2. s[Len(a) + Len(b) + 1] = w[1]
      BY <2>15, <3>1
    <3> QED
      BY <2>9, <2>10, <2>16, <3>1, <3>2
  <2>21. PartOf(h, c, s)
    BY <2>1, <2>2, <2>3, <2>16, <2>17, <2>18, <2>19, <2>20 DEF PartOf
  <2>22. IsSeq(s) /\ \A j \in DOMAIN s : Named(s[j])
    <3>1. IsSeq(s)
      BY <2>15, SeqIsSeq
    <3> QED
      BY <2>12, <2>15, <3>1
  <2> QED
    BY <2>5, <2>13, <2>14, <2>17, <2>21, <2>22
<1> QED
  BY <1>1, <1>2

-----------------------------------------------------------------------------
(* What a compiled table is, apart from its counters.                      *)

\* Where the entries of the chains are in the blob of a handle.
LEMMA Compiled ==
    ASSUME NEW h, HasRules(h)
    PROVE  LET f == iptcc_compile_table(h).entries IN
           /\ IsBlob(f) /\ Len(f) = new_number(h)
           /\ \A c \in ChainNames : \A j \in 1 .. Size(h, c) :
                 f[head_offset(h, c) + j - 1] = ChainEntries(h, c)[j]
<1>1. PICK k : k = Len(Order)
  OBVIOUS
<1>2. k \in Nat /\ DOMAIN Order = 1 .. k
  BY <1>1, OffsetsMade
<1>3. PICK ss : ss = [i \in 1 .. k |-> ChainEntries(h, Order[i])]
  OBVIOUS
<1>4. \A i \in 1 .. k : Order[i] \in ChainNames
  BY <1>2, PlaceOf
<1>5. ASSUME NEW i \in 1 .. k
      PROVE  /\ IsSeq(ss[i]) /\ Len(ss[i]) = Size(h, Order[i])
             /\ \A j \in DOMAIN ss[i] : Named(ss[i][j])
  <2>1. ss[i] = ChainEntries(h, Order[i]) /\ Order[i] \in ChainNames
    BY <1>3, <1>4
  <2> QED
    BY <2>1, ChainPart
<1>6. PICK e : e = ErrorEntry("ERROR")
  OBVIOUS
<1>7. Named(e)
  BY <1>6, EntryNamed DEF ErrorEntry, NoChain
<1> DEFINE V == (UNION {{ss[i][j] : j \in DOMAIN ss[i]} : i \in 1 .. k}) \cup {e}
<1>8. \A v \in V : Named(v)
  BY <1>5, <1>7
<1>9. \A i \in 1 .. k : ss[i] \in Seq(V)
  <2> TAKE i \in 1 .. k
  <2>1. PICK s : s = ss[i]
    OBVIOUS
  <2>2. IsSeq(s) /\ {s[j] : j \in DOMAIN s} \subseteq V
    BY <1>5, <2>1
  <2> HIDE DEF V
  <2>3. s \in Seq(V)
    BY <2>2 DEF IsSeq
  <2> QED
    BY <2>1, <2>3
<1>10. e \in V
  OBVIOUS
<1> HIDE DEF V
<1>11. PartsFor(h, V, ss)
  BY <1>1, <1>3, <1>5, <1>9 DEF PartsFor
<1>12. PICK f : f = FlattenSeq(ss) \o <<e>>
  OBVIOUS
<1>13. /\ f \in Seq(V) /\ Len(f) = new_number(h)
       /\ \A i \in 1 .. Len(Order) : \A j \in 1 .. Size(h, Order[i]) :
             f[Offsets(h)[i - 1] + j - 1] = ss[i][j]
  <2>1. LaidOut(h, V, ss, f)
    BY <1>10, <1>11, <1>12, LaidParts
  <2> QED
    BY <2>1 DEF LaidOut
<1>14. iptcc_compile_table(h).entries = f
  BY <1>2, <1>3, <1>6, <1>12, CompiledEntries
<1>15. IsBlob(f)
  <2>1. IsSeq(f)
    BY <1>13, SeqIsSeq
  <2>2. \A i \in DOMAIN f : f[i] \in V
    BY <1>13
  <2> QED
    BY <1>8, <2>1, <2>2 DEF IsBlob, Named
<1>16. ASSUME NEW c \in ChainNames, NEW j \in 1 .. Size(h, c)
       PROVE  f[head_offset(h, c) + j - 1] = ChainEntries(h, c)[j]
  <2>1. PICK i \in 1 .. k : i = Place[c] /\ Order[i] = c
    BY <1>2, PlaceOf
  <2>2. head_offset(h, c) = Offsets(h)[i - 1] /\ ss[i] = ChainEntries(h, c)
    BY <1>3, <2>1 DEF head_offset
  <2> QED
    BY <1>1, <1>13, <2>1, <2>2
<1> QED
  BY <1>13, <1>14, <1>15, <1>16

\* e is the entry f but for its counter.
Like(e, f) == e.name = f.name /\ e.image = f.image /\ e.target = f.target /\ e.verdict = f.verdict

\* The entries of chain c are those of its header, its rules and its foot.
ChainAt(entries, h, c) ==
    /\ c \notin BuiltIn => Like(entries[head_offset(h, c)], ErrorEntry(c))
    /\ \A i \in DOMAIN h.chains[c].rules :
          Like(entries[rule_offset(h, c, i)],
               iptcc_compile_rule(h, h.chains[c].rules[i], rule_offset(h, c, i)))
    /\ Like(entries[head_offset(h, c) + Size(h, c) - 1],
            Entry(NoName, NoMatch, "", IF c \in BuiltIn THEN h.chains[c].verdict ELSE RETURN,
                  h.chains[c].cnt))

\* blob is the table of h but for counters.
TableOf(blob, h) ==
    /\ IsBlob(blob.entries) /\ Len(blob.entries) = new_number(h)
    /\ \A b \in BuiltIn : blob.hook_entry[b] = head_offset(h, b)
    /\ \A c \in DOMAIN h.chains : ChainAt(blob.entries, h, c)

\* An entry is like itself.
LEMMA LikeItself == \A e : Like(e, e)
BY DEF Like

\* iptcc_compile_table writes the table of the handle.
LEMMA CompiledIsTable ==
    ASSUME NEW h, Placed(h), BuiltIn \subseteq DOMAIN h.chains
    PROVE  TableOf(iptcc_compile_table(h), h)
<1> DEFINE blob == iptcc_compile_table(h)
<1>1. PICK f : f = blob.entries
  OBVIOUS
<1>2. /\ IsBlob(f) /\ Len(f) = new_number(h)
      /\ \A c \in ChainNames : \A j \in 1 .. Size(h, c) :
            f[head_offset(h, c) + j - 1] = ChainEntries(h, c)[j]
  BY <1>1, Compiled DEF Placed
<1>3. \A b \in BuiltIn : blob.hook_entry[b] = head_offset(h, b)
  BY DEF iptcc_compile_table
<1> HIDE DEF blob
<1>4. ASSUME NEW c \in DOMAIN h.chains
      PROVE  ChainAt(f, h, c)
  <2>1. c \in ChainNames
    BY DEF Placed
  <2>2. PICK s : s = ChainEntries(h, c)
    OBVIOUS
  <2>3. PartOf(h, c, s)
    BY <2>1, <2>2, ChainPart DEF Placed
  <2>4. PICK a, z, m, n \in Nat :
          /\ a = head_offset(h, c) /\ z = Size(h, c) /\ m = Header(c)
          /\ n = Len(h.chains[c].rules) /\ z = m + n + 1 /\ a >= 1
    <3>1. /\ head_offset(h, c) \in Nat /\ head_offset(h, c) >= 1
          /\ Len(h.chains[c].rules) \in Nat /\ Header(c) \in {0, 1}
          /\ Size(h, c) = Header(c) + Len(h.chains[c].rules) + 1
      BY ChainSpan
    <3> QED
      BY <3>1, SizeNat DEF Placed
  <2>5. DOMAIN h.chains[c].rules = 1 .. n
    BY <2>4, SeqFacts DEF Placed, HasRules
  <2>6. \A j \in 1 .. z : f[a + j - 1] = s[j]
    BY <1>2, <2>1, <2>2, <2>4
  <2>7. c \notin BuiltIn => f[a] = ErrorEntry(c)
    <3>1. 1 \in 1 .. z /\ a + 1 - 1 = a
      <4>1. z = m + n + 1
        BY <2>4
      <4> QED
        BY <4>1
    <3>2. f[a] = s[1]
      BY <2>6, <3>1
    <3> QED
      BY <2>3, <3>2 DEF PartOf
  <2>8. ASSUME NEW i \in 1 .. n
        PROVE  f[rule_offset(h, c, i)] =
                 iptcc_compile_rule(h, h.chains[c].rules[i], rule_offset(h, c, i))
    <3>1. m + i \in 1 .. z /\ a + (m + i) - 1 = a + m + i - 1
      <4>1. z = m + n + 1
        BY <2>4
      <4> QED
        BY <4>1
    <3>2. f[a + m + i - 1] = s[m + i]
      BY <2>6, <3>1
    <3>3. rule_offset(h, c, i) = a + m + i - 1
      BY <2>4 DEF rule_offset
    <3>4. s[m + i] = iptcc_compile_rule(h, h.chains[c].rules[i], rule_offset(h, c, i))
      BY <2>3, <2>4, <2>5 DEF PartOf
    <3> QED
      BY <3>2, <3>3, <3>4
  <2>9. f[a + z - 1] = Entry(NoName, NoMatch, "",
                             IF c \in BuiltIn THEN h.chains[c].verdict ELSE RETURN, h.chains[c].cnt)
    <3>1. z \in 1 .. z
      BY <2>4
    <3>2. f[a + z - 1] = s[z]
      BY <2>6, <3>1
    <3> QED
      BY <2>3, <2>4, <3>2 DEF PartOf
  <2> QED
    BY <2>4, <2>5, <2>7, <2>8, <2>9, LikeItself DEF ChainAt
<1> QED
  BY <1>1, <1>2, <1>3, <1>4 DEF TableOf, blob

-----------------------------------------------------------------------------
(* Where the parser finds the head of a chain.                             *)

Good(h) == HandleInv(h) /\ Sound(h)

\* A handle in use can be compiled.
LEMMA GoodIsPlaced ==
    ASSUME NEW h, Good(h)
    PROVE  Placed(h) /\ BuiltIn \subseteq DOMAIN h.chains
BY DEF Good, HandleInv, Lists, IsChain, Sound, Placed, HasRules

\* A compiled rule is no error entry.
LEMMA CompiledTarget ==
    ASSUME NEW h, NEW r, SoundRule(r), NEW at
    PROVE  iptcc_compile_rule(h, r, at).target # "ERROR"
<1>1. PICK e : e = iptcc_compile_rule(h, r, at)
  OBVIOUS
<1>2. CASE r.type = "JUMP"
  <2>1. e.target = ""
    BY <1>1, <1>2 DEF iptcc_compile_rule, Entry
  <2> QED
    BY <1>1, <2>1
<1>3. CASE r.type = "FALLTHROUGH"
  <2>1. e.target = ""
    BY <1>1, <1>3 DEF iptcc_compile_rule, Entry
  <2> QED
    BY <1>1, <2>1
<1>4. CASE r.type \notin {"JUMP", "FALLTHROUGH"}
  <2>1. e.target = r.target
    BY <1>1, <1>4 DEF iptcc_compile_rule, Entry
  <2>2. r.target # "ERROR"
    BY <1>4 DEF SoundRule
  <2> QED
    BY <1>1, <2>1, <2>2
<1> QED
  BY <1>2, <1>3, <1>4

\* The numbers of a chain's span.
Span(h, c, a, z, m, n) ==
    /\ a \in Nat /\ z \in Nat /\ m \in Nat /\ n \in Nat
    /\ a = head_offset(h, c) /\ z = Size(h, c) /\ m = Header(c) /\ n = Len(h.chains[c].rules)
    /\ a >= 1 /\ z = m + n + 1 /\ m <= 1 /\ (m = 1 <=> c \notin BuiltIn)
    /\ DOMAIN h.chains[c].rules = 1 .. n
    /\ a + z <= new_number(h) /\ new_number(h) \in Nat

\* Every chain of the handle has a span.
LEMMA SpanOf ==
    ASSUME NEW h, Good(h), NEW c \in DOMAIN h.chains
    PROVE  \E a, z, m, n : Span(h, c, a, z, m, n)
<1>1. Placed(h)
  BY GoodIsPlaced
<1>2. /\ head_offset(h, c) \in Nat /\ head_offset(h, c) >= 1
      /\ Len(h.chains[c].rules) \in Nat /\ Header(c) \in {0, 1}
      /\ Size(h, c) = Header(c) + Len(h.chains[c].rules) + 1
      /\ new_number(h) \in Nat
      /\ head_offset(h, c) + Size(h, c) <= new_number(h)
  BY <1>1, ChainSpan
<1>3. DOMAIN h.chains[c].rules = 1 .. Len(h.chains[c].rules)
  BY <1>1, SeqFacts DEF Placed, HasRules
<1>4. Header(c) = 1 <=> c \notin BuiltIn
  BY DEF Header
<1>5. Size(h, c) \in Nat
  BY <1>1, SizeNat DEF Placed
<1>6. Span(h, c, head_offset(h, c), Size(h, c), Header(c), Len(h.chains[c].rules))
  BY <1>2, <1>3, <1>4, <1>5 DEF Span
<1> QED
  BY <1>6

\* Of the entries of a chain, the header of a user-defined one is an error entry.
LEMMA ErrorsAt ==
    ASSUME NEW h, Good(h), NEW blob, TableOf(blob, h), NEW c \in DOMAIN h.chains,
           NEW a, NEW z, NEW m, NEW n, Span(h, c, a, z, m, n)
    PROVE  /\ c \notin BuiltIn => blob.entries[a].target = "ERROR" /\ blob.entries[a].name = c
           /\ \A i \in Nat : /\ a + m <= i
                             /\ i < a + z
                             => blob.entries[i].target # "ERROR"
<1>1. PICK f : f = blob.entries
  OBVIOUS
<1>2. ChainAt(f, h, c)
  BY <1>1 DEF TableOf
<1>3. c \notin BuiltIn => f[a].target = "ERROR" /\ f[a].name = c
  <2> SUFFICES ASSUME c \notin BuiltIn PROVE f[a].target = "ERROR" /\ f[a].name = c
    OBVIOUS
  <2>1. PICK e, g : e = ErrorEntry(c) /\ g = f[a]
    OBVIOUS
  <2>2. e.target = "ERROR" /\ e.name = c
    BY <2>1 DEF ErrorEntry, Entry
  <2>3. Like(g, e)
    BY <1>2, <2>1 DEF ChainAt, Span
  <2> QED
    BY <2>1, <2>2, <2>3 DEF Like
<1>4. ASSUME NEW i \in Nat, a + m <= i, i < a + z
      PROVE  f[i].target # "ERROR"
  <2>1. PICK g : g = f[i]
    OBVIOUS
  <2>2. CASE i = a + z - 1
    <3>1. PICK e : e = Entry(NoName, NoMatch, "", IF c \in BuiltIn THEN h.chains[c].verdict ELSE RETURN,
                             h.chains[c].cnt)
      OBVIOUS
    <3>2. e.target = ""
      BY <3>1 DEF Entry
    <3>3. Like(g, e)
      BY <1>2, <2>1, <2>2, <3>1 DEF ChainAt, Span
    <3> QED
      BY <2>1, <3>2, <3>3 DEF Like
  <2>3. CASE i # a + z - 1
    <3>1. PICK j \in 1 .. n : i = a + m + j - 1
      <4>1. z = m + n + 1 /\ a \in Nat /\ m \in Nat /\ n \in Nat
        BY DEF Span
      <4>2. i - a - m + 1 \in 1 .. n /\ i = a + m + (i - a - m + 1) - 1
        BY <1>4, <2>3, <4>1
      <4> QED
        BY <4>2
    <3>2. rule_offset(h, c, j) = i /\ j \in DOMAIN h.chains[c].rules
      BY <3>1 DEF rule_offset, Span
    <3>3. PICK r : r = h.chains[c].rules[j]
      OBVIOUS
    <3>4. PICK e : e = iptcc_compile_rule(h, r, i)
      OBVIOUS
    <3>5. Like(g, e)
      BY <1>2, <2>1, <3>2, <3>3, <3>4 DEF ChainAt
    <3>6. SoundRule(r)
      BY <3>2, <3>3 DEF Good, Sound
    <3>7. e.target # "ERROR"
      BY <3>4, <3>6, CompiledTarget
    <3> QED
      BY <2>1, <3>5, <3>7 DEF Like
  <2> QED
    BY <2>2, <2>3
<1> QED
  BY <1>1, <1>3, <1>4

-----------------------------------------------------------------------------
(* A chain of the handle begins where the parser takes one to begin.       *)

\* Two chains' entries do not overlap, in numbers.
LEMMA Disjoint ==
    ASSUME NEW h, Good(h), NEW c \in DOMAIN h.chains, NEW d \in DOMAIN h.chains, c # d,
           NEW a, NEW z, NEW m, NEW n, Span(h, c, a, z, m, n),
           NEW a2, NEW z2, NEW m2, NEW n2, Span(h, d, a2, z2, m2, n2)
    PROVE  a + z <= a2 \/ a2 + z2 <= a
<1>1. \/ head_offset(h, c) + Size(h, c) <= head_offset(h, d)
      \/ head_offset(h, d) + Size(h, d) <= head_offset(h, c)
  BY GoodIsPlaced, SpansApart
<1> QED
  BY <1>1 DEF Span

\* The chain an entry is of.
LEMMA Owner ==
    ASSUME NEW h, Good(h), NEW i \in Nat, 1 <= i, i < new_number(h)
    PROVE  \E c \in DOMAIN h.chains : \E a, z, m, n :
              Span(h, c, a, z, m, n) /\ a <= i /\ i < a + z
<1>1. PICK c \in DOMAIN h.chains : head_offset(h, c) <= i /\ i < head_offset(h, c) + Size(h, c)
  BY GoodIsPlaced, SpansCover
<1>2. PICK a, z, m, n : Span(h, c, a, z, m, n)
  BY SpanOf
<1>3. a <= i /\ i < a + z
  BY <1>1, <1>2 DEF Span
<1> QED
  BY <1>2, <1>3

\* Chains begin where the handle has them, and nowhere else.
LEMMA TableStarts ==
    ASSUME NEW h, Good(h), NEW blob, TableOf(blob, h)
    PROVE  Starts(blob) = {head_offset(h, c) : c \in DOMAIN h.chains}
<1>1. PICK l \in Nat : l = Len(blob.entries) /\ l = new_number(h)
  BY StartFacts DEF TableOf
<1>2. ASSUME NEW c \in DOMAIN h.chains
      PROVE  head_offset(h, c) \in Starts(blob)
  <2>1. PICK a, z, m, n : Span(h, c, a, z, m, n)
    BY SpanOf
  <2>2. a = head_offset(h, c) /\ a \in 1 .. l - 1
    <3>1. a \in Nat /\ z \in Nat /\ m \in Nat /\ n \in Nat /\ a >= 1 /\ z = m + n + 1 /\ a + z <= l
      BY <1>1, <2>1 DEF Span
    <3>2. a \in 1 .. l - 1
      BY <3>1
    <3>3. a = head_offset(h, c)
      BY <2>1 DEF Span
    <3> QED
      BY <3>2, <3>3
  <2>3. CASE c \notin BuiltIn
    <3>1. blob.entries[a].target = "ERROR"
      BY <2>1, <2>3, ErrorsAt
    <3> QED
      BY <1>1, <2>2, <3>1 DEF Starts
  <2>4. CASE c \in BuiltIn
    <3>1. blob.hook_entry[c] = a
      BY <2>2, <2>4 DEF TableOf
    <3> QED
      BY <1>1, <2>2, <2>4, <3>1 DEF Starts
  <2> QED
    BY <2>3, <2>4
<1>3. ASSUME NEW i \in Starts(blob)
      PROVE  \E c \in DOMAIN h.chains : i = head_offset(h, c)
  <2>1. i \in 1 .. l - 1 /\ (blob.entries[i].target = "ERROR" \/ \E b \in BuiltIn : blob.hook_entry[b] = i)
    BY <1>1 DEF Starts
  <2>2. CASE \E b \in BuiltIn : blob.hook_entry[b] = i
    BY <2>2, GoodIsPlaced DEF TableOf
  <2>3. CASE blob.entries[i].target = "ERROR"
    <3>1. i \in Nat /\ 1 <= i /\ i < new_number(h)
      BY <1>1, <2>1
    <3>2. PICK c \in DOMAIN h.chains : \E a, z, m, n :
              Span(h, c, a, z, m, n) /\ a <= i /\ i < a + z
      BY <3>1, Owner
    <3>3. PICK a, z, m, n : Span(h, c, a, z, m, n) /\ a <= i /\ i < a + z
      BY <3>2
    <3>4. ~(a + m <= i)
      BY <2>3, <3>1, <3>3, ErrorsAt
    <3>5. a \in Nat /\ m \in Nat /\ m <= 1 /\ a = head_offset(h, c)
      BY <3>3 DEF Span
    <3>6. i = a
      BY <3>1, <3>3, <3>4, <3>5
    <3> QED
      BY <3>5, <3>6
  <2> QED
    BY <2>1, <2>2, <2>3
<1> QED
  BY <1>2, <1>3

\* Where the parser finds chain c: it begins, with its first entry, and ends there.
LEMMA ChainFound ==
    ASSUME NEW h, Good(h), NEW blob, TableOf(blob, h), NEW c \in DOMAIN h.chains,
           NEW a, NEW z, NEW m, NEW n, Span(h, c, a, z, m, n)
    PROVE  /\ ChainOf(blob, a) = c /\ FirstEntry(blob, a) = a + m
           /\ LastEntry(blob, a) = a + z - 1
<1>0. /\ a \in Nat /\ z \in Nat /\ m \in Nat /\ n \in Nat /\ a >= 1 /\ z = m + n + 1 /\ m <= 1
      /\ (m = 1 <=> c \notin BuiltIn)
  BY DEF Span
<1>1. PICK l \in Nat : l = Len(blob.entries) /\ l = new_number(h) /\ a + z <= l
  BY StartFacts DEF TableOf, Span
<1>2. c \in BuiltIn => blob.entries[a].target # "ERROR"
  <2> SUFFICES ASSUME c \in BuiltIn PROVE blob.entries[a].target # "ERROR"
    OBVIOUS
  <2>1. a + m <= a /\ a < a + z
    BY <1>0
  <2> QED
    BY <1>0, <2>1, ErrorsAt
<1>3. c \notin BuiltIn => blob.entries[a].target = "ERROR" /\ blob.entries[a].name = c
  BY ErrorsAt
<1>4. FirstEntry(blob, a) = a + m
  BY <1>0, <1>2, <1>3 DEF FirstEntry
<1>5. ChainOf(blob, a) = c
  <2>1. CASE c \notin BuiltIn
    BY <1>3, <2>1 DEF ChainOf
  <2>2. CASE c \in BuiltIn
    <3> DEFINE T == {k \in DOMAIN Order : Order[k] \in BuiltIn /\ blob.hook_entry[Order[k]] = a}
    <3>1. ChainOf(blob, a) = Order[Min(T)]
      BY <1>2, <2>2 DEF ChainOf
    <3>2. c \in ChainNames
      BY GoodIsPlaced DEF Placed
    <3>3. Place[c] \in T
      <4>1. blob.hook_entry[c] = a
        BY <2>2 DEF TableOf, Span
      <4> QED
        BY <2>2, <3>2, <4>1, PlaceOf
    <3>4. \A k \in T : Order[k] = c
      <4> SUFFICES ASSUME NEW k \in T, Order[k] # c PROVE FALSE
        OBVIOUS
      <4>1. PICK d : d = Order[k]
        OBVIOUS
      <4>2. d \in BuiltIn /\ blob.hook_entry[d] = a /\ d # c
        BY <4>1
      <4>3. d \in DOMAIN h.chains
        BY <4>2, GoodIsPlaced
      <4>4. PICK a2, z2, m2, n2 : Span(h, d, a2, z2, m2, n2)
        BY <4>3, SpanOf
      <4>5. a2 = a
        BY <4>2, <4>4 DEF TableOf, Span
      <4>6. a + z <= a2 \/ a2 + z2 <= a
        BY <4>2, <4>3, <4>4, Disjoint
      <4>7. z2 \in Nat /\ m2 \in Nat /\ n2 \in Nat /\ z2 = m2 + n2 + 1
        BY <4>4 DEF Span
      <4> QED
        BY <1>0, <4>5, <4>6, <4>7
    <3>5. Min(T) \in T
      <4>1. T \subseteq Nat
        BY LibiptcAssumption
      <4> HIDE DEF T
      <4> QED
        BY <3>3, <4>1, LeastIn
    <3> QED
      BY <3>1, <3>4, <3>5
  <2> QED
    BY <2>1, <2>2
<1>6. LastEntry(blob, a) = a + z - 1
  <2> DEFINE T == {j \in Starts(blob) \cup {l} : j > a}
  <2>1. LastEntry(blob, a) = Min(T) - 1
    BY <1>1 DEF LastEntry
  <2>2. T \subseteq Nat
    BY <1>1, StartFacts DEF TableOf
  <2>3. a + z \in T
    <3>1. a + z > a /\ a + z \in Nat /\ 1 <= a + z
      BY <1>0
    <3>2. CASE a + z = l
      BY <3>1, <3>2
    <3>3. CASE a + z # l
      <4>1. a + z < new_number(h)
        BY <1>0, <1>1, <3>3
      <4>2. PICK d \in DOMAIN h.chains : \E a2, z2, m2, n2 :
              Span(h, d, a2, z2, m2, n2) /\ a2 <= a + z /\ a + z < a2 + z2
        BY <3>1, <4>1, Owner
      <4>3. PICK a2, z2, m2, n2 : Span(h, d, a2, z2, m2, n2) /\ a2 <= a + z /\ a + z < a2 + z2
        BY <4>2
      <4>4. a2 \in Nat /\ z2 \in Nat /\ a2 = head_offset(h, d)
        BY <4>3 DEF Span
      <4>5. d # c
        <5> SUFFICES ASSUME d = c PROVE FALSE
          OBVIOUS
        <5>1. a2 = a /\ z2 = z
          BY <4>3 DEF Span
        <5> QED
          BY <1>0, <4>3, <5>1
      <4>6. a + z <= a2 \/ a2 + z2 <= a
        BY <4>3, <4>5, Disjoint
      <4>7. a2 = a + z
        BY <1>0, <4>3, <4>4, <4>6
      <4>8. a2 \in Starts(blob)
        BY <4>4, TableStarts
      <4> QED
        BY <3>1, <4>7, <4>8
    <3> QED
      BY <3>2, <3>3
  <2>4. \A j \in T : a + z <= j
    <3> SUFFICES ASSUME NEW j \in T PROVE a + z <= j
      OBVIOUS
    <3>1. CASE j = l
      BY <1>1, <3>1
    <3>2. CASE j # l
      <4>1. j \in Starts(blob) /\ j > a
        BY <3>2
      <4>2. PICK d \in DOMAIN h.chains : j = head_offset(h, d)
        BY <4>1, TableStarts
      <4>3. PICK a2, z2, m2, n2 : Span(h, d, a2, z2, m2, n2)
        BY SpanOf
      <4>4. a2 = j /\ a2 \in Nat /\ z2 \in Nat
        BY <4>2, <4>3 DEF Span
      <4>5. d # c
        BY <1>0, <4>1, <4>2, <4>4 DEF Span
      <4>6. a + z <= a2 \/ a2 + z2 <= a
        BY <4>3, <4>5, Disjoint
      <4> QED
        BY <1>0, <4>1, <4>4, <4>6
    <3> QED
      BY <3>1, <3>2
  <2> HIDE DEF T
  <2>5. Min(T) \in T /\ \A y \in T : Min(T) <= y
    BY <2>2, <2>3, LeastIn
  <2>6. PICK x, y : x = Min(T) /\ y = a + z
    OBVIOUS
  <2>7. x \in Nat /\ y \in Nat /\ x <= y /\ y <= x
    BY <2>2, <2>3, <2>4, <2>5, <2>6
  <2>8. x = y
    BY <2>7
  <2>9. LastEntry(blob, a) = y - 1
    BY <2>1, <2>6, <2>8
  <2>10. y - 1 = a + z - 1
    BY <1>0, <2>6
  <2> QED
    BY <2>9, <2>10
<1> QED
  BY <1>4, <1>5, <1>6

-----------------------------------------------------------------------------
(* A rule is parsed as what it was compiled from.                          *)

\* A table of a handle can be parsed: every chain has at least its foot.
LEMMA TableParsable ==
    ASSUME NEW h, Good(h), NEW blob, TableOf(blob, h)
    PROVE  ~Unparsable(blob)
<1>1. PICK l \in Nat : l = Len(blob.entries) /\ l = new_number(h)
  BY StartFacts DEF TableOf
<1>2. l > 1 => 1 \in Starts(blob)
  <2> SUFFICES ASSUME l > 1 PROVE 1 \in Starts(blob)
    OBVIOUS
  <2>1. PICK c \in DOMAIN h.chains : \E a, z, m, n : Span(h, c, a, z, m, n) /\ a <= 1 /\ 1 < a + z
    BY <1>1, Owner
  <2>2. PICK a, z, m, n : Span(h, c, a, z, m, n) /\ a <= 1
    BY <2>1
  <2>3. a = 1 /\ a = head_offset(h, c)
    BY <2>2 DEF Span
  <2> QED
    BY <2>3, TableStarts
<1>3. ASSUME NEW i \in Starts(blob)
      PROVE  ~(LastEntry(blob, i) < FirstEntry(blob, i))
  <2>1. PICK c \in DOMAIN h.chains : i = head_offset(h, c)
    BY TableStarts
  <2>2. PICK a, z, m, n : Span(h, c, a, z, m, n)
    BY SpanOf
  <2>3. i = a /\ a \in Nat /\ z \in Nat /\ m \in Nat /\ n \in Nat /\ z = m + n + 1
    BY <2>1, <2>2 DEF Span
  <2>4. FirstEntry(blob, a) = a + m /\ LastEntry(blob, a) = a + z - 1
    BY <2>2, ChainFound
  <2> QED
    BY <2>3, <2>4
<1> QED
  BY <1>1, <1>2, <1>3 DEF Unparsable

\* A jump behind the header of a chain is found to be to this chain.
LEMMA JumpFound ==
    ASSUME NEW h, Good(h), NEW blob, TableOf(blob, h), NEW d \in DOMAIN h.chains \ BuiltIn
    PROVE  Targets(blob, head_offset(h, d) + 1) = {head_offset(h, d)}
<1>1. PICK a, z, m, n : Span(h, d, a, z, m, n)
  BY SpanOf
<1>2. a \in Nat /\ z \in Nat /\ m = 1 /\ n \in Nat /\ z = m + n + 1 /\ a = head_offset(h, d)
  BY <1>1 DEF Span
<1>3. LastEntry(blob, a) = a + z - 1
  BY <1>1, ChainFound
<1>4. a \in Starts(blob) /\ a <= a + 1 /\ a + 1 <= LastEntry(blob, a)
  BY <1>2, <1>3, TableStarts
<1>5. ASSUME NEW i \in Starts(blob), i <= a + 1, a + 1 <= LastEntry(blob, i), i # a
      PROVE  FALSE
  <2>1. PICK c \in DOMAIN h.chains : i = head_offset(h, c)
    BY TableStarts
  <2>2. PICK a2, z2, m2, n2 : Span(h, c, a2, z2, m2, n2)
    BY SpanOf
  <2>3. i = a2 /\ a2 \in Nat /\ z2 \in Nat
    BY <2>1, <2>2 DEF Span
  <2>4. LastEntry(blob, a2) = a2 + z2 - 1
    BY <2>2, ChainFound
  <2>5. c # d
    BY <1>2, <1>5, <2>1
  <2>6. a + z <= a2 \/ a2 + z2 <= a
    BY <1>1, <2>2, <2>5, Disjoint
  <2> QED
    BY <1>2, <1>5, <2>3, <2>4, <2>6
<1> QED
  BY <1>2, <1>4, <1>5 DEF Targets

\* The fields of a rule that say what it does.
SameRule(q, r) ==
    /\ {"image", "target", "verdict", "type", "jump"} \subseteq DOMAIN q
    /\ q.image = r.image /\ q.type = r.type /\ q.target = r.target
    /\ q.verdict = r.verdict /\ q.jump = r.jump

\* The least of one number.
LEMMA MinOfOne ==
    ASSUME NEW x \in Nat
    PROVE  Min({x}) = x
BY DEF Min

\* A rule read back says what the one compiled said.
LEMMA RuleBack ==
    ASSUME NEW h, Good(h), NEW blob, TableOf(blob, h), NEW c \in DOMAIN h.chains,
           NEW a, NEW z, NEW m, NEW n, Span(h, c, a, z, m, n), NEW j \in 1 .. n
    PROVE  LET at == a + m + j - 1
               p == ParsedRule(blob.entries[at], at)
           IN /\ SameRule(Resolved(blob, p), h.chains[c].rules[j])
              /\ p.type = "JUMP" => Targets(blob, p.verdict) # {}
<1>1. /\ a \in Nat /\ z \in Nat /\ m \in Nat /\ n \in Nat /\ a >= 1 /\ z = m + n + 1
      /\ j \in DOMAIN h.chains[c].rules
  BY DEF Span
<1>2. PICK at \in Nat : at = a + m + j - 1
  BY <1>1
<1>3. rule_offset(h, c, j) = at
  BY <1>2 DEF rule_offset, Span
<1>4. PICK r : r = h.chains[c].rules[j]
  OBVIOUS
<1>5. PICK e : e = blob.entries[at]
  OBVIOUS
<1>6. PICK f : f = iptcc_compile_rule(h, r, at)
  OBVIOUS
<1>7. e.image = f.image /\ e.target = f.target /\ e.verdict = f.verdict
  BY <1>1, <1>3, <1>4, <1>5, <1>6 DEF TableOf, ChainAt, Like
<1>8. SoundRule(r) /\ IsRule(DOMAIN h.chains, r)
  BY <1>1, <1>4 DEF Good, Sound, HandleInv, Lists, IsChain
<1>9. e.target # "ERROR"
  <2>1. a + m <= at /\ at < a + z
    BY <1>1, <1>2
  <2> QED
    BY <1>5, <2>1, ErrorsAt
<1>10. PICK p : p = ParsedRule(e, at)
  OBVIOUS
<1>11. SameRule(Resolved(blob, p), r) /\ (p.type = "JUMP" => Targets(blob, p.verdict) # {})
  <2>1. CASE r.type = "JUMP"
    <3>1. PICK d : d = r.jump
      OBVIOUS
    <3>2. d \in DOMAIN h.chains \ BuiltIn /\ r.target = "" /\ r.verdict = 0
      BY <1>8, <2>1, <3>1 DEF SoundRule, IsRule
    <3>3. d \in DOMAIN h.chains /\ d \notin BuiltIn
      BY <3>2
    <3>4. PICK a2, z2, m2, n2 : Span(h, d, a2, z2, m2, n2)
      BY <3>3, SpanOf
    <3>5. a2 \in Nat /\ a2 = head_offset(h, d)
      BY <3>4 DEF Span
    <3>6. e.target = "" /\ e.verdict = a2 + 1 /\ e.image = r.image
      BY <1>6, <1>7, <2>1, <3>1, <3>5 DEF iptcc_compile_rule, Entry
    <3>7. blob.entries[a2].target = "ERROR"
      BY <3>4, <3>3, ErrorsAt
    <3>8. a2 # at
      BY <1>5, <1>9, <3>7
    <3>9. p = [image |-> e.image, target |-> "", cnt |-> e.cnt, type |-> "JUMP",
               verdict |-> a2 + 1, jump |-> NoChain, map |-> "NORMAL", pos |-> at, from |-> at]
      <4>1. ~(a2 + 1 < 0) /\ a2 + 1 # at + 1
        BY <3>5, <3>8
      <4> QED
        BY <1>10, <3>6, <4>1 DEF ParsedRule
    <3>10. Targets(blob, a2 + 1) = {a2}
      BY <3>2, <3>5, JumpFound
    <3>11. Min({a2}) = a2 /\ ChainOf(blob, a2) = d
      BY <3>3, <3>4, <3>5, MinOfOne, ChainFound
    <3>12. PICK q : q = Resolved(blob, p)
      OBVIOUS
    <3>13. q = [p EXCEPT !.jump = d, !.verdict = 0]
      BY <3>9, <3>10, <3>11, <3>12 DEF Resolved
    <3>14. SameRule(q, r)
      BY <2>1, <3>1, <3>2, <3>6, <3>9, <3>13 DEF SameRule
    <3> QED
      BY <3>9, <3>10, <3>12, <3>14
  <2>2. CASE r.type # "JUMP"
    <3>1. r.jump = NoChain
      BY <1>8, <2>2 DEF IsRule
    <3>2. /\ p.image = r.image /\ p.type = r.type /\ p.target = r.target
          /\ p.verdict = r.verdict /\ p.jump = NoChain
          /\ {"image", "target", "verdict", "type", "jump"} \subseteq DOMAIN p
      <4>1. CASE r.type = "FALLTHROUGH"
        <5>1. e.target = "" /\ e.verdict = at + 1 /\ e.image = r.image
          BY <1>6, <1>7, <4>1 DEF iptcc_compile_rule, Entry
        <5>2. ~(at + 1 < 0)
          OBVIOUS
        <5>3. p = [image |-> e.image, target |-> "", cnt |-> e.cnt, type |-> "FALLTHROUGH",
                   verdict |-> 0, jump |-> NoChain, map |-> "NORMAL", pos |-> at, from |-> at]
          BY <1>10, <5>1, <5>2 DEF ParsedRule
        <5> QED
          BY <1>8, <4>1, <5>1, <5>3 DEF SoundRule
      <4>2. CASE r.type = "STANDARD"
        <5>1. e.target = r.target /\ e.verdict = r.verdict /\ e.image = r.image
          BY <1>6, <1>7, <4>2 DEF iptcc_compile_rule, Entry
        <5>2. r.target = "" /\ r.verdict < 0
          BY <1>8, <4>2 DEF SoundRule
        <5>3. p = [image |-> e.image, target |-> "", cnt |-> e.cnt, type |-> "STANDARD",
                   verdict |-> e.verdict, jump |-> NoChain, map |-> "NORMAL", pos |-> at, from |-> at]
          BY <1>10, <5>1, <5>2 DEF ParsedRule
        <5> QED
          BY <4>2, <5>1, <5>2, <5>3
      <4>3. CASE r.type = "MODULE"
        <5>1. e.target = r.target /\ e.verdict = r.verdict /\ e.image = r.image
          BY <1>6, <1>7, <4>3 DEF iptcc_compile_rule, Entry
        <5>2. r.target # ""
          BY <1>8, <4>3 DEF SoundRule
        <5>3. p = [image |-> e.image, target |-> e.target, cnt |-> e.cnt, type |-> "MODULE",
                   verdict |-> e.verdict, jump |-> NoChain, map |-> "NORMAL", pos |-> at, from |-> at]
          BY <1>10, <5>1, <5>2 DEF ParsedRule
        <5> QED
          BY <4>3, <5>1, <5>3
      <4> QED
        BY <1>8, <2>2, <4>1, <4>2, <4>3 DEF SoundRule
    <3>3. Resolved(blob, p) = p
      BY <2>2, <3>2 DEF Resolved
    <3> QED
      BY <2>2, <3>1, <3>2, <3>3 DEF SameRule
  <2> QED
    BY <2>1, <2>2
<1> QED
  BY <1>2, <1>4, <1>5, <1>10, <1>11

-----------------------------------------------------------------------------
(* A table is parsed as the handle it was compiled from.                   *)

\* A chain of the first pass over a table: where it is and what its rules are.
LEMMA ChainBack ==
    ASSUME NEW h, Good(h), NEW blob, TableOf(blob, h), NEW c \in DOMAIN h.chains
    PROVE  LET p == __iptcc_p_del_policy(blob, head_offset(h, c)) IN
           /\ {"verdict", "rules", "references"} \subseteq DOMAIN p
           /\ DOMAIN p.rules = DOMAIN h.chains[c].rules
           /\ c \in BuiltIn => p.verdict = h.chains[c].verdict
           /\ \A j \in DOMAIN h.chains[c].rules :
                 /\ SameRule(Resolved(blob, p.rules[j]), h.chains[c].rules[j])
                 /\ p.rules[j].type = "JUMP" => Targets(blob, p.rules[j].verdict) # {}
<1>1. PICK a, z, m, n : Span(h, c, a, z, m, n)
  BY SpanOf
<1>2. /\ a \in Nat /\ z \in Nat /\ m \in Nat /\ n \in Nat /\ z = m + n + 1
      /\ a = head_offset(h, c) /\ DOMAIN h.chains[c].rules = 1 .. n /\ z = Size(h, c)
  BY <1>1 DEF Span
<1>3. FirstEntry(blob, a) = a + m /\ LastEntry(blob, a) = a + z - 1
  BY <1>1, ChainFound
<1>4. PICK f, l : f = a + m /\ l = a + z - 1
  OBVIOUS
<1>5. f \in Nat /\ l - f = n
  <2>1. a \in Nat /\ z \in Nat /\ m \in Nat /\ n \in Nat /\ z = m + n + 1
    BY <1>2
  <2> QED
    BY <1>4, <2>1
<1>6. PICK rs : rs = [k \in 1 .. n |-> ParsedRule(blob.entries[f + k - 1], f + k - 1)]
  OBVIOUS
<1>7. PICK p : p = __iptcc_p_del_policy(blob, a)
  OBVIOUS
<1>8. /\ {"verdict", "rules", "references"} \subseteq DOMAIN p
      /\ p.rules = rs /\ p.verdict = blob.entries[l].verdict
  BY <1>3, <1>4, <1>5, <1>6, <1>7 DEF __iptcc_p_del_policy
<1>9. c \in BuiltIn => p.verdict = h.chains[c].verdict
  <2> SUFFICES ASSUME c \in BuiltIn PROVE blob.entries[l].verdict = h.chains[c].verdict
    BY <1>8
  <2>1. PICK v, cnt : v = h.chains[c].verdict /\ cnt = h.chains[c].cnt
    OBVIOUS
  <2>2. PICK e, g : e = Entry(NoName, NoMatch, "", v, cnt) /\ g = blob.entries[l]
    OBVIOUS
  <2>3. e.verdict = v
    BY <2>2 DEF Entry
  <2>4. Like(g, e)
    <3>1. ChainAt(blob.entries, h, c)
      BY DEF TableOf
    <3>2. l = head_offset(h, c) + Size(h, c) - 1
      BY <1>2, <1>4
    <3> QED
      BY <2>1, <2>2, <3>1, <3>2 DEF ChainAt
  <2> QED
    BY <2>1, <2>2, <2>3, <2>4 DEF Like
<1>10. ASSUME NEW j \in 1 .. n
       PROVE  /\ SameRule(Resolved(blob, rs[j]), h.chains[c].rules[j])
              /\ rs[j].type = "JUMP" => Targets(blob, rs[j].verdict) # {}
  <2>1. PICK at : at = a + m + j - 1
    OBVIOUS
  <2>2. PICK q : q = ParsedRule(blob.entries[at], at)
    OBVIOUS
  <2>3. rs[j] = q
    BY <1>4, <1>6, <2>1, <2>2
  <2>4. SameRule(Resolved(blob, q), h.chains[c].rules[j]) /\ (q.type = "JUMP" => Targets(blob, q.verdict) # {})
    BY <1>1, <2>1, <2>2, RuleBack
  <2> QED
    BY <2>3, <2>4
<1>11. DOMAIN rs = 1 .. n
  BY <1>6
<1> QED
  BY <1>2, <1>7, <1>8, <1>9, <1>10, <1>11

\* The parser gives the chains of h back.
LEMMA ParsedChains ==
    ASSUME NEW h, Good(h), NEW blob, TableOf(blob, h)
    PROVE  LET g == parse_table(blob).chains IN
           /\ DOMAIN g = DOMAIN h.chains
           /\ \A c \in DOMAIN g :
                 /\ DOMAIN g[c].rules = DOMAIN h.chains[c].rules
                 /\ c \in BuiltIn => g[c].verdict = h.chains[c].verdict
                 /\ \A j \in DOMAIN g[c].rules : SameRule(g[c].rules[j], h.chains[c].rules[j])
<1> DEFINE N == {ChainOf(blob, i) : i \in Starts(blob)}
           start == [c \in N |-> CHOOSE i \in Starts(blob) : ChainOf(blob, i) = c]
           first == [c \in DOMAIN start |-> __iptcc_p_del_policy(blob, start[c])]
           second == [c \in DOMAIN first |->
                        [first[c] EXCEPT !.rules = [k \in DOMAIN @ |-> Resolved(blob, @[k])]]]
           chains == [c \in DOMAIN second |->
                        [second[c] EXCEPT !.references = Cardinality(Jumps(second, c))]]
<1>1. parse_table(blob).chains = chains
  BY DEF parse_table
<1>2. \A c \in DOMAIN h.chains : ChainOf(blob, head_offset(h, c)) = c
  <2> TAKE c \in DOMAIN h.chains
  <2>1. PICK a, z, m, n : Span(h, c, a, z, m, n)
    BY SpanOf
  <2>2. ChainOf(blob, a) = c
    BY <2>1, ChainFound
  <2> QED
    BY <2>1, <2>2 DEF Span
<1>3. Starts(blob) = {head_offset(h, c) : c \in DOMAIN h.chains}
  BY TableStarts
<1>4. N = DOMAIN h.chains
  BY <1>2, <1>3
<1>5. \A c \in N : start[c] = head_offset(h, c)
  <2> TAKE c \in N
  <2>1. \E i \in Starts(blob) : ChainOf(blob, i) = c
    OBVIOUS
  <2>2. start[c] \in Starts(blob) /\ ChainOf(blob, start[c]) = c
    BY <2>1
  <2> HIDE DEF start
  <2>3. PICK d \in DOMAIN h.chains : start[c] = head_offset(h, d)
    BY <1>3, <2>2
  <2>4. d = c
    BY <1>2, <2>2, <2>3
  <2> QED
    BY <2>3, <2>4
<1>6. DOMAIN chains = N
  OBVIOUS
<1>7. ASSUME NEW c \in N
      PROVE  /\ DOMAIN chains[c].rules = DOMAIN h.chains[c].rules
             /\ c \in BuiltIn => chains[c].verdict = h.chains[c].verdict
             /\ \A j \in DOMAIN h.chains[c].rules : SameRule(chains[c].rules[j], h.chains[c].rules[j])
  <2>1. PICK p : p = __iptcc_p_del_policy(blob, head_offset(h, c))
    OBVIOUS
  <2>2. c \in DOMAIN h.chains
    BY <1>4
  <2>3. /\ {"verdict", "rules", "references"} \subseteq DOMAIN p
        /\ DOMAIN p.rules = DOMAIN h.chains[c].rules
        /\ c \in BuiltIn => p.verdict = h.chains[c].verdict
        /\ \A j \in DOMAIN h.chains[c].rules : SameRule(Resolved(blob, p.rules[j]), h.chains[c].rules[j])
    BY <2>1, <2>2, ChainBack
  <2>4. first[c] = p
    BY <1>5, <2>1
  <2>5. PICK rs : rs = [k \in DOMAIN p.rules |-> Resolved(blob, p.rules[k])]
    OBVIOUS
  <2>6. second[c] = [p EXCEPT !.rules = rs]
    BY <2>4, <2>5
  <2>7. PICK x : x = Cardinality(Jumps(second, c))
    OBVIOUS
  <2>8. PICK s : s = second[c]
    OBVIOUS
  <2>9. chains[c] = [s EXCEPT !.references = x]
    BY <2>7, <2>8
  <2> HIDE DEF chains, second, first, start, N
  <2>10. DOMAIN s = DOMAIN p /\ s.rules = rs /\ s.verdict = p.verdict
    BY <2>3, <2>6, <2>8
  <2>11. chains[c].rules = rs /\ chains[c].verdict = p.verdict
    BY <2>3, <2>9, <2>10
  <2>12. \A j \in DOMAIN h.chains[c].rules : SameRule(rs[j], h.chains[c].rules[j])
    BY <2>3, <2>5
  <2> QED
    BY <2>3, <2>5, <2>11, <2>12
<1> HIDE DEF chains
<1> QED
  BY <1>1, <1>4, <1>6, <1>7

\* A table of a handle is parsed as that handle.
LEMMA TableBack ==
    ASSUME NEW h, Good(h), NEW blob, TableOf(blob, h)
    PROVE  /\ ~Unparsable(blob) /\ ~Unresolved(blob)
           /\ Content(parse_table(blob)) = Content(h)
           /\ Good(parse_table(blob))
<1>1. ~Unparsable(blob)
  BY TableParsable
<1>2. ~Unresolved(blob)
  <2>1. ASSUME NEW i \in Starts(blob), NEW k \in DOMAIN __iptcc_p_del_policy(blob, i).rules,
               __iptcc_p_del_policy(blob, i).rules[k].type = "JUMP"
        PROVE  Targets(blob, __iptcc_p_del_policy(blob, i).rules[k].verdict) # {}
    <3>1. PICK c \in DOMAIN h.chains : i = head_offset(h, c)
      BY TableStarts
    <3>2. PICK p : p = __iptcc_p_del_policy(blob, i)
      OBVIOUS
    <3>3. /\ DOMAIN p.rules = DOMAIN h.chains[c].rules
          /\ \A j \in DOMAIN h.chains[c].rules :
                p.rules[j].type = "JUMP" => Targets(blob, p.rules[j].verdict) # {}
      BY <3>1, <3>2, ChainBack
    <3> QED
      BY <2>1, <3>2, <3>3
  <2> QED
    BY <2>1 DEF Unresolved
<1>3. PICK g : g = parse_table(blob)
  OBVIOUS
<1>4. /\ DOMAIN g.chains = DOMAIN h.chains
      /\ \A c \in DOMAIN g.chains :
            /\ DOMAIN g.chains[c].rules = DOMAIN h.chains[c].rules
            /\ c \in BuiltIn => g.chains[c].verdict = h.chains[c].verdict
            /\ \A j \in DOMAIN g.chains[c].rules : SameRule(g.chains[c].rules[j], h.chains[c].rules[j])
  BY <1>3, ParsedChains
<1>5. HandleInv(g)
  BY <1>1, <1>2, <1>3, ParseKeeps DEF TableOf
<1>6. ASSUME NEW q, NEW r, SameRule(q, r), SoundRule(r)
      PROVE  SoundRule(q)
  BY <1>6 DEF SameRule, SoundRule
<1>7. Sound(g)
  <2>1. /\ BuiltIn \subseteq DOMAIN h.chains /\ DOMAIN h.chains \subseteq ChainNames
        /\ \A c \in DOMAIN h.chains : \A i \in DOMAIN h.chains[c].rules : SoundRule(h.chains[c].rules[i])
    BY DEF Good, Sound
  <2> QED
    BY <1>4, <1>6, <2>1 DEF Sound
<1>8. Content(g) = Content(h)
  <2>1. ASSUME NEW c \in DOMAIN h.chains
        PROVE  /\ c \in DOMAIN g.chains /\ DOMAIN g.chains[c].rules = DOMAIN h.chains[c].rules
               /\ c \in BuiltIn => g.chains[c].verdict = h.chains[c].verdict
    BY <1>4
  <2>2. ASSUME NEW c \in DOMAIN h.chains, NEW i \in DOMAIN h.chains[c].rules
        PROVE  /\ g.chains[c].rules[i].image = h.chains[c].rules[i].image
               /\ g.chains[c].rules[i].type = h.chains[c].rules[i].type
               /\ g.chains[c].rules[i].target = h.chains[c].rules[i].target
               /\ g.chains[c].rules[i].verdict = h.chains[c].rules[i].verdict
               /\ g.chains[c].rules[i].jump = h.chains[c].rules[i].jump
    BY <1>4 DEF SameRule
  <2>3. DOMAIN g.chains = DOMAIN h.chains
    BY <1>4
  <2> DEFINE Rules(y, c) == [i \in DOMAIN y.chains[c].rules |->
                               LET r == y.chains[c].rules[i]
                               IN <<r.image, r.type, r.target, r.verdict, r.jump>>]
             Policy(y, c) == IF c \in BuiltIn THEN y.chains[c].verdict ELSE RETURN
             Both(y, c) == [policy |-> Policy(y, c), rules |-> Rules(y, c)]
  <2>4. \A c \in DOMAIN h.chains : Rules(g, c) = Rules(h, c)
    BY <2>1, <2>2
  <2>5. \A c \in DOMAIN h.chains : Policy(g, c) = Policy(h, c)
    BY <2>1
  <2>6. /\ Content(g) = [c \in DOMAIN g.chains |-> Both(g, c)]
        /\ Content(h) = [c \in DOMAIN h.chains |-> Both(h, c)]
    BY DEF Content
  <2> HIDE DEF Rules, Policy
  <2> QED
    BY <2>3, <2>4, <2>5, <2>6
<1> QED
  BY <1>1, <1>2, <1>3, <1>5, <1>7, <1>8 DEF Good

-----------------------------------------------------------------------------
(* Tables that differ in their counters.                                   *)

\* f are the entries e, counted differently.
Recount(e, f) ==
    /\ f = [i \in DOMAIN e |-> f[i]]
    /\ \A i \in DOMAIN e : f[i] = e[i] \/ \E n : f[i] = [e[i] EXCEPT !.cnt = n]

\* An entry with another counter is like the one before.
LEMMA CountLike ==
    ASSUME NEW e, {"name", "image", "target", "verdict"} \subseteq DOMAIN e, NEW n,
           NEW f, f = [e EXCEPT !.cnt = n]
    PROVE  DOMAIN f = DOMAIN e /\ Like(f, e)
BY DEF Like

\* Entries counted differently are as many, and like those before.
LEMMA RecountLike ==
    ASSUME NEW e, IsBlob(e), NEW f, Recount(e, f)
    PROVE  /\ IsBlob(f) /\ Len(f) = Len(e)
           /\ \A i \in DOMAIN e : Like(f[i], e[i])
<1>1. PICK n \in Nat : n = Len(e) /\ DOMAIN e = 1 .. n
  BY SeqFacts DEF IsBlob
<1>2. f = [i \in 1 .. n |-> f[i]]
  BY <1>1 DEF Recount
<1>3. IsSeq(f) /\ Len(f) = n
  BY <1>2, BuiltSeq
<1>4. ASSUME NEW i \in DOMAIN e
      PROVE  DOMAIN f[i] = DOMAIN e[i] /\ Like(f[i], e[i])
  <2>1. {"name", "image", "target", "verdict"} \subseteq DOMAIN e[i]
    BY DEF IsBlob
  <2>2. CASE f[i] = e[i]
    BY <2>2, LikeItself
  <2>3. CASE \E k : f[i] = [e[i] EXCEPT !.cnt = k]
    BY <2>1, <2>3, CountLike
  <2> QED
    BY <2>2, <2>3 DEF Recount
<1>5. DOMAIN f = DOMAIN e
  BY <1>1, <1>2
<1>6. ASSUME NEW i \in DOMAIN f
      PROVE  {"name", "image", "target", "verdict"} \subseteq DOMAIN f[i] /\ f[i].name # NoChain
  BY <1>4, <1>5 DEF IsBlob, Like
<1> QED
  BY <1>1, <1>3, <1>4, <1>6 DEF IsBlob

\* Likeness passes on.
LEMMA LikeLike ==
    ASSUME NEW e, NEW f, NEW g, Like(e, f), Like(f, g)
    PROVE  Like(e, g)
BY DEF Like

\* The table l is k counted differently.
Recounted(k, l) ==
    /\ {"entries", "hook_entry"} \subseteq DOMAIN l
    /\ l.hook_entry = k.hook_entry
    /\ Recount(k.entries, l.entries)

\* Counting does not change which handle a table is of.
LEMMA RecountedTable ==
    ASSUME NEW h, Good(h), NEW k, NEW l, TableOf(k, h), Recounted(k, l)
    PROVE  TableOf(l, h)
<1>1. PICK e, f : e = k.entries /\ f = l.entries
  OBVIOUS
<1>2. IsBlob(e) /\ Recount(e, f) /\ Len(e) = new_number(h) /\ l.hook_entry = k.hook_entry
  BY <1>1 DEF TableOf, Recounted
<1>3. /\ IsBlob(f) /\ Len(f) = Len(e)
      /\ \A i \in DOMAIN e : Like(f[i], e[i])
  BY <1>2, RecountLike
<1>4. DOMAIN e = 1 .. new_number(h)
  BY <1>2, SeqFacts DEF IsBlob
<1>5. ASSUME NEW c \in DOMAIN h.chains
      PROVE  ChainAt(f, h, c)
  <2>1. PICK a, n, m, z : a = head_offset(h, c) /\ n = Len(h.chains[c].rules) /\ m = Header(c) /\ z = new_number(h)
    OBVIOUS
  <2>2. /\ a \in Nat /\ a >= 1 /\ n \in Nat /\ m \in {0, 1} /\ z \in Nat
        /\ Size(h, c) = m + n + 1 /\ a + Size(h, c) <= z
    BY <2>1, ChainSpan, GoodIsPlaced
  <2>3. DOMAIN h.chains[c].rules = 1 .. n
    BY <2>1, GoodIsPlaced, SeqFacts DEF Placed, HasRules
  <2>4. ChainAt(e, h, c)
    BY <1>1 DEF TableOf
  <2>5. a \in 1 .. z /\ a + Size(h, c) - 1 \in 1 .. z
    BY <2>2
  <2>6. ASSUME NEW i \in 1 .. n
        PROVE  rule_offset(h, c, i) \in 1 .. z
    <3>1. rule_offset(h, c, i) = a + m + i - 1
      BY <2>1 DEF rule_offset
    <3>2. PICK y : y = Size(h, c)
      OBVIOUS
    <3>3. a + m + i - 1 \in 1 .. z
      BY <2>2, <3>2
    <3> QED
      BY <3>1, <3>3
  <2>7. /\ Like(f[a], e[a]) /\ Like(f[a + Size(h, c) - 1], e[a + Size(h, c) - 1])
        /\ \A i \in 1 .. n : Like(f[rule_offset(h, c, i)], e[rule_offset(h, c, i)])
    BY <1>3, <1>4, <2>1, <2>5, <2>6
  <2> QED
    BY <2>1, <2>3, <2>4, <2>7, LikeLike DEF ChainAt
<1> QED
  BY <1>1, <1>2, <1>3, <1>5 DEF TableOf

\* The kernel's table is one libiptc can have written.
Written(blob) == \E h : Good(h) /\ TableOf(blob, h)

\* Nor that there is one.
LEMMA RecountedWritten ==
    ASSUME NEW k, NEW l, Written(k), Recounted(k, l)
    PROVE  Written(l)
BY RecountedTable DEF Written

-----------------------------------------------------------------------------
(* The invariant.                                                          *)

\* Whatever the programs do: the kernel's table is a list of entries, the handles in use
\* are ones libiptc can have.
HandlesInv ==
    /\ {"entries", "hook_entry"} \subseteq DOMAIN kernel /\ IsBlob(kernel.entries)
    /\ DOMAIN handle = Procs
    /\ \A p \in Procs : pc[p] \in {"use", "replaced"} => HandleInv(handle[p])

\* Under the lock: the kernel's table was compiled from a handle, the handles in use can
\* be compiled, and the counters of a commit fit the table.
TablesInv ==
    locking = Procs =>
        /\ Written(kernel)
        /\ \A p \in Procs :
              /\ pc[p] # "wild"
              /\ pc[p] \in {"use", "replaced"} => Sound(handle[p])
              /\ pc[p] = "replaced" => new_number(handle[p]) = Len(kernel.entries)

CommitInv == HandlesInv /\ TablesInv

\* A step that counts, or nothing, and ends programs or leaves them where they are.
LEMMA Recounting ==
    ASSUME CommitInv, Recounted(kernel, kernel'), locking' = locking, DOMAIN handle' = Procs,
           \A q \in Procs : pc'[q] \in {"use", "replaced", "wild"} =>
                               pc'[q] = pc[q] /\ handle'[q] = handle[q]
    PROVE  CommitInv'
<1>1. PICK e, f : e = kernel.entries /\ f = kernel'.entries
  OBVIOUS
<1>2. IsBlob(e) /\ Recount(e, f) /\ {"entries", "hook_entry"} \subseteq DOMAIN kernel'
  BY <1>1 DEF CommitInv, HandlesInv, Recounted
<1>3. IsBlob(f) /\ Len(f) = Len(e)
  BY <1>2, RecountLike
<1>4. HandlesInv'
  BY <1>1, <1>2, <1>3 DEF CommitInv, HandlesInv
<1>5. Written(kernel) => Written(kernel')
  BY RecountedWritten
<1>6. TablesInv'
  BY <1>1, <1>3, <1>5 DEF CommitInv, TablesInv
<1> QED
  BY <1>4, <1>6 DEF CommitInv

\* A table is itself counted differently.
LEMMA RecountedSame ==
    ASSUME HandlesInv
    PROVE  Recounted(kernel, kernel)
<1>1. PICK e : e = kernel.entries
  OBVIOUS
<1>2. IsSeq(e)
  BY <1>1 DEF HandlesInv, IsBlob
<1>3. e = [i \in DOMAIN e |-> e[i]]
  BY <1>2 DEF IsSeq
<1>4. Recount(e, e)
  BY <1>3 DEF Recount
<1> QED
  BY <1>1, <1>4 DEF HandlesInv, Recounted

\* A program that ends, having counted or not.
LEMMA LeaveCommit ==
    ASSUME CommitInv, LockInv, Recounted(kernel, kernel'), locking' = locking,
           NEW p \in Procs, Leave(p)
    PROVE  CommitInv'
<1>1. /\ pc' = [pc EXCEPT ![p] = "idle"] /\ DOMAIN pc = Procs
      /\ handle' = [handle EXCEPT ![p] = NoHandle] /\ DOMAIN handle = Procs
  BY DEF Leave, LockInv, CommitInv, HandlesInv
<1>2. DOMAIN handle' = Procs
  BY <1>1
<1>3. \A q \in Procs : pc'[q] \in {"use", "replaced", "wild"} =>
                          pc'[q] = pc[q] /\ handle'[q] = handle[q]
  BY <1>1
<1> QED
  BY <1>2, <1>3, Recounting

\* A call that keeps what libiptc needs of a handle.
LEMMA CallCommit ==
    ASSUME CommitInv, NEW p \in Procs, pc[p] = "use", NEW r, NEW z, Call(p, r, z),
           Kept(handle[p], r.h, TRUE)
    PROVE  CommitInv'
<1>1. PICK g : g = r.h
  OBVIOUS
<1>2. /\ UNCHANGED <<locking, kernel, pc>> /\ DOMAIN handle = Procs
      /\ handle' = [handle EXCEPT ![p] = g]
  BY <1>1 DEF Call, CommitInv, HandlesInv
<1>3. HandleInv(g) /\ (Sound(handle[p]) => Sound(g))
  BY <1>1 DEF Kept
<1>4. DOMAIN handle' = Procs /\ \A q \in Procs : handle'[q] = IF q = p THEN g ELSE handle[q]
  BY <1>2
<1>5. HandlesInv'
  BY <1>2, <1>3, <1>4 DEF CommitInv, HandlesInv
<1>6. TablesInv'
  BY <1>2, <1>3, <1>4 DEF CommitInv, TablesInv
<1> QED
  BY <1>5, <1>6 DEF CommitInv

-----------------------------------------------------------------------------
(* The steps.                                                              *)

\* The tables the kernel may have at first were compiled by libiptc.
LEMMA InitCommit == Init => CommitInv
<1> SUFFICES ASSUME Init
             PROVE  CommitInv
  OBVIOUS
<1>1. PICK t \in Tables : kernel = Counted(iptcc_compile_table(t))
  BY DEF Init
<1>2. Good(t)
  BY CommitAssumption DEF Good
<1>3. PICK blob : blob = iptcc_compile_table(t)
  OBVIOUS
<1>4. TableOf(blob, t) /\ {"entries", "hook_entry"} \subseteq DOMAIN blob
  <2>1. TableOf(blob, t)
    BY <1>2, <1>3, GoodIsPlaced, CompiledIsTable
  <2>2. {"entries", "hook_entry"} \subseteq DOMAIN blob
    BY <1>3 DEF iptcc_compile_table
  <2> QED
    BY <2>1, <2>2
<1>5. PICK e : e = blob.entries
  OBVIOUS
<1>6. Recounted(blob, kernel)
  <2>1. PICK f : f = [i \in DOMAIN e |-> [e[i] EXCEPT !.cnt = Counter(i)]]
    OBVIOUS
  <2>2. kernel = [blob EXCEPT !.entries = f]
    BY <1>1, <1>3, <1>5, <2>1 DEF Counted
  <2>3. Recount(e, f)
    BY <2>1 DEF Recount
  <2>4. kernel.entries = f /\ kernel.hook_entry = blob.hook_entry /\ DOMAIN kernel = DOMAIN blob
    BY <1>4, <2>2
  <2> QED
    BY <1>4, <1>5, <2>3, <2>4 DEF Recounted
<1>7. Written(kernel)
  BY <1>2, <1>4, <1>6, RecountedWritten DEF Written
<1>8. IsBlob(kernel.entries) /\ {"entries", "hook_entry"} \subseteq DOMAIN kernel
  BY <1>6, <1>7 DEF Written, TableOf, Recounted
<1>9. DOMAIN handle = Procs /\ \A p \in Procs : pc[p] = "idle"
  BY DEF Init
<1> QED
  BY <1>7, <1>8, <1>9 DEF CommitInv, HandlesInv, TablesInv

\* The calls on a handle, one by one.
LEMMA CallsCommit ==
    ASSUME CommitInv, NEW p \in Procs,
           \/ AddRule(p) \/ ReplaceRule(p) \/ DeleteRule(p) \/ CheckRule(p)
           \/ ChangeChain(p) \/ SetPolicy(p) \/ Zero(p)
    PROVE  CommitInv'
<1>1. pc[p] = "use" /\ HandleInv(handle[p])
  BY DEF CommitInv, HandlesInv, Calling, AddRule, ReplaceRule, DeleteRule, CheckRule,
         ChangeChain, SetPolicy, Zero
<1>2. PICK h : h = handle[p]
  OBVIOUS
<1>3. ASSUME NEW r, NEW z, Call(p, r, z), NEW B, B, Kept(h, r.h, B)
      PROVE  CommitInv'
  <2>1. Kept(handle[p], r.h, TRUE)
    BY <1>2, <1>3 DEF Kept
  <2> QED
    BY <1>1, <1>3, <2>1, CallCommit
<1>4. \A e \in Entries : Usable(e)
  BY CommitAssumption DEF Entries, Usable
<1>5. \A n \in 0 .. MaxRules : n \in Nat
  BY CommitAssumption
<1>6. NoChain \notin ChainNames
  BY LibiptcAssumption
<1>7. CASE AddRule(p)
  <2>1. PICK c \in ChainNames, e \in Entries :
           \/ Call(p, TC_APPEND_ENTRY(h, c, e), {})
           \/ \E n \in 0 .. MaxRules : Call(p, TC_INSERT_ENTRY(h, c, e, n), {})
    BY <1>2, <1>7 DEF AddRule
  <2>2. Usable(e)
    BY <1>4
  <2>3. CASE Call(p, TC_APPEND_ENTRY(h, c, e), {})
    <3>1. Kept(h, TC_APPEND_ENTRY(h, c, e).h, Usable(e))
      BY <1>1, <1>2, AppendKeeps
    <3> QED
      BY <1>3, <2>2, <2>3, <3>1
  <2>4. ASSUME NEW n \in 0 .. MaxRules, Call(p, TC_INSERT_ENTRY(h, c, e, n), {})
        PROVE  CommitInv'
    <3>1. Kept(h, TC_INSERT_ENTRY(h, c, e, n).h, Usable(e))
      BY <1>1, <1>2, <1>5, InsertKeeps
    <3> QED
      BY <1>3, <2>2, <2>4, <3>1
  <2> QED
    BY <2>1, <2>3, <2>4
<1>8. CASE ReplaceRule(p)
  <2>1. PICK c \in ChainNames, e \in Entries, n \in 0 .. MaxRules :
           Call(p, TC_REPLACE_ENTRY(h, c, e, n), {})
    BY <1>2, <1>8 DEF ReplaceRule
  <2>2. Kept(h, TC_REPLACE_ENTRY(h, c, e, n).h, Usable(e))
    BY <1>1, <1>2, <1>5, ReplaceKeeps
  <2> QED
    BY <1>3, <1>4, <2>1, <2>2
<1>9. CASE DeleteRule(p)
  <2>1. PICK c \in ChainNames :
           \/ \E e \in Entries : Call(p, TC_DELETE_ENTRY(h, c, e), {})
           \/ \E n \in 0 .. MaxRules : Call(p, TC_DELETE_NUM_ENTRY(h, c, n), {})
           \/ Call(p, TC_FLUSH_ENTRIES(h, c), {})
    BY <1>2, <1>9 DEF DeleteRule
  <2>2. \A e : Kept(h, TC_DELETE_ENTRY(h, c, e).h, TRUE)
    BY <1>1, <1>2, DeleteKeeps DEF TC_DELETE_ENTRY
  <2>3. \A n \in 0 .. MaxRules : Kept(h, TC_DELETE_NUM_ENTRY(h, c, n).h, TRUE)
    BY <1>1, <1>2, <1>5, DeleteNumKeeps
  <2>4. Kept(h, TC_FLUSH_ENTRIES(h, c).h, TRUE)
    BY <1>1, <1>2, FlushKeeps
  <2> QED
    BY <1>3, <2>1, <2>2, <2>3, <2>4
<1>10. CASE CheckRule(p)
  <2>1. PICK c \in ChainNames, e \in Entries : Call(p, TC_CHECK_ENTRY(h, c, e), {})
    BY <1>2, <1>10 DEF CheckRule
  <2>2. Kept(h, TC_CHECK_ENTRY(h, c, e).h, TRUE)
    BY <1>1, <1>2, DeleteKeeps DEF TC_CHECK_ENTRY
  <2> QED
    BY <1>3, <2>1, <2>2
<1>11. CASE ChangeChain(p)
  <2>1. PICK c \in ChainNames :
           \/ Call(p, TC_CREATE_CHAIN(h, c), {})
           \/ Call(p, TC_DELETE_CHAIN(h, c), {})
           \/ \E d \in ChainNames : Call(p, TC_RENAME_CHAIN(h, c, d), {})
    BY <1>2, <1>11 DEF ChangeChain
  <2>2. Kept(h, TC_CREATE_CHAIN(h, c).h, c \in ChainNames)
    BY <1>1, <1>2, <1>6, CreateKeeps
  <2>3. Kept(h, TC_DELETE_CHAIN(h, c).h, TRUE)
    BY <1>1, <1>2, DeleteChainKeeps
  <2>4. \A d \in ChainNames : Kept(h, TC_RENAME_CHAIN(h, c, d).h, d \in ChainNames)
    BY <1>1, <1>2, <1>6, RenameKeeps
  <2>5. CASE Call(p, TC_CREATE_CHAIN(h, c), {})
    BY <1>3, <2>2, <2>5
  <2>6. CASE Call(p, TC_DELETE_CHAIN(h, c), {})
    BY <1>3, <2>3, <2>6
  <2>7. ASSUME NEW d \in ChainNames, Call(p, TC_RENAME_CHAIN(h, c, d), {})
        PROVE  CommitInv'
    BY <1>3, <2>4, <2>7
  <2> QED
    BY <2>1, <2>5, <2>6, <2>7
<1>12. CASE SetPolicy(p)
  <2>1. PICK c \in DOMAIN h.chains, v \in {"ACCEPT", "DROP"}, n \in Counts \cup {-1} :
           Call(p, TC_SET_POLICY(h, c, v, n), {h.chains[c].from})
    BY <1>2, <1>12 DEF SetPolicy
  <2>2. Kept(h, TC_SET_POLICY(h, c, v, n).h, TRUE)
    BY <1>1, <1>2, PolicyKeeps
  <2> QED
    BY <1>3, <2>1, <2>2
<1>13. CASE Zero(p)
  <2>1. PICK c \in DOMAIN h.chains :
           \/ \E z : Call(p, TC_ZERO_ENTRIES(h, c), z)
           \/ \E n \in 0 .. MaxRules : \E z : Call(p, TC_ZERO_COUNTER(h, c, n), z)
    BY <1>2, <1>13 DEF Zero
  <2>2. Kept(h, TC_ZERO_ENTRIES(h, c).h, TRUE) /\ \A n : Kept(h, TC_ZERO_COUNTER(h, c, n).h, TRUE)
    BY <1>1, <1>2, ZeroKeeps, ZeroCounterKeeps
  <2> QED
    BY <1>3, <2>1, <2>2
<1> QED
  BY <1>7, <1>8, <1>9, <1>10, <1>11, <1>12, <1>13

\* The table a handle reads: under the lock the hooks are those of its entries, and it
\* can be parsed.
LEMMA ReadCommit ==
    ASSUME CommitInv, LockInv, ReadingInv, NEW p \in Procs, SO_GET_ENTRIES(p)
    PROVE  CommitInv'
<1>1. PICK blob : blob = [entries |-> kernel.entries, hook_entry |-> info[p].hook_entry]
  OBVIOUS
<1>2. IsBlob(kernel.entries) /\ DOMAIN handle = Procs /\ DOMAIN pc = Procs
  BY DEF CommitInv, HandlesInv, LockInv
<1>3. IsBlob(blob.entries)
  BY <1>1, <1>2
<1>4. ASSUME locking = Procs
      PROVE  \E h : Good(h) /\ TableOf(blob, h)
  <2>1. PICK h : Good(h) /\ TableOf(kernel, h)
    BY <1>4 DEF CommitInv, TablesInv, Written
  <2>2. info[p].hook_entry = kernel.hook_entry
    BY <1>4 DEF ReadingInv, OneReading, SO_GET_ENTRIES
  <2>3. blob.entries = kernel.entries /\ blob.hook_entry = kernel.hook_entry
    BY <1>1, <2>2
  <2>4. TableOf(blob, h)
    BY <2>1, <2>3 DEF TableOf
  <2> QED
    BY <2>1, <2>4
<1>5. locking = Procs => ~Unparsable(blob) /\ Good(parse_table(blob))
  BY <1>4, TableBack
<1>6. UNCHANGED <<locking, kernel>>
  BY DEF SO_GET_ENTRIES
<1>7. Recounted(kernel, kernel') /\ kernel' = kernel
  BY <1>6, RecountedSame DEF CommitInv
<1>8. \/ Leave(p)
      \/ Unparsable(blob) /\ pc' = [pc EXCEPT ![p] = "wild"] /\ UNCHANGED handle
      \/ /\ ~Unparsable(blob) /\ ~Unresolved(blob)
         /\ pc' = [pc EXCEPT ![p] = "use"]
         /\ handle' = [handle EXCEPT ![p] = parse_table(blob)]
  BY <1>1 DEF SO_GET_ENTRIES
<1>9. CASE Leave(p)
  BY <1>6, <1>7, <1>9, LeaveCommit
<1>10. CASE Unparsable(blob) /\ pc' = [pc EXCEPT ![p] = "wild"] /\ UNCHANGED handle
  <2>1. locking # Procs
    BY <1>5, <1>10
  <2>2. \A q \in Procs : pc'[q] \in {"use", "replaced"} => pc'[q] = pc[q]
    BY <1>2, <1>10
  <2> QED
    BY <1>6, <1>10, <2>1, <2>2 DEF CommitInv, HandlesInv, TablesInv
<1>11. CASE /\ ~Unparsable(blob) /\ ~Unresolved(blob)
            /\ pc' = [pc EXCEPT ![p] = "use"]
            /\ handle' = [handle EXCEPT ![p] = parse_table(blob)]
  <2>1. PICK g : g = parse_table(blob)
    OBVIOUS
  <2>2. HandleInv(g)
    BY <1>3, <1>11, <2>1, ParseKeeps
  <2>3. locking = Procs => Sound(g)
    BY <1>5, <2>1 DEF Good
  <2>4. /\ DOMAIN handle' = Procs
        /\ \A q \in Procs : /\ handle'[q] = IF q = p THEN g ELSE handle[q]
                            /\ pc'[q] = IF q = p THEN "use" ELSE pc[q]
    BY <1>2, <1>11, <2>1
  <2>5. HandlesInv'
    BY <1>6, <2>2, <2>4 DEF CommitInv, HandlesInv
  <2>6. TablesInv'
    BY <1>6, <2>3, <2>4 DEF CommitInv, TablesInv
  <2> QED
    BY <2>5, <2>6 DEF CommitInv
<1> QED
  BY <1>8, <1>9, <1>10, <1>11

\* The table the kernel takes over is the one compiled; under the lock no other program
\* has a handle.
LEMMA ReplaceCommit ==
    ASSUME CommitInv, LockInv, NEW p \in Procs, SO_SET_REPLACE(p)
    PROVE  CommitInv'
<1>1. PICK h : h = handle[p]
  OBVIOUS
<1>2. PICK blob : blob = iptcc_compile_table(h)
  OBVIOUS
<1>3. /\ pc[p] = "use" /\ kernel' = Fresh(blob) /\ pc' = [pc EXCEPT ![p] = "replaced"]
      /\ UNCHANGED <<locking, lock, handle>>
  BY <1>1, <1>2 DEF SO_SET_REPLACE
<1>4. HandleInv(h) /\ (locking = Procs => Sound(h)) /\ DOMAIN handle = Procs /\ DOMAIN pc = Procs
  BY <1>1, <1>3 DEF CommitInv, HandlesInv, TablesInv, LockInv
<1>5. IsBlob(blob.entries) /\ Len(blob.entries) = new_number(h)
  <2>1. HasRules(h)
    BY <1>4 DEF HandleInv, Lists, IsChain, HasRules
  <2> QED
    BY <1>2, <2>1, Compiled
<1>6. {"entries", "hook_entry"} \subseteq DOMAIN blob
  BY <1>2 DEF iptcc_compile_table
<1>7. PICK e : e = blob.entries
  OBVIOUS
<1>8. Recounted(blob, kernel')
  <2>1. PICK f : f = [i \in DOMAIN e |-> [e[i] EXCEPT !.cnt = 0]]
    OBVIOUS
  <2>2. kernel' = [blob EXCEPT !.entries = f]
    BY <1>3, <1>7, <2>1 DEF Fresh
  <2>3. Recount(e, f)
    BY <2>1 DEF Recount
  <2>4. kernel'.entries = f /\ kernel'.hook_entry = blob.hook_entry /\ DOMAIN kernel' = DOMAIN blob
    BY <1>6, <2>2
  <2> QED
    BY <1>6, <1>7, <2>3, <2>4 DEF Recounted
<1>9. PICK f : f = kernel'.entries
  OBVIOUS
<1>10. IsBlob(f) /\ Len(f) = new_number(h)
  <2>1. IsBlob(e) /\ Recount(e, f) /\ Len(e) = new_number(h)
    BY <1>5, <1>7, <1>8, <1>9 DEF Recounted
  <2> QED
    BY <2>1, RecountLike
<1>11. HandlesInv'
  <2>1. \A q \in Procs : pc'[q] \in {"use", "replaced"} => pc[q] \in {"use", "replaced"}
    BY <1>3, <1>4
  <2>2. {"entries", "hook_entry"} \subseteq DOMAIN kernel'
    BY <1>8 DEF Recounted
  <2> QED
    BY <1>3, <1>9, <1>10, <2>1, <2>2 DEF CommitInv, HandlesInv
<1>12. TablesInv'
  <2> SUFFICES ASSUME locking = Procs
               PROVE  /\ Written(kernel')
                      /\ \A q \in Procs :
                            /\ pc'[q] # "wild"
                            /\ pc'[q] \in {"use", "replaced"} => Sound(handle[q])
                            /\ pc'[q] = "replaced" => new_number(handle[q]) = Len(kernel'.entries)
    BY <1>3 DEF TablesInv
  <2>1. Good(h)
    BY <1>4 DEF Good
  <2>2. Written(blob)
    BY <1>2, <2>1, GoodIsPlaced, CompiledIsTable DEF Written
  <2>3. Written(kernel')
    BY <1>8, <2>2, RecountedWritten
  <2>4. \A q \in Procs \ {p} : pc'[q] = "idle"
    BY <1>3, <1>4 DEF LockInv
  <2>5. pc'[p] = "replaced"
    BY <1>3, <1>4
  <2>6. Sound(handle[p]) /\ new_number(handle[p]) = Len(kernel'.entries)
    BY <1>1, <1>4, <1>9, <1>10
  <2> QED
    BY <2>3, <2>4, <2>5, <2>6
<1> QED
  BY <1>11, <1>12 DEF CommitInv

\* SO_SET_ADD_COUNTERS changes counters or nothing.
LEMMA AddCommit ==
    ASSUME CommitInv, LockInv, NEW p \in Procs, SO_SET_ADD_COUNTERS(p)
    PROVE  CommitInv'
<1>1. PICK e : e = kernel.entries
  OBVIOUS
<1>2. PICK add : add = newcounters(handle[p], old[p])
  OBVIOUS
<1>3. /\ Leave(p) /\ locking' = locking
      /\ kernel' = kernel \/ kernel' = [kernel EXCEPT !.entries = Added(e, add)]
  BY <1>1, <1>2 DEF SO_SET_ADD_COUNTERS
<1>4. Recounted(kernel, kernel')
  <2>1. CASE kernel' = kernel
    BY <2>1, RecountedSame DEF CommitInv
  <2>2. CASE kernel' = [kernel EXCEPT !.entries = Added(e, add)]
    <3>1. PICK f : f = Added(e, add)
      OBVIOUS
    <3>2. Recount(e, f)
      BY <3>1 DEF Added, Recount
    <3>3. {"entries", "hook_entry"} \subseteq DOMAIN kernel
      BY DEF CommitInv, HandlesInv
    <3>4. /\ kernel'.entries = f /\ kernel'.hook_entry = kernel.hook_entry
          /\ DOMAIN kernel' = DOMAIN kernel
      BY <2>2, <3>1, <3>3
    <3> QED
      BY <1>1, <3>2, <3>3, <3>4 DEF Recounted
  <2> QED
    BY <1>3, <2>1, <2>2
<1> QED
  BY <1>3, <1>4, LeaveCommit

\* A packet changes one counter.
LEMMA PacketCommit ==
    ASSUME CommitInv, NEW i, Packet(i)
    PROVE  CommitInv'
<1>1. PICK e : e = kernel.entries
  OBVIOUS
<1>2. PICK n : n = Counter(e[i].cnt + 1)
  OBVIOUS
<1>3. /\ i \in DOMAIN e /\ UNCHANGED <<locking, pc, handle>>
      /\ kernel' = [kernel EXCEPT !.entries[i].cnt = n]
  BY <1>1, <1>2 DEF Packet, procvars
<1>4. PICK f : f = [e EXCEPT ![i] = [e[i] EXCEPT !.cnt = n]]
  OBVIOUS
<1>5. {"entries", "hook_entry"} \subseteq DOMAIN kernel /\ IsBlob(e) /\ DOMAIN handle = Procs
  BY <1>1 DEF CommitInv, HandlesInv
<1>6. kernel' = [kernel EXCEPT !.entries = f]
  BY <1>1, <1>3, <1>4
<1>7. Recount(e, f)
  BY <1>3, <1>4 DEF Recount
<1>8. /\ kernel'.entries = f /\ kernel'.hook_entry = kernel.hook_entry
      /\ DOMAIN kernel' = DOMAIN kernel
  BY <1>5, <1>6
<1>9. Recounted(kernel, kernel')
  BY <1>1, <1>5, <1>7, <1>8 DEF Recounted
<1> QED
  BY <1>3, <1>5, <1>9, Recounting

\* Every step keeps the invariant; the order under the lock and the one reading are given.
LEMMA StepCommit == CommitInv /\ LockInv /\ ReadingInv /\ [Next]_vars => CommitInv'
<1> SUFFICES ASSUME CommitInv, LockInv, ReadingInv, [Next]_vars
             PROVE  CommitInv'
  OBVIOUS
<1>1. Recounted(kernel, kernel) /\ DOMAIN handle = Procs /\ DOMAIN pc = Procs
  BY RecountedSame DEF CommitInv, HandlesInv, LockInv
<1>2. ASSUME NEW p \in Procs, SO_GET_INFO(p)
      PROVE  CommitInv'
  <2>1. pc' = [pc EXCEPT ![p] = "info"] /\ UNCHANGED <<locking, kernel, handle>>
    BY <1>2 DEF SO_GET_INFO
  <2>2. \A q \in Procs : pc'[q] \in {"use", "replaced", "wild"} => pc'[q] = pc[q]
    BY <1>1, <2>1
  <2> QED
    BY <1>1, <2>1, <2>2, Recounting
<1>3. ASSUME NEW p \in Procs, GiveUp(p)
      PROVE  CommitInv'
  BY <1>1, <1>3, LeaveCommit DEF GiveUp
<1>4. CASE UNCHANGED vars
  BY <1>1, <1>4, Recounting DEF vars, procvars
<1> QED
  BY <1>2, <1>3, <1>4, CallsCommit, ReadCommit, ReplaceCommit, AddCommit, PacketCommit DEF Next

\* The invariant holds in every reachable state, of any number of programs with any calls.
THEOREM CommitHolds == Spec => []CommitInv
BY InitLock, StepLock, InitReading, StepReading, InitCommit, StepCommit, PTL DEF Spec

-----------------------------------------------------------------------------
(* Counters wrap: what a difference gives back.                            *)

\* What a counter of the kernel can hold.
CounterRange == 0 .. 2^CounterBits - 1

\* Division with remainder.
LEMMA DivMod ==
    ASSUME NEW m \in Nat \ {0}, NEW n \in Int
    PROVE  n = (m * (n \div m)) + (n % m) /\ n \div m \in Int /\ n % m \in 0 .. m - 1
OBVIOUS

\* A product with a positive factor is not smaller.
LEMMA TimesGrows ==
    ASSUME NEW m \in Nat \ {0}, NEW d \in Int, d >= 1
    PROVE  m * d >= m
OBVIOUS

\* A number has one remainder.
LEMMA RemainderUnique ==
    ASSUME NEW m \in Nat \ {0}, NEW q \in Int, NEW p \in Int, NEW r \in 0 .. m - 1, NEW s \in 0 .. m - 1,
           (m * q) + r = (m * p) + s
    PROVE  r = s
<1>1. (m * q) - (m * p) = m * (q - p) /\ (m * p) - (m * q) = m * (p - q)
  OBVIOUS
<1>2. CASE q - p >= 1
  <2>1. m * (q - p) >= m
    BY <1>2, TimesGrows
  <2>2. PICK x \in Int : x = m * (q - p)
    OBVIOUS
  <2>3. PICK y, z \in Int : y = m * q /\ z = m * p
    OBVIOUS
  <2> QED
    BY <1>1, <2>1, <2>2, <2>3
<1>3. CASE p - q >= 1
  <2>1. m * (p - q) >= m
    BY <1>3, TimesGrows
  <2>2. PICK x \in Int : x = m * (p - q)
    OBVIOUS
  <2>3. PICK y, z \in Int : y = m * q /\ z = m * p
    OBVIOUS
  <2> QED
    BY <1>1, <2>1, <2>2, <2>3
<1>4. CASE p = q
  BY <1>4
<1> QED
  BY <1>2, <1>3, <1>4

\* A remainder taken early changes nothing.
LEMMA RemainderSum ==
    ASSUME NEW m \in Nat \ {0}, NEW a \in Int, NEW b \in Int
    PROVE  ((a % m) + b) % m = (a + b) % m
<1>1. PICK q \in Int, r \in 0 .. m - 1 : r = a % m /\ a = (m * q) + r
  BY DivMod
<1>2. PICK p \in Int, s \in 0 .. m - 1 : s = (r + b) % m /\ r + b = (m * p) + s
  <2>1. r + b \in Int
    OBVIOUS
  <2> QED
    BY <2>1, DivMod
<1>3. PICK k \in Int, t \in 0 .. m - 1 : t = (a + b) % m /\ a + b = (m * k) + t
  <2>1. a + b \in Int
    OBVIOUS
  <2> QED
    BY <2>1, DivMod
<1>4. (m * k) + t = (m * (q + p)) + s
  BY <1>1, <1>2, <1>3
<1>5. t = s
  BY <1>4, RemainderUnique
<1> QED
  BY <1>1, <1>2, <1>3, <1>5

\* A counter is in range, and one in range is itself.
LEMMA CounterFacts ==
    ASSUME NEW n \in Int
    PROVE  /\ Counter(n) \in CounterRange
           /\ n \in CounterRange => Counter(n) = n
<1>1. PICK m \in Nat \ {0} : m = 2^CounterBits
  BY CommitAssumption
<1>2. n % m \in 0 .. m - 1
  BY DivMod
<1>3. n \in 0 .. m - 1 => n % m = n
  OBVIOUS
<1> QED
  BY <1>1, <1>2, <1>3 DEF Counter, CounterRange

\* What is added to a counter may be added before it wraps.
LEMMA CounterAdds ==
    ASSUME NEW a \in Int, NEW b \in Int
    PROVE  Counter(Counter(a) + b) = Counter(a + b)
<1>1. PICK m \in Nat \ {0} : m = 2^CounterBits
  BY CommitAssumption
<1> QED
  BY <1>1, RemainderSum DEF Counter

-----------------------------------------------------------------------------
(* What a handle knows of the counters of the table it was read from.      *)

\* A rule made of an entry a caller passed.
FreshRule(x) ==
    {"from", "map", "pos", "cnt"} \subseteq DOMAIN x /\ x.from = 0 /\ x.map = "SET" /\ x.cnt \in CounterRange

\* What is known of the counter of a rule, with the rules of the kernel at the places T
\* and those of Z asked to be zeroed.
Tracked(x, T, Z) ==
    \/ FreshRule(x)
    \/ /\ {"from", "map", "pos", "cnt"} \subseteq DOMAIN x
       /\ x.from # 0 /\ x.from \in T /\ x.pos = x.from /\ x.cnt \in Int
       /\ x.map = IF x.from \in Z THEN "ZEROED" ELSE "NORMAL"

\* No two rules were read from one entry.
Apart(chains) ==
    \A c, d \in DOMAIN chains : \A i \in DOMAIN chains[c].rules, j \in DOMAIN chains[d].rules :
        /\ chains[c].rules[i].from # 0
        /\ chains[c].rules[i].from = chains[d].rules[j].from
        => c = d /\ i = j

\* Policies are not at T.
Aside(x, T) == "from" \in DOMAIN x /\ x.from \notin T

\* What the chains of a handle know of the counters of the table at T.
Ledger(chains, T, Z) ==
    /\ \A c \in DOMAIN chains :
          Aside(chains[c], T) /\ \A i \in DOMAIN chains[c].rules : Tracked(chains[c].rules[i], T, Z)
    /\ Apart(chains)

\* x stands for y.
Twin(x, y) ==
    {"from", "map", "pos", "cnt"} \subseteq DOMAIN y =>
        /\ {"from", "map", "pos", "cnt"} \subseteq DOMAIN x
        /\ x.from = y.from /\ x.map = y.map /\ x.pos = y.pos /\ x.cnt = y.cnt

\* A list of rules of another list, and new ones.
Heirs(new, rs) ==
    \A i \in DOMAIN new : FreshRule(new[i]) \/ \E k \in DOMAIN rs : Twin(new[i], rs[k])

\* No two rules of a list were read from one entry.
Sole(rs) == \A i, j \in DOMAIN rs : rs[i].from # 0 /\ rs[i].from = rs[j].from => i = j

\* What is known of a rule is known of what stands for it.
LEMMA TwinTracked ==
    ASSUME NEW x, NEW y, NEW T, NEW Z, Twin(x, y), Tracked(y, T, Z)
    PROVE  Tracked(x, T, Z) /\ x.from = y.from
BY DEF Twin, Tracked, FreshRule

\* A rule stands for itself.
LEMMA TwinItself == \A x : Twin(x, x)
BY DEF Twin

\* The ledger of a handle whose chains have taken over the rules of others, no two
\* those of the same chain.
LEMMA Carried ==
    ASSUME NEW H, NEW T, NEW Z, Ledger(H, T, Z), NEW G, NEW src,
           \A c, d \in DOMAIN G : src[c] = src[d] => c = d,
           \A c \in DOMAIN G : Aside(G[c], T) /\ Sole(G[c].rules),
           \A c \in DOMAIN G : \/ DOMAIN G[c].rules = {}
                               \/ src[c] \in DOMAIN H /\ Heirs(G[c].rules, H[src[c]].rules)
    PROVE  Ledger(G, T, Z)
<1>1. ASSUME NEW c \in DOMAIN G, NEW i \in DOMAIN G[c].rules
      PROVE  \/ FreshRule(G[c].rules[i])
             \/ /\ src[c] \in DOMAIN H
                /\ \E k \in DOMAIN H[src[c]].rules : Twin(G[c].rules[i], H[src[c]].rules[k])
  BY DEF Heirs
<1>2. ASSUME NEW c \in DOMAIN G, NEW i \in DOMAIN G[c].rules
      PROVE  Tracked(G[c].rules[i], T, Z)
  <2>1. CASE FreshRule(G[c].rules[i])
    BY <2>1 DEF Tracked
  <2>2. CASE ~FreshRule(G[c].rules[i])
    <3>1. PICK k \in DOMAIN H[src[c]].rules : Twin(G[c].rules[i], H[src[c]].rules[k])
      BY <1>1, <2>2
    <3>2. Tracked(H[src[c]].rules[k], T, Z)
      BY <1>1, <2>2 DEF Ledger
    <3> QED
      BY <3>1, <3>2, TwinTracked
  <2> QED
    BY <2>1, <2>2
<1>3. Apart(G)
  <2> SUFFICES ASSUME NEW c \in DOMAIN G, NEW d \in DOMAIN G,
                      NEW i \in DOMAIN G[c].rules, NEW j \in DOMAIN G[d].rules,
                      G[c].rules[i].from # 0, G[c].rules[i].from = G[d].rules[j].from
               PROVE  c = d /\ i = j
    BY DEF Apart
  <2>1. ~FreshRule(G[c].rules[i]) /\ ~FreshRule(G[d].rules[j])
    BY DEF FreshRule
  <2>2. PICK k \in DOMAIN H[src[c]].rules : Twin(G[c].rules[i], H[src[c]].rules[k])
    BY <1>1, <2>1
  <2>3. PICK l \in DOMAIN H[src[d]].rules : Twin(G[d].rules[j], H[src[d]].rules[l])
    BY <1>1, <2>1
  <2>4. src[c] \in DOMAIN H /\ src[d] \in DOMAIN H
    BY <1>1, <2>1
  <2>5. /\ G[c].rules[i].from = H[src[c]].rules[k].from
        /\ G[d].rules[j].from = H[src[d]].rules[l].from
    <3>1. Tracked(H[src[c]].rules[k], T, Z) /\ Tracked(H[src[d]].rules[l], T, Z)
      BY <2>4 DEF Ledger
    <3> QED
      BY <2>2, <2>3, <3>1, TwinTracked
  <2>6. src[c] = src[d]
    BY <2>4, <2>5 DEF Ledger, Apart
  <2>7. c = d
    BY <2>6
  <2> QED
    BY <2>7 DEF Sole
<1> QED
  BY <1>2, <1>3 DEF Ledger

\* More may be asked to be zeroed that is no rule of the table.
LEMMA LedgerAside ==
    ASSUME NEW H, NEW T, NEW Z, Ledger(H, T, Z), NEW f, f \notin T
    PROVE  Ledger(H, T, Z \cup {f})
BY DEF Ledger, Tracked

\* The list of a chain has its rules from different entries.
LEMMA LedgerSole ==
    ASSUME NEW H, NEW T, NEW Z, Ledger(H, T, Z), NEW c \in DOMAIN H
    PROVE  Sole(H[c].rules)
BY DEF Ledger, Apart, Sole

-----------------------------------------------------------------------------
(* Lists of rules after an insertion or a removal.                         *)

\* A list made of another and a rule a caller passed.
LEMMA MadeHeirs ==
    ASSUME NEW new, NEW rs, NEW r, MadeOf(new, rs, r), FreshRule(r) \/ \E k \in DOMAIN rs : r = rs[k]
    PROVE  Heirs(new, rs)
BY TwinItself DEF MadeOf, Heirs

\* Inserting a new rule leaves the rules read from entries of their own.
LEMMA InsertSole ==
    ASSUME NEW rs, IsSeq(rs), NEW at \in 1 .. Len(rs) + 1, NEW r, r.from = 0, Sole(rs)
    PROVE  Sole(InsertAt(rs, at, r))
<1>1. Len(rs) \in Nat /\ DOMAIN rs = 1 .. Len(rs)
  BY SeqFacts
<1>2. PICK new : new = InsertAt(rs, at, r)
  OBVIOUS
<1>3. /\ IsSeq(new) /\ DOMAIN new = 1 .. Len(rs) + 1
      /\ \A i \in 1 .. Len(rs) + 1 :
            new[i] = IF i < at THEN rs[i] ELSE IF i = at THEN r ELSE rs[i - 1]
  BY <1>1, <1>2, InsertFacts, SeqFacts
<1>4. ASSUME NEW i \in DOMAIN new, NEW j \in DOMAIN new,
             new[i].from # 0, new[i].from = new[j].from
      PROVE  i = j
  <2> DEFINE k(x) == IF x < at THEN x ELSE x - 1
  <2>1. i # at /\ j # at
    BY <1>3, <1>4
  <2>2. new[i] = rs[k(i)] /\ new[j] = rs[k(j)]
    BY <1>3, <2>1
  <2>3. k(i) \in DOMAIN rs /\ k(j) \in DOMAIN rs
    BY <1>1, <1>3, <2>1
  <2>4. k(i) = k(j)
    BY <1>4, <2>2, <2>3 DEF Sole
  <2> QED
    BY <1>1, <1>3, <2>1, <2>4
<1> QED
  BY <1>2, <1>4 DEF Sole

\* So does appending one.
LEMMA AppendSole ==
    ASSUME NEW rs, IsSeq(rs), NEW r, r.from = 0, Sole(rs)
    PROVE  Sole(Append(rs, r))
<1>1. Len(rs) \in Nat /\ DOMAIN rs = 1 .. Len(rs)
  BY SeqFacts
<1>2. PICK new : new = Append(rs, r)
  OBVIOUS
<1>3. DOMAIN new = 1 .. Len(rs) + 1
  BY <1>1, <1>2, CountAppend, SeqFacts
<1>4. \A i \in 1 .. Len(rs) + 1 : new[i] = IF i = Len(rs) + 1 THEN r ELSE rs[i]
  BY <1>1, <1>2 DEF IsSeq
<1> QED
  BY <1>1, <1>2, <1>3, <1>4 DEF Sole

\* So does taking one out.
LEMMA RemoveSole ==
    ASSUME NEW rs, IsSeq(rs), NEW at \in 1 .. Len(rs), Sole(rs)
    PROVE  Sole(RemoveAt(rs, at))
<1> DEFINE V == {rs[i] : i \in DOMAIN rs}
<1>1. Len(rs) \in Nat /\ DOMAIN rs = 1 .. Len(rs)
  BY SeqFacts
<1>2. PICK new : new = RemoveAt(rs, at)
  OBVIOUS
<1>3. /\ new \in Seq(V) /\ Len(new) = Len(rs) - 1
      /\ \A i \in 1 .. Len(rs) - 1 : new[i] = IF i < at THEN rs[i] ELSE rs[i + 1]
  <2>1. rs \in Seq(V)
    BY DEF IsSeq
  <2> HIDE DEF V
  <2> QED
    BY <1>2, <2>1, RemoveAtProperties
<1>4. DOMAIN new = 1 .. Len(rs) - 1
  BY <1>1, <1>3, SeqIsSeq, SeqFacts
<1>5. ASSUME NEW i \in DOMAIN new, NEW j \in DOMAIN new,
             new[i].from # 0, new[i].from = new[j].from
      PROVE  i = j
  <2> DEFINE k(x) == IF x < at THEN x ELSE x + 1
  <2>2. new[i] = rs[k(i)] /\ new[j] = rs[k(j)]
    BY <1>3, <1>4
  <2>3. k(i) \in DOMAIN rs /\ k(j) \in DOMAIN rs
    BY <1>1, <1>4
  <2>4. k(i) = k(j)
    BY <1>5, <2>2, <2>3 DEF Sole
  <2> QED
    BY <1>1, <1>4, <2>4
<1> QED
  BY <1>2, <1>5 DEF Sole

\* So does putting a new one in the place of another.
LEMMA ReplaceSole ==
    ASSUME NEW rs, IsSeq(rs), NEW at \in 1 .. Len(rs), NEW r, r.from = 0, Sole(rs)
    PROVE  Sole(ReplaceAt(rs, at, r))
<1>1. Len(rs) \in Nat /\ DOMAIN rs = 1 .. Len(rs)
  BY SeqFacts
<1>2. PICK new : new = ReplaceAt(rs, at, r)
  OBVIOUS
<1>3. new = [i \in 1 .. Len(rs) |-> IF i = at THEN r ELSE rs[i]]
  BY <1>1, <1>2 DEF ReplaceAt, IsSeq
<1> QED
  BY <1>1, <1>2, <1>3 DEF Sole
-----------------------------------------------------------------------------
(* The calls keep the ledger.                                              *)

\* g has the chains of h, read from the same entries.
FromKept(h, g) ==
    /\ DOMAIN g.chains = DOMAIN h.chains
    /\ \A c \in DOMAIN h.chains : \A T : Aside(h.chains[c], T) => Aside(g.chains[c], T)

\* A policy with the same origin is as far from the rules.
LEMMA FieldKept ==
    ASSUME NEW x, NEW y, "from" \in DOMAIN x => "from" \in DOMAIN y /\ y.from = x.from, NEW T, Aside(x, T)
    PROVE  Aside(y, T)
BY DEF Aside

\* Counting references moves no policy.
LEMMA ReferFrom ==
    ASSUME NEW h, Lists(h), NEW j \in DOMAIN h.chains \cup {NoChain}, NEW n
    PROVE  FromKept(h, Refer(h, j, n))
<1> DEFINE g == Refer(h, j, n)
<1>1. CASE j = NoChain
  <2>1. g = h
    BY <1>1 DEF Refer
  <2> QED
    BY <2>1 DEF FromKept
<1>2. CASE j # NoChain
  <2>1. g = [h EXCEPT !.chains[j].references = @ + n] /\ j \in DOMAIN h.chains
    BY <1>2 DEF Refer
  <2>2. "chains" \in DOMAIN g /\ g.chains = [h.chains EXCEPT ![j].references = @ + n]
    BY <2>1 DEF Lists
  <2>3. DOMAIN g.chains = DOMAIN h.chains /\ \A d \in DOMAIN h.chains \ {j} : g.chains[d] = h.chains[d]
    BY <2>2
  <2>4. g.chains[j] = [h.chains[j] EXCEPT !.references = @ + n]
    BY <2>1, <2>2
  <2>5. "from" \in DOMAIN h.chains[j] => "from" \in DOMAIN g.chains[j] /\ g.chains[j].from = h.chains[j].from
    BY <2>4
  <2> HIDE DEF g
  <2>6. \A d \in DOMAIN h.chains : \A T : Aside(h.chains[d], T) => Aside(g.chains[d], T)
    BY <2>3, <2>5, FieldKept
  <2> QED
    BY <2>3, <2>6 DEF FromKept, g
<1> QED
  BY <1>1, <1>2

\* The rule made of an entry a caller passed is new, and its counter is set.
LEMMA RuleFresh ==
    ASSUME NEW e, e.cnt \in CounterRange, NEW type, NEW target, NEW verdict, NEW jump
    PROVE  FreshRule(Rule(e, type, target, verdict, jump))
<1>1. PICK r : r = Rule(e, type, target, verdict, jump)
  OBVIOUS
<1>2. {"from", "map", "pos", "cnt"} \subseteq DOMAIN r /\ r.from = 0 /\ r.map = "SET" /\ r.cnt = e.cnt
  BY <1>1 DEF Rule
<1> QED
  BY <1>1, <1>2 DEF FreshRule

\* So is the one whose target was mapped; mapping it moves no policy.
LEMMA MapFrom ==
    ASSUME NEW h, Lists(h), NEW e, e.cnt \in CounterRange
    PROVE  FreshRule(iptcc_map_target(h, e).r) /\ FromKept(h, iptcc_map_target(h, e).h)
<1> DEFINE m == iptcc_map_target(h, e)
<1>1. FreshRule(m.r)
  BY RuleFresh DEF iptcc_map_target
<1>2. FromKept(h, h) /\ FromKept(h, Changed(h))
  BY ChangedSame DEF FromKept
<1>3. CASE e.target \notin DOMAIN h.chains \/ e.target \in {""} \cup DOMAIN StandardTargets
  <2>1. m.h = h \/ m.h = Changed(h)
    BY <1>3 DEF iptcc_map_target
  <2> QED
    BY <1>1, <1>2, <2>1
<1>4. CASE e.target \in DOMAIN h.chains /\ e.target \notin {""} \cup DOMAIN StandardTargets
  <2>1. m.h = Refer(h, e.target, 1)
    BY <1>4 DEF iptcc_map_target
  <2> QED
    BY <1>1, <1>4, <2>1, ReferFrom
<1> QED
  BY <1>3, <1>4

\* A call that replaces the list of chain c by rs.
LEMMA EditLedger ==
    ASSUME NEW h, NEW T, NEW Z, Ledger(h.chains, T, Z), NEW k, SameLists(h, k), FromKept(h, k),
           NEW c \in DOMAIN h.chains, NEW rs, Heirs(rs, h.chains[c].rules), Sole(rs), NEW n
    PROVE  Ledger(Changed(WithRules(k, c, rs, n)).chains, T, Z)
<1> DEFINE D == DOMAIN h.chains
           g == WithRules(k, c, rs, n)
<1>1. Lists(k) /\ DOMAIN k.chains = D /\ \A d \in D : k.chains[d].rules = h.chains[d].rules
  BY DEF SameLists
<1>2. "chains" \in DOMAIN k /\ "rules" \in DOMAIN k.chains[c]
  BY <1>1 DEF Lists, IsChain
<1>3. g = [k EXCEPT !.chains[c].rules = rs, !.chains[c].num_rules = @ + n]
  BY DEF WithRules
<1>4. "chains" \in DOMAIN g /\ g.chains = [k.chains EXCEPT ![c].rules = rs, ![c].num_rules = @ + n]
  BY <1>2, <1>3
<1>5. DOMAIN g.chains = D /\ \A d \in D \ {c} : g.chains[d] = k.chains[d]
  BY <1>1, <1>4
<1>6. g.chains[c] = [k.chains[c] EXCEPT !.rules = rs, !.num_rules = @ + n]
  BY <1>1, <1>2, <1>4
<1>7. /\ g.chains[c].rules = rs
      /\ "from" \in DOMAIN k.chains[c] => "from" \in DOMAIN g.chains[c] /\ g.chains[c].from = k.chains[c].from
  BY <1>2, <1>6
<1>8. Changed(g).chains = g.chains
  BY <1>4 DEF Changed
<1> HIDE DEF g
<1>9. ASSUME NEW d \in D
      PROVE  Aside(g.chains[d], T)
  <2>1. Aside(k.chains[d], T)
    BY DEF Ledger, FromKept
  <2> QED
    BY <1>5, <1>7, <2>1, FieldKept
<1>10. ASSUME NEW d \in D
       PROVE  Sole(g.chains[d].rules) /\ Heirs(g.chains[d].rules, h.chains[d].rules)
  <2>1. CASE d = c
    BY <1>7, <2>1
  <2>2. CASE d # c
    <3>1. g.chains[d].rules = h.chains[d].rules
      BY <1>1, <1>5, <2>2
    <3> QED
      BY <3>1, LedgerSole, TwinItself DEF Heirs
  <2> QED
    BY <2>1, <2>2
<1>11. PICK src : src = [d \in D |-> d]
  OBVIOUS
<1>12. Ledger(g.chains, T, Z)
  <2>1. \A d \in D : src[d] = d
    BY <1>11
  <2>2. \A a, b \in DOMAIN g.chains : src[a] = src[b] => a = b
    BY <1>5, <2>1
  <2>3. \A d \in DOMAIN g.chains : Aside(g.chains[d], T) /\ Sole(g.chains[d].rules)
    BY <1>5, <1>9, <1>10
  <2>4. \A d \in DOMAIN g.chains : src[d] \in D /\ Heirs(g.chains[d].rules, h.chains[src[d]].rules)
    BY <1>5, <1>10, <2>1
  <2> QED
    BY <2>2, <2>3, <2>4, Carried
<1> QED
  BY <1>8, <1>12 DEF g

\* The same table with nothing changed but references.
LEMMA SameLedger ==
    ASSUME NEW h, NEW T, NEW Z, Ledger(h.chains, T, Z), NEW k, SameLists(h, k), FromKept(h, k)
    PROVE  Ledger(k.chains, T, Z)
<1>1. DOMAIN k.chains = DOMAIN h.chains /\ \A d \in DOMAIN h.chains : k.chains[d].rules = h.chains[d].rules
  BY DEF SameLists
<1> QED
  BY <1>1 DEF FromKept, Ledger, Apart

\* What a call that succeeds does to the ledger; Z is what was asked to be zeroed before it,
\* and Y after it.
Posted(h, r, T, Z, Y) == Ledger(h.chains, T, Z) /\ r.ok => Ledger(r.h.chains, T, Y)

\* Which calls succeed, and with what.
LEMMA OutcomeOk == \A x : Done(x).ok /\ ~Failed(x).ok /\ Done(x).h = x
BY DEF Done, Failed

\* TC_INSERT_ENTRY.
LEMMA InsertPosts ==
    ASSUME NEW h, HandleInv(h), NEW c, NEW e, e.cnt \in CounterRange, NEW n \in Nat, NEW T, NEW Z
    PROVE  Posted(h, TC_INSERT_ENTRY(h, c, e, n), T, Z, Z)
<1> SUFFICES ASSUME Ledger(h.chains, T, Z), TC_INSERT_ENTRY(h, c, e, n).ok
             PROVE  Ledger(TC_INSERT_ENTRY(h, c, e, n).h.chains, T, Z)
  BY DEF Posted
<1> DEFINE D == DOMAIN h.chains
           rs == h.chains[c].rules
           m == iptcc_map_target(h, e)
           at == IF n = h.chains[c].num_rules THEN Len(rs) + 1 ELSE Located(h.chains[c], n)
           new == InsertAt(rs, at, m.r)
<1>1. ~(c \notin D \/ n > h.chains[c].num_rules \/ ~Mappable(h, e))
  BY OutcomeOk DEF TC_INSERT_ENTRY
<1>2. c \in D /\ Lists(h)
  BY <1>1 DEF HandleInv
<1>3. /\ IsSeq(rs) /\ Len(rs) \in Nat /\ h.chains[c].num_rules = Len(rs)
  BY <1>2, ListOf
<1>4. at \in 1 .. Len(rs) + 1
  <2>1. n <= Len(rs)
    BY <1>1, <1>3
  <2>2. Located(h.chains[c], n) = n + 1
    BY <1>3, LocatedThere
  <2> QED
    BY <1>3, <2>1, <2>2
<1>5. TC_INSERT_ENTRY(h, c, e, n).h = Changed(WithRules(m.h, c, new, 1))
  BY <1>1, OutcomeOk DEF TC_INSERT_ENTRY
<1>6. SameLists(h, m.h) /\ FreshRule(m.r) /\ FromKept(h, m.h)
  BY <1>2, MapTarget, MapFrom
<1> HIDE DEF m, at
<1>7. Heirs(new, rs) /\ Sole(new)
  <2>1. Sole(rs) /\ m.r.from = 0
    BY <1>2, <1>6, LedgerSole DEF FreshRule
  <2> QED
    BY <1>3, <1>4, <1>6, <2>1, MadeByInsert, MadeHeirs, InsertSole
<1> HIDE DEF new
<1> QED
  BY <1>2, <1>5, <1>6, <1>7, EditLedger

\* TC_APPEND_ENTRY.
LEMMA AppendPosts ==
    ASSUME NEW h, HandleInv(h), NEW c, NEW e, e.cnt \in CounterRange, NEW T, NEW Z
    PROVE  Posted(h, TC_APPEND_ENTRY(h, c, e), T, Z, Z)
<1> SUFFICES ASSUME Ledger(h.chains, T, Z), TC_APPEND_ENTRY(h, c, e).ok
             PROVE  Ledger(TC_APPEND_ENTRY(h, c, e).h.chains, T, Z)
  BY DEF Posted
<1> DEFINE D == DOMAIN h.chains
           rs == h.chains[c].rules
           m == iptcc_map_target(h, e)
           new == Append(rs, m.r)
<1>1. ~(c \notin D \/ ~Mappable(h, e))
  BY OutcomeOk DEF TC_APPEND_ENTRY
<1>2. c \in D /\ Lists(h)
  BY <1>1 DEF HandleInv
<1>3. IsSeq(rs)
  BY <1>2, ListOf
<1>4. TC_APPEND_ENTRY(h, c, e).h = Changed(WithRules(m.h, c, new, 1))
  BY <1>1, OutcomeOk DEF TC_APPEND_ENTRY
<1>5. SameLists(h, m.h) /\ FreshRule(m.r) /\ FromKept(h, m.h)
  BY <1>2, MapTarget, MapFrom
<1> HIDE DEF m
<1>6. Heirs(new, rs) /\ Sole(new)
  <2>1. Sole(rs) /\ m.r.from = 0
    BY <1>2, <1>5, LedgerSole DEF FreshRule
  <2>2. MadeOf(new, rs, m.r)
    BY <1>3, CountAppend
  <2> QED
    BY <1>3, <1>5, <2>1, <2>2, MadeHeirs, AppendSole
<1> HIDE DEF new
<1> QED
  BY <1>2, <1>4, <1>5, <1>6, EditLedger

\* iptcc_delete_rule leaves the entries the chains were read from.
LEMMA DroppedFrom ==
    ASSUME NEW h, Lists(h), NEW r, r.jump \in DOMAIN h.chains \cup {NoChain}
    PROVE  SameLists(h, Dropped(h, r)) /\ FromKept(h, Dropped(h, r))
BY DroppedLists, ReferFrom DEF Dropped

\* Two changes that keep lists and origins keep them together.
LEMMA KeptTwice ==
    ASSUME NEW h, NEW k, NEW g, SameLists(h, k), FromKept(h, k), SameLists(k, g), FromKept(k, g)
    PROVE  SameLists(h, g) /\ FromKept(h, g)
BY DEF SameLists, FromKept

\* TC_REPLACE_ENTRY.
LEMMA ReplacePosts ==
    ASSUME NEW h, HandleInv(h), NEW c, NEW e, e.cnt \in CounterRange, NEW n \in Nat, NEW T, NEW Z
    PROVE  Posted(h, TC_REPLACE_ENTRY(h, c, e, n), T, Z, Z)
<1> SUFFICES ASSUME Ledger(h.chains, T, Z), TC_REPLACE_ENTRY(h, c, e, n).ok
             PROVE  Ledger(TC_REPLACE_ENTRY(h, c, e, n).h.chains, T, Z)
  BY DEF Posted
<1> DEFINE D == DOMAIN h.chains
           rs == h.chains[c].rules
           at == Located(h.chains[c], n)
           m == iptcc_map_target(h, e)
           k == Dropped(m.h, rs[at])
           new == ReplaceAt(rs, at, m.r)
<1>1. ~(c \notin D \/ n >= h.chains[c].num_rules \/ ~Mappable(h, e))
  BY OutcomeOk DEF TC_REPLACE_ENTRY
<1>2. c \in D /\ Lists(h)
  BY <1>1 DEF HandleInv
<1>3. /\ IsSeq(rs) /\ Len(rs) \in Nat /\ h.chains[c].num_rules = Len(rs)
      /\ DOMAIN rs = 1 .. Len(rs)
      /\ \A i \in DOMAIN rs : IsRule(D, rs[i])
  BY <1>2, ListOf
<1>4. at \in 1 .. Len(rs)
  <2>1. n < Len(rs)
    BY <1>1, <1>3
  <2>2. at = n + 1
    BY <1>3, LocatedThere
  <2> QED
    BY <1>3, <2>1, <2>2
<1>5. TC_REPLACE_ENTRY(h, c, e, n).h = Changed(WithRules(k, c, new, 0))
  BY <1>1, OutcomeOk DEF TC_REPLACE_ENTRY
<1>6. SameLists(h, m.h) /\ FreshRule(m.r) /\ FromKept(h, m.h)
  BY <1>2, MapTarget, MapFrom
<1> HIDE DEF m, at
<1>7. rs[at].jump \in D \cup {NoChain} /\ DOMAIN m.h.chains = D /\ Lists(m.h)
  BY <1>3, <1>4, <1>6 DEF IsRule, SameLists
<1>8. SameLists(m.h, k) /\ FromKept(m.h, k)
  BY <1>7, DroppedFrom
<1> HIDE DEF k
<1>9. SameLists(h, k) /\ FromKept(h, k)
  BY <1>6, <1>8, KeptTwice
<1>10. Heirs(new, rs) /\ Sole(new)
  <2>1. Sole(rs) /\ m.r.from = 0
    BY <1>2, <1>6, LedgerSole DEF FreshRule
  <2>2. MadeOf(new, rs, m.r)
    BY <1>3, <1>4, CountReplace
  <2> QED
    BY <1>3, <1>4, <1>6, <2>1, <2>2, MadeHeirs, ReplaceSole
<1> HIDE DEF new
<1> QED
  BY <1>2, <1>5, <1>9, <1>10, EditLedger

\* The rule at a place is taken out.
LEMMA TakeOutPosts ==
    ASSUME NEW h, Lists(h), NEW T, NEW Z, Ledger(h.chains, T, Z),
           NEW c \in DOMAIN h.chains, NEW at \in DOMAIN h.chains[c].rules
    PROVE  LET rs == h.chains[c].rules
           IN Ledger(Changed(WithRules(Dropped(h, rs[at]), c, RemoveAt(rs, at), -1)).chains, T, Z)
<1> DEFINE D == DOMAIN h.chains
           rs == h.chains[c].rules
           k == Dropped(h, rs[at])
           new == RemoveAt(rs, at)
<1>1. /\ IsSeq(rs) /\ Len(rs) \in Nat
      /\ DOMAIN rs = 1 .. Len(rs)
      /\ \A i \in DOMAIN rs : IsRule(D, rs[i])
  BY ListOf
<1>2. SameLists(h, k) /\ FromKept(h, k)
  <2>1. rs[at].jump \in D \cup {NoChain}
    BY <1>1 DEF IsRule
  <2> QED
    BY <2>1, DroppedFrom
<1> HIDE DEF k
<1>3. Heirs(new, rs) /\ Sole(new)
  <2>1. Sole(rs)
    BY LedgerSole
  <2>2. at \in 1 .. Len(rs)
    BY <1>1
  <2>3. MadeOf(new, rs, rs[at])
    BY <1>1, <2>2, CountRemove
  <2> HIDE DEF rs
  <2> QED
    BY <1>1, <2>1, <2>2, <2>3, MadeHeirs, RemoveSole
<1> HIDE DEF new
<1>4. Ledger(Changed(WithRules(k, c, new, -1)).chains, T, Z)
  BY <1>2, <1>3, EditLedger
<1> QED
  BY <1>4 DEF k, new

\* TC_DELETE_NUM_ENTRY.
LEMMA DeleteNumPosts ==
    ASSUME NEW h, HandleInv(h), NEW c, NEW n \in Nat, NEW T, NEW Z
    PROVE  Posted(h, TC_DELETE_NUM_ENTRY(h, c, n), T, Z, Z)
<1> SUFFICES ASSUME Ledger(h.chains, T, Z), TC_DELETE_NUM_ENTRY(h, c, n).ok
             PROVE  Ledger(TC_DELETE_NUM_ENTRY(h, c, n).h.chains, T, Z)
  BY DEF Posted
<1> DEFINE D == DOMAIN h.chains
           rs == h.chains[c].rules
           at == Located(h.chains[c], n)
<1>1. ~(c \notin D \/ n >= h.chains[c].num_rules)
  BY OutcomeOk DEF TC_DELETE_NUM_ENTRY
<1>2. c \in D /\ Lists(h)
  BY <1>1 DEF HandleInv
<1>3. /\ Len(rs) \in Nat /\ h.chains[c].num_rules = Len(rs) /\ DOMAIN rs = 1 .. Len(rs)
  BY <1>2, ListOf
<1>4. at \in DOMAIN rs
  <2>1. n < Len(rs)
    BY <1>1, <1>3
  <2>2. at = n + 1
    BY <1>3, LocatedThere
  <2> QED
    BY <1>3, <2>1, <2>2
<1>5. TC_DELETE_NUM_ENTRY(h, c, n).h =
        Changed(WithRules(Dropped(h, rs[at]), c, RemoveAt(rs, at), -1))
  BY <1>1, OutcomeOk DEF TC_DELETE_NUM_ENTRY
<1> QED
  BY <1>2, <1>4, <1>5, TakeOutPosts

\* delete_entry and check_entry.
LEMMA DeletePosts ==
    ASSUME NEW h, HandleInv(h), NEW c, NEW e, e.cnt \in CounterRange, NEW dry_run, NEW T, NEW Z
    PROVE  Posted(h, delete_entry(h, c, e, dry_run), T, Z, Z)
<1> SUFFICES ASSUME Ledger(h.chains, T, Z), delete_entry(h, c, e, dry_run).ok
             PROVE  Ledger(delete_entry(h, c, e, dry_run).h.chains, T, Z)
  BY DEF Posted
<1> DEFINE D == DOMAIN h.chains
           rs == h.chains[c].rules
           m == iptcc_map_target(h, e)
           g == Refer(m.h, m.r.jump, -1)
           found == {i \in DOMAIN rs : Same(m.r, rs[i])}
           i == Min(found)
<1>1. ~(c \notin D \/ ~Mappable(h, e))
  BY OutcomeOk DEF delete_entry
<1>2. c \in D /\ Lists(h)
  BY <1>1 DEF HandleInv
<1>3. /\ Len(rs) \in Nat /\ DOMAIN rs = 1 .. Len(rs)
  BY <1>2, ListOf
<1>4. /\ found # {}
      /\ delete_entry(h, c, e, dry_run).h =
           IF dry_run THEN g ELSE Changed(WithRules(Dropped(g, rs[i]), c, RemoveAt(rs, i), -1))
  BY <1>1, OutcomeOk DEF delete_entry
<1>5. SameLists(h, m.h) /\ FromKept(h, m.h) /\ m.r.jump \in D \cup {NoChain}
  BY <1>2, MapTarget, MapFrom
<1>6. i \in DOMAIN rs
  <2>1. found \subseteq Nat
    BY <1>3
  <2>2. i \in found
    <3> HIDE DEF found
    <3> QED
      BY <1>4, <2>1, LeastIn
  <2> QED
    BY <2>2
<1> HIDE DEF m, found, i
<1>7. SameLists(m.h, g) /\ FromKept(m.h, g)
  <2>1. PICK k, d, n : k = m.h /\ d = m.r.jump /\ n = -1
    OBVIOUS
  <2>2. Lists(k) /\ d \in DOMAIN k.chains \cup {NoChain} /\ n \in Int
    BY <1>5, <2>1 DEF SameLists
  <2>3. SameLists(k, Refer(k, d, n)) /\ FromKept(k, Refer(k, d, n))
    BY <2>2, ReferLists, ReferFrom
  <2> QED
    BY <2>1, <2>3
<1> HIDE DEF g
<1>8. SameLists(h, g) /\ FromKept(h, g)
  BY <1>5, <1>7, KeptTwice
<1>9. Ledger(g.chains, T, Z)
  BY <1>8, SameLedger
<1>10. Ledger(Changed(WithRules(Dropped(g, rs[i]), c, RemoveAt(rs, i), -1)).chains, T, Z)
  <2>1. Lists(g) /\ c \in DOMAIN g.chains /\ g.chains[c].rules = rs
    BY <1>2, <1>8 DEF SameLists
  <2> QED
    BY <1>6, <1>9, <2>1, TakeOutPosts
<1> QED
  BY <1>4, <1>9, <1>10

\* Chain c becomes x.
LEMMA ChainLedger ==
    ASSUME NEW h, Lists(h), NEW T, NEW Z, Ledger(h.chains, T, Z), NEW c \in DOMAIN h.chains, NEW x,
           Aside(x, T), x.rules = h.chains[c].rules
    PROVE  Ledger(Changed([h EXCEPT !.chains[c] = x]).chains, T, Z)
<1>1. PICK g : g = Changed([h EXCEPT !.chains[c] = x])
  OBVIOUS
<1>2. g.chains = [h.chains EXCEPT ![c] = x]
  BY <1>1 DEF Lists, Changed
<1>3. DOMAIN g.chains = DOMAIN h.chains /\ \A d \in DOMAIN h.chains : g.chains[d].rules = h.chains[d].rules
  BY <1>2
<1>4. \A d \in DOMAIN h.chains : Aside(g.chains[d], T)
  BY <1>2 DEF Ledger
<1>5. Ledger(g.chains, T, Z)
  BY <1>3, <1>4 DEF Ledger, Apart
<1> QED
  BY <1>1, <1>5

\* TC_SET_POLICY.
LEMMA PolicyPosts ==
    ASSUME NEW h, HandleInv(h), NEW c, NEW policy, NEW counters, NEW T, NEW Z
    PROVE  Posted(h, TC_SET_POLICY(h, c, policy, counters), T, Z, Z \cup {h.chains[c].from})
<1> DEFINE r == TC_SET_POLICY(h, c, policy, counters)
           z == h.chains[c]
           x == IF counters = -1
                THEN [z EXCEPT !.verdict = StandardTargets[policy], !.map = "NOMAP"]
                ELSE [z EXCEPT !.verdict = StandardTargets[policy], !.map = "SET", !.cnt = counters]
<1> SUFFICES ASSUME Ledger(h.chains, T, Z), r.ok
             PROVE  Ledger(r.h.chains, T, Z \cup {z.from})
  BY DEF Posted
<1>1. ~(c \notin DOMAIN h.chains \/ c \notin BuiltIn \/ policy \notin {"ACCEPT", "DROP"})
  BY OutcomeOk DEF TC_SET_POLICY
<1>2. r.h = Changed([h EXCEPT !.chains[c] = x])
  BY <1>1, OutcomeOk DEF TC_SET_POLICY
<1>3. Lists(h) /\ IsChain(DOMAIN h.chains, z) /\ Aside(z, T)
  BY <1>1 DEF HandleInv, Lists, Ledger
<1> HIDE DEF r
<1>4. x.rules = z.rules /\ ("from" \in DOMAIN z => "from" \in DOMAIN x /\ x.from = z.from)
  BY <1>3 DEF IsChain
<1> HIDE DEF x
<1>5. Aside(x, T)
  BY <1>3, <1>4, FieldKept
<1>6. Ledger(r.h.chains, T, Z)
  BY <1>1, <1>2, <1>3, <1>4, <1>5, ChainLedger
<1> QED
  BY <1>3, <1>6, LedgerAside DEF Aside

\* A rule that is zeroed, and one that is not.
LEMMA ZeroedTracked ==
    ASSUME NEW x, NEW T, NEW Z, Tracked(x, T, Z), NEW Y, Z \subseteq Y
    PROVE  /\ x.from = 0 \/ x.from \in Y => Tracked(Zeroed(x), T, Y)
           /\ (x.from \in Y => x.from \in Z) => Tracked(x, T, Y)
           /\ Zeroed(x).from = x.from
<1>1. CASE FreshRule(x)
  BY <1>1 DEF FreshRule, Zeroed, Tracked
<1>2. CASE ~FreshRule(x)
  <2>1. /\ {"from", "map", "pos", "cnt"} \subseteq DOMAIN x
        /\ x.from # 0 /\ x.from \in T /\ x.pos = x.from /\ x.cnt \in Int
        /\ x.map = IF x.from \in Z THEN "ZEROED" ELSE "NORMAL"
    BY <1>2 DEF Tracked
  <2>2. PICK y : y = Zeroed(x)
    OBVIOUS
  <2>3. /\ {"from", "map", "pos", "cnt"} \subseteq DOMAIN y
        /\ y.from = x.from /\ y.pos = x.pos /\ y.cnt = x.cnt /\ y.map = "ZEROED"
    BY <2>1, <2>2 DEF Zeroed
  <2>4. x.from \in Y => Tracked(y, T, Y)
    BY <2>1, <2>3 DEF Tracked
  <2>5. (x.from \in Y => x.from \in Z) => Tracked(x, T, Y)
    BY <2>1 DEF Tracked
  <2> QED
    BY <2>1, <2>2, <2>3, <2>4, <2>5
<1> QED
  BY <1>1, <1>2

\* The rules of chain c at S are zeroed.
LEMMA ZeroLedger ==
    ASSUME NEW h, Lists(h), NEW T, NEW Z, Ledger(h.chains, T, Z), NEW c \in DOMAIN h.chains, NEW x, NEW S,
           Aside(x, T), DOMAIN x.rules = DOMAIN h.chains[c].rules,
           \A i \in DOMAIN x.rules : x.rules[i] = IF i \in S THEN Zeroed(h.chains[c].rules[i])
                                                  ELSE h.chains[c].rules[i]
    PROVE  Ledger(Changed([h EXCEPT !.chains[c] = x]).chains, T, Z \cup From(h.chains[c].rules, S))
<1> DEFINE D == DOMAIN h.chains
           Y == Z \cup From(h.chains[c].rules, S)
<1>1. PICK g : g = Changed([h EXCEPT !.chains[c] = x])
  OBVIOUS
<1>2. g.chains = [h.chains EXCEPT ![c] = x]
  BY <1>1 DEF Lists, Changed
<1>3. /\ DOMAIN g.chains = D /\ g.chains[c] = x /\ \A d \in D \ {c} : g.chains[d] = h.chains[d]
      /\ \A d \in D : DOMAIN g.chains[d].rules = DOMAIN h.chains[d].rules
  BY <1>2
<1>4. \A d \in D : Aside(g.chains[d], T)
  BY <1>3 DEF Ledger
<1>5. ASSUME NEW d \in D, NEW i \in DOMAIN h.chains[d].rules
      PROVE  Tracked(g.chains[d].rules[i], T, Y) /\ g.chains[d].rules[i].from = h.chains[d].rules[i].from
  <2>1. PICK y : y = h.chains[d].rules[i]
    OBVIOUS
  <2>2. Tracked(y, T, Z) /\ Z \subseteq Y
    BY <2>1 DEF Ledger
  <2>3. CASE d = c /\ i \in S
    <3>1. y.from = 0 \/ y.from \in Y
      BY <2>1, <2>3 DEF From
    <3>2. g.chains[d].rules[i] = Zeroed(y)
      BY <1>3, <2>1, <2>3
    <3> HIDE DEF Y
    <3> QED
      BY <2>1, <2>2, <3>1, <3>2, ZeroedTracked
  <2>4. CASE ~(d = c /\ i \in S)
    <3>1. g.chains[d].rules[i] = y
      BY <1>3, <2>1, <2>4
    <3>2. y.from \in Y => y.from \in Z
      <4> SUFFICES ASSUME y.from \in From(h.chains[c].rules, S) PROVE FALSE
        OBVIOUS
      <4>1. PICK k \in DOMAIN h.chains[c].rules \cap S : y.from = h.chains[c].rules[k].from /\ y.from # 0
        BY DEF From
      <4>2. d = c /\ i = k
        BY <2>1, <4>1 DEF Ledger, Apart
      <4> QED
        BY <2>4, <4>1, <4>2
    <3> HIDE DEF Y
    <3> QED
      BY <2>1, <2>2, <3>1, <3>2, ZeroedTracked
  <2> QED
    BY <2>3, <2>4
<1> HIDE DEF Y
<1>6. Apart(g.chains)
  <2>1. Apart(h.chains)
    BY DEF Ledger
  <2> QED
    BY <1>3, <1>5, <2>1 DEF Apart
<1>7. Ledger(g.chains, T, Y)
  BY <1>3, <1>4, <1>5, <1>6 DEF Ledger
<1> QED
  BY <1>1, <1>7 DEF Y

\* TC_ZERO_ENTRIES.
LEMMA ZeroPosts ==
    ASSUME NEW h, HandleInv(h), NEW c, NEW T, NEW Z
    PROVE  Posted(h, TC_ZERO_ENTRIES(h, c), T, Z,
                  Z \cup (From(h.chains[c].rules, DOMAIN h.chains[c].rules) \cup {h.chains[c].from}))
<1> DEFINE r == TC_ZERO_ENTRIES(h, c)
           rs == h.chains[c].rules
           z == Zeroed(h.chains[c])
           x == [z EXCEPT !.rules = [i \in DOMAIN z.rules |-> Zeroed(z.rules[i])]]
<1> SUFFICES ASSUME Ledger(h.chains, T, Z), r.ok
             PROVE  Ledger(r.h.chains, T, Z \cup (From(rs, DOMAIN rs) \cup {h.chains[c].from}))
  BY DEF Posted
<1>1. c \in DOMAIN h.chains
  BY OutcomeOk DEF TC_ZERO_ENTRIES
<1>2. r.h = Changed([h EXCEPT !.chains[c] = x])
  BY <1>1, OutcomeOk DEF TC_ZERO_ENTRIES
<1>3. Lists(h) /\ IsChain(DOMAIN h.chains, h.chains[c]) /\ Aside(h.chains[c], T)
  BY <1>1 DEF HandleInv, Lists, Ledger
<1> HIDE DEF r
<1>4. /\ IsChain(DOMAIN h.chains, z) /\ z.rules = rs
      /\ "from" \in DOMAIN h.chains[c] => "from" \in DOMAIN z /\ z.from = h.chains[c].from
  <2>1. "from" \in DOMAIN h.chains[c] => "from" \in DOMAIN z /\ z.from = h.chains[c].from
    BY DEF Zeroed
  <2> QED
    BY <1>3, <2>1, ZeroedChain
<1> HIDE DEF z
<1>5. /\ x.rules = [i \in DOMAIN rs |-> Zeroed(rs[i])]
      /\ "from" \in DOMAIN z => "from" \in DOMAIN x /\ x.from = z.from
  BY <1>4 DEF IsChain
<1> HIDE DEF x
<1>6. Aside(x, T)
  BY <1>3, <1>4, <1>5, FieldKept
<1>7. DOMAIN x.rules = DOMAIN rs /\ \A i \in DOMAIN x.rules : x.rules[i] = IF i \in DOMAIN rs THEN Zeroed(rs[i]) ELSE rs[i]
  BY <1>5
<1>8. Ledger(r.h.chains, T, Z \cup From(rs, DOMAIN rs))
  BY <1>1, <1>2, <1>3, <1>6, <1>7, ZeroLedger
<1>9. Ledger(r.h.chains, T, (Z \cup From(rs, DOMAIN rs)) \cup {h.chains[c].from})
  BY <1>3, <1>8, LedgerAside DEF Aside
<1>10. (Z \cup From(rs, DOMAIN rs)) \cup {h.chains[c].from} = Z \cup (From(rs, DOMAIN rs) \cup {h.chains[c].from})
  OBVIOUS
<1> QED
  BY <1>9, <1>10

\* TC_ZERO_COUNTER.
LEMMA ZeroCounterPosts ==
    ASSUME NEW h, HandleInv(h), NEW c, NEW n, NEW T, NEW Z
    PROVE  Posted(h, TC_ZERO_COUNTER(h, c, n), T, Z, Z \cup From(h.chains[c].rules, {n}))
<1> DEFINE r == TC_ZERO_COUNTER(h, c, n)
           z == h.chains[c]
           rs == z.rules
           x == [z EXCEPT !.rules[n] = Zeroed(rs[n])]
<1> SUFFICES ASSUME Ledger(h.chains, T, Z), r.ok
             PROVE  Ledger(r.h.chains, T, Z \cup From(rs, {n}))
  BY DEF Posted
<1>1. c \in DOMAIN h.chains /\ n \in DOMAIN rs
  BY OutcomeOk DEF TC_ZERO_COUNTER
<1>2. r.h = Changed([h EXCEPT !.chains[c] = x])
  <2>1. [h EXCEPT !.chains[c].rules[n] = Zeroed(@)] = [h EXCEPT !.chains[c] = x]
    OBVIOUS
  <2> HIDE DEF x
  <2> QED
    BY <1>1, <2>1, OutcomeOk DEF TC_ZERO_COUNTER
<1>3. Lists(h) /\ IsChain(DOMAIN h.chains, z) /\ Aside(z, T)
  BY <1>1 DEF HandleInv, Lists, Ledger
<1> HIDE DEF r
<1>4. /\ x.rules = [rs EXCEPT ![n] = Zeroed(rs[n])]
      /\ "from" \in DOMAIN z => "from" \in DOMAIN x /\ x.from = z.from
  BY <1>3 DEF IsChain
<1> HIDE DEF x
<1>5. Aside(x, T)
  BY <1>3, <1>4, FieldKept
<1>6. DOMAIN x.rules = DOMAIN rs /\ \A i \in DOMAIN x.rules : x.rules[i] = IF i \in {n} THEN Zeroed(rs[i]) ELSE rs[i]
  BY <1>4
<1> QED
  BY <1>1, <1>2, <1>3, <1>5, <1>6, ZeroLedger

\* TC_FLUSH_ENTRIES.
LEMMA FlushPosts ==
    ASSUME NEW h, HandleInv(h), NEW c, NEW T, NEW Z
    PROVE  Posted(h, TC_FLUSH_ENTRIES(h, c), T, Z, Z)
<1> SUFFICES ASSUME Ledger(h.chains, T, Z), TC_FLUSH_ENTRIES(h, c).ok
             PROVE  Ledger(TC_FLUSH_ENTRIES(h, c).h.chains, T, Z)
  BY DEF Posted
<1> DEFINE D == DOMAIN h.chains
           given(d) == Cardinality(JumpsIn(h.chains[c].rules, d))
           chains == [d \in D |-> [h.chains[d] EXCEPT !.references = @ - given(d)]]
           new == [chains EXCEPT ![c].rules = <<>>, ![c].num_rules = 0]
           g == [h EXCEPT !.chains = new]
<1>1. c \in D
  BY OutcomeOk DEF TC_FLUSH_ENTRIES
<1>2. TC_FLUSH_ENTRIES(h, c).h = Changed(g)
  BY <1>1, OutcomeOk DEF TC_FLUSH_ENTRIES
<1>3. Lists(h) /\ \A d \in D : IsChain(D, h.chains[d])
  BY DEF HandleInv, Lists
<1>4. Changed(g).chains = new
  BY <1>3 DEF Changed, Lists
<1>5. \A d \in D : /\ DOMAIN chains[d] = DOMAIN h.chains[d]
                   /\ chains[d].rules = h.chains[d].rules
                   /\ "from" \in DOMAIN h.chains[d] => chains[d].from = h.chains[d].from
  <2> HIDE DEF given
  <2> QED
    BY <1>3 DEF IsChain
<1>6. DOMAIN chains = D
  OBVIOUS
<1> HIDE DEF chains, g
<1>7. /\ DOMAIN new = D /\ \A d \in D \ {c} : new[d] = chains[d]
      /\ new[c] = [chains[c] EXCEPT !.rules = <<>>, !.num_rules = 0]
  BY <1>1, <1>6
<1> HIDE DEF new
<1>8. /\ new[c].rules = <<>> /\ DOMAIN new[c] = DOMAIN chains[c]
      /\ "from" \in DOMAIN chains[c] => new[c].from = chains[c].from
  BY <1>1, <1>3, <1>5, <1>7 DEF IsChain
<1>9. ASSUME NEW d \in D
      PROVE  Aside(new[d], T) /\ Sole(new[d].rules) /\ Heirs(new[d].rules, h.chains[d].rules)
  <2>1. Aside(h.chains[d], T)
    BY DEF Ledger
  <2>2. "from" \in DOMAIN h.chains[d] => "from" \in DOMAIN new[d] /\ new[d].from = h.chains[d].from
    BY <1>5, <1>7, <1>8
  <2>3. CASE d = c
    BY <1>8, <2>1, <2>2, <2>3, FieldKept, NoJumps DEF Sole, Heirs
  <2>4. CASE d # c
    <3>1. new[d].rules = h.chains[d].rules
      BY <1>5, <1>7, <2>4
    <3> QED
      BY <2>1, <2>2, <3>1, FieldKept, LedgerSole, TwinItself DEF Heirs
  <2> QED
    BY <2>3, <2>4
<1>10. PICK src : src = [d \in D |-> d]
  OBVIOUS
<1>11. \A d \in D : src[d] = d
  BY <1>10
<1>12. \A a, b \in DOMAIN new : src[a] = src[b] => a = b
  BY <1>7, <1>11
<1>13. \A d \in DOMAIN new : Aside(new[d], T) /\ Sole(new[d].rules)
  BY <1>7, <1>9
<1>14. \A d \in DOMAIN new : src[d] \in D /\ Heirs(new[d].rules, h.chains[src[d]].rules)
  BY <1>7, <1>9, <1>11
<1>15. Ledger(new, T, Z)
  BY <1>12, <1>13, <1>14, Carried
<1> QED
  BY <1>2, <1>4, <1>15 DEF g, new

\* TC_CREATE_CHAIN.
LEMMA CreatePosts ==
    ASSUME NEW h, HandleInv(h), NEW c, NEW T, 0 \notin T, NEW Z
    PROVE  Posted(h, TC_CREATE_CHAIN(h, c), T, Z, Z)
<1> SUFFICES ASSUME Ledger(h.chains, T, Z), TC_CREATE_CHAIN(h, c).ok
             PROVE  Ledger(TC_CREATE_CHAIN(h, c).h.chains, T, Z)
  BY DEF Posted
<1> DEFINE D == DOMAIN h.chains
           new == [d \in D \cup {c} |-> IF d = c THEN NewChain ELSE h.chains[d]]
           g == [h EXCEPT !.chains = new]
<1>1. c \notin D
  BY OutcomeOk DEF TC_CREATE_CHAIN
<1>2. TC_CREATE_CHAIN(h, c).h = Changed(g)
  BY OutcomeOk DEF TC_CREATE_CHAIN
<1>3. Changed(g).chains = new
  BY DEF Changed, HandleInv, Lists
<1>4. "from" \in DOMAIN NewChain /\ NewChain.from = 0 /\ NewChain.rules = <<>>
  BY DEF NewChain
<1>5. DOMAIN new = D \cup {c} /\ new[c] = NewChain /\ \A d \in D : new[d] = h.chains[d]
  BY <1>1
<1> HIDE DEF new, g
<1>6. DOMAIN new[c].rules = {} /\ Aside(new[c], T)
  BY <1>4, <1>5, NoJumps DEF Aside
<1>7. PICK src : src = [d \in D \cup {c} |-> d]
  OBVIOUS
<1>8. \A d \in DOMAIN new : src[d] = d
  BY <1>5, <1>7
<1>9. \A d \in DOMAIN new : Aside(new[d], T) /\ Sole(new[d].rules)
  <2>1. \A d \in D : Aside(new[d], T) /\ Sole(new[d].rules)
    BY <1>5, LedgerSole DEF Ledger
  <2> QED
    BY <1>5, <1>6, <2>1 DEF Sole
<1>10. \A d \in DOMAIN new :
          DOMAIN new[d].rules = {} \/ (src[d] \in D /\ Heirs(new[d].rules, h.chains[src[d]].rules))
  <2>1. \A d \in D : Heirs(new[d].rules, h.chains[d].rules)
    BY <1>5, TwinItself DEF Heirs
  <2> QED
    BY <1>5, <1>6, <1>8, <2>1
<1>11. \A a, b \in DOMAIN new : src[a] = src[b] => a = b
  BY <1>8
<1>12. Ledger(new, T, Z)
  BY <1>9, <1>10, <1>11, Carried
<1> QED
  BY <1>2, <1>3, <1>12

\* TC_DELETE_CHAIN.
LEMMA DeleteChainPosts ==
    ASSUME NEW h, HandleInv(h), NEW c, NEW T, NEW Z
    PROVE  Posted(h, TC_DELETE_CHAIN(h, c), T, Z, Z)
<1> SUFFICES ASSUME Ledger(h.chains, T, Z), TC_DELETE_CHAIN(h, c).ok
             PROVE  Ledger(TC_DELETE_CHAIN(h, c).h.chains, T, Z)
  BY DEF Posted
<1> DEFINE D == DOMAIN h.chains
           new == [d \in D \ {c} |-> h.chains[d]]
           g == [h EXCEPT !.chains = new]
<1>1. TC_DELETE_CHAIN(h, c).h = Changed(g)
  BY OutcomeOk DEF TC_DELETE_CHAIN
<1>2. Changed(g).chains = new
  BY DEF Changed, HandleInv, Lists
<1>3. DOMAIN new = D \ {c} /\ \A d \in D \ {c} : new[d] = h.chains[d]
  OBVIOUS
<1> HIDE DEF new, g
<1>4. Ledger(new, T, Z)
  BY <1>3 DEF Ledger, Apart
<1> QED
  BY <1>1, <1>2, <1>4

\* TC_RENAME_CHAIN.
LEMMA RenamePosts ==
    ASSUME NEW h, HandleInv(h), NEW was, NEW new, NEW T, NEW Z
    PROVE  Posted(h, TC_RENAME_CHAIN(h, was, new), T, Z, Z)
<1> SUFFICES ASSUME Ledger(h.chains, T, Z), TC_RENAME_CHAIN(h, was, new).ok
             PROVE  Ledger(TC_RENAME_CHAIN(h, was, new).h.chains, T, Z)
  BY DEF Posted
<1> DEFINE D == DOMAIN h.chains
           E == (D \ {was}) \cup {new}
           Redirected(r) == IF r.jump = was THEN [r EXCEPT !.jump = new] ELSE r
           from(d) == h.chains[IF d = new THEN was ELSE d]
           chains == [d \in E |-> [from(d) EXCEPT !.rules = [i \in DOMAIN @ |-> Redirected(@[i])]]]
           g == [h EXCEPT !.chains = chains]
<1>1. ~(new \in D \cup DOMAIN StandardTargets \/ was \notin D \/ was \in BuiltIn)
  BY OutcomeOk DEF TC_RENAME_CHAIN
<1>2. TC_RENAME_CHAIN(h, was, new).h = Changed(g)
  BY <1>1, OutcomeOk DEF TC_RENAME_CHAIN
<1>3. Lists(h) /\ \A d \in D : IsChain(D, h.chains[d])
  BY DEF HandleInv, Lists
<1>4. Changed(g).chains = chains
  BY <1>3 DEF Changed, Lists
<1>5. /\ DOMAIN chains = E
      /\ \A d \in E : chains[d] =
            [from(d) EXCEPT !.rules = [i \in DOMAIN from(d).rules |-> Redirected(from(d).rules[i])]]
  OBVIOUS
<1> HIDE DEF chains, g
<1>6. PICK src : src = [d \in E |-> IF d = new THEN was ELSE d]
  OBVIOUS
<1>7. \A d \in E : src[d] \in D /\ from(d) = h.chains[src[d]]
  BY <1>1, <1>6
<1>8. \A a, b \in E : src[a] = src[b] => a = b
  BY <1>1, <1>6
<1>9. ASSUME NEW r
      PROVE  Twin(Redirected(r), r)
  <2>1. PICK q : q = IF r.jump = was THEN [r EXCEPT !.jump = new] ELSE r
    OBVIOUS
  <2>2. Redirected(r) = q
    BY <2>1
  <2> HIDE DEF Redirected
  <2>3. Twin(q, r)
    <3>1. CASE r.jump # was
      BY <2>1, <3>1, TwinItself
    <3>2. CASE r.jump = was
      BY <2>1, <3>2 DEF Twin
    <3> QED
      BY <3>1, <3>2
  <2> QED
    BY <2>2, <2>3
<1> HIDE DEF Redirected, from
<1>10. ASSUME NEW d \in E
       PROVE  Aside(chains[d], T) /\ Sole(chains[d].rules) /\ Heirs(chains[d].rules, h.chains[src[d]].rules)
  <2>1. PICK x : x = h.chains[src[d]]
    OBVIOUS
  <2>2. chains[d] = [x EXCEPT !.rules = [i \in DOMAIN x.rules |-> Redirected(x.rules[i])]]
    BY <1>5, <1>7, <2>1
  <2>3. IsChain(D, x) /\ Aside(x, T) /\ Sole(x.rules) /\ \A i \in DOMAIN x.rules : Tracked(x.rules[i], T, Z)
    BY <1>3, <1>7, <2>1, LedgerSole DEF Ledger
  <2>4. /\ chains[d].rules = [i \in DOMAIN x.rules |-> Redirected(x.rules[i])]
        /\ "from" \in DOMAIN x => "from" \in DOMAIN chains[d] /\ chains[d].from = x.from
    BY <2>2, <2>3 DEF IsChain
  <2>5. \A i \in DOMAIN x.rules : Twin(chains[d].rules[i], x.rules[i]) /\ chains[d].rules[i].from = x.rules[i].from
    <3> TAKE i \in DOMAIN x.rules
    <3>1. PICK r : r = x.rules[i]
      OBVIOUS
    <3>2. Twin(Redirected(r), r)
      BY <1>9
    <3>3. chains[d].rules[i] = Redirected(r)
      BY <2>4, <3>1
    <3>4. Tracked(r, T, Z)
      BY <2>3, <3>1
    <3> QED
      BY <3>1, <3>2, <3>3, <3>4, TwinTracked
  <2>6. DOMAIN chains[d].rules = DOMAIN x.rules
    BY <2>4
  <2>7. Sole(chains[d].rules)
    BY <2>3, <2>5, <2>6 DEF Sole
  <2>8. Heirs(chains[d].rules, x.rules)
    BY <2>5, <2>6 DEF Heirs
  <2>9. Aside(chains[d], T)
    BY <2>3, <2>4, FieldKept
  <2> QED
    BY <2>1, <2>7, <2>8, <2>9
<1> HIDE DEF E
<1>11. Ledger(chains, T, Z)
  BY <1>5, <1>7, <1>8, <1>10, Carried
<1> QED
  BY <1>2, <1>4, <1>11

-----------------------------------------------------------------------------
(* The places of rules in a table, and what is laid out there.             *)

\* The entries of a table that are rules of its chains: neither headers nor policies.
RulePlaces(blob) == UNION {FirstEntry(blob, s) .. LastEntry(blob, s) - 1 : s \in Starts(blob)}

\* Those of the table a handle is written as.
Places(h) == UNION {{rule_offset(h, c, i) : i \in DOMAIN h.chains[c].rules} : c \in DOMAIN h.chains}

\* A table has the rules of its handle where the compiler has put them.
LEMMA TablePlaces ==
    ASSUME NEW h, Good(h), NEW blob, TableOf(blob, h)
    PROVE  RulePlaces(blob) = Places(h)
<1> DEFINE of(c) == {rule_offset(h, c, i) : i \in DOMAIN h.chains[c].rules}
<1>1. ASSUME NEW c \in DOMAIN h.chains
      PROVE  FirstEntry(blob, head_offset(h, c)) .. LastEntry(blob, head_offset(h, c)) - 1 = of(c)
  <2>1. PICK a, z, m, n : Span(h, c, a, z, m, n)
    BY SpanOf
  <2>2. /\ a \in Nat /\ z \in Nat /\ m \in Nat /\ n \in Nat /\ z = m + n + 1
        /\ a = head_offset(h, c) /\ m = Header(c) /\ DOMAIN h.chains[c].rules = 1 .. n
    BY <2>1 DEF Span
  <2>3. FirstEntry(blob, a) = a + m /\ LastEntry(blob, a) = a + z - 1
    BY <2>1, ChainFound
  <2>4. \A i \in 1 .. n : rule_offset(h, c, i) = a + m + i - 1
    BY <2>2 DEF rule_offset
  <2>5. of(c) = {a + m + i - 1 : i \in 1 .. n}
    BY <2>2, <2>4
  <2>6. (a + z - 1) - 1 = a + m + n - 1
    <3>1. a \in Nat /\ z \in Nat /\ m \in Nat /\ n \in Nat /\ z = m + n + 1
      BY <2>2
    <3> QED
      BY <3>1
  <2> HIDE DEF of
  <2>7. ASSUME NEW x \in (a + m) .. (a + m + n - 1)
        PROVE  x \in of(c)
    <3>1. x - (a + m) + 1 \in 1 .. n /\ x = a + m + (x - (a + m) + 1) - 1
      BY <2>2
    <3> QED
      BY <2>5, <3>1
  <2>8. ASSUME NEW x \in of(c)
        PROVE  x \in (a + m) .. (a + m + n - 1)
    BY <2>2, <2>5
  <2>9. (a + m) .. (a + m + n - 1) = of(c)
    BY <2>7, <2>8
  <2> QED
    BY <2>2, <2>3, <2>6, <2>9
<1>2. Starts(blob) = {head_offset(h, c) : c \in DOMAIN h.chains}
  BY TableStarts
<1>3. Places(h) = UNION {of(c) : c \in DOMAIN h.chains}
  BY DEF Places
<1> HIDE DEF of
<1> QED
  BY <1>1, <1>2, <1>3 DEF RulePlaces

\* A rule has its place between the ends of the table; no policy is there, nor another rule.
LEMMA PlaceFacts ==
    ASSUME NEW h, Good(h)
    PROVE  /\ \A i \in Places(h) : i \in Nat /\ i >= 1 /\ i < new_number(h)
           /\ \A c \in DOMAIN h.chains : head_offset(h, c) + Size(h, c) - 1 \notin Places(h)
           /\ \A c, d \in DOMAIN h.chains :
                 \A i \in DOMAIN h.chains[c].rules, j \in DOMAIN h.chains[d].rules :
                    rule_offset(h, c, i) = rule_offset(h, d, j) => c = d /\ i = j
<1>1. ASSUME NEW c \in DOMAIN h.chains, NEW i \in DOMAIN h.chains[c].rules,
             NEW a, NEW z, NEW m, NEW n, Span(h, c, a, z, m, n)
      PROVE  /\ i \in 1 .. n /\ rule_offset(h, c, i) = a + m + i - 1
             /\ rule_offset(h, c, i) \in Nat
             /\ a <= rule_offset(h, c, i) /\ rule_offset(h, c, i) < a + z - 1
  <2>1. i \in 1 .. n /\ rule_offset(h, c, i) = a + m + i - 1
    BY <1>1 DEF Span, rule_offset
  <2>2. a \in Nat /\ z \in Nat /\ m \in Nat /\ n \in Nat /\ z = m + n + 1 /\ a >= 1
    BY <1>1 DEF Span
  <2>3. PICK x : x = a + m + i - 1
    OBVIOUS
  <2>4. x \in Nat /\ a <= x /\ x < a + z - 1
    BY <2>1, <2>2, <2>3
  <2> QED
    BY <2>1, <2>3, <2>4
<1>2. ASSUME NEW x \in Places(h)
      PROVE  \E c \in DOMAIN h.chains : \E i \in DOMAIN h.chains[c].rules : x = rule_offset(h, c, i)
  BY DEF Places
<1>3. ASSUME NEW x \in Places(h)
      PROVE  x \in Nat /\ x >= 1 /\ x < new_number(h)
  <2>11. PICK c \in DOMAIN h.chains : \E i \in DOMAIN h.chains[c].rules : x = rule_offset(h, c, i)
    BY <1>2
  <2>1. PICK i \in DOMAIN h.chains[c].rules : x = rule_offset(h, c, i)
    BY <2>11
  <2>2. PICK a, z, m, n : Span(h, c, a, z, m, n)
    BY SpanOf
  <2>3. x \in Nat /\ a <= x /\ x < a + z - 1
    BY <1>1, <2>1, <2>2
  <2>4. a \in Nat /\ z \in Nat /\ a >= 1 /\ a + z <= new_number(h) /\ new_number(h) \in Nat
    BY <2>2 DEF Span
  <2> QED
    BY <2>3, <2>4
<1>4. ASSUME NEW c \in DOMAIN h.chains, head_offset(h, c) + Size(h, c) - 1 \in Places(h)
      PROVE  FALSE
  <2>11. PICK d \in DOMAIN h.chains : \E i \in DOMAIN h.chains[d].rules :
           head_offset(h, c) + Size(h, c) - 1 = rule_offset(h, d, i)
    BY <1>2, <1>4
  <2>1. PICK i \in DOMAIN h.chains[d].rules :
           head_offset(h, c) + Size(h, c) - 1 = rule_offset(h, d, i)
    BY <2>11
  <2>2. PICK a, z, m, n : Span(h, c, a, z, m, n)
    BY SpanOf
  <2>3. PICK a2, z2, m2, n2 : Span(h, d, a2, z2, m2, n2)
    BY SpanOf
  <2>4. a2 <= rule_offset(h, d, i) /\ rule_offset(h, d, i) < a2 + z2 - 1 /\ rule_offset(h, d, i) \in Nat
    BY <1>1, <2>3
  <2>5. a \in Nat /\ z \in Nat /\ z >= 1 /\ rule_offset(h, d, i) = a + z - 1
    <3>1. a \in Nat /\ z \in Nat /\ m \in Nat /\ n \in Nat /\ z = m + n + 1
      BY <2>2 DEF Span
    <3>2. rule_offset(h, d, i) = a + z - 1
      BY <2>1, <2>2 DEF Span
    <3> QED
      BY <3>1, <3>2
  <2>6. a2 \in Nat /\ z2 \in Nat
    BY <2>3 DEF Span
  <2>7. CASE c = d
    <3>1. a2 = a /\ z2 = z
      BY <2>2, <2>3, <2>7 DEF Span
    <3> QED
      BY <2>4, <2>5, <3>1
  <2>8. CASE c # d
    <3>1. a + z <= a2 \/ a2 + z2 <= a
      BY <2>2, <2>3, <2>8, Disjoint
    <3> QED
      BY <2>4, <2>5, <2>6, <3>1
  <2> QED
    BY <2>7, <2>8
<1>5. ASSUME NEW c \in DOMAIN h.chains, NEW d \in DOMAIN h.chains,
             NEW i \in DOMAIN h.chains[c].rules, NEW j \in DOMAIN h.chains[d].rules,
             rule_offset(h, c, i) = rule_offset(h, d, j)
      PROVE  c = d /\ i = j
  <2>1. PICK a, z, m, n : Span(h, c, a, z, m, n)
    BY SpanOf
  <2>2. PICK a2, z2, m2, n2 : Span(h, d, a2, z2, m2, n2)
    BY SpanOf
  <2>3. PICK x : x = rule_offset(h, c, i)
    OBVIOUS
  <2>4. /\ i \in 1 .. n /\ x = a + m + i - 1 /\ x \in Nat /\ a <= x /\ x < a + z - 1
        /\ j \in 1 .. n2 /\ x = a2 + m2 + j - 1 /\ a2 <= x /\ x < a2 + z2 - 1
    BY <1>1, <1>5, <2>1, <2>2, <2>3
  <2>5. /\ a \in Nat /\ z \in Nat /\ m \in Nat /\ n \in Nat
        /\ a2 \in Nat /\ z2 \in Nat /\ m2 \in Nat /\ n2 \in Nat
        /\ a = head_offset(h, c) /\ a2 = head_offset(h, d) /\ m = Header(c) /\ m2 = Header(d)
    BY <2>1, <2>2 DEF Span
  <2>6. c = d
    <3> SUFFICES ASSUME c # d PROVE FALSE
      OBVIOUS
    <3>1. a + z <= a2 \/ a2 + z2 <= a
      BY <2>1, <2>2, Disjoint
    <3> QED
      BY <2>4, <2>5, <3>1
  <2>7. a = a2 /\ m = m2
    BY <2>5, <2>6
  <2> QED
    BY <2>4, <2>5, <2>6, <2>7
<1> QED
  BY <1>3, <1>4, <1>5

\* The elements of chain c in a list laid out like a table: v for the rules, w for the foot.
ValuePart(h, v, w, c) ==
    IF c \notin DOMAIN h.chains THEN <<>>
    ELSE (IF c \in BuiltIn THEN <<>> ELSE <<0>>)
         \o [i \in DOMAIN h.chains[c].rules |-> v[c][i]] \o <<w[c]>>

\* Such a list, of all chains and with the last entry.
Values(h, v, w) == FlattenSeq([i \in DOMAIN Order |-> ValuePart(h, v, w, Order[i])]) \o <<0>>

\* The part of a chain is as long as the chain, with the values of the rules behind the header.
LEMMA ValuePartAt ==
    ASSUME NEW h, HasRules(h), NEW v, NEW w, NEW c
    PROVE  LET s == ValuePart(h, v, w, c) IN
           /\ IsSeq(s) /\ Len(s) = Size(h, c)
           /\ c \in DOMAIN h.chains =>
                 \A i \in DOMAIN h.chains[c].rules : s[Header(c) + i] = v[c][i]
<1>1. CASE c \notin DOMAIN h.chains
  <2>1. ValuePart(h, v, w, c) = <<>> /\ Size(h, c) = 0
    BY <1>1 DEF ValuePart, Size
  <2>2. IsSeq(<<>>) /\ Len(<<>>) = 0
    BY NoJumps
  <2> QED
    BY <1>1, <2>1, <2>2
<1>2. CASE c \in DOMAIN h.chains
  <2>1. PICK n \in Nat : n = Len(h.chains[c].rules) /\ DOMAIN h.chains[c].rules = 1 .. n
    BY <1>2, SeqFacts DEF HasRules
  <2>2. PICK b : b = [i \in 1 .. n |-> v[c][i]]
    OBVIOUS
  <2>3. PICK a : a = IF c \in BuiltIn THEN <<>> ELSE <<0>>
    OBVIOUS
  <2>4. PICK z : z = w[c]
    OBVIOUS
  <2>5. PICK f : f = <<z>>
    OBVIOUS
  <2>6. ValuePart(h, v, w, c) = a \o b \o f
    BY <1>2, <2>1, <2>2, <2>3, <2>4, <2>5 DEF ValuePart
  <2> DEFINE V == {b[i] : i \in 1 .. n} \cup {z, 0}
  <2>7. a \in Seq(V) /\ Len(a) = Header(c)
    <3>1. 0 \in V
      OBVIOUS
    <3> HIDE DEF V
    <3>2. CASE c \in BuiltIn
      BY <2>3, <3>2 DEF Header
    <3>3. CASE c \notin BuiltIn
      BY <2>3, <3>1, <3>3 DEF Header
    <3> QED
      BY <3>2, <3>3
  <2>8. b \in Seq(V) /\ Len(b) = n
    BY <2>2
  <2>9. f \in Seq(V) /\ Len(f) = 1
    BY <2>5
  <2> HIDE DEF V
  <2>10. PICK s : s = a \o b \o f
    OBVIOUS
  <2>11. /\ s \in Seq(V) /\ Len(s) = Len(a) + Len(b) + Len(f)
         /\ \A i \in 1 .. Len(b) : s[Len(a) + i] = b[i]
    <3>1. a \in Seq(V) /\ b \in Seq(V) /\ f \in Seq(V)
      BY <2>7, <2>8, <2>9
    <3>2. /\ s \in Seq(V) /\ Len(s) = Len(a) + Len(b) + Len(f)
          /\ \A i \in 1 .. Len(a) : s[i] = a[i]
          /\ \A i \in 1 .. Len(b) : s[Len(a) + i] = b[i]
          /\ \A i \in 1 .. Len(f) : s[Len(a) + Len(b) + i] = f[i]
      BY <2>10, <3>1, InARow
    <3> QED
      BY <3>2
  <2>12. PICK m \in {0, 1} : m = Header(c)
    BY DEF Header
  <2>13. Len(s) = m + n + 1 /\ Size(h, c) = m + n + 1
    BY <1>2, <2>1, <2>7, <2>8, <2>9, <2>11, <2>12 DEF Size
  <2>14. \A i \in 1 .. n : s[m + i] = v[c][i]
    BY <2>2, <2>7, <2>8, <2>11, <2>12
  <2>15. IsSeq(s)
    BY <2>11, SeqIsSeq
  <2> QED
    BY <2>1, <2>6, <2>10, <2>12, <2>13, <2>14, <2>15
<1> QED
  BY <1>1, <1>2

\* The value of a rule is at its place.
LEMMA ValuesAt ==
    ASSUME NEW h, Placed(h), NEW v, NEW w
    PROVE  LET f == Values(h, v, w) IN
           /\ IsSeq(f) /\ Len(f) = new_number(h)
           /\ \A c \in DOMAIN h.chains : \A i \in DOMAIN h.chains[c].rules :
                 f[rule_offset(h, c, i)] = v[c][i]
<1>1. PICK k : k = Len(Order)
  OBVIOUS
<1>2. k \in Nat /\ DOMAIN Order = 1 .. k /\ HasRules(h) /\ DOMAIN h.chains \subseteq ChainNames
  BY <1>1, OffsetsMade DEF Placed
<1>3. PICK ss : ss = [i \in 1 .. k |-> ValuePart(h, v, w, Order[i])]
  OBVIOUS
<1>4. \A i \in 1 .. k : IsSeq(ss[i]) /\ Len(ss[i]) = Size(h, Order[i])
  BY <1>2, <1>3, ValuePartAt
<1> DEFINE V == (UNION {{ss[i][j] : j \in DOMAIN ss[i]} : i \in 1 .. k}) \cup {0}
<1>5. \A i \in 1 .. k : ss[i] \in Seq(V)
  <2> TAKE i \in 1 .. k
  <2>1. PICK s : s = ss[i]
    OBVIOUS
  <2>2. IsSeq(s) /\ {s[j] : j \in DOMAIN s} \subseteq V
    BY <1>4, <2>1
  <2> HIDE DEF V
  <2>3. s \in Seq(V)
    BY <2>2 DEF IsSeq
  <2> QED
    BY <2>1, <2>3
<1>6. 0 \in V
  OBVIOUS
<1> HIDE DEF V
<1>7. PartsFor(h, V, ss)
  BY <1>1, <1>3, <1>4, <1>5 DEF PartsFor
<1>8. PICK f : f = FlattenSeq(ss) \o <<0>>
  OBVIOUS
<1>9. /\ f \in Seq(V) /\ Len(f) = new_number(h)
      /\ \A i \in 1 .. Len(Order) : \A j \in 1 .. Size(h, Order[i]) :
            f[Offsets(h)[i - 1] + j - 1] = ss[i][j]
  <2>1. LaidOut(h, V, ss, f)
    BY <1>2, <1>6, <1>7, <1>8, LaidParts
  <2> QED
    BY <2>1 DEF LaidOut
<1>10. Values(h, v, w) = f
  BY <1>2, <1>3, <1>8 DEF Values
<1>11. ASSUME NEW c \in DOMAIN h.chains, NEW i \in DOMAIN h.chains[c].rules
       PROVE  f[rule_offset(h, c, i)] = v[c][i]
  <2>1. PICK l \in 1 .. k : l = Place[c] /\ Order[l] = c
    BY <1>2, PlaceOf
  <2>2. PICK a : a = head_offset(h, c)
    OBVIOUS
  <2>3. a = Offsets(h)[l - 1] /\ ss[l] = ValuePart(h, v, w, c)
    BY <1>3, <2>1, <2>2 DEF head_offset
  <2>4. PICK m, n : m = Header(c) /\ n = Len(h.chains[c].rules)
    OBVIOUS
  <2>5. m \in {0, 1} /\ n \in Nat /\ DOMAIN h.chains[c].rules = 1 .. n /\ Size(h, c) = m + n + 1 /\ a \in Nat
    BY <1>2, <2>2, <2>4, ChainSpan, SeqFacts DEF HasRules
  <2>6. m + i \in 1 .. Size(h, c) /\ rule_offset(h, c, i) = a + (m + i) - 1
    BY <2>2, <2>4, <2>5 DEF rule_offset
  <2>7. f[a + (m + i) - 1] = ss[l][m + i]
    BY <1>1, <1>9, <2>1, <2>3, <2>6
  <2>8. ss[l][m + i] = v[c][i]
    BY <1>2, <2>3, <2>4, ValuePartAt
  <2> QED
    BY <2>6, <2>7, <2>8
<1>12. IsSeq(f)
  BY <1>9, SeqIsSeq
<1> QED
  BY <1>9, <1>10, <1>11, <1>12

\* The counters of a commit are laid out like the table.
LEMMA NewCountersAt ==
    ASSUME NEW h, Placed(h), NEW counters
    PROVE  LET f == newcounters(h, counters) IN
           /\ IsSeq(f) /\ Len(f) = new_number(h)
           /\ \A c \in DOMAIN h.chains : \A i \in DOMAIN h.chains[c].rules :
                 f[rule_offset(h, c, i)] = NewCounter(h.chains[c].rules[i], counters)
<1> DEFINE foot(c) == IF c \in BuiltIn THEN NewCounter(h.chains[c], counters) ELSE 0
           body(c) == [i \in DOMAIN h.chains[c].rules |-> NewCounter(h.chains[c].rules[i], counters)]
           part(c) == IF c \notin DOMAIN h.chains THEN <<>>
                      ELSE (IF c \in BuiltIn THEN <<>> ELSE <<0>>) \o body(c) \o <<foot(c)>>
<1>1. newcounters(h, counters) = FlattenSeq([i \in DOMAIN Order |-> part(Order[i])]) \o <<0>>
  BY DEF newcounters, PerEntry, Laid
<1> HIDE DEF foot, body
<1>2. PICK v, w : v = [c \in DOMAIN h.chains |-> body(c)] /\ w = [c \in DOMAIN h.chains |-> foot(c)]
  OBVIOUS
<1>3. ASSUME NEW c \in DOMAIN h.chains
      PROVE  body(c) = [i \in DOMAIN h.chains[c].rules |-> v[c][i]] /\ w[c] = foot(c)
  BY <1>2 DEF body
<1>4. \A c : part(c) = ValuePart(h, v, w, c)
  BY <1>3 DEF ValuePart
<1> HIDE DEF part
<1>5. newcounters(h, counters) = Values(h, v, w)
  BY <1>1, <1>4 DEF Values
<1>6. \A c \in DOMAIN h.chains : \A i \in DOMAIN h.chains[c].rules :
         v[c][i] = NewCounter(h.chains[c].rules[i], counters)
  BY <1>2 DEF body
<1> QED
  BY <1>5, <1>6, ValuesAt

\* What an entry made of x should have counted, with the entries Z asked to be zeroed.
HitOf(x, Z, counters) ==
    IF x.from = 0 THEN x.cnt
    ELSE IF x.from \notin Z THEN hits[x.from]
    ELSE IF "rules" \in DOMAIN x THEN NewCounter(x, counters)
    ELSE Counter(hits[x.from] - x.cnt)

\* A sequence gives each rule of a handle, at its offset, what it has counted.
HitsLaid(f, h, Z, counters) ==
    /\ IsSeq(f) /\ Len(f) = new_number(h)
    /\ \A c \in DOMAIN h.chains : \A i \in DOMAIN h.chains[c].rules :
          f[rule_offset(h, c, i)] = HitOf(h.chains[c].rules[i], Z, counters)

\* So is the history.
LEMMA HitsAt ==
    ASSUME NEW p, NEW h, h = handle[p], Placed(h),
           NEW counters, counters = [i \in DOMAIN kernel.entries |-> kernel.entries[i].cnt]
    PROVE  HitsLaid(HitsAfter(p), h, asked[p], counters)
<1> DEFINE foot(c) == IF c \in BuiltIn THEN HitOf(h.chains[c], asked[p], counters) ELSE 0
           body(c) == [i \in DOMAIN h.chains[c].rules |-> HitOf(h.chains[c].rules[i], asked[p], counters)]
           part(c) == IF c \notin DOMAIN h.chains THEN <<>>
                      ELSE (IF c \in BuiltIn THEN <<>> ELSE <<0>>) \o body(c) \o <<foot(c)>>
<1>1. HitsAfter(p) = FlattenSeq([i \in DOMAIN Order |-> part(Order[i])]) \o <<0>>
  BY DEF HitsAfter, PerEntry, Laid, HitOf
<1> HIDE DEF foot, body
<1>2. PICK v, w : v = [c \in DOMAIN h.chains |-> body(c)] /\ w = [c \in DOMAIN h.chains |-> foot(c)]
  OBVIOUS
<1>3. ASSUME NEW c \in DOMAIN h.chains
      PROVE  body(c) = [i \in DOMAIN h.chains[c].rules |-> v[c][i]] /\ w[c] = foot(c)
  BY <1>2 DEF body
<1>4. \A c : part(c) = ValuePart(h, v, w, c)
  BY <1>3 DEF ValuePart
<1> HIDE DEF part
<1>5. HitsAfter(p) = Values(h, v, w)
  BY <1>1, <1>4 DEF Values
<1>6. \A c \in DOMAIN h.chains : \A i \in DOMAIN h.chains[c].rules :
         v[c][i] = HitOf(h.chains[c].rules[i], asked[p], counters)
  BY <1>2 DEF body
<1>7. PICK f : f = Values(h, v, w)
  OBVIOUS
<1>8. /\ IsSeq(f) /\ Len(f) = new_number(h)
      /\ \A c \in DOMAIN h.chains : \A i \in DOMAIN h.chains[c].rules :
            f[rule_offset(h, c, i)] = v[c][i]
  BY <1>7, ValuesAt
<1>9. \A c \in DOMAIN h.chains : \A i \in DOMAIN h.chains[c].rules :
         f[rule_offset(h, c, i)] = HitOf(h.chains[c].rules[i], asked[p], counters)
  BY <1>6, <1>8
<1>10. HitsLaid(f, h, asked[p], counters)
  BY <1>8, <1>9 DEF HitsLaid
<1> QED
  BY <1>5, <1>7, <1>10

\* Counting moves no rule.
LEMMA RecountedPlaces ==
    ASSUME NEW k, NEW l, Written(k), Recounted(k, l)
    PROVE  RulePlaces(l) = RulePlaces(k)
<1>1. PICK h : Good(h) /\ TableOf(k, h)
  BY DEF Written
<1>2. TableOf(l, h)
  BY <1>1, RecountedTable
<1> QED
  BY <1>1, <1>2, TablePlaces

\* The rules of a table are among its entries.
LEMMA PlacesInside ==
    ASSUME NEW blob, Written(blob), NEW i \in RulePlaces(blob)
    PROVE  i \in Nat /\ i # 0 /\ i \in DOMAIN blob.entries
<1>1. PICK h : Good(h) /\ TableOf(blob, h)
  BY DEF Written
<1>2. i \in Places(h)
  BY <1>1, TablePlaces
<1>3. i \in Nat /\ i >= 1 /\ i < new_number(h)
  BY <1>1, <1>2, PlaceFacts
<1>4. DOMAIN blob.entries = 1 .. Len(blob.entries) /\ Len(blob.entries) = new_number(h) /\ Len(blob.entries) \in Nat
  BY <1>1, SeqFacts DEF TableOf, IsBlob
<1> QED
  BY <1>3, <1>4

\* The first pass gives each rule its place, its counter as it was, and no other.
LEMMA PassedRule ==
    ASSUME NEW e, NEW at, NEW r, r = ParsedRule(e, at)
    PROVE  /\ {"from", "map", "pos", "cnt"} \subseteq DOMAIN r
           /\ r.from = at /\ r.pos = at /\ r.map = "NORMAL" /\ r.cnt = e.cnt
BY DEF ParsedRule

\* Resolving a jump changes nothing of a counter.
LEMMA ResolvedTwin == \A blob, r : Twin(Resolved(blob, r), r)
<1> TAKE blob, r
<1>1. PICK c : c = ChainOf(blob, Min(Targets(blob, r.verdict)))
  OBVIOUS
<1>2. Resolved(blob, r) = r \/ Resolved(blob, r) = [r EXCEPT !.jump = c, !.verdict = 0]
  BY <1>1 DEF Resolved
<1>3. Twin([r EXCEPT !.jump = c, !.verdict = 0], r)
  BY DEF Twin
<1> QED
  BY <1>2, <1>3, TwinItself

\* A chain of the first pass: its policy is of no rule, and its rules are those at its places.
LEMMA ChainRead ==
    ASSUME NEW h, Good(h), NEW blob, TableOf(blob, h), NEW c \in DOMAIN h.chains
    PROVE  LET p == __iptcc_p_del_policy(blob, head_offset(h, c)) IN
           /\ {"from", "rules", "references"} \subseteq DOMAIN p
           /\ p.from = head_offset(h, c) + Size(h, c) - 1
           /\ DOMAIN p.rules = DOMAIN h.chains[c].rules
           /\ \A j \in DOMAIN h.chains[c].rules :
                 p.rules[j] = ParsedRule(blob.entries[rule_offset(h, c, j)], rule_offset(h, c, j))
<1>1. PICK a, z, m, n : Span(h, c, a, z, m, n)
  BY SpanOf
<1>2. /\ a \in Nat /\ z \in Nat /\ m \in Nat /\ n \in Nat /\ z = m + n + 1
      /\ a = head_offset(h, c) /\ DOMAIN h.chains[c].rules = 1 .. n /\ z = Size(h, c) /\ m = Header(c)
  BY <1>1 DEF Span
<1>3. FirstEntry(blob, a) = a + m /\ LastEntry(blob, a) = a + z - 1
  BY <1>1, ChainFound
<1>4. PICK f, l : f = a + m /\ l = a + z - 1
  OBVIOUS
<1>5. f \in Nat /\ l - f = n
  <2>1. a \in Nat /\ z \in Nat /\ m \in Nat /\ n \in Nat /\ z = m + n + 1
    BY <1>2
  <2> QED
    BY <1>4, <2>1
<1>6. PICK rs : rs = [k \in 1 .. n |-> ParsedRule(blob.entries[f + k - 1], f + k - 1)]
  OBVIOUS
<1>7. PICK p : p = __iptcc_p_del_policy(blob, a)
  OBVIOUS
<1>8. {"from", "rules", "references"} \subseteq DOMAIN p /\ p.rules = rs /\ p.from = l
  BY <1>3, <1>4, <1>5, <1>6, <1>7 DEF __iptcc_p_del_policy
<1>9. ASSUME NEW j \in 1 .. n
      PROVE  rs[j] = ParsedRule(blob.entries[rule_offset(h, c, j)], rule_offset(h, c, j))
  <2>1. rule_offset(h, c, j) = f + j - 1
    BY <1>2, <1>4 DEF rule_offset
  <2> QED
    BY <1>6, <2>1
<1>10. DOMAIN rs = 1 .. n
  BY <1>6
<1> QED
  BY <1>2, <1>4, <1>7, <1>8, <1>9, <1>10

\* What parse_table makes of the chains, and where it has the rules from.
Origin(h, blob, g) ==
    /\ DOMAIN g = DOMAIN h.chains
    /\ \A c \in DOMAIN g :
          /\ "from" \in DOMAIN g[c] /\ g[c].from = head_offset(h, c) + Size(h, c) - 1
          /\ DOMAIN g[c].rules = DOMAIN h.chains[c].rules
          /\ \A j \in DOMAIN g[c].rules :
                Twin(g[c].rules[j], ParsedRule(blob.entries[rule_offset(h, c, j)], rule_offset(h, c, j)))

\* The chains of a handle just read come from the places the table has them at.
LEMMA ParsedOrigin ==
    ASSUME NEW h, Good(h), NEW blob, TableOf(blob, h)
    PROVE  Origin(h, blob, parse_table(blob).chains)
<1> DEFINE N == {ChainOf(blob, i) : i \in Starts(blob)}
           start == [c \in N |-> CHOOSE i \in Starts(blob) : ChainOf(blob, i) = c]
           first == [c \in DOMAIN start |-> __iptcc_p_del_policy(blob, start[c])]
           second == [c \in DOMAIN first |->
                        [first[c] EXCEPT !.rules = [k \in DOMAIN @ |-> Resolved(blob, @[k])]]]
           chains == [c \in DOMAIN second |->
                        [second[c] EXCEPT !.references = Cardinality(Jumps(second, c))]]
<1>1. parse_table(blob).chains = chains
  BY DEF parse_table
<1>2. \A c \in DOMAIN h.chains : ChainOf(blob, head_offset(h, c)) = c
  <2> TAKE c \in DOMAIN h.chains
  <2>1. PICK a, z, m, n : Span(h, c, a, z, m, n)
    BY SpanOf
  <2>2. ChainOf(blob, a) = c
    BY <2>1, ChainFound
  <2> QED
    BY <2>1, <2>2 DEF Span
<1>3. Starts(blob) = {head_offset(h, c) : c \in DOMAIN h.chains}
  BY TableStarts
<1>4. N = DOMAIN h.chains
  BY <1>2, <1>3
<1>5. \A c \in N : start[c] = head_offset(h, c)
  <2> TAKE c \in N
  <2>1. \E i \in Starts(blob) : ChainOf(blob, i) = c
    OBVIOUS
  <2>2. start[c] \in Starts(blob) /\ ChainOf(blob, start[c]) = c
    BY <2>1
  <2> HIDE DEF start
  <2>3. PICK d \in DOMAIN h.chains : start[c] = head_offset(h, d)
    BY <1>3, <2>2
  <2>4. d = c
    BY <1>2, <2>2, <2>3
  <2> QED
    BY <2>3, <2>4
<1>6. DOMAIN chains = N
  OBVIOUS
<1>7. ASSUME NEW c \in N
      PROVE  /\ "from" \in DOMAIN chains[c] /\ chains[c].from = head_offset(h, c) + Size(h, c) - 1
             /\ DOMAIN chains[c].rules = DOMAIN h.chains[c].rules
             /\ \A j \in DOMAIN h.chains[c].rules :
                   Twin(chains[c].rules[j],
                        ParsedRule(blob.entries[rule_offset(h, c, j)], rule_offset(h, c, j)))
  <2>1. PICK p : p = __iptcc_p_del_policy(blob, head_offset(h, c))
    OBVIOUS
  <2>2. c \in DOMAIN h.chains
    BY <1>4
  <2>3. /\ {"from", "rules", "references"} \subseteq DOMAIN p
        /\ p.from = head_offset(h, c) + Size(h, c) - 1
        /\ DOMAIN p.rules = DOMAIN h.chains[c].rules
        /\ \A j \in DOMAIN h.chains[c].rules :
              p.rules[j] = ParsedRule(blob.entries[rule_offset(h, c, j)], rule_offset(h, c, j))
    BY <2>1, <2>2, ChainRead
  <2>4. first[c] = p
    BY <1>5, <2>1
  <2>5. PICK rs : rs = [k \in DOMAIN p.rules |-> Resolved(blob, p.rules[k])]
    OBVIOUS
  <2>6. second[c] = [p EXCEPT !.rules = rs]
    BY <2>4, <2>5
  <2>7. PICK x : x = Cardinality(Jumps(second, c))
    OBVIOUS
  <2>8. PICK s : s = second[c]
    OBVIOUS
  <2>9. chains[c] = [s EXCEPT !.references = x]
    BY <2>7, <2>8
  <2> HIDE DEF chains, second, first, start, N
  <2>10. DOMAIN s = DOMAIN p /\ s.rules = rs /\ s.from = p.from
    BY <2>3, <2>6, <2>8
  <2>11. chains[c].rules = rs /\ chains[c].from = p.from /\ "from" \in DOMAIN chains[c]
    BY <2>3, <2>9, <2>10
  <2>12. \A j \in DOMAIN h.chains[c].rules : Twin(rs[j], p.rules[j])
    BY <2>3, <2>5, ResolvedTwin
  <2> QED
    BY <2>3, <2>5, <2>11, <2>12
<1> HIDE DEF chains
<1> QED
  BY <1>1, <1>4, <1>6, <1>7 DEF Origin

\* A handle just read tracks every rule of the table.
LEMMA ParsedLedger ==
    ASSUME NEW h, Good(h), NEW blob, TableOf(blob, h), \A i \in Places(h) : blob.entries[i].cnt \in Int
    PROVE  Ledger(parse_table(blob).chains, Places(h), {})
<1>1. PICK g : g = parse_table(blob).chains
  OBVIOUS
<1>2. Origin(h, blob, g)
  BY <1>1, ParsedOrigin
<1>3. DOMAIN g = DOMAIN h.chains /\ \A c \in DOMAIN g : DOMAIN g[c].rules = DOMAIN h.chains[c].rules
  BY <1>2 DEF Origin
<1>4. PICK T : T = Places(h)
  OBVIOUS
<1>5. ASSUME NEW c \in DOMAIN g
      PROVE  Aside(g[c], T)
  <2>1. "from" \in DOMAIN g[c] /\ g[c].from = head_offset(h, c) + Size(h, c) - 1
    BY <1>2 DEF Origin
  <2>2. head_offset(h, c) + Size(h, c) - 1 \notin T
    BY <1>3, <1>4, PlaceFacts
  <2> QED
    BY <2>1, <2>2 DEF Aside
<1>6. ASSUME NEW c \in DOMAIN g, NEW j \in DOMAIN g[c].rules
      PROVE  Tracked(g[c].rules[j], T, {}) /\ g[c].rules[j].from = rule_offset(h, c, j)
  <2>1. PICK at : at = rule_offset(h, c, j)
    OBVIOUS
  <2>2. PICK e, x : e = blob.entries[at] /\ x = g[c].rules[j]
    OBVIOUS
  <2>3. PICK r : r = ParsedRule(e, at)
    OBVIOUS
  <2>4. Twin(x, r)
    BY <1>2, <2>1, <2>2, <2>3 DEF Origin
  <2>5. at \in Places(h)
    BY <1>3, <2>1 DEF Places
  <2>6. at # 0 /\ at \in T /\ e.cnt \in Int
    <3>1. at \in Nat /\ at >= 1
      BY <2>5, PlaceFacts
    <3> QED
      BY <1>4, <2>2, <2>5, <3>1
  <2>7. /\ {"from", "map", "pos", "cnt"} \subseteq DOMAIN r
        /\ r.from = at /\ r.pos = at /\ r.map = "NORMAL" /\ r.cnt = e.cnt
    BY <2>3, PassedRule
  <2>8. Tracked(r, T, {})
    BY <2>6, <2>7 DEF Tracked
  <2> QED
    BY <2>1, <2>2, <2>4, <2>7, <2>8, TwinTracked
<1>7. Apart(g)
  BY <1>3, <1>6, PlaceFacts DEF Apart
<1> QED
  BY <1>1, <1>4, <1>5, <1>6, <1>7 DEF Ledger

-----------------------------------------------------------------------------
(* The invariant of the counters.                                          *)

\* Every rule at T has a counter in the table e, and hits of its own.
Known(e, T) ==
    \A i \in T : /\ "cnt" \in DOMAIN e[i] /\ e[i].cnt \in Int
                 /\ i \in DOMAIN hits /\ hits[i] \in CounterRange

\* The kernel's counters are the hits.
Even(e, T) == \A i \in T : e[i].cnt = hits[i]

\* What the kernel has counted with what is still to be added is what there was to count.
Due(e, add, T) == \A i \in T : add[i] \in Int /\ hits[i] = Counter(e[i].cnt + add[i])

\* What a program knows of the counters, between its start and its end.
KeptBy(p, T) ==
    /\ pc[p] \in {"idle", "info"} => asked[p] = {}
    /\ pc[p] = "use" => Ledger(handle[p].chains, T, asked[p])
    /\ pc[p] = "replaced" => Due(kernel.entries, newcounters(handle[p], old[p]), T)

\* No program is between its two setsockopts.
Nobody == \A p \in Procs : pc[p] # "replaced"

\* Under the lock, of the rules at T of the kernel's table.
Keeping(T) ==
    /\ Known(kernel.entries, T)
    /\ Nobody => Even(kernel.entries, T)
    /\ \A p \in Procs : KeptBy(p, T)

\* The invariant: what every program knows of the counters, under the lock.
KeptInv ==
    /\ DOMAIN asked = Procs /\ DOMAIN old = Procs
    /\ locking = Procs => Keeping(RulePlaces(kernel))

\* Where a rule is in the compiled table.
LEMMA CompiledRuleAt ==
    ASSUME NEW h, Good(h), NEW c \in DOMAIN h.chains, NEW i \in DOMAIN h.chains[c].rules
    PROVE  iptcc_compile_table(h).entries[rule_offset(h, c, i)]
             = iptcc_compile_rule(h, h.chains[c].rules[i], rule_offset(h, c, i))
<1>1. PICK f : f = iptcc_compile_table(h).entries
  OBVIOUS
<1>2. Placed(h) /\ HasRules(h) /\ c \in ChainNames
  BY GoodIsPlaced DEF Placed
<1>3. \A j \in 1 .. Size(h, c) : f[head_offset(h, c) + j - 1] = ChainEntries(h, c)[j]
  BY <1>1, <1>2, Compiled
<1>4. PICK s : s = ChainEntries(h, c)
  OBVIOUS
<1>5. PartOf(h, c, s)
  BY <1>2, <1>4, ChainPart
<1>6. PICK a, z, m, n : Span(h, c, a, z, m, n)
  BY SpanOf
<1>7. /\ a \in Nat /\ z \in Nat /\ m \in Nat /\ n \in Nat /\ z = m + n + 1 /\ i \in 1 .. n
  BY <1>6 DEF Span
<1>8. a = head_offset(h, c) /\ z = Size(h, c) /\ m = Header(c)
  BY <1>6 DEF Span
<1>9. m + i \in 1 .. z /\ a + (m + i) - 1 = a + m + i - 1
  BY <1>7
<1>10. f[a + m + i - 1] = s[m + i]
  BY <1>3, <1>4, <1>8, <1>9
<1>11. rule_offset(h, c, i) = a + m + i - 1
  BY <1>8 DEF rule_offset
<1>12. s[m + i] = iptcc_compile_rule(h, h.chains[c].rules[i], rule_offset(h, c, i))
  BY <1>5, <1>8 DEF PartOf
<1> QED
  BY <1>1, <1>10, <1>11, <1>12

\* A compiled rule has a counter.
LEMMA CompiledCounter ==
    ASSUME NEW h, Good(h), NEW i \in Places(h)
    PROVE  "cnt" \in DOMAIN iptcc_compile_table(h).entries[i]
<1>1. PICK c \in DOMAIN h.chains : \E j \in DOMAIN h.chains[c].rules : i = rule_offset(h, c, j)
  BY DEF Places
<1>2. PICK j \in DOMAIN h.chains[c].rules : i = rule_offset(h, c, j)
  BY <1>1
<1>3. PICK r : r = h.chains[c].rules[j]
  OBVIOUS
<1>4. iptcc_compile_table(h).entries[i] = iptcc_compile_rule(h, r, i)
  BY <1>2, <1>3, CompiledRuleAt
<1>5. "cnt" \in DOMAIN iptcc_compile_rule(h, r, i)
  BY DEF iptcc_compile_rule, Entry
<1> QED
  BY <1>4, <1>5

\* A table is written, and its rules are at the places of the handle.
LEMMA CompiledPlaces ==
    ASSUME NEW h, Good(h), NEW l, Recounted(iptcc_compile_table(h), l)
    PROVE  RulePlaces(l) = Places(h)
<1>1. PICK blob : blob = iptcc_compile_table(h)
  OBVIOUS
<1>2. TableOf(blob, h)
  BY <1>1, GoodIsPlaced, CompiledIsTable
<1>3. TableOf(l, h)
  BY <1>1, <1>2, RecountedTable
<1> QED
  BY <1>3, TablePlaces

\* The places of rules in the compiled table are places of it.
LEMMA CompiledInside ==
    ASSUME NEW h, Good(h), NEW i \in Places(h)
    PROVE  i \in DOMAIN iptcc_compile_table(h).entries
<1>1. PICK f : f = iptcc_compile_table(h).entries
  OBVIOUS
<1>2. IsBlob(f) /\ Len(f) = new_number(h)
  BY <1>1, GoodIsPlaced, Compiled DEF Placed
<1>3. DOMAIN f = 1 .. Len(f) /\ Len(f) \in Nat
  BY <1>2, SeqFacts DEF IsBlob
<1>4. i \in Nat /\ i >= 1 /\ i < new_number(h)
  BY PlaceFacts
<1> QED
  BY <1>1, <1>2, <1>3, <1>4

\* At first the kernel's counters are the hits.
LEMMA InitKept == Init => KeptInv
<1> SUFFICES ASSUME Init
             PROVE  KeptInv
  OBVIOUS
<1>1. PICK t \in Tables : kernel = Counted(iptcc_compile_table(t))
  BY DEF Init
<1>2. Good(t)
  BY CommitAssumption DEF Good
<1>3. PICK blob : blob = iptcc_compile_table(t)
  OBVIOUS
<1>4. {"entries", "hook_entry"} \subseteq DOMAIN blob
  BY <1>3 DEF iptcc_compile_table
<1>5. PICK e : e = blob.entries
  OBVIOUS
<1>6. PICK f : f = [i \in DOMAIN e |-> [e[i] EXCEPT !.cnt = Counter(i)]]
  OBVIOUS
<1>7. kernel = [blob EXCEPT !.entries = f]
  BY <1>1, <1>3, <1>5, <1>6 DEF Counted
<1>8. kernel.entries = f /\ kernel.hook_entry = blob.hook_entry /\ DOMAIN kernel = DOMAIN blob
  BY <1>4, <1>7
<1>9. Recount(e, f)
  BY <1>6 DEF Recount
<1>10. Recounted(blob, kernel)
  BY <1>4, <1>5, <1>8, <1>9 DEF Recounted
<1>11. PICK T : T = Places(t)
  OBVIOUS
<1>12. RulePlaces(kernel) = T
  BY <1>2, <1>3, <1>10, <1>11, CompiledPlaces
<1>13. hits = [i \in DOMAIN f |-> f[i].cnt]
  BY <1>8 DEF Init
<1>14. ASSUME NEW i \in T
       PROVE  /\ "cnt" \in DOMAIN f[i] /\ f[i].cnt \in CounterRange
              /\ i \in DOMAIN hits /\ hits[i] = f[i].cnt
  <2>1. i \in DOMAIN e /\ "cnt" \in DOMAIN e[i]
    BY <1>2, <1>3, <1>5, <1>11, CompiledInside, CompiledCounter
  <2>2. i \in Int
    BY <1>2, <1>11, PlaceFacts
  <2>3. Counter(i) \in CounterRange
    BY <2>2, CounterFacts
  <2>4. f[i] = [e[i] EXCEPT !.cnt = Counter(i)] /\ i \in DOMAIN f
    BY <1>6, <2>1
  <2>5. "cnt" \in DOMAIN f[i] /\ f[i].cnt = Counter(i)
    BY <2>1, <2>4
  <2> QED
    BY <1>13, <2>3, <2>4, <2>5
<1>15. \A n \in CounterRange : n \in Int
  BY CommitAssumption DEF CounterRange
<1>16. Known(f, T) /\ Even(f, T)
  BY <1>14, <1>15 DEF Known, Even
<1>17. \A p \in Procs : KeptBy(p, T)
  BY DEF Init, KeptBy
<1>18. DOMAIN asked = Procs /\ DOMAIN old = Procs
  BY DEF Init
<1> QED
  BY <1>8, <1>12, <1>16, <1>17, <1>18 DEF KeptInv, Keeping

-----------------------------------------------------------------------------
(* The steps.                                                              *)

\* A program a step leaves alone.
Alone(q) == pc'[q] = pc[q] /\ asked'[q] = asked[q] /\ handle'[q] = handle[q] /\ old'[q] = old[q]

\* It still knows what it knew.
LEMMA AloneKept ==
    ASSUME NEW T, NEW q, KeptBy(q, T), Alone(q), UNCHANGED <<kernel, hits>>
    PROVE  KeptBy(q, T)'
<1>1. Due(kernel.entries, newcounters(handle[q], old[q]), T)
        => Due(kernel.entries, newcounters(handle[q], old[q]), T)'
  BY DEF Due, Alone
<1> QED
  BY <1>1 DEF KeptBy, Alone

\* The invariant after a step, of the places there are then.
LEMMA KeepingAt ==
    ASSUME KeptInv, locking' = locking, DOMAIN asked' = Procs, DOMAIN old' = Procs,
           NEW T, RulePlaces(kernel)' = T, locking = Procs => Keeping(T)'
    PROVE  KeptInv'
BY DEF KeptInv

\* A step that counts nothing and leaves who has replaced the table as it is.
LEMMA SteadyKept ==
    ASSUME KeptInv, UNCHANGED <<locking, kernel, hits>>,
           DOMAIN asked' = Procs, DOMAIN old' = Procs, Nobody' => Nobody,
           \A T : locking = Procs /\ T = RulePlaces(kernel) => \A q \in Procs : KeptBy(q, T)'
    PROVE  KeptInv'
<1>1. PICK T : T = RulePlaces(kernel)
  OBVIOUS
<1>2. ASSUME locking = Procs
      PROVE  Keeping(T)'
  <2>1. Keeping(T)
    BY <1>1, <1>2 DEF KeptInv
  <2>2. Known(kernel.entries, T)' /\ (Nobody' => Even(kernel.entries, T)')
    BY <2>1 DEF Keeping, Known, Even
  <2>3. \A q \in Procs : KeptBy(q, T)'
    BY <1>1, <1>2
  <2> QED
    BY <2>2, <2>3 DEF Keeping
<1>3. RulePlaces(kernel)' = T
  BY <1>1
<1> QED
  BY <1>2, <1>3, KeepingAt

\* A program that ends without having replaced the table.
LEMMA LeaveKept ==
    ASSUME KeptInv, LockInv, CommitInv, NEW p \in Procs, pc[p] # "replaced", Leave(p),
           UNCHANGED <<locking, kernel, hits>>
    PROVE  KeptInv'
<1>1. /\ DOMAIN pc = Procs /\ DOMAIN handle = Procs /\ DOMAIN asked = Procs /\ DOMAIN old = Procs
  BY DEF LockInv, CommitInv, HandlesInv, KeptInv
<1>2. DOMAIN asked' = Procs /\ DOMAIN old' = Procs /\ asked'[p] = {} /\ pc'[p] = "idle"
  BY <1>1 DEF Leave
<1>3. \A q \in Procs \ {p} : Alone(q)
  BY <1>1 DEF Leave, Alone
<1>4. Nobody' => Nobody
  BY <1>3 DEF Nobody, Alone
<1>5. ASSUME locking = Procs, NEW T, T = RulePlaces(kernel), NEW q \in Procs
      PROVE  KeptBy(q, T)'
  <2>1. CASE q = p
    BY <1>2, <2>1 DEF KeptBy
  <2>2. CASE q # p
    <3>1. KeptBy(q, T)
      BY <1>5 DEF KeptInv, Keeping
    <3> QED
      BY <1>3, <2>2, <3>1, AloneKept
  <2> QED
    BY <2>1, <2>2
<1> QED
  BY <1>2, <1>4, <1>5, SteadyKept

\* SO_GET_INFO: nothing is asked yet.
LEMMA InfoKept ==
    ASSUME KeptInv, LockInv, NEW p \in Procs, SO_GET_INFO(p)
    PROVE  KeptInv'
<1>1. /\ pc[p] = "idle" /\ pc' = [pc EXCEPT ![p] = "info"]
      /\ UNCHANGED <<locking, kernel, hits, handle, old, asked>>
  BY DEF SO_GET_INFO
<1>2. DOMAIN pc = Procs /\ DOMAIN asked' = Procs /\ DOMAIN old' = Procs
  BY <1>1 DEF LockInv, KeptInv
<1>3. \A q \in Procs \ {p} : Alone(q)
  BY <1>1, <1>2 DEF Alone
<1>4. pc'[p] = "info"
  BY <1>1, <1>2
<1>5. Nobody' => Nobody
  BY <1>1, <1>3 DEF Nobody, Alone
<1>6. ASSUME locking = Procs, NEW T, T = RulePlaces(kernel), NEW q \in Procs
      PROVE  KeptBy(q, T)'
  <2>1. KeptBy(q, T)
    BY <1>6 DEF KeptInv, Keeping
  <2>2. CASE q = p
    BY <1>1, <1>4, <2>1, <2>2 DEF KeptBy
  <2>3. CASE q # p
    BY <1>1, <1>3, <2>1, <2>3, AloneKept
  <2> QED
    BY <2>2, <2>3
<1> QED
  BY <1>1, <1>2, <1>5, <1>6, SteadyKept

\* SO_GET_ENTRIES: the handle tracks every rule of the table.
LEMMA ReadKept ==
    ASSUME KeptInv, CommitInv, LockInv, ReadingInv, NEW p \in Procs, SO_GET_ENTRIES(p)
    PROVE  KeptInv'
<1>1. PICK blob : blob = [entries |-> kernel.entries, hook_entry |-> info[p].hook_entry]
  OBVIOUS
<1>2. pc[p] = "info" /\ UNCHANGED <<locking, kernel, hits>>
  BY DEF SO_GET_ENTRIES
<1>3. \/ Leave(p)
      \/ /\ pc' = [pc EXCEPT ![p] = "wild"] /\ UNCHANGED <<handle, old, asked>>
      \/ /\ pc' = [pc EXCEPT ![p] = "use"] /\ UNCHANGED <<old, asked>>
         /\ handle' = [handle EXCEPT ![p] = parse_table(blob)]
  BY <1>1 DEF SO_GET_ENTRIES
<1>4. CASE Leave(p)
  BY <1>2, <1>4, LeaveKept
<1>5. DOMAIN pc = Procs /\ DOMAIN handle = Procs /\ DOMAIN asked = Procs /\ DOMAIN old = Procs
  BY DEF LockInv, CommitInv, HandlesInv, KeptInv
<1>6. CASE pc' = [pc EXCEPT ![p] = "wild"] /\ UNCHANGED <<handle, old, asked>>
  <2>1. \A q \in Procs \ {p} : Alone(q)
    BY <1>5, <1>6 DEF Alone
  <2>2. pc'[p] = "wild"
    BY <1>5, <1>6
  <2>3. Nobody' => Nobody
    BY <1>2, <2>1 DEF Nobody, Alone
  <2>4. ASSUME locking = Procs, NEW T, T = RulePlaces(kernel), NEW q \in Procs
        PROVE  KeptBy(q, T)'
    <3>1. KeptBy(q, T)
      BY <2>4 DEF KeptInv, Keeping
    <3>2. CASE q = p
      BY <2>2, <3>2 DEF KeptBy
    <3>3. CASE q # p
      BY <1>2, <2>1, <3>1, <3>3, AloneKept
    <3> QED
      BY <3>2, <3>3
  <2>5. DOMAIN asked' = Procs /\ DOMAIN old' = Procs
    BY <1>5, <1>6
  <2> QED
    BY <1>2, <2>3, <2>4, <2>5, SteadyKept
<1>7. CASE /\ pc' = [pc EXCEPT ![p] = "use"] /\ UNCHANGED <<old, asked>>
           /\ handle' = [handle EXCEPT ![p] = parse_table(blob)]
  <2>1. \A q \in Procs \ {p} : Alone(q)
    BY <1>5, <1>7 DEF Alone
  <2>2. pc'[p] = "use" /\ handle'[p] = parse_table(blob) /\ asked'[p] = asked[p]
    BY <1>5, <1>7
  <2>3. Nobody' => Nobody
    BY <1>2, <2>1 DEF Nobody, Alone
  <2>4. ASSUME locking = Procs, NEW T, T = RulePlaces(kernel), NEW q \in Procs
        PROVE  KeptBy(q, T)'
    <3>1. KeptBy(q, T) /\ Known(kernel.entries, T) /\ KeptBy(p, T)
      BY <2>4 DEF KeptInv, Keeping
    <3>2. CASE q # p
      BY <1>2, <2>1, <3>1, <3>2, AloneKept
    <3>3. PICK h : Good(h) /\ TableOf(kernel, h)
      BY <2>4 DEF CommitInv, TablesInv, Written
    <3>4. info[p].hook_entry = kernel.hook_entry
      BY <1>2, <2>4 DEF ReadingInv, OneReading
    <3>5. blob.entries = kernel.entries /\ blob.hook_entry = kernel.hook_entry
      BY <1>1, <3>4
    <3>6. TableOf(blob, h)
      BY <3>3, <3>5 DEF TableOf
    <3>7. T = Places(h)
      BY <2>4, <3>3, TablePlaces
    <3>8. \A i \in Places(h) : blob.entries[i].cnt \in Int
      BY <3>1, <3>5, <3>7 DEF Known
    <3>9. Ledger(parse_table(blob).chains, T, {})
      BY <3>3, <3>6, <3>7, <3>8, ParsedLedger
    <3>10. asked[p] = {}
      BY <1>2, <3>1 DEF KeptBy
    <3>11. Ledger(handle'[p].chains, T, asked'[p])
      BY <2>2, <3>9, <3>10
    <3>12. CASE q = p
      BY <2>2, <3>11, <3>12 DEF KeptBy
    <3> QED
      BY <3>2, <3>12
  <2>5. DOMAIN asked' = Procs /\ DOMAIN old' = Procs
    BY <1>5, <1>7
  <2> QED
    BY <1>2, <2>3, <2>4, <2>5, SteadyKept
<1> QED
  BY <1>3, <1>4, <1>6, <1>7

\* A call that keeps the ledger.
LEMMA CallKept ==
    ASSUME KeptInv, CommitInv, LockInv, NEW p \in Procs, pc[p] = "use", NEW r, NEW z, Call(p, r, z),
           \A T : locking = Procs /\ T = RulePlaces(kernel) => Posted(handle[p], r, T, asked[p], asked[p] \cup z)
    PROVE  KeptInv'
<1>1. /\ r.ok /\ UNCHANGED <<locking, kernel, hits, pc, old>>
      /\ handle' = [handle EXCEPT ![p] = r.h]
      /\ asked' = [asked EXCEPT ![p] = asked[p] \cup z]
  BY DEF Call
<1>2. DOMAIN pc = Procs /\ DOMAIN handle = Procs /\ DOMAIN asked = Procs /\ DOMAIN old = Procs
  BY DEF LockInv, CommitInv, HandlesInv, KeptInv
<1>3. /\ DOMAIN asked' = Procs /\ DOMAIN old' = Procs
      /\ handle'[p] = r.h /\ asked'[p] = asked[p] \cup z
  BY <1>1, <1>2
<1>4. \A q \in Procs \ {p} : Alone(q)
  BY <1>1, <1>2 DEF Alone
<1>5. Nobody' => Nobody
  BY <1>1 DEF Nobody
<1>6. ASSUME locking = Procs, NEW T, T = RulePlaces(kernel), NEW q \in Procs
      PROVE  KeptBy(q, T)'
  <2>1. KeptBy(q, T) /\ KeptBy(p, T)
    BY <1>6 DEF KeptInv, Keeping
  <2>2. CASE q # p
    BY <1>1, <1>4, <2>1, <2>2, AloneKept
  <2>3. Ledger(handle[p].chains, T, asked[p])
    BY <2>1 DEF KeptBy
  <2>4. Posted(handle[p], r, T, asked[p], asked[p] \cup z)
    BY <1>6
  <2>5. Ledger(r.h.chains, T, asked[p] \cup z)
    BY <1>1, <2>3, <2>4 DEF Posted
  <2>6. Ledger(handle'[p].chains, T, asked'[p])
    BY <1>3, <2>5
  <2>7. CASE q = p
    BY <1>1, <2>6, <2>7 DEF KeptBy
  <2> QED
    BY <2>2, <2>7
<1> QED
  BY <1>1, <1>3, <1>5, <1>6, SteadyKept

\* The calls, one by one.
LEMMA CallsKept ==
    ASSUME KeptInv, CommitInv, LockInv, NEW p \in Procs,
           \/ AddRule(p) \/ ReplaceRule(p) \/ DeleteRule(p) \/ CheckRule(p)
           \/ ChangeChain(p) \/ SetPolicy(p) \/ Zero(p)
    PROVE  KeptInv'
<1>1. pc[p] = "use" /\ HandleInv(handle[p])
  BY DEF CommitInv, HandlesInv, Calling, AddRule, ReplaceRule, DeleteRule, CheckRule,
         ChangeChain, SetPolicy, Zero
<1>2. PICK h, Z : h = handle[p] /\ Z = asked[p]
  OBVIOUS
<1>3. HandleInv(h)
  BY <1>1, <1>2
<1>4. ASSUME NEW T, locking = Procs, T = RulePlaces(kernel)
      PROVE  0 \notin T
  <2>1. Written(kernel)
    BY <1>4 DEF CommitInv, TablesInv
  <2> QED
    BY <1>4, <2>1, PlacesInside
<1>5. ASSUME NEW r, NEW z, Call(p, r, z), \A T : 0 \notin T => Posted(h, r, T, Z, Z \cup z)
      PROVE  KeptInv'
  BY <1>1, <1>2, <1>4, <1>5, CallKept
<1>6. ASSUME NEW r, Call(p, r, {}), \A T : 0 \notin T => Posted(h, r, T, Z, Z)
      PROVE  KeptInv'
  <2>1. Z \cup {} = Z
    OBVIOUS
  <2> QED
    BY <1>5, <1>6, <2>1
<1>7. \A e \in Entries : e.cnt \in CounterRange
  BY CommitAssumption DEF Entries, CounterRange
<1>8. \A n \in 0 .. MaxRules : n \in Nat
  BY CommitAssumption
<1>9. CASE AddRule(p)
  <2>1. PICK c \in ChainNames, e \in Entries :
           \/ Call(p, TC_APPEND_ENTRY(h, c, e), {})
           \/ \E n \in 0 .. MaxRules : Call(p, TC_INSERT_ENTRY(h, c, e, n), {})
    BY <1>2, <1>9 DEF AddRule
  <2>2. CASE Call(p, TC_APPEND_ENTRY(h, c, e), {})
    <3>1. \A T : Posted(h, TC_APPEND_ENTRY(h, c, e), T, Z, Z)
      BY <1>3, <1>7, AppendPosts
    <3> QED
      BY <1>6, <2>2, <3>1
  <2>3. ASSUME NEW n \in 0 .. MaxRules, Call(p, TC_INSERT_ENTRY(h, c, e, n), {})
        PROVE  KeptInv'
    <3>1. \A T : Posted(h, TC_INSERT_ENTRY(h, c, e, n), T, Z, Z)
      BY <1>3, <1>7, <1>8, InsertPosts
    <3> QED
      BY <1>6, <2>3, <3>1
  <2> QED
    BY <2>1, <2>2, <2>3
<1>10. CASE ReplaceRule(p)
  <2>1. PICK c \in ChainNames, e \in Entries, n \in 0 .. MaxRules :
           Call(p, TC_REPLACE_ENTRY(h, c, e, n), {})
    BY <1>2, <1>10 DEF ReplaceRule
  <2>2. \A T : Posted(h, TC_REPLACE_ENTRY(h, c, e, n), T, Z, Z)
    BY <1>3, <1>7, <1>8, ReplacePosts
  <2> QED
    BY <1>6, <2>1, <2>2
<1>11. CASE DeleteRule(p)
  <2>1. PICK c \in ChainNames :
           \/ \E e \in Entries : Call(p, TC_DELETE_ENTRY(h, c, e), {})
           \/ \E n \in 0 .. MaxRules : Call(p, TC_DELETE_NUM_ENTRY(h, c, n), {})
           \/ Call(p, TC_FLUSH_ENTRIES(h, c), {})
    BY <1>2, <1>11 DEF DeleteRule
  <2>2. ASSUME NEW e \in Entries, Call(p, TC_DELETE_ENTRY(h, c, e), {})
        PROVE  KeptInv'
    <3>1. \A T : Posted(h, TC_DELETE_ENTRY(h, c, e), T, Z, Z)
      BY <1>3, <1>7, DeletePosts DEF TC_DELETE_ENTRY
    <3> QED
      BY <1>6, <2>2, <3>1
  <2>3. ASSUME NEW n \in 0 .. MaxRules, Call(p, TC_DELETE_NUM_ENTRY(h, c, n), {})
        PROVE  KeptInv'
    <3>1. \A T : Posted(h, TC_DELETE_NUM_ENTRY(h, c, n), T, Z, Z)
      BY <1>3, <1>8, DeleteNumPosts
    <3> QED
      BY <1>6, <2>3, <3>1
  <2>4. CASE Call(p, TC_FLUSH_ENTRIES(h, c), {})
    <3>1. \A T : Posted(h, TC_FLUSH_ENTRIES(h, c), T, Z, Z)
      BY <1>3, FlushPosts
    <3> QED
      BY <1>6, <2>4, <3>1
  <2> QED
    BY <2>1, <2>2, <2>3, <2>4
<1>12. CASE CheckRule(p)
  <2>1. PICK c \in ChainNames, e \in Entries : Call(p, TC_CHECK_ENTRY(h, c, e), {})
    BY <1>2, <1>12 DEF CheckRule
  <2>2. \A T : Posted(h, TC_CHECK_ENTRY(h, c, e), T, Z, Z)
    BY <1>3, <1>7, DeletePosts DEF TC_CHECK_ENTRY
  <2> QED
    BY <1>6, <2>1, <2>2
<1>13. CASE ChangeChain(p)
  <2>1. PICK c \in ChainNames :
           \/ Call(p, TC_CREATE_CHAIN(h, c), {})
           \/ Call(p, TC_DELETE_CHAIN(h, c), {})
           \/ \E d \in ChainNames : Call(p, TC_RENAME_CHAIN(h, c, d), {})
    BY <1>2, <1>13 DEF ChangeChain
  <2>2. CASE Call(p, TC_CREATE_CHAIN(h, c), {})
    <3>1. \A T : 0 \notin T => Posted(h, TC_CREATE_CHAIN(h, c), T, Z, Z)
      BY <1>3, CreatePosts
    <3> QED
      BY <1>6, <2>2, <3>1
  <2>3. CASE Call(p, TC_DELETE_CHAIN(h, c), {})
    <3>1. \A T : Posted(h, TC_DELETE_CHAIN(h, c), T, Z, Z)
      BY <1>3, DeleteChainPosts
    <3> QED
      BY <1>6, <2>3, <3>1
  <2>4. ASSUME NEW d \in ChainNames, Call(p, TC_RENAME_CHAIN(h, c, d), {})
        PROVE  KeptInv'
    <3>1. \A T : Posted(h, TC_RENAME_CHAIN(h, c, d), T, Z, Z)
      BY <1>3, RenamePosts
    <3> QED
      BY <1>6, <2>4, <3>1
  <2> QED
    BY <2>1, <2>2, <2>3, <2>4
<1>14. CASE SetPolicy(p)
  <2>1. PICK c \in DOMAIN h.chains, v \in {"ACCEPT", "DROP"}, n \in Counts \cup {-1} :
           Call(p, TC_SET_POLICY(h, c, v, n), {h.chains[c].from})
    BY <1>2, <1>14 DEF SetPolicy
  <2>2. \A T : Posted(h, TC_SET_POLICY(h, c, v, n), T, Z, Z \cup {h.chains[c].from})
    BY <1>3, PolicyPosts
  <2> QED
    BY <1>5, <2>1, <2>2
<1>15. CASE Zero(p)
  <2>1. PICK c \in DOMAIN h.chains :
           \/ Call(p, TC_ZERO_ENTRIES(h, c),
                   From(h.chains[c].rules, DOMAIN h.chains[c].rules) \cup {h.chains[c].from})
           \/ \E n \in 0 .. MaxRules : Call(p, TC_ZERO_COUNTER(h, c, n), From(h.chains[c].rules, {n}))
    BY <1>2, <1>15 DEF Zero
  <2>2. CASE Call(p, TC_ZERO_ENTRIES(h, c),
                  From(h.chains[c].rules, DOMAIN h.chains[c].rules) \cup {h.chains[c].from})
    <3>1. \A T : Posted(h, TC_ZERO_ENTRIES(h, c), T, Z,
                        Z \cup (From(h.chains[c].rules, DOMAIN h.chains[c].rules) \cup {h.chains[c].from}))
      BY <1>3, ZeroPosts
    <3> QED
      BY <1>5, <2>2, <3>1
  <2>3. ASSUME NEW n \in 0 .. MaxRules, Call(p, TC_ZERO_COUNTER(h, c, n), From(h.chains[c].rules, {n}))
        PROVE  KeptInv'
    <3>1. \A T : Posted(h, TC_ZERO_COUNTER(h, c, n), T, Z, Z \cup From(h.chains[c].rules, {n}))
      BY <1>3, ZeroCounterPosts
    <3> QED
      BY <1>5, <2>3, <3>1
  <2> QED
    BY <2>1, <2>2, <2>3
<1> QED
  BY <1>9, <1>10, <1>11, <1>12, <1>13, <1>14, <1>15

\* The counter a rule gets is what it should have counted, if the counters it was read
\* with were.
LEMMA NewHit ==
    ASSUME NEW x, NEW T, NEW Z, Tracked(x, T, Z),
           NEW counters, \A i \in T : counters[i] = hits[i] /\ hits[i] \in CounterRange
    PROVE  /\ NewCounter(x, counters) \in CounterRange
           /\ HitOf(x, Z, counters) = NewCounter(x, counters)
<1>1. \A n \in CounterRange : n \in Int
  BY CommitAssumption DEF CounterRange
<1>2. CASE FreshRule(x)
  BY <1>2 DEF FreshRule, NewCounter, HitOf
<1>3. CASE ~FreshRule(x)
  <2>1. /\ x.from # 0 /\ x.from \in T /\ x.pos = x.from /\ x.cnt \in Int
        /\ x.map = IF x.from \in Z THEN "ZEROED" ELSE "NORMAL"
    BY <1>3 DEF Tracked
  <2>2. PICK f : f = x.from
    OBVIOUS
  <2>3. counters[f] = hits[f] /\ hits[f] \in CounterRange
    BY <2>1, <2>2
  <2>4. CASE f \notin Z
    BY <2>1, <2>2, <2>3, <2>4 DEF NewCounter, HitOf
  <2>5. CASE f \in Z
    <3>1. NewCounter(x, counters) = Counter(counters[f] - x.cnt)
      BY <2>1, <2>2, <2>5 DEF NewCounter
    <3>2. HitOf(x, Z, counters) = NewCounter(x, counters) \/ HitOf(x, Z, counters) = Counter(hits[f] - x.cnt)
      BY <2>1, <2>2, <2>5 DEF HitOf
    <3>3. hits[f] - x.cnt \in Int
      BY <1>1, <2>1, <2>3
    <3>4. Counter(hits[f] - x.cnt) \in CounterRange
      BY <3>3, CounterFacts
    <3> QED
      BY <2>3, <3>1, <3>2, <3>4
  <2> QED
    BY <2>4, <2>5
<1> QED
  BY <1>2, <1>3

\* SO_SET_REPLACE: the counters to be added are what there was to count.
LEMMA ReplaceKept ==
    ASSUME KeptInv, CommitInv, LockInv, NEW p \in Procs, SO_SET_REPLACE(p)
    PROVE  KeptInv'
<1>1. PICK h : h = handle[p]
  OBVIOUS
<1>2. PICK blob : blob = iptcc_compile_table(h)
  OBVIOUS
<1>3. PICK counters : counters = [i \in DOMAIN kernel.entries |-> kernel.entries[i].cnt]
  OBVIOUS
<1>4. /\ pc[p] = "use" /\ kernel' = Fresh(blob) /\ pc' = [pc EXCEPT ![p] = "replaced"]
      /\ old' = [old EXCEPT ![p] = counters]
      /\ locking = Procs => hits' = HitsAfter(p)
      /\ UNCHANGED <<locking, handle, asked>>
  BY <1>1, <1>2, <1>3 DEF SO_SET_REPLACE
<1>5. DOMAIN pc = Procs /\ DOMAIN handle = Procs /\ DOMAIN asked = Procs /\ DOMAIN old = Procs
  BY DEF LockInv, CommitInv, HandlesInv, KeptInv
<1>6. /\ DOMAIN asked' = Procs /\ DOMAIN old' = Procs
      /\ pc'[p] = "replaced" /\ handle'[p] = h /\ old'[p] = counters
      /\ \A q \in Procs \ {p} : pc'[q] = pc[q]
  BY <1>1, <1>4, <1>5
<1>7. PICK e, f : e = blob.entries /\ f = [i \in DOMAIN e |-> [e[i] EXCEPT !.cnt = 0]]
  OBVIOUS
<1>8. {"entries", "hook_entry"} \subseteq DOMAIN blob
  BY <1>2 DEF iptcc_compile_table
<1>9. kernel' = [blob EXCEPT !.entries = f]
  BY <1>4, <1>7 DEF Fresh
<1>10. kernel'.entries = f /\ kernel'.hook_entry = blob.hook_entry /\ DOMAIN kernel' = DOMAIN blob
  BY <1>8, <1>9
<1>11. Recount(e, f)
  BY <1>7 DEF Recount
<1>12. Recounted(blob, kernel')
  BY <1>7, <1>8, <1>10, <1>11 DEF Recounted
<1>13. CASE locking # Procs
  BY <1>4, <1>6, <1>13 DEF KeptInv
<1>14. CASE locking = Procs
  <2>1. Good(h)
    BY <1>1, <1>4, <1>14 DEF CommitInv, HandlesInv, TablesInv, Good
  <2>2. PICK Y : Y = Places(h)
    OBVIOUS
  <2>3. RulePlaces(kernel') = Y
    BY <1>2, <1>12, <2>1, <2>2, CompiledPlaces
  <2>4. PICK T, Z : T = RulePlaces(kernel) /\ Z = asked[p]
    OBVIOUS
  <2>5. Known(kernel.entries, T) /\ (Nobody => Even(kernel.entries, T)) /\ \A q \in Procs : KeptBy(q, T)
    BY <1>14, <2>4 DEF KeptInv, Keeping
  <2>6. \A q \in Procs \ {p} : pc[q] = "idle"
    BY <1>4, <1>14 DEF LockInv
  <2>7. Nobody
    BY <1>4, <2>6 DEF Nobody
  <2>8. Ledger(h.chains, T, Z)
    BY <1>1, <1>4, <2>4, <2>5 DEF KeptBy
  <2>9. Written(kernel)
    BY <1>14 DEF CommitInv, TablesInv
  <2>10. \A i \in T : counters[i] = hits[i] /\ hits[i] \in CounterRange
    <3> TAKE i \in T
    <3>1. i \in DOMAIN kernel.entries
      BY <2>4, <2>9, PlacesInside
    <3>2. kernel.entries[i].cnt = hits[i] /\ hits[i] \in CounterRange
      BY <2>5, <2>7 DEF Known, Even
    <3> QED
      BY <1>3, <3>1, <3>2
  <2>11. PICK add, new : add = newcounters(h, counters) /\ new = HitsAfter(p)
    OBVIOUS
  <2>12. Placed(h)
    BY <2>1, GoodIsPlaced
  <2>13. \A c \in DOMAIN h.chains : \A j \in DOMAIN h.chains[c].rules :
            add[rule_offset(h, c, j)] = NewCounter(h.chains[c].rules[j], counters)
    BY <2>11, <2>12, NewCountersAt
  <2>14. /\ IsSeq(new) /\ Len(new) = new_number(h)
         /\ \A c \in DOMAIN h.chains : \A j \in DOMAIN h.chains[c].rules :
               new[rule_offset(h, c, j)] = HitOf(h.chains[c].rules[j], Z, counters)
    <3>1. HitsLaid(new, h, Z, counters)
      <4>1. HitsLaid(HitsAfter(p), h, asked[p], counters)
        BY <1>1, <1>3, <2>12, HitsAt
      <4> QED
        BY <2>4, <2>11, <4>1
    <3> QED
      BY <3>1 DEF HitsLaid
  <2>15. ASSUME NEW i \in Y
         PROVE  /\ i \in DOMAIN new /\ new[i] \in CounterRange /\ add[i] = new[i]
                /\ "cnt" \in DOMAIN f[i] /\ f[i].cnt = 0
    <3>1. PICK c \in DOMAIN h.chains : \E j \in DOMAIN h.chains[c].rules : i = rule_offset(h, c, j)
      BY <2>2 DEF Places
    <3>2. PICK j \in DOMAIN h.chains[c].rules : i = rule_offset(h, c, j)
      BY <3>1
    <3>3. PICK x : x = h.chains[c].rules[j]
      OBVIOUS
    <3>4. Tracked(x, T, Z)
      BY <2>8, <3>3 DEF Ledger
    <3>5. NewCounter(x, counters) \in CounterRange /\ HitOf(x, Z, counters) = NewCounter(x, counters)
      BY <2>10, <3>4, NewHit
    <3>6. add[i] = NewCounter(x, counters) /\ new[i] = HitOf(x, Z, counters)
      BY <2>13, <2>14, <3>2, <3>3
    <3>7. i \in DOMAIN new
      <4>1. DOMAIN new = 1 .. Len(new) /\ Len(new) \in Nat
        BY <2>14, SeqFacts
      <4>2. i \in Nat /\ i >= 1 /\ i < new_number(h)
        BY <2>1, <2>2, PlaceFacts
      <4> QED
        BY <2>14, <4>1, <4>2
    <3>8. i \in DOMAIN e /\ "cnt" \in DOMAIN e[i]
      BY <1>2, <1>7, <2>1, <2>2, CompiledInside, CompiledCounter
    <3>9. f[i] = [e[i] EXCEPT !.cnt = 0]
      BY <1>7, <3>8
    <3>10. "cnt" \in DOMAIN f[i] /\ f[i].cnt = 0
      BY <3>8, <3>9
    <3> QED
      BY <3>5, <3>6, <3>7, <3>10
  <2>16. hits' = new
    BY <1>4, <1>14, <2>11
  <2>17. ASSUME NEW n \in CounterRange
         PROVE  n \in Int /\ Counter(0 + n) = n
    <3>1. n \in Int /\ 0 + n = n
      BY CommitAssumption DEF CounterRange
    <3> QED
      BY <3>1, CounterFacts
  <2>18. Known(kernel.entries, Y)'
    BY <1>10, <2>15, <2>16 DEF Known
  <2>19. Due(kernel.entries, newcounters(handle[p], old[p]), Y)'
    <3>1. newcounters(handle'[p], old'[p]) = add
      BY <1>6, <2>11
    <3>2. \A i \in Y : add[i] \in Int /\ new[i] = Counter(f[i].cnt + add[i])
      BY <2>15, <2>17
    <3> QED
      BY <1>10, <2>16, <3>1, <3>2 DEF Due
  <2>20. ~Nobody'
    BY <1>6 DEF Nobody
  <2>21. ASSUME NEW q \in Procs
         PROVE  KeptBy(q, Y)'
    <3>1. CASE q = p
      BY <1>6, <2>19, <3>1 DEF KeptBy
    <3>2. CASE q # p
      <4>1. pc'[q] = "idle" /\ pc[q] = "idle" /\ KeptBy(q, T)
        BY <1>6, <2>5, <2>6, <3>2
      <4>2. asked'[q] = {}
        BY <1>4, <4>1 DEF KeptBy
      <4> QED
        BY <4>1, <4>2 DEF KeptBy
    <3> QED
      BY <3>1, <3>2
  <2>22. Keeping(Y)'
    BY <2>18, <2>20, <2>21 DEF Keeping
  <2>23. RulePlaces(kernel)' = Y
    BY <2>3
  <2> QED
    BY <1>4, <1>6, <2>22, <2>23, KeepingAt
<1> QED
  BY <1>13, <1>14

\* SO_SET_ADD_COUNTERS: with what is added the kernel has counted what there was to count.
LEMMA AddKept ==
    ASSUME KeptInv, CommitInv, LockInv, NEW p \in Procs, SO_SET_ADD_COUNTERS(p)
    PROVE  KeptInv'
<1>1. PICK e, h : e = kernel.entries /\ h = handle[p]
  OBVIOUS
<1>2. PICK add : add = newcounters(h, old[p])
  OBVIOUS
<1>3. /\ pc[p] = "replaced" /\ Leave(p) /\ UNCHANGED <<locking, hits>>
      /\ kernel' = IF Len(add) = Len(e) THEN [kernel EXCEPT !.entries = Added(e, add)] ELSE kernel
  BY <1>1, <1>2 DEF SO_SET_ADD_COUNTERS
<1>4. /\ DOMAIN pc = Procs /\ DOMAIN handle = Procs /\ DOMAIN asked = Procs /\ DOMAIN old = Procs
      /\ {"entries", "hook_entry"} \subseteq DOMAIN kernel
  BY DEF LockInv, CommitInv, HandlesInv, KeptInv
<1>5. DOMAIN asked' = Procs /\ DOMAIN old' = Procs /\ asked'[p] = {} /\ pc'[p] = "idle"
  BY <1>3, <1>4 DEF Leave
<1>6. CASE locking # Procs
  BY <1>3, <1>5, <1>6 DEF KeptInv
<1>7. CASE locking = Procs
  <2>1. Good(h) /\ new_number(h) = Len(e) /\ Written(kernel)
    BY <1>1, <1>3, <1>7 DEF CommitInv, HandlesInv, TablesInv, Good
  <2>2. Len(add) = new_number(h)
    BY <1>2, <2>1, GoodIsPlaced, NewCountersAt
  <2>3. PICK f : f = Added(e, add)
    OBVIOUS
  <2>4. kernel' = [kernel EXCEPT !.entries = f]
    BY <1>3, <2>1, <2>2, <2>3
  <2>5. kernel'.entries = f /\ kernel'.hook_entry = kernel.hook_entry /\ DOMAIN kernel' = DOMAIN kernel
    BY <1>4, <2>4
  <2>6. Recount(e, f)
    BY <2>3 DEF Added, Recount
  <2>7. Recounted(kernel, kernel')
    BY <1>1, <1>4, <2>5, <2>6 DEF Recounted
  <2>8. PICK T : T = RulePlaces(kernel)
    OBVIOUS
  <2>9. RulePlaces(kernel)' = T
    BY <2>1, <2>7, <2>8, RecountedPlaces
  <2>10. Known(e, T) /\ \A q \in Procs : KeptBy(q, T)
    BY <1>1, <1>7, <2>8 DEF KeptInv, Keeping
  <2>11. Due(e, add, T)
    BY <1>1, <1>2, <1>3, <2>10 DEF KeptBy
  <2>12. ASSUME NEW i \in T
         PROVE  /\ "cnt" \in DOMAIN f[i] /\ f[i].cnt \in Int /\ f[i].cnt = hits[i]
    <3>1. i \in DOMAIN e
      BY <1>1, <2>1, <2>8, PlacesInside
    <3>2. PICK n : n = Counter(e[i].cnt + add[i])
      OBVIOUS
    <3>3. f[i] = [e[i] EXCEPT !.cnt = n]
      BY <2>3, <3>1, <3>2 DEF Added
    <3>4. "cnt" \in DOMAIN e[i] /\ hits[i] \in CounterRange
      BY <2>10 DEF Known
    <3>5. hits[i] = n
      BY <2>11, <3>2 DEF Due
    <3>6. n \in Int
      BY <3>4, <3>5, CommitAssumption DEF CounterRange
    <3> QED
      BY <3>3, <3>4, <3>5, <3>6
  <2>13. Known(kernel.entries, T)' /\ Even(kernel.entries, T)'
    BY <1>3, <2>5, <2>10, <2>12 DEF Known, Even
  <2>14. \A q \in Procs \ {p} : pc[q] = "idle"
    BY <1>3, <1>7 DEF LockInv
  <2>15. ASSUME NEW q \in Procs
         PROVE  pc'[q] = "idle" /\ asked'[q] = {}
    <3>1. CASE q = p
      BY <1>5, <3>1
    <3>2. CASE q # p
      <4>1. pc[q] = "idle" /\ KeptBy(q, T)
        BY <2>10, <2>14, <3>2
      <4>2. pc'[q] = pc[q] /\ asked'[q] = asked[q]
        BY <1>3, <1>4, <3>2 DEF Leave
      <4> QED
        BY <4>1, <4>2 DEF KeptBy
    <3> QED
      BY <3>1, <3>2
  <2>16. \A q \in Procs : KeptBy(q, T)'
    BY <2>15 DEF KeptBy
  <2>17. Keeping(T)'
    BY <2>13, <2>16 DEF Keeping
  <2> QED
    BY <1>3, <1>5, <2>9, <2>17, KeepingAt
<1> QED
  BY <1>6, <1>7

\* A packet is counted by the kernel and by the history alike.
LEMMA PacketKept ==
    ASSUME KeptInv, CommitInv, LockInv, NEW i, Packet(i)
    PROVE  KeptInv'
<1>1. PICK e : e = kernel.entries
  OBVIOUS
<1>2. PICK n : n = Counter(e[i].cnt + 1)
  OBVIOUS
<1>3. /\ i \in DOMAIN e /\ UNCHANGED <<locking, pc, handle, old, asked>>
      /\ kernel' = [kernel EXCEPT !.entries[i].cnt = n]
      /\ locking = Procs => hits' = [hits EXCEPT ![i] = Counter(hits[i] + 1)]
  BY <1>1, <1>2 DEF Packet, procvars
<1>4. PICK f : f = [e EXCEPT ![i] = [e[i] EXCEPT !.cnt = n]]
  OBVIOUS
<1>5. {"entries", "hook_entry"} \subseteq DOMAIN kernel /\ IsBlob(e)
  BY <1>1 DEF CommitInv, HandlesInv
<1>6. kernel' = [kernel EXCEPT !.entries = f]
  BY <1>1, <1>3, <1>4
<1>7. Recount(e, f)
  BY <1>3, <1>4 DEF Recount
<1>8. kernel'.entries = f /\ kernel'.hook_entry = kernel.hook_entry /\ DOMAIN kernel' = DOMAIN kernel
  BY <1>5, <1>6
<1>9. Recounted(kernel, kernel')
  BY <1>1, <1>5, <1>7, <1>8 DEF Recounted
<1>10. DOMAIN asked' = Procs /\ DOMAIN old' = Procs
  BY <1>3 DEF KeptInv
<1>11. CASE locking # Procs
  BY <1>3, <1>10, <1>11 DEF KeptInv
<1>12. CASE locking = Procs
  <2>1. PICK T : T = RulePlaces(kernel)
    OBVIOUS
  <2>2. Written(kernel)
    BY <1>12 DEF CommitInv, TablesInv
  <2>3. RulePlaces(kernel)' = T
    BY <1>9, <2>1, <2>2, RecountedPlaces
  <2>4. Known(e, T) /\ (Nobody => Even(e, T)) /\ \A q \in Procs : KeptBy(q, T)
    BY <1>1, <1>12, <2>1 DEF KeptInv, Keeping
  <2>5. PICK g : g = [hits EXCEPT ![i] = Counter(hits[i] + 1)]
    OBVIOUS
  <2>6. hits' = g
    BY <1>3, <1>12, <2>5
  <2>7. ASSUME NEW k \in T
        PROVE  /\ k \in DOMAIN e /\ "cnt" \in DOMAIN e[k] /\ e[k].cnt \in Int
               /\ k \in DOMAIN hits /\ hits[k] \in CounterRange /\ hits[k] \in Int
    <3>1. k \in DOMAIN e
      BY <1>1, <2>1, <2>2, PlacesInside
    <3>2. \A m \in CounterRange : m \in Int
      BY CommitAssumption DEF CounterRange
    <3> QED
      BY <2>4, <3>1, <3>2 DEF Known
  <2>8. ASSUME NEW k \in T
        PROVE  \/ /\ k = i /\ f[k] = [e[k] EXCEPT !.cnt = Counter(e[k].cnt + 1)]
                  /\ g[k] = Counter(hits[k] + 1)
               \/ f[k] = e[k] /\ g[k] = hits[k]
    BY <1>2, <1>3, <1>4, <2>5, <2>7
  <2>9. ASSUME NEW k \in T
        PROVE  /\ "cnt" \in DOMAIN f[k] /\ f[k].cnt \in Int
               /\ k \in DOMAIN g /\ g[k] \in CounterRange
               /\ \/ f[k].cnt = Counter(e[k].cnt + 1) /\ g[k] = Counter(hits[k] + 1)
                  \/ f[k].cnt = e[k].cnt /\ g[k] = hits[k]
    <3>1. k \in DOMAIN g
      BY <2>5, <2>7
    <3>2. CASE f[k] = e[k] /\ g[k] = hits[k]
      BY <2>7, <3>1, <3>2
    <3>3. CASE /\ f[k] = [e[k] EXCEPT !.cnt = Counter(e[k].cnt + 1)]
               /\ g[k] = Counter(hits[k] + 1)
      <4>1. e[k].cnt + 1 \in Int /\ hits[k] + 1 \in Int
        BY <2>7
      <4>2. Counter(e[k].cnt + 1) \in CounterRange /\ Counter(hits[k] + 1) \in CounterRange
        BY <4>1, CounterFacts
      <4>3. "cnt" \in DOMAIN f[k] /\ f[k].cnt = Counter(e[k].cnt + 1)
        BY <2>7, <3>3
      <4>4. \A m \in CounterRange : m \in Int
        BY CommitAssumption DEF CounterRange
      <4> QED
        BY <3>1, <3>3, <4>2, <4>3, <4>4
    <3> QED
      BY <2>8, <3>2, <3>3
  <2>10. Known(kernel.entries, T)'
    BY <1>8, <2>6, <2>9 DEF Known
  <2>11. Nobody' => Even(kernel.entries, T)'
    <3> SUFFICES ASSUME Nobody
                 PROVE  \A k \in T : f[k].cnt = g[k]
      BY <1>3, <1>8, <2>6 DEF Nobody, Even
    <3> QED
      BY <2>4, <2>9 DEF Even
  <2>12. ASSUME NEW add, Due(e, add, T)
         PROVE  \A k \in T : add[k] \in Int /\ g[k] = Counter(f[k].cnt + add[k])
    <3> TAKE k \in T
    <3>1. add[k] \in Int /\ hits[k] = Counter(e[k].cnt + add[k])
      BY <2>12 DEF Due
    <3>2. PICK a, b \in Int : a = e[k].cnt /\ b = add[k]
      BY <2>7, <3>1
    <3>3. CASE f[k].cnt = e[k].cnt /\ g[k] = hits[k]
      BY <3>1, <3>3
    <3>4. CASE f[k].cnt = Counter(e[k].cnt + 1) /\ g[k] = Counter(hits[k] + 1)
      <4>1. g[k] = Counter(Counter(a + b) + 1) /\ f[k].cnt + add[k] = Counter(a + 1) + b
        BY <3>1, <3>2, <3>4
      <4>2. a + b \in Int /\ a + 1 \in Int /\ (a + b) + 1 = (a + 1) + b /\ 1 \in Int
        OBVIOUS
      <4>3. Counter(Counter(a + b) + 1) = Counter((a + b) + 1) /\ Counter(Counter(a + 1) + b) = Counter((a + 1) + b)
        BY <4>2, CounterAdds
      <4> QED
        BY <3>1, <4>1, <4>2, <4>3
    <3> QED
      BY <2>9, <3>3, <3>4
  <2>13. ASSUME NEW q \in Procs
         PROVE  KeptBy(q, T)'
    <3>1. KeptBy(q, T)
      BY <2>4
    <3>2. pc[q] = "replaced" => Due(kernel.entries, newcounters(handle[q], old[q]), T)'
      <4> SUFFICES ASSUME pc[q] = "replaced"
                   PROVE  Due(kernel.entries, newcounters(handle[q], old[q]), T)'
        OBVIOUS
      <4>1. PICK add : add = newcounters(handle[q], old[q])
        OBVIOUS
      <4>2. Due(e, add, T)
        BY <1>1, <3>1, <4>1 DEF KeptBy
      <4>3. newcounters(handle'[q], old'[q]) = add
        BY <1>3, <4>1
      <4> QED
        BY <1>8, <2>6, <2>12, <4>2, <4>3 DEF Due
    <3> QED
      BY <1>3, <3>1, <3>2 DEF KeptBy
  <2>14. Keeping(T)'
    BY <2>10, <2>11, <2>13 DEF Keeping
  <2> QED
    BY <1>3, <1>10, <2>3, <2>14, KeepingAt
<1> QED
  BY <1>11, <1>12

\* Every step keeps the invariant.
LEMMA StepKept == KeptInv /\ CommitInv /\ LockInv /\ ReadingInv /\ [Next]_vars => KeptInv'
<1> SUFFICES ASSUME KeptInv, CommitInv, LockInv, ReadingInv, [Next]_vars
             PROVE  KeptInv'
  OBVIOUS
<1>1. ASSUME NEW p \in Procs, GiveUp(p)
      PROVE  KeptInv'
  BY <1>1, LeaveKept DEF GiveUp
<1>2. CASE UNCHANGED vars
  <2>1. UNCHANGED <<locking, kernel, hits, pc, handle, old, asked>>
    BY <1>2 DEF vars, procvars
  <2>2. \A q \in Procs : Alone(q)
    BY <2>1 DEF Alone
  <2>3. \A T : locking = Procs /\ T = RulePlaces(kernel) => \A q \in Procs : KeptBy(q, T)
    BY DEF KeptInv, Keeping
  <2>4. \A T : locking = Procs /\ T = RulePlaces(kernel) => \A q \in Procs : KeptBy(q, T)'
    BY <2>1, <2>2, <2>3, AloneKept
  <2>5. Nobody' => Nobody
    BY <2>1 DEF Nobody
  <2>6. DOMAIN asked' = Procs /\ DOMAIN old' = Procs
    BY <2>1 DEF KeptInv
  <2> QED
    BY <2>1, <2>4, <2>5, <2>6, SteadyKept
<1> QED
  BY <1>1, <1>2, InfoKept, ReadKept, CallsKept, ReplaceKept, AddKept, PacketKept DEF Next

-----------------------------------------------------------------------------
(* Theorems.                                                               *)

\* num_rules, references and the jumps of every handle are right after every call, for
\* any number of programs, with and without the lock: what TC_DELETE_CHAIN and the walk
\* to a rule rely on.
THEOREM CountsStayExact == Spec => []CountsExact
<1>1. CommitInv => CountsExact
  BY HandleExact DEF CommitInv, HandlesInv, CountsExact
<1> QED
  BY <1>1, CommitHolds, PTL

\* Under the lock a program reads one table, can parse it, and adds counters to the
\* table it has put there.
THEOREM LockMakesWhole == Spec => []WholeUnderLock
<1>1. ReadingInv /\ CommitInv => WholeUnderLock
  BY DEF ReadingInv, CommitInv, TablesInv, WholeUnderLock
<1> QED
  BY <1>1, InitLock, StepLock, InitReading, StepReading, CommitHolds, PTL DEF Spec

\* Compiling a handle and parsing the table gives the same rules, policies and jumps.
THEOREM WrittenIsRead == Spec => []RoundTrip
<1>1. ASSUME CommitInv, locking = Procs, NEW p \in Procs, pc[p] = "use"
      PROVE  /\ ~Unparsable(iptcc_compile_table(handle[p])) /\ ~Unresolved(iptcc_compile_table(handle[p]))
             /\ Content(parse_table(iptcc_compile_table(handle[p]))) = Content(handle[p])
  <2>1. PICK h : h = handle[p]
    OBVIOUS
  <2>2. Good(h)
    BY <1>1, <2>1 DEF CommitInv, HandlesInv, TablesInv, Good
  <2>3. TableOf(iptcc_compile_table(h), h)
    BY <2>2, GoodIsPlaced, CompiledIsTable
  <2> QED
    BY <2>1, <2>2, <2>3, TableBack
<1>2. CommitInv => RoundTrip
  BY <1>1 DEF RoundTrip
<1> QED
  BY <1>2, CommitHolds, PTL

\* Between commits every rule of the kernel's table has counted exactly the packets that met
\* it, without those from before the reading if it was zeroed: for any number of programs,
\* tables, calls, commits and packets, whatever is inserted or deleted around the rule.
THEOREM CountersStayKept == Spec => []CountersKept
<1>1. KeptInv /\ LockInv => CountersKept
  <2> SUFFICES ASSUME KeptInv, LockInv, locking = Procs, lock = NoProc, NEW s \in Starts(kernel),
                      NEW i \in FirstEntry(kernel, s) .. LastEntry(kernel, s) - 1
               PROVE  kernel.entries[i].cnt = hits[i]
    BY DEF CountersKept
  <2>1. Nobody
    BY CommitAssumption DEF LockInv, Nobody
  <2>2. Even(kernel.entries, RulePlaces(kernel))
    BY <2>1 DEF KeptInv, Keeping
  <2>3. i \in RulePlaces(kernel)
    BY DEF RulePlaces
  <2> QED
    BY <2>2, <2>3 DEF Even
<1> QED
  BY <1>1, InitLock, StepLock, InitReading, StepReading, CommitHolds, InitKept, StepKept, PTL DEF Spec
=============================================================================
