--------------------------- MODULE ListRaceProofs ---------------------------
(***************************************************************************)
(* Theorems about ListRace, for any number of threads, entries and         *)
(* operations.                                                             *)
(***************************************************************************)
EXTENDS ListRace, Foundations, FiniteSetTheorems, SequenceTheorems

Labels == {"idle", "walk", "steps", "write", "clean",
           "add_tail", "add1", "add2", "add3", "add4", "inc", "inc_store",
           "del", "del1", "del2", "del3", "del4", "free", "dec", "dec_store"}

Pointers == Cells \cup {Poison}

Frames == [pc : Labels, op : Operations \cup {"none", "print"}, p : Pointers, q : Pointers,
           new : Pointers, prv : Pointers, nxt : Pointers, left : Nat, len : Int]

TypeInv ==
    /\ next \in [Cells -> Pointers] /\ prev \in [Cells -> Pointers]
    /\ length \in Int
    /\ live \subseteq Nodes \cup {Policy}
    /\ th \in [Threads -> Frames]
    /\ \A t \in Threads : th[t].op \in does[t] \cup {"none", "print"}

\* The head, the policy entry and the frame of an idle thread are of their types.
LEMMA CellsTyped == ListHead \in Cells /\ Policy \in Cells /\ Poison \notin Cells /\ Idle \in Frames
BY ListRaceAssumption DEF Cells, Pointers, Frames, Idle, Labels

\* Initially every variable is of its type.
LEMMA TypeInit == Init => TypeInv
<1> SUFFICES ASSUME Init PROVE TypeInv
  OBVIOUS
<1> QED
  BY CellsTyped DEF Init, TypeInv, Pointers, Cells, Idle

\* A valid pointer is to a cell.
LEMMA ValidCell == ASSUME TypeInv, NEW c, Valid(c) PROVE c \in Cells
BY DEF TypeInv, Valid, Cells

\* A step that gives thread t the frame r.
LEMMA FrameStep ==
    ASSUME TypeInv, NEW t \in Threads, NEW r \in Frames, th' = [th EXCEPT ![t] = r],
           r.op \in does[t] \cup {"none", "print"}, UNCHANGED does
    PROVE  /\ th' \in [Threads -> Frames]
           /\ \A u \in Threads : th'[u].op \in does'[u] \cup {"none", "print"}
BY DEF TypeInv

\* The frame of a walk that begins at b.
LEMMA WalkFrame ==
    ASSUME NEW a \in Labels, NEW o \in Operations \cup {"none", "print"}, NEW b \in Pointers
    PROVE  /\ [Idle EXCEPT !.pc = a, !.op = o, !.p = b] \in Frames
           /\ [Idle EXCEPT !.pc = a, !.op = o, !.p = b].op = o
BY CellsTyped DEF Frames, Idle, Pointers

\* print_info begins at the cell the head's next leads to.
LEMMA PrintFrame == TypeInv => print_info \in Frames /\ print_info.op = "print"
<1> SUFFICES ASSUME TypeInv PROVE print_info \in Frames /\ print_info.op = "print"
  OBVIOUS
<1>1. next[ListHead] \in Pointers
  BY CellsTyped DEF TypeInv
<1> QED
  BY <1>1, CellsTyped DEF print_info, Frames, Idle, Pointers, Labels

\* Every step keeps the types: a pointer is to a cell or is poison, whatever the threads do.
LEMMA TypeStep == TypeInv /\ [Next]_vars => TypeInv'
<1> SUFFICES ASSUME TypeInv, [Next]_vars
             PROVE  TypeInv'
  OBVIOUS
<1> USE CellsTyped
<1>1. ASSUME NEW t \in Threads, UNCHANGED does, Begin(t)
      PROVE  TypeInv'
  <2>1. CASE "append" \in does[t] /\ StartAppend(t)
    <3>1. PICK n \in Nodes \ live :
             /\ live' = live \cup {n}
             /\ th' = [th EXCEPT ![t] = [Idle EXCEPT !.pc = "add_tail", !.op = "append",
                                                     !.new = n, !.p = prev[ListHead]]]
             /\ UNCHANGED <<ring, length>>
      BY <2>1 DEF StartAppend
    <3> DEFINE r == [Idle EXCEPT !.pc = "add_tail", !.op = "append", !.new = n, !.p = prev[ListHead]]
    <3>2. r \in Frames /\ r.op = "append"
      BY DEF TypeInv, Frames, Idle, Labels, Operations, Pointers, Cells
    <3>3. th' = [th EXCEPT ![t] = r]
      BY <3>1
    <3> HIDE DEF r
    <3> QED
      BY <1>1, <2>1, <3>1, <3>2, <3>3, FrameStep DEF TypeInv, ring
  <2>2. ASSUME NEW op \in {"insert", "match", "all_in"} \cap does[t], StartWalk(t, op)
        PROVE  TypeInv'
    <3> DEFINE r == [Idle EXCEPT !.pc = "walk", !.op = op, !.p = next[ListHead]]
    <3>1. r \in Frames /\ r.op = op
      <4>1. next[ListHead] \in Pointers /\ op \in Operations
        BY DEF TypeInv, Operations
      <4> QED
        BY <4>1 DEF Frames, Idle, Labels, Pointers
    <3>2. th' = [th EXCEPT ![t] = r] /\ UNCHANGED <<ring, length, live>>
      BY <2>2 DEF StartWalk
    <3> HIDE DEF r
    <3> QED
      BY <1>1, <2>2, <3>1, <3>2, FrameStep DEF TypeInv, ring
  <2>3. ASSUME NEW op \in {"delete", "alter"} \cap does[t], StartSteps(t, op)
        PROVE  TypeInv'
    <3>1. PICK index \in Indexes :
             /\ th' = [th EXCEPT ![t] = [Idle EXCEPT !.pc = "steps", !.op = op, !.left = index]]
             /\ UNCHANGED <<ring, length, live>>
      BY <2>3 DEF StartSteps
    <3> DEFINE r == [Idle EXCEPT !.pc = "steps", !.op = op, !.left = index]
    <3>2. r \in Frames /\ r.op = op
      <4>1. index \in Nat /\ op \in Operations
        BY DEF Indexes, TypeInv, Operations
      <4> QED
        BY <4>1 DEF Frames, Idle, Labels, Pointers
    <3>3. th' = [th EXCEPT ![t] = r]
      BY <3>1
    <3> HIDE DEF r
    <3> QED
      BY <1>1, <2>3, <3>1, <3>2, <3>3, FrameStep DEF TypeInv, ring
  <2>4. CASE "clean" \in does[t] /\ StartClean(t)
    <3> DEFINE r == [Idle EXCEPT !.pc = "clean", !.op = "clean", !.p = next[ListHead]]
    <3>1. r \in Frames /\ r.op = "clean"
      <4>1. next[ListHead] \in Pointers /\ "clean" \in Labels /\ "clean" \in Operations
        BY DEF TypeInv, Labels, Operations
      <4> QED
        BY <4>1, WalkFrame
    <3>2. th' = [th EXCEPT ![t] = r] /\ UNCHANGED <<ring, length, live>>
      BY <2>4 DEF StartClean
    <3> HIDE DEF r
    <3> QED
      BY <1>1, <2>4, <3>1, <3>2, FrameStep DEF TypeInv, ring
  <2> QED
    BY <1>1, <2>1, <2>2, <2>3, <2>4 DEF Begin
<1>2. ASSUME NEW t \in Threads, UNCHANGED does, Walk(t)
      PROVE  TypeInv'
  <2> DEFINE p == th[t].p
  <2>1. CASE Stop(t, p)
    <3>1. PICK n \in Nodes \ live :
             /\ live' = live \cup {n}
             /\ th' = [th EXCEPT ![t].pc = "add_tail", ![t].new = n,
                                 ![t].p = IF p = ListHead THEN prev[ListHead] ELSE p]
             /\ UNCHANGED <<ring, length, wild, ops>>
      BY <2>1 DEF Stop
    <3> DEFINE b == IF p = ListHead THEN prev[ListHead] ELSE p
               r == [th[t] EXCEPT !.pc = "add_tail", !.new = n, !.p = b]
    <3>2. b \in Pointers /\ n \in Pointers
      BY DEF TypeInv, Frames, Pointers, Cells
    <3>3. th' = [th EXCEPT ![t] = r]
      BY <3>1 DEF TypeInv
    <3>4. r \in Frames /\ r.op = th[t].op
      <4> HIDE DEF b
      <4> QED
        BY <3>2 DEF TypeInv, Frames, Labels
    <3> HIDE DEF r
    <3> QED
      BY <1>2, <3>1, <3>3, <3>4, FrameStep DEF TypeInv, ring
  <2>2. CASE Wild
    BY <1>2, <2>2 DEF Wild, TypeInv
  <2>3. CASE th' = [th EXCEPT ![t] = Idle] /\ UNCHANGED <<ring, length, live, wild, ops>>
    <3>1. Idle.op = "none"
      BY DEF Idle
    <3> QED
      BY <1>2, <2>3, <3>1, FrameStep DEF TypeInv, ring
  <2>4. CASE Goto(t, "del") /\ UNCHANGED <<ring, length, live, wild, ops>>
    BY <1>2, <2>4 DEF Goto, TypeInv, Frames, Labels, Operations, Pointers, Cells, ring
  <2>5. CASE /\ Valid(p)
             /\ th' = [th EXCEPT ![t].p = next[p],
                                 ![t].left = IF th[t].op = "match" THEN @ + 1 ELSE @]
             /\ UNCHANGED <<ring, length, live, wild, ops>>
    <3> DEFINE k == IF th[t].op = "match" THEN th[t].left + 1 ELSE th[t].left
               r == [th[t] EXCEPT !.p = next[p], !.left = k]
    <3>1. next[p] \in Pointers /\ k \in Nat
      BY <2>5, ValidCell DEF TypeInv, Frames
    <3>2. th' = [th EXCEPT ![t] = r]
      BY <2>5 DEF TypeInv
    <3>3. r \in Frames /\ r.op = th[t].op
      <4> HIDE DEF k
      <4> QED
        BY <3>1 DEF TypeInv, Frames
    <3> HIDE DEF r
    <3> QED
      BY <1>2, <2>5, <3>2, <3>3, FrameStep DEF TypeInv, ring
  <2> QED
    BY <1>2, <2>1, <2>2, <2>3, <2>4, <2>5 DEF Walk
<1>3. ASSUME NEW t \in Threads, UNCHANGED does, Steps(t)
      PROVE  TypeInv'
  BY <1>3, ValidCell, SMTT(30)
     DEF Steps, Wild, Goto, TypeInv, Frames, Labels, Operations, Pointers, Cells, ring
<1>4. ASSUME NEW t \in Threads, UNCHANGED does, Write(t)
      PROVE  TypeInv'
  <2>1. CASE Wild
    BY <1>4, <2>1 DEF Wild, TypeInv
  <2>2. CASE th' = [th EXCEPT ![t] = print_info] /\ UNCHANGED <<ring, length, live, wild, ops>>
    BY <1>4, <2>2, PrintFrame, FrameStep DEF TypeInv, ring
  <2> QED
    BY <1>4, <2>1, <2>2 DEF Write
<1>5. ASSUME NEW t \in Threads, UNCHANGED does, CleanLoop(t)
      PROVE  TypeInv'
  BY <1>5, ValidCell DEF CleanLoop, Wild, Goto, TypeInv, Frames, Labels, Operations, Pointers, Cells, ring, Idle
<1>6. ASSUME NEW t \in Threads, UNCHANGED does, list_add_tail(t)
      PROVE  TypeInv'
  BY <1>6, ValidCell DEF list_add_tail, Wild, TypeInv, Frames, Labels, Operations, Pointers, Cells, ring
<1>7. ASSUME NEW t \in Threads, UNCHANGED does, __list_add(t)
      PROVE  TypeInv'
  BY <1>7, ValidCell DEF __list_add, StoreNext, StorePrev, Goto, Wild, TypeInv, Frames, Labels, Operations, Pointers, Cells, ring
<1>8. ASSUME NEW t \in Threads, UNCHANGED does, list_del(t)
      PROVE  TypeInv'
  BY <1>8, ValidCell DEF list_del, StoreNext, StorePrev, Goto, Wild, TypeInv, Frames, Labels, Operations, Pointers, Cells, ring
<1>9. ASSUME NEW t \in Threads, UNCHANGED does, Free(t)
      PROVE  TypeInv'
  BY <1>9 DEF Free, Goto, Wild, TypeInv, Frames, Labels, Operations, Pointers, Cells, ring
<1>10. ASSUME NEW t \in Threads, UNCHANGED does,
              CountLoad(t, "inc", "inc_store") \/ CountLoad(t, "dec", "dec_store") \/ CountStore(t)
       PROVE  TypeInv'
  <2>1. CASE CountLoad(t, "inc", "inc_store") \/ CountLoad(t, "dec", "dec_store")
    BY <1>10, <2>1 DEF CountLoad, TypeInv, Frames, Labels, ring
  <2>2. CASE CountStore(t)
    <3> DEFINE again == [Idle EXCEPT !.pc = "clean", !.op = "clean", !.p = th[t].q]
    <3>1. /\ length' \in Int /\ UNCHANGED <<ring, live>>
          /\ \/ th' = [th EXCEPT ![t] = print_info]
             \/ th[t].op = "clean" /\ th' = [th EXCEPT ![t] = again]
      BY <2>2 DEF CountStore, TypeInv, Frames
    <3>2. again \in Frames /\ again.op = "clean"
      BY DEF TypeInv, Frames, Idle, Labels, Operations, Pointers, Cells
    <3> HIDE DEF again
    <3> QED
      BY <1>10, <3>1, <3>2, PrintFrame, FrameStep DEF TypeInv, ring
  <2> QED
    BY <1>10, <2>1, <2>2
<1>11. CASE UNCHANGED vars
  BY <1>11 DEF vars, TypeInv
<1> QED
  BY <1>1, <1>2, <1>3, <1>4, <1>5, <1>6, <1>7, <1>8, <1>9, <1>10, <1>11 DEF Next, Step

-----------------------------------------------------------------------------
(* One writer.                                                             *)

\* The ring as next has it: f[1] to f[n] are its entries, the policy is the last of them,
\* f[0] and f[n + 1] are the head.
Ring(n, f) ==
    /\ n \in Nat \ {0} /\ f \in [0 .. n + 1 -> Cells]
    /\ f[0] = ListHead /\ f[n + 1] = ListHead /\ f[n] = Policy
    /\ \A i, j \in 0 .. n : f[i] = f[j] => i = j
    /\ \A i \in 0 .. n : next[f[i]] = f[i + 1]

Within(n, f) == {f[i] : i \in 1 .. n}

\* prev is the reverse of next, except at f[k], where it is c.
Back(n, f) == \A i \in 1 .. n + 1 : prev[f[i]] = f[i - 1]
BackBut(n, f, k, c) == \A i \in 1 .. n + 1 : prev[f[i]] = IF i = k THEN c ELSE f[i - 1]

Adding == {"add_tail", "add1", "add2", "add3", "add4"}
Removed == {"del3", "del4", "free"}

\* What is allocated: the ring, the entry that will be linked, the one that was unlinked.
OwnLive(w, n, f) ==
    CASE th[w].pc \in Adding  -> /\ th[w].new \in Nodes \ Within(n, f)
                                 /\ live = Within(n, f) \cup {th[w].new}
      [] th[w].pc \in Removed -> /\ th[w].p \in Nodes \ Within(n, f)
                                 /\ live = Within(n, f) \cup {th[w].p}
      [] OTHER                -> live = Within(n, f)

\* length lags behind the ring.
OwnLength(w, n) ==
    /\ n = CASE th[w].pc \in {"inc", "inc_store"} -> length + 1
             [] th[w].pc \in Removed \cup {"dec", "dec_store"} -> length - 1
             [] OTHER -> length
    /\ th[w].pc \in {"inc_store", "dec_store"} => th[w].len = length

\* Where the writer is, while the ring is whole.
OwnPlace(w, n, f) ==
    LET r == th[w]
    IN /\ r.pc = "walk" =>
            /\ r.op \in {"insert", "match", "all_in", "print"}
            /\ \E k \in 1 .. n + 1 : r.p = f[k] /\ (r.op = "match" => r.left = k - 1)
       /\ r.pc = "steps" =>
            /\ r.op \in {"delete", "alter"}
            /\ \E k \in 0 .. n - 1 : r.p = f[k] /\ k + r.left \in 1 .. n - 1
       /\ r.pc = "write" => \E k \in 1 .. n - 1 : r.p = f[k]
       /\ r.pc = "clean" => r.op = "clean" /\ r.p = f[1]
       /\ r.pc = "del" =>
            /\ r.op \in Removals
            /\ \E k \in 1 .. n - 1 : r.p = f[k] /\ (r.op = "clean" => k = 1 /\ r.q = f[2])
       /\ r.pc = "add_tail" => \E k \in 1 .. n : r.p = f[k]
       /\ r.pc \in Removed \cup {"dec", "dec_store"} =>
            r.op \in Removals /\ (r.op = "clean" => r.q = f[1])

\* An entry is being linked in front of f[k].
OwnAdd(w, n, f, k) ==
    LET r == th[w]
    IN /\ k \in 1 .. n
       /\ r.nxt = f[k] /\ r.prv = f[k - 1]
       /\ BackBut(n, f, k, IF r.pc = "add1" THEN f[k - 1] ELSE r.new)
       /\ r.pc \in {"add3", "add4"} => next[r.new] = f[k]
       /\ r.pc = "add4" => prev[r.new] = f[k - 1]

\* f[k] is being unlinked.
OwnRemove(w, n, f, k) ==
    LET r == th[w]
    IN /\ k \in 1 .. n - 1
       /\ r.p = f[k] /\ r.nxt = f[k + 1] /\ r.prv = f[k - 1]
       /\ r.op \in Removals
       /\ r.op = "clean" => k = 1 /\ r.q = f[2]
       /\ BackBut(n, f, k + 1, IF r.pc = "del1" THEN f[k] ELSE f[k - 1])

OwnLinks(w, n, f) ==
    CASE th[w].pc \in {"add1", "add2", "add3", "add4"} -> \E k \in 1 .. n : OwnAdd(w, n, f, k)
      [] th[w].pc \in {"del1", "del2"} -> \E k \in 1 .. n - 1 : OwnRemove(w, n, f, k)
      [] OTHER -> Back(n, f)

\* The other threads read, and what they have come to is in the ring unless the writer
\* frees entries.
Readers(w, n, f) ==
    \A t \in Threads \ {w} :
        /\ th[t].pc = "idle" \/ (th[t].pc = "walk" /\ th[t].op = "all_in")
        /\ does[w] \cap Removals = {} /\ th[t].pc = "walk" => th[t].p \in Within(n, f) \cup {ListHead}

Order(w, n, f) ==
    /\ Ring(n, f)
    /\ OwnLive(w, n, f) /\ OwnLength(w, n) /\ OwnPlace(w, n, f) /\ OwnLinks(w, n, f)
    /\ Readers(w, n, f)

OnlyWriter(w) == \A t \in Threads \ {w} : does[t] \subseteq {"all_in"}

WriterInv(w) ==
    OnlyWriter(w) =>
        IF wild THEN does[w] \cap Removals # {} /\ \E t \in Threads \ {w} : does[t] # {}
        ELSE \E n \in Nat : \E f \in [0 .. n + 1 -> Cells] : Order(w, n, f)

\* The ring with c in front of its k-th entry.
Inserted(n, f, k, c) == [i \in 0 .. n + 2 |-> IF i < k THEN f[i] ELSE IF i = k THEN c ELSE f[i - 1]]

\* The ring without its k-th entry.
Without(n, f, k) == [i \in 0 .. n |-> IF i < k THEN f[i] ELSE f[i + 1]]

\* A step from the ring f: the ring stays, gains an entry or loses one, or a thread that
\* lists follows a pointer to what the writer has freed.
After(w, n, f) ==
    IF wild' THEN does[w] \cap Removals # {} /\ \E t \in Threads \ {w} : does[t] # {}
    ELSE \/ Order(w, n, f)'
         \/ \E k \in 1 .. n, c \in Nodes : \E g : g = Inserted(n, f, k, c) /\ Order(w, n + 1, g)'
         \/ \E k \in 1 .. n - 1 : \E m, g : m = n - 1 /\ g = Without(n, f, k) /\ Order(w, m, g)'

\* What a step keeps that leaves next alone and is the writer's.
LEMMA Still ==
    ASSUME NEW w \in Threads, NEW n, NEW f, Order(w, n, f), UNCHANGED <<next, does>>,
           \A t \in Threads \ {w} : th'[t] = th[t]
    PROVE  Ring(n, f)' /\ Readers(w, n, f)'
BY DEF Order, Ring, Readers, Within

\* The ring that stays as it was.
LEMMA Kept ==
    ASSUME NEW w \in Threads, NEW n \in Nat, NEW f \in [0 .. n + 1 -> Cells], ~wild', Order(w, n, f)'
    PROVE  After(w, n, f)
BY DEF After

\* The entries of a ring.
LEMMA RingEntries ==
    ASSUME NEW n, NEW f, Ring(n, f)
    PROVE  /\ n \in Nat /\ n >= 1
           /\ \A i \in 0 .. n + 1 : f[i] \in Cells
           /\ \A i \in 1 .. n - 1 : f[i] \in Nodes
           /\ \A i \in 1 .. n : f[i] # ListHead
           /\ Within(n, f) \subseteq Nodes \cup {Policy}
           /\ f[1] # ListHead /\ next[ListHead] = f[1]
BY CellsTyped DEF Ring, Within, Cells

\* Starting an operation.
LEMMA WriterBegins ==
    ASSUME TypeInv, NEW w \in Threads, ~wild, NEW n \in Nat, NEW f \in [0 .. n + 1 -> Cells],
           Order(w, n, f), Begin(w), UNCHANGED does
    PROVE  After(w, n, f)
<1>1. /\ th[w].pc = "idle" /\ ~wild' /\ live = Within(n, f) /\ length = n /\ Back(n, f)
      /\ Ring(n, f)
  BY DEF Begin, At, Order, OwnLive, OwnLength, OwnLinks, Adding, Removed
<1>2. CASE StartAppend(w)
  <2>1. PICK c \in Nodes \ live :
             /\ live' = live \cup {c}
             /\ th' = [th EXCEPT ![w] = [Idle EXCEPT !.pc = "add_tail", !.op = "append",
                                                     !.new = c, !.p = prev[ListHead]]]
             /\ UNCHANGED <<ring, length>>
    BY <1>2 DEF StartAppend
  <2>2. /\ th'[w].pc = "add_tail" /\ th'[w].new = c /\ th'[w].p = f[n]
    <3>1. prev[ListHead] = f[n]
      <4>1. n + 1 \in 1 .. n + 1 /\ f[n + 1] = ListHead /\ (n + 1) - 1 = n
        BY <1>1 DEF Ring
      <4> QED
        BY <1>1, <4>1 DEF Back
    <3> QED
      BY <2>1, <3>1 DEF TypeInv, Idle
  <2>3. Ring(n, f)' /\ Readers(w, n, f)'
    BY <2>1, Still DEF TypeInv, ring
  <2>4. OwnLive(w, n, f)' /\ OwnLength(w, n)' /\ OwnPlace(w, n, f)' /\ OwnLinks(w, n, f)'
    BY <1>1, <2>1, <2>2, RingEntries
       DEF OwnLive, OwnLength, OwnPlace, OwnLinks, Adding, Removed, Within, Back, ring
  <2> QED
    BY <1>1, <2>3, <2>4, Kept DEF Order
<1>3. ASSUME NEW op \in {"insert", "match", "all_in"}, StartWalk(w, op)
      PROVE  After(w, n, f)
  <2>1. /\ th' = [th EXCEPT ![w] = [Idle EXCEPT !.pc = "walk", !.op = op, !.p = next[ListHead]]]
        /\ UNCHANGED <<ring, length, live>>
    BY <1>3 DEF StartWalk
  <2>2. th'[w].pc = "walk" /\ th'[w].op = op /\ th'[w].p = f[1] /\ th'[w].left = 0
    BY <1>1, <2>1, RingEntries DEF TypeInv, Idle
  <2>3. Ring(n, f)' /\ Readers(w, n, f)'
    BY <2>1, Still DEF TypeInv, ring
  <2>4. OwnLive(w, n, f)' /\ OwnLength(w, n)' /\ OwnPlace(w, n, f)' /\ OwnLinks(w, n, f)'
    BY <1>1, <2>1, <2>2, RingEntries
       DEF OwnLive, OwnLength, OwnPlace, OwnLinks, Adding, Removed, Within, Back, ring
  <2> QED
    BY <1>1, <2>3, <2>4, Kept DEF Order
<1>4. ASSUME NEW op \in {"delete", "alter"}, StartSteps(w, op)
      PROVE  After(w, n, f)
  <2>1. PICK index \in Indexes :
            /\ th' = [th EXCEPT ![w] = [Idle EXCEPT !.pc = "steps", !.op = op, !.left = index]]
            /\ UNCHANGED <<ring, length, live>>
    BY <1>4 DEF StartSteps
  <2>2. /\ th'[w].pc = "steps" /\ th'[w].op = op /\ th'[w].p = f[0] /\ th'[w].left = index
        /\ 0 \in 0 .. n - 1 /\ 0 + index \in 1 .. n - 1
    BY <1>1, <2>1, RingEntries DEF TypeInv, Idle, Ring, Indexes
  <2>3. Ring(n, f)' /\ Readers(w, n, f)'
    BY <2>1, Still DEF TypeInv, ring
  <2>4. OwnLive(w, n, f)' /\ OwnLength(w, n)' /\ OwnPlace(w, n, f)' /\ OwnLinks(w, n, f)'
    BY <1>1, <2>1, <2>2, RingEntries
       DEF OwnLive, OwnLength, OwnPlace, OwnLinks, Adding, Removed, Within, Back, ring
  <2> QED
    BY <1>1, <2>3, <2>4, Kept DEF Order
<1>5. CASE StartClean(w)
  <2>1. /\ th' = [th EXCEPT ![w] = [Idle EXCEPT !.pc = "clean", !.op = "clean", !.p = next[ListHead]]]
        /\ UNCHANGED <<ring, length, live>>
    BY <1>5 DEF StartClean
  <2>2. th'[w].pc = "clean" /\ th'[w].op = "clean" /\ th'[w].p = f[1]
    BY <1>1, <2>1, RingEntries DEF TypeInv, Idle
  <2>3. Ring(n, f)' /\ Readers(w, n, f)'
    BY <2>1, Still DEF TypeInv, ring
  <2>4. OwnLive(w, n, f)' /\ OwnLength(w, n)' /\ OwnPlace(w, n, f)' /\ OwnLinks(w, n, f)'
    BY <1>1, <2>1, <2>2, RingEntries
       DEF OwnLive, OwnLength, OwnPlace, OwnLinks, Adding, Removed, Within, Back, ring
  <2> QED
    BY <1>1, <2>3, <2>4, Kept DEF Order
<1> QED
  BY <1>2, <1>3, <1>4, <1>5 DEF Begin

\* A walk of the writer: to the next entry, to the place of an insertion, to an entry to delete.
LEMMA WriterWalks ==
    ASSUME TypeInv, NEW w \in Threads, ~wild, NEW n \in Nat, NEW f \in [0 .. n + 1 -> Cells],
           Order(w, n, f), Walk(w), UNCHANGED does
    PROVE  After(w, n, f)
<1> DEFINE p == th[w].p
<1>1. PICK k \in 1 .. n + 1 : p = f[k] /\ (th[w].op = "match" => th[w].left = k - 1)
  BY DEF Walk, At, Order, OwnPlace
<1>2. /\ th[w].pc = "walk" /\ live = Within(n, f) /\ length = n /\ Back(n, f) /\ Ring(n, f)
      /\ th[w].op \in {"insert", "match", "all_in", "print"}
  BY DEF Walk, At, Order, OwnLive, OwnLength, OwnLinks, OwnPlace, Adding, Removed
<1>3. Valid(p) /\ (p # ListHead => k \in 1 .. n)
  BY <1>1, <1>2, RingEntries DEF Valid, Within, Ring
<1>4. CASE th' = [th EXCEPT ![w] = Idle] /\ UNCHANGED <<ring, length, live, wild, ops>>
  <2>1. th'[w].pc = "idle"
    BY <1>4 DEF TypeInv, Idle
  <2>2. Ring(n, f)' /\ Readers(w, n, f)'
    BY <1>4, Still DEF TypeInv, ring
  <2>3. OwnLive(w, n, f)' /\ OwnLength(w, n)' /\ OwnPlace(w, n, f)' /\ OwnLinks(w, n, f)'
    BY <1>2, <1>4, <2>1
       DEF OwnLive, OwnLength, OwnPlace, OwnLinks, Adding, Removed, Within, Back, ring
  <2> QED
    BY <1>4, <2>2, <2>3, Kept DEF Order
<1>5. CASE Stop(w, p) /\ th[w].op = "insert"
  <2>1. PICK c \in Nodes \ live :
             /\ live' = live \cup {c}
             /\ th' = [th EXCEPT ![w].pc = "add_tail", ![w].new = c,
                                 ![w].p = IF p = ListHead THEN prev[ListHead] ELSE p]
             /\ UNCHANGED <<ring, length, wild, ops>>
    BY <1>5 DEF Stop
  <2>2. /\ th'[w].pc = "add_tail" /\ th'[w].new = c
        /\ \E j \in 1 .. n : th'[w].p = f[j]
    <3>1. prev[ListHead] = f[n]
      <4>1. n + 1 \in 1 .. n + 1 /\ f[n + 1] = ListHead /\ (n + 1) - 1 = n
        BY <1>2 DEF Ring
      <4> QED
        BY <1>2, <4>1 DEF Back
    <3>2. \E j \in 1 .. n : (IF p = ListHead THEN prev[ListHead] ELSE p) = f[j]
      BY <1>1, <1>2, <1>3, <3>1, RingEntries
    <3>3. th'[w].pc = "add_tail" /\ th'[w].new = c /\ th'[w].p = IF p = ListHead THEN prev[ListHead] ELSE p
      BY <2>1 DEF TypeInv, Frames
    <3> QED
      BY <3>2, <3>3
  <2>3. Ring(n, f)' /\ Readers(w, n, f)'
    BY <2>1, Still DEF TypeInv, ring
  <2>4. OwnLive(w, n, f)' /\ OwnLength(w, n)' /\ OwnPlace(w, n, f)' /\ OwnLinks(w, n, f)'
    BY <1>2, <2>1, <2>2
       DEF OwnLive, OwnLength, OwnPlace, OwnLinks, Adding, Removed, Within, Back, ring
  <2> QED
    BY <2>1, <2>3, <2>4, Kept DEF Order
<1>6. CASE /\ p # ListHead /\ Goto(w, "del") /\ th[w].op = "match" /\ th[w].left < length - 1
           /\ UNCHANGED <<ring, length, live, wild, ops>>
  <2>1. th'[w].pc = "del" /\ th'[w].p = f[k] /\ th'[w].op = "match" /\ k \in 1 .. n - 1
    BY <1>1, <1>2, <1>6 DEF Goto, TypeInv, Frames
  <2>2. Ring(n, f)' /\ Readers(w, n, f)'
    BY <1>6, Still DEF Goto, TypeInv, ring
  <2>3. OwnLive(w, n, f)' /\ OwnLength(w, n)' /\ OwnPlace(w, n, f)' /\ OwnLinks(w, n, f)'
    BY <1>2, <1>6, <2>1
       DEF OwnLive, OwnLength, OwnPlace, OwnLinks, Adding, Removed, Within, Back, ring, Removals
  <2> QED
    BY <1>6, <2>2, <2>3, Kept DEF Order
<1>7. CASE /\ p # ListHead
           /\ th' = [th EXCEPT ![w].p = next[p],
                               ![w].left = IF th[w].op = "match" THEN @ + 1 ELSE @]
           /\ UNCHANGED <<ring, length, live, wild, ops>>
  <2>1. /\ th'[w].pc = "walk" /\ th'[w].p = f[k + 1] /\ th'[w].op = th[w].op
        /\ th[w].op = "match" => th'[w].left = th[w].left + 1
    BY <1>1, <1>2, <1>3, <1>7 DEF TypeInv, Frames, Ring
  <2>2. Ring(n, f)' /\ Readers(w, n, f)'
    BY <1>7, Still DEF TypeInv, ring
  <2>3. OwnPlace(w, n, f)'
    <3>1. k + 1 \in 1 .. n + 1 /\ (th[w].op = "match" => th'[w].left = (k + 1) - 1)
      BY <1>1, <1>3, <1>7, <2>1
    <3> QED
      BY <1>2, <2>1, <3>1 DEF OwnPlace, Removed
  <2>4. OwnLive(w, n, f)' /\ OwnLength(w, n)' /\ OwnLinks(w, n, f)'
    BY <1>2, <1>7, <2>1 DEF OwnLive, OwnLength, OwnLinks, Adding, Removed, Within, Back, ring
  <2> QED
    BY <1>7, <2>2, <2>3, <2>4, Kept DEF Order
<1> QED
  BY <1>2, <1>3, <1>4, <1>5, <1>6, <1>7 DEF Walk

\* A step towards an index.
LEMMA WriterSteps ==
    ASSUME TypeInv, NEW w \in Threads, ~wild, NEW n \in Nat, NEW f \in [0 .. n + 1 -> Cells],
           Order(w, n, f), Steps(w), UNCHANGED does
    PROVE  After(w, n, f)
<1>1. PICK k \in 0 .. n - 1 : th[w].p = f[k] /\ k + th[w].left \in 1 .. n - 1
  BY DEF Steps, At, Order, OwnPlace
<1>2. /\ th[w].pc = "steps" /\ live = Within(n, f) /\ length = n /\ Back(n, f) /\ Ring(n, f)
      /\ th[w].op \in {"delete", "alter"}
  BY DEF Steps, At, Order, OwnLive, OwnLength, OwnLinks, OwnPlace, Adding, Removed
<1>3. Valid(th[w].p)
  BY <1>1, <1>2 DEF Valid, Within, Ring
<1>4. CASE th[w].left = 0
  <2>1. /\ Goto(w, IF th[w].op = "alter" THEN "write" ELSE "del")
        /\ UNCHANGED <<ring, length, live, wild, ops>>
    BY <1>4 DEF Steps
  <2>2. /\ th'[w].pc = IF th[w].op = "alter" THEN "write" ELSE "del"
        /\ th'[w].p = f[k] /\ th'[w].op = th[w].op /\ k \in 1 .. n - 1
    BY <1>1, <1>4, <2>1 DEF Goto, TypeInv, Frames
  <2>3. Ring(n, f)' /\ Readers(w, n, f)'
    BY <2>1, Still DEF Goto, TypeInv, ring
  <2>4. OwnLive(w, n, f)' /\ OwnLength(w, n)' /\ OwnPlace(w, n, f)' /\ OwnLinks(w, n, f)'
    BY <1>2, <2>1, <2>2
       DEF OwnLive, OwnLength, OwnPlace, OwnLinks, Adding, Removed, Within, Back, ring, Removals
  <2> QED
    BY <2>1, <2>3, <2>4, Kept DEF Order
<1>5. CASE th[w].left # 0
  <2>1. /\ th' = [th EXCEPT ![w].p = next[th[w].p], ![w].left = @ - 1]
        /\ UNCHANGED <<ring, length, live, wild, ops>>
    BY <1>3, <1>5 DEF Steps
  <2>2. /\ th'[w].pc = "steps" /\ th'[w].op = th[w].op
        /\ th'[w].p = f[k + 1] /\ th'[w].left = th[w].left - 1
    BY <1>1, <1>2, <2>1, SMTT(30) DEF TypeInv, Frames, Ring
  <2>3. k + 1 \in 0 .. n - 1 /\ (k + 1) + th'[w].left \in 1 .. n - 1
    <3>1. PICK l : l = th[w].left
      OBVIOUS
    <3>2. l \in Nat /\ l # 0
      BY <1>5, <3>1 DEF TypeInv, Frames
    <3>3. k \in 0 .. n - 1 /\ k + l \in 1 .. n - 1
      BY <1>1, <3>1
    <3>4. th'[w].left = l - 1
      BY <2>2, <3>1
    <3> QED
      BY <3>2, <3>3, <3>4
  <2>4. Ring(n, f)' /\ Readers(w, n, f)'
    BY <2>1, Still DEF TypeInv, ring
  <2>5. OwnLive(w, n, f)' /\ OwnLength(w, n)' /\ OwnPlace(w, n, f)' /\ OwnLinks(w, n, f)'
    BY <1>2, <2>1, <2>2, <2>3
       DEF OwnLive, OwnLength, OwnPlace, OwnLinks, Adding, Removed, Within, Back, ring
  <2> QED
    BY <2>1, <2>4, <2>5, Kept DEF Order
<1> QED
  BY <1>4, <1>5

\* What print_info leaves: the walk it ends with.
LEMMA WriterPrints ==
    ASSUME TypeInv, NEW w \in Threads, NEW n \in Nat, NEW f \in [0 .. n + 1 -> Cells],
           Ring(n, f), Back(n, f), live = Within(n, f), Readers(w, n, f),
           th' = [th EXCEPT ![w] = print_info], UNCHANGED <<next, prev, live, wild, does>>, ~wild,
           length' = n
    PROVE  After(w, n, f)
<1>1. th'[w].pc = "walk" /\ th'[w].op = "print" /\ th'[w].p = f[1]
  BY RingEntries DEF TypeInv, print_info, Idle
<1>2. Ring(n, f)' /\ Readers(w, n, f)'
  BY DEF TypeInv, Ring, Readers, Within
<1>3. OwnLive(w, n, f)' /\ OwnLength(w, n)' /\ OwnPlace(w, n, f)' /\ OwnLinks(w, n, f)'
  BY <1>1, RingEntries DEF OwnLive, OwnLength, OwnPlace, OwnLinks, Adding, Removed, Within, Back
<1> QED
  BY <1>2, <1>3, Kept DEF Order

\* do_alter's write to the entry it has come to.
LEMMA WriterWrites ==
    ASSUME TypeInv, NEW w \in Threads, ~wild, NEW n \in Nat, NEW f \in [0 .. n + 1 -> Cells],
           Order(w, n, f), Write(w), UNCHANGED does
    PROVE  After(w, n, f)
<1>1. /\ th[w].pc = "write" /\ live = Within(n, f) /\ length = n /\ Back(n, f) /\ Ring(n, f)
      /\ Readers(w, n, f) /\ th[w].p \in live
  BY DEF Write, At, Order, OwnLive, OwnLength, OwnLinks, OwnPlace, Adding, Removed, Within
<1> QED
  BY <1>1, WriterPrints DEF Write, ring

\* free_all's loop.
LEMMA WriterCleans ==
    ASSUME TypeInv, NEW w \in Threads, ~wild, NEW n \in Nat, NEW f \in [0 .. n + 1 -> Cells],
           Order(w, n, f), CleanLoop(w), UNCHANGED does
    PROVE  After(w, n, f)
<1>1. /\ th[w].pc = "clean" /\ live = Within(n, f) /\ length = n /\ Back(n, f) /\ Ring(n, f)
      /\ th[w].op = "clean" /\ th[w].p = f[1]
  BY DEF CleanLoop, At, Order, OwnLive, OwnLength, OwnLinks, OwnPlace, Adding, Removed
<1>2. th[w].p # ListHead /\ Valid(th[w].p) /\ next[th[w].p] = f[2]
  BY <1>1, RingEntries DEF Valid, Within, Ring
<1>3. CASE th' = [th EXCEPT ![w] = Idle] /\ UNCHANGED <<ring, length, live, wild, ops>>
  <2>1. th'[w].pc = "idle"
    BY <1>3 DEF TypeInv, Idle
  <2>2. Ring(n, f)' /\ Readers(w, n, f)'
    BY <1>3, Still DEF TypeInv, ring
  <2>3. OwnLive(w, n, f)' /\ OwnLength(w, n)' /\ OwnPlace(w, n, f)' /\ OwnLinks(w, n, f)'
    BY <1>1, <1>3, <2>1
       DEF OwnLive, OwnLength, OwnPlace, OwnLinks, Adding, Removed, Within, Back, ring
  <2> QED
    BY <1>3, <2>2, <2>3, Kept DEF Order
<1>4. CASE /\ length - 1 # 0
           /\ th' = [th EXCEPT ![w].q = next[th[w].p], ![w].pc = "del"]
           /\ UNCHANGED <<ring, length, live, wild, ops>>
  <2>1. /\ th'[w].pc = "del" /\ th'[w].op = "clean" /\ th'[w].p = f[1] /\ th'[w].q = f[2]
        /\ 1 \in 1 .. n - 1
    BY <1>1, <1>2, <1>4, RingEntries DEF TypeInv, Frames
  <2>2. Ring(n, f)' /\ Readers(w, n, f)'
    BY <1>4, Still DEF TypeInv, ring
  <2>3. OwnLive(w, n, f)' /\ OwnLength(w, n)' /\ OwnPlace(w, n, f)' /\ OwnLinks(w, n, f)'
    BY <1>1, <1>4, <2>1
       DEF OwnLive, OwnLength, OwnPlace, OwnLinks, Adding, Removed, Within, Back, ring, Removals
  <2> QED
    BY <1>4, <2>2, <2>3, Kept DEF Order
<1> QED
  BY <1>2, <1>3, <1>4 DEF CleanLoop

\* list_add_tail: the writer takes the two neighbours.
LEMMA WriterAddsTail ==
    ASSUME TypeInv, NEW w \in Threads, ~wild, NEW n \in Nat, NEW f \in [0 .. n + 1 -> Cells],
           Order(w, n, f), list_add_tail(w), UNCHANGED does
    PROVE  After(w, n, f)
<1>1. PICK k \in 1 .. n : th[w].p = f[k]
  BY DEF list_add_tail, At, Order, OwnPlace
<1>2. /\ th[w].pc = "add_tail" /\ length = n /\ Back(n, f) /\ Ring(n, f)
      /\ th[w].new \in Nodes \ Within(n, f) /\ live = Within(n, f) \cup {th[w].new}
  BY DEF list_add_tail, At, Order, OwnLive, OwnLength, OwnLinks, Adding, Removed
<1>3. Valid(th[w].p) /\ prev[th[w].p] = f[k - 1]
  BY <1>1, <1>2 DEF Valid, Within, Back
<1>4. /\ th' = [th EXCEPT ![w].nxt = th[w].p, ![w].prv = prev[th[w].p], ![w].pc = "add1"]
      /\ UNCHANGED <<ring, length, live, wild, ops>>
  BY <1>3 DEF list_add_tail
<1>5. /\ th'[w].pc = "add1" /\ th'[w].nxt = f[k] /\ th'[w].prv = f[k - 1]
      /\ th'[w].new = th[w].new
  BY <1>1, <1>3, <1>4 DEF TypeInv, Frames
<1>6. Ring(n, f)' /\ Readers(w, n, f)'
  BY <1>4, Still DEF TypeInv, ring
<1>7. OwnAdd(w, n, f, k)'
  BY <1>2, <1>4, <1>5 DEF OwnAdd, BackBut, Back, ring
<1>8. OwnLive(w, n, f)' /\ OwnLength(w, n)' /\ OwnPlace(w, n, f)' /\ OwnLinks(w, n, f)'
  BY <1>2, <1>4, <1>5, <1>7
     DEF OwnLive, OwnLength, OwnPlace, OwnLinks, Adding, Removed, Within, ring
<1> QED
  BY <1>4, <1>6, <1>8, Kept DEF Order

\* The four stores of __list_add; the last of them puts the entry into the ring.
LEMMA WriterAdds ==
    ASSUME TypeInv, NEW w \in Threads, ~wild, NEW n \in Nat, NEW f \in [0 .. n + 1 -> Cells],
           Order(w, n, f), __list_add(w), UNCHANGED does
    PROVE  After(w, n, f)
<1> DEFINE r == th[w]
<1>1. PICK k \in 1 .. n : OwnAdd(w, n, f, k)
  BY DEF __list_add, At, Order, OwnLinks
<1>2. /\ r.pc \in {"add1", "add2", "add3", "add4"} /\ length = n /\ Ring(n, f)
      /\ r.new \in Nodes \ Within(n, f) /\ live = Within(n, f) \cup {r.new}
  BY DEF __list_add, At, Order, OwnLive, OwnLength, Adding, Removed
<1>3. /\ r.nxt = f[k] /\ r.prv = f[k - 1] /\ f[k] \in Cells /\ f[k - 1] \in Cells
      /\ Valid(r.nxt) /\ Valid(r.prv) /\ Valid(r.new)
  BY <1>1, <1>2, RingEntries DEF OwnAdd, Valid, Within, Ring
<1>4. \A i \in 0 .. n + 1 : f[i] # r.new
  BY <1>2, CellsTyped, ListRaceAssumption DEF Ring, Within
<1>5. CASE r.pc = "add1"
  <2>1. /\ prev' = [prev EXCEPT ![f[k]] = r.new] /\ Goto(w, "add2")
        /\ UNCHANGED <<next, length, live, wild, ops>>
    BY <1>3, <1>5 DEF __list_add, At, StorePrev
  <2>2. /\ th'[w].pc = "add2" /\ th'[w].nxt = f[k] /\ th'[w].prv = f[k - 1]
        /\ th'[w].new = r.new
    BY <1>3, <2>1 DEF Goto, TypeInv, Frames
  <2>3. Ring(n, f)' /\ Readers(w, n, f)'
    BY <2>1, Still DEF Goto, TypeInv
  <2>4. OwnAdd(w, n, f, k)'
    <3>1. \A i \in 1 .. n + 1 : prev'[f[i]] = IF i = k THEN r.new ELSE f[i - 1]
      <4>1. \A i \in 1 .. n + 1 : f[i] = f[k] => i = k
        BY <1>2, RingEntries DEF Ring
      <4>2. \A i \in 1 .. n + 1 : i # k => prev[f[i]] = f[i - 1]
        BY <1>1 DEF OwnAdd, BackBut
      <4>3. \A i \in 1 .. n + 1 : f[i] \in Cells
        BY <1>2, RingEntries
      <4> QED
        BY <2>1, <4>1, <4>2, <4>3 DEF TypeInv
    <3> QED
      BY <2>2, <3>1 DEF OwnAdd, BackBut
  <2>5. OwnLive(w, n, f)' /\ OwnLength(w, n)' /\ OwnPlace(w, n, f)' /\ OwnLinks(w, n, f)'
    BY <1>2, <2>1, <2>2, <2>4
       DEF OwnLive, OwnLength, OwnPlace, OwnLinks, Adding, Removed, Within
  <2> QED
    BY <2>1, <2>3, <2>5, Kept DEF Order
<1>6. CASE r.pc = "add2"
  <2>1. /\ next' = [next EXCEPT ![r.new] = f[k]] /\ Goto(w, "add3")
        /\ UNCHANGED <<prev, length, live, wild, ops>>
    BY <1>3, <1>6 DEF __list_add, At, StoreNext
  <2>2. /\ th'[w].pc = "add3" /\ th'[w].nxt = f[k] /\ th'[w].prv = f[k - 1]
        /\ th'[w].new = r.new /\ next'[r.new] = f[k]
        /\ \A t \in Threads \ {w} : th'[t] = th[t]
    BY <1>2, <1>3, <2>1 DEF Goto, TypeInv, Frames, Cells
  <2>3. Ring(n, f)' /\ Readers(w, n, f)'
    <3>1. \A i \in 0 .. n : next'[f[i]] = next[f[i]]
      BY <1>4, <2>1, RingEntries DEF TypeInv, Order
    <3> QED
      BY <2>2, <3>1 DEF Order, Ring, Readers, Within
  <2>4. OwnAdd(w, n, f, k)'
    BY <1>1, <1>6, <2>1, <2>2 DEF OwnAdd, BackBut
  <2>5. OwnLive(w, n, f)' /\ OwnLength(w, n)' /\ OwnPlace(w, n, f)' /\ OwnLinks(w, n, f)'
    BY <1>2, <2>1, <2>2, <2>4
       DEF OwnLive, OwnLength, OwnPlace, OwnLinks, Adding, Removed, Within
  <2> QED
    BY <2>1, <2>3, <2>5, Kept DEF Order
<1>7. CASE r.pc = "add3"
  <2>1. /\ prev' = [prev EXCEPT ![r.new] = f[k - 1]] /\ Goto(w, "add4")
        /\ UNCHANGED <<next, length, live, wild, ops>>
    BY <1>3, <1>7 DEF __list_add, At, StorePrev
  <2>2. /\ th'[w].pc = "add4" /\ th'[w].nxt = f[k] /\ th'[w].prv = f[k - 1]
        /\ th'[w].new = r.new /\ prev'[r.new] = f[k - 1]
    BY <1>2, <1>3, <2>1 DEF Goto, TypeInv, Frames, Cells
  <2>3. Ring(n, f)' /\ Readers(w, n, f)'
    BY <2>1, Still DEF Goto, TypeInv
  <2>4. OwnAdd(w, n, f, k)'
    <3>1. \A i \in 1 .. n + 1 : prev'[f[i]] = prev[f[i]]
      BY <1>4, <2>1, RingEntries DEF TypeInv, Order
    <3> QED
      BY <1>1, <1>7, <2>1, <2>2, <3>1 DEF OwnAdd, BackBut
  <2>5. OwnLive(w, n, f)' /\ OwnLength(w, n)' /\ OwnPlace(w, n, f)' /\ OwnLinks(w, n, f)'
    BY <1>2, <2>1, <2>2, <2>4
       DEF OwnLive, OwnLength, OwnPlace, OwnLinks, Adding, Removed, Within
  <2> QED
    BY <2>1, <2>3, <2>5, Kept DEF Order
<1>8. CASE r.pc = "add4"
  <2>1. /\ next' = [next EXCEPT ![f[k - 1]] = r.new] /\ Goto(w, "inc")
        /\ UNCHANGED <<prev, length, live, wild, ops>>
    BY <1>3, <1>8 DEF __list_add, At, StoreNext
  <2>2. /\ th'[w].pc = "inc" /\ th'[w].op = r.op
        /\ \A t \in Threads \ {w} : th'[t] = th[t]
    BY <2>1 DEF Goto, TypeInv, Frames
  <2>c. PICK c \in Nodes : c = r.new
    BY <1>2
  <2>g. PICK g : g = Inserted(n, f, k, c)
    OBVIOUS
  <2>3. /\ g \in [0 .. n + 2 -> Cells]
        /\ \A i \in 0 .. k - 1 : g[i] = f[i]
        /\ g[k] = c
        /\ \A i \in k + 1 .. n + 2 : g[i] = f[i - 1]
    BY <2>g DEF Inserted, Cells
  <2>4. /\ next'[c] = f[k] /\ next'[f[k - 1]] = c
        /\ \A i \in 0 .. n : i # k - 1 => next'[f[i]] = f[i + 1]
    <3>1. \A i \in 0 .. n : i # k - 1 => f[i] # f[k - 1]
      BY <1>2 DEF Ring
    <3>2. next'[c] = f[k] /\ next'[f[k - 1]] = c
      BY <1>1, <1>3, <1>4, <1>8, <2>1, <2>c DEF OwnAdd, TypeInv, Cells
    <3>3. \A i \in 0 .. n : f[i] \in Cells /\ next[f[i]] = f[i + 1]
      BY <1>2 DEF Ring
    <3> QED
      BY <2>1, <3>1, <3>2, <3>3 DEF TypeInv
  <2>5. Ring(n + 1, g)'
    <3>1. g[0] = ListHead /\ g[n + 2] = ListHead /\ g[n + 1] = Policy
      BY <1>2, <2>3 DEF Ring
    <3>2. \A i, j \in 0 .. n + 1 : g[i] = g[j] => i = j
      <4>1. \A i \in 0 .. n + 1 : i # k => g[i] # c
        BY <1>4, <2>c, <2>3
      <4>2. \A i, j \in 0 .. n : f[i] = f[j] => i = j
        BY <1>2 DEF Ring
      <4>3. ASSUME NEW i \in 0 .. n + 1, NEW j \in 0 .. n + 1, g[i] = g[j], i # k, j # k
            PROVE  i = j
        <5>1. CASE i < k /\ j < k
          BY <2>3, <4>2, <4>3, <5>1
        <5>2. CASE i > k /\ j > k
          <6>1. i - 1 \in 0 .. n /\ j - 1 \in 0 .. n /\ f[i - 1] = f[j - 1]
            BY <2>3, <4>3, <5>2
          <6> QED
            BY <4>2, <6>1
        <5>3. CASE i < k /\ j > k
          <6>1. i \in 0 .. n /\ j - 1 \in 0 .. n /\ f[i] = f[j - 1]
            BY <2>3, <4>3, <5>3
          <6> QED
            BY <4>2, <5>3, <6>1
        <5>4. CASE i > k /\ j < k
          <6>1. i - 1 \in 0 .. n /\ j \in 0 .. n /\ f[i - 1] = f[j]
            BY <2>3, <4>3, <5>4
          <6> QED
            BY <4>2, <5>4, <6>1
        <5> QED
          BY <4>3, <5>1, <5>2, <5>3, <5>4
      <4> QED
        BY <2>3, <4>1, <4>3
    <3>3. \A i \in 0 .. n + 1 : next'[g[i]] = g[i + 1]
      <4> SUFFICES ASSUME NEW i \in 0 .. n + 1 PROVE next'[g[i]] = g[i + 1]
        OBVIOUS
      <4>1. CASE i < k - 1
        BY <1>2, <2>3, <2>4, <4>1
      <4>2. CASE i = k - 1
        BY <1>2, <2>3, <2>4, <4>2
      <4>3. CASE i = k
        BY <1>2, <2>3, <2>4, <4>3
      <4>4. CASE i > k
        <5>1. i - 1 \in 0 .. n /\ i - 1 # k - 1 /\ (i - 1) + 1 = i /\ (i + 1) - 1 = i
          BY <4>4
        <5> QED
          BY <1>2, <2>3, <2>4, <4>4, <5>1
      <4> QED
        BY <4>1, <4>2, <4>3, <4>4
    <3>4. n + 1 \in Nat \ {0} /\ (n + 1) + 1 = n + 2
      OBVIOUS
    <3> QED
      BY <2>3, <3>1, <3>2, <3>3, <3>4 DEF Ring
  <2>6. Within(n + 1, g) = Within(n, f) \cup {c}
    <3>1. ASSUME NEW d \in Within(n + 1, g) PROVE d \in Within(n, f) \cup {c}
      BY <2>3, <3>1 DEF Within
    <3>2. ASSUME NEW i \in 1 .. n PROVE f[i] \in Within(n + 1, g)
      <4>1. CASE i < k
        BY <2>3, <4>1 DEF Within
      <4>2. CASE i >= k
        <5>1. i + 1 \in 1 .. n + 1 /\ g[i + 1] = f[i]
          BY <2>3, <4>2
        <5> QED
          BY <5>1 DEF Within
      <4> QED
        BY <4>1, <4>2
    <3>3. c \in Within(n + 1, g)
      BY <2>3 DEF Within
    <3> QED
      BY <3>1, <3>2, <3>3 DEF Within
  <2>7. Back(n + 1, g)'
    <3> SUFFICES ASSUME NEW i \in 1 .. n + 2 PROVE prev[g[i]] = g[i - 1]
      BY <2>1 DEF Back
    <3>1. CASE i < k
      BY <1>1, <1>8, <2>3, <3>1, SMTT(30) DEF OwnAdd, BackBut
    <3>2. CASE i = k
      BY <1>1, <1>8, <2>c, <2>3, <3>2 DEF OwnAdd
    <3>3. CASE i = k + 1
      BY <1>1, <1>8, <2>c, <2>3, <3>3 DEF OwnAdd, BackBut
    <3>4. CASE i > k + 1
      BY <1>1, <1>8, <2>3, <3>4 DEF OwnAdd, BackBut
    <3> QED
      BY <3>1, <3>2, <3>3, <3>4
  <2>8. Readers(w, n + 1, g)'
    BY <2>2, <2>6 DEF Order, Readers
  <2>9. OwnLive(w, n + 1, g)' /\ OwnLength(w, n + 1)' /\ OwnPlace(w, n + 1, g)' /\ OwnLinks(w, n + 1, g)'
    BY <1>2, <2>1, <2>2, <2>c, <2>6, <2>7 DEF OwnLive, OwnLength, OwnPlace, OwnLinks, Adding, Removed
  <2> QED
    BY <2>1, <2>c, <2>g, <2>5, <2>8, <2>9 DEF Order, After
<1> QED
  BY <1>2, <1>5, <1>6, <1>7, <1>8

\* info[i].length++ and info[i].length--.
LEMMA WriterCounts ==
    ASSUME TypeInv, NEW w \in Threads, ~wild, NEW n \in Nat, NEW f \in [0 .. n + 1 -> Cells],
           Order(w, n, f), UNCHANGED does,
           CountLoad(w, "inc", "inc_store") \/ CountLoad(w, "dec", "dec_store") \/ CountStore(w)
    PROVE  After(w, n, f)
<1> DEFINE r == th[w]
<1>1. /\ r.pc \in {"inc", "inc_store", "dec", "dec_store"}
      /\ live = Within(n, f) /\ Back(n, f) /\ Ring(n, f) /\ Readers(w, n, f)
  BY DEF CountLoad, CountStore, At, Order, OwnLive, OwnLinks, Adding, Removed
<1>2. CASE \E to \in {"inc_store", "dec_store"} :
              /\ to = "inc_store" <=> r.pc = "inc"
              /\ r.pc \in {"inc", "dec"}
              /\ th' = [th EXCEPT ![w].len = length, ![w].pc = to]
              /\ UNCHANGED <<ring, length, live, wild, ops>>
  <2>1. PICK to \in {"inc_store", "dec_store"} :
              /\ to = "inc_store" <=> r.pc = "inc"
              /\ r.pc \in {"inc", "dec"}
              /\ th' = [th EXCEPT ![w].len = length, ![w].pc = to]
              /\ UNCHANGED <<ring, length, live, wild, ops>>
    BY <1>2
  <2>2. /\ th'[w].pc = to /\ th'[w].len = length /\ th'[w].op = r.op /\ th'[w].q = r.q
    BY <2>1 DEF TypeInv, Frames
  <2>3. Ring(n, f)' /\ Readers(w, n, f)'
    BY <2>1, Still DEF TypeInv, ring
  <2>4. OwnLive(w, n, f)' /\ OwnLength(w, n)' /\ OwnPlace(w, n, f)' /\ OwnLinks(w, n, f)'
    BY <1>1, <2>1, <2>2
       DEF Order, OwnLive, OwnLength, OwnPlace, OwnLinks, Adding, Removed, Within, Back, ring, Removals
  <2> QED
    BY <2>1, <2>3, <2>4, Kept DEF Order
<1>3. CASE CountStore(w)
  <2>1. length' = n /\ UNCHANGED <<next, prev, live, wild>>
    BY <1>1, <1>3 DEF CountStore, At, Order, OwnLength, Removed, ring, TypeInv
  <2>2. CASE th' = [th EXCEPT ![w] = print_info]
    BY <1>1, <2>1, <2>2, WriterPrints
  <2>3. CASE /\ r.pc = "dec_store" /\ r.op = "clean"
             /\ th' = [th EXCEPT ![w] = [Idle EXCEPT !.pc = "clean", !.op = "clean", !.p = r.q]]
    <3>1. th'[w].pc = "clean" /\ th'[w].op = "clean" /\ th'[w].p = f[1]
      BY <2>3 DEF TypeInv, Idle, Order, OwnPlace
    <3>2. Ring(n, f)' /\ Readers(w, n, f)'
      BY <2>1, <2>3, Still DEF TypeInv
    <3>3. OwnLive(w, n, f)' /\ OwnLength(w, n)' /\ OwnPlace(w, n, f)' /\ OwnLinks(w, n, f)'
      BY <1>1, <2>1, <3>1
         DEF OwnLive, OwnLength, OwnPlace, OwnLinks, Adding, Removed, Within, Back
    <3> QED
      BY <2>1, <3>2, <3>3, Kept DEF Order
  <2> QED
    BY <1>3, <2>2, <2>3 DEF CountStore, At
<1> QED
  BY <1>2, <1>3 DEF CountLoad, At

\* A thread that deletes is one that may.
LEMMA Deletes ==
    ASSUME TypeInv, NEW w \in Threads, th[w].op \in Removals
    PROVE  does[w] \cap Removals # {}
BY DEF TypeInv, Removals

\* list_del takes the two neighbours and mends prev.
LEMMA WriterDeletes ==
    ASSUME TypeInv, NEW w \in Threads, ~wild, NEW n \in Nat, NEW f \in [0 .. n + 1 -> Cells],
           Order(w, n, f), list_del(w), th[w].pc \in {"del", "del1"}, UNCHANGED does
    PROVE  After(w, n, f)
<1> DEFINE r == th[w]
<1>1. CASE r.pc = "del"
  <2>1. PICK k \in 1 .. n - 1 : r.p = f[k] /\ (r.op = "clean" => k = 1 /\ r.q = f[2])
    BY <1>1 DEF Order, OwnPlace
  <2>2. /\ length = n /\ Back(n, f) /\ Ring(n, f) /\ live = Within(n, f) /\ r.op \in Removals
    BY <1>1 DEF Order, OwnLive, OwnLength, OwnLinks, OwnPlace, Adding, Removed
  <2>3. Valid(r.p) /\ prev[r.p] = f[k - 1] /\ next[r.p] = f[k + 1]
    BY <2>1, <2>2 DEF Valid, Within, Back, Ring
  <2>4. /\ th' = [th EXCEPT ![w].prv = prev[r.p], ![w].nxt = next[r.p], ![w].pc = "del1"]
        /\ UNCHANGED <<ring, length, live, wild, ops>>
    BY <1>1, <2>3 DEF list_del, At
  <2>5. /\ th'[w].pc = "del1" /\ th'[w].nxt = f[k + 1] /\ th'[w].prv = f[k - 1]
        /\ th'[w].p = f[k] /\ th'[w].op = r.op /\ th'[w].q = r.q
    BY <2>1, <2>3, <2>4 DEF TypeInv, Frames
  <2>6. Ring(n, f)' /\ Readers(w, n, f)'
    BY <2>4, Still DEF TypeInv, ring
  <2>7. OwnRemove(w, n, f, k)'
    BY <2>1, <2>2, <2>4, <2>5 DEF OwnRemove, BackBut, Back, ring
  <2>8. OwnLive(w, n, f)' /\ OwnLength(w, n)' /\ OwnPlace(w, n, f)' /\ OwnLinks(w, n, f)'
    BY <2>2, <2>4, <2>5, <2>7
       DEF OwnLive, OwnLength, OwnPlace, OwnLinks, Adding, Removed, Within, ring
  <2> QED
    BY <2>4, <2>6, <2>8, Kept DEF Order
<1>2. CASE r.pc = "del1"
  <2>1. PICK k \in 1 .. n - 1 : OwnRemove(w, n, f, k)
    BY <1>2 DEF Order, OwnLinks
  <2>2. /\ length = n /\ Ring(n, f) /\ live = Within(n, f)
    BY <1>2 DEF Order, OwnLive, OwnLength, Adding, Removed
  <2>3. r.nxt = f[k + 1] /\ r.prv = f[k - 1] /\ Valid(f[k + 1])
    BY <2>1, <2>2 DEF Valid, Within, OwnRemove
  <2>4. /\ prev' = [prev EXCEPT ![f[k + 1]] = f[k - 1]] /\ Goto(w, "del2")
        /\ UNCHANGED <<next, length, live, wild, ops>>
    BY <1>2, <2>3 DEF list_del, At, StorePrev
  <2>5. /\ th'[w].pc = "del2" /\ th'[w].nxt = r.nxt /\ th'[w].prv = r.prv
        /\ th'[w].p = r.p /\ th'[w].op = r.op /\ th'[w].q = r.q
    BY <2>4 DEF Goto, TypeInv, Frames
  <2>6. Ring(n, f)' /\ Readers(w, n, f)'
    BY <2>4, Still DEF Goto, TypeInv
  <2>7. OwnRemove(w, n, f, k)'
    <3>1. \A i \in 1 .. n + 1 : prev'[f[i]] = IF i = k + 1 THEN f[k - 1] ELSE f[i - 1]
      <4>1. \A i \in 1 .. n + 1 : f[i] = f[k + 1] => i = k + 1
        BY <2>2, RingEntries DEF Ring
      <4>2. \A i \in 1 .. n + 1 : i # k + 1 => prev[f[i]] = f[i - 1]
        BY <2>1 DEF OwnRemove, BackBut
      <4>3. \A i \in 1 .. n + 1 : f[i] \in Cells
        BY <2>2, RingEntries
      <4> QED
        BY <2>4, <4>1, <4>2, <4>3 DEF TypeInv
    <3> QED
      BY <2>1, <2>5, <3>1 DEF OwnRemove, BackBut
  <2>8. OwnLive(w, n, f)' /\ OwnLength(w, n)' /\ OwnPlace(w, n, f)' /\ OwnLinks(w, n, f)'
    BY <2>2, <2>4, <2>5, <2>7
       DEF OwnLive, OwnLength, OwnPlace, OwnLinks, Adding, Removed, Within
  <2> QED
    BY <2>4, <2>6, <2>8, Kept DEF Order
<1> QED
  BY <1>1, <1>2

\* The store of __list_del that takes the entry out of the ring.
LEMMA WriterUnlinks ==
    ASSUME TypeInv, NEW w \in Threads, ~wild, NEW n \in Nat, NEW f \in [0 .. n + 1 -> Cells],
           Order(w, n, f), list_del(w), th[w].pc = "del2", UNCHANGED does
    PROVE  After(w, n, f)
<1> DEFINE r == th[w]
<1>1. PICK k \in 1 .. n - 1 : OwnRemove(w, n, f, k)
  BY DEF Order, OwnLinks
<1>2. length = n /\ Ring(n, f) /\ live = Within(n, f) /\ n - 1 \in Nat \ {0}
  BY <1>1 DEF Order, OwnLive, OwnLength, Adding, Removed, OwnRemove
<1>3. /\ r.nxt = f[k + 1] /\ r.prv = f[k - 1] /\ Valid(f[k - 1])
      /\ r.p = f[k] /\ r.op \in Removals /\ (r.op = "clean" => k = 1 /\ r.q = f[2])
      /\ BackBut(n, f, k + 1, f[k - 1])
  BY <1>1, <1>2 DEF Valid, Within, OwnRemove, Ring
<1>4. /\ next' = [next EXCEPT ![f[k - 1]] = f[k + 1]] /\ Goto(w, "del3")
      /\ UNCHANGED <<prev, length, live, wild, ops>>
  BY <1>3 DEF list_del, At, StoreNext
<1>5. /\ th'[w].pc = "del3" /\ th'[w].p = f[k] /\ th'[w].op = r.op /\ th'[w].q = r.q
      /\ \A t \in Threads \ {w} : th'[t] = th[t]
  BY <1>3, <1>4 DEF Goto, TypeInv, Frames
<1>6. PICK g : g = Without(n, f, k)
  OBVIOUS
<1>7. /\ g \in [0 .. n -> Cells]
      /\ \A i \in 0 .. k - 1 : g[i] = f[i]
      /\ \A i \in k .. n : g[i] = f[i + 1]
  BY <1>6 DEF Without
<1>8. PICK m \in Nat \ {0} : m = n - 1
  BY <1>2
<1>9. /\ \A i, j \in 0 .. n : f[i] = f[j] => i = j
      /\ \A i \in 0 .. n : f[i] \in Cells /\ next[f[i]] = f[i + 1]
  BY <1>2 DEF Ring
<1>10. Ring(m, g)'
  <2>1. g[0] = ListHead /\ g[m + 1] = ListHead /\ g[m] = Policy
    BY <1>2, <1>7, <1>8 DEF Ring
  <2>2. \A i, j \in 0 .. m : g[i] = g[j] => i = j
    <3> SUFFICES ASSUME NEW i \in 0 .. m, NEW j \in 0 .. m, g[i] = g[j] PROVE i = j
      OBVIOUS
    <3>1. CASE i < k /\ j < k
      BY <1>7, <1>8, <1>9, <3>1
    <3>2. CASE i >= k /\ j >= k
      <4>1. i + 1 \in 0 .. n /\ j + 1 \in 0 .. n /\ f[i + 1] = f[j + 1]
        BY <1>7, <1>8, <3>2
      <4> QED
        BY <1>9, <4>1
    <3>3. CASE i < k /\ j >= k
      <4>1. i \in 0 .. n /\ j + 1 \in 0 .. n /\ f[i] = f[j + 1]
        BY <1>7, <1>8, <3>3
      <4> QED
        BY <1>9, <3>3, <4>1
    <3>4. CASE i >= k /\ j < k
      <4>1. i + 1 \in 0 .. n /\ j \in 0 .. n /\ f[i + 1] = f[j]
        BY <1>7, <1>8, <3>4
      <4> QED
        BY <1>9, <3>4, <4>1
    <3> QED
      BY <3>1, <3>2, <3>3, <3>4
  <2>3. \A i \in 0 .. m : next'[g[i]] = g[i + 1]
    <3>1. \A i \in 0 .. n : next'[f[i]] = IF i = k - 1 THEN f[k + 1] ELSE f[i + 1]
      BY <1>4, <1>9 DEF TypeInv
    <3> SUFFICES ASSUME NEW i \in 0 .. m PROVE next'[g[i]] = g[i + 1]
      OBVIOUS
    <3>2. CASE i < k - 1
      BY <1>7, <1>8, <3>1, <3>2
    <3>3. CASE i = k - 1
      BY <1>7, <1>8, <3>1, <3>3
    <3>4. CASE i >= k
      <4>1. i + 1 \in 0 .. n /\ i + 1 # k - 1 /\ i + 1 \in k .. n
        BY <1>8, <3>4
      <4>2. g[i] = f[i + 1] /\ g[i + 1] = f[(i + 1) + 1]
        BY <1>7, <1>8, <3>4, <4>1
      <4> QED
        BY <3>1, <4>1, <4>2
    <3> QED
      BY <3>2, <3>3, <3>4
  <2>4. g \in [0 .. m + 1 -> Cells]
    BY <1>7, <1>8
  <2> QED
    BY <2>1, <2>2, <2>3, <2>4 DEF Ring
<1>11. /\ f[k] \in Nodes \ Within(m, g)
       /\ Within(n, f) = Within(m, g) \cup {f[k]}
  <2>1. f[k] \in Nodes
    BY <1>2, RingEntries
  <2>2. f[k] \notin Within(m, g)
    <3> SUFFICES ASSUME NEW i \in 1 .. m, g[i] = f[k] PROVE FALSE
      BY DEF Within
    <3>1. CASE i < k
      BY <1>7, <1>8, <1>9, <3>1
    <3>2. CASE i >= k
      <4>1. i + 1 \in 0 .. n /\ f[i + 1] = f[k] /\ i + 1 # k
        BY <1>7, <1>8, <3>2
      <4> QED
        BY <1>9, <4>1
    <3> QED
      BY <3>1, <3>2
  <2>3. ASSUME NEW d \in Within(m, g) PROVE d \in Within(n, f)
    <3>1. PICK i \in 1 .. m : d = g[i]
      BY <2>3 DEF Within
    <3>2. CASE i < k
      BY <1>7, <1>8, <3>1, <3>2 DEF Within
    <3>3. CASE i >= k
      <4>1. i + 1 \in 1 .. n /\ d = f[i + 1]
        BY <1>7, <1>8, <3>1, <3>3
      <4> QED
        BY <4>1 DEF Within
    <3> QED
      BY <3>2, <3>3
  <2>4. ASSUME NEW i \in 1 .. n, i # k PROVE f[i] \in Within(m, g)
    <3>1. CASE i < k
      BY <1>7, <1>8, <3>1 DEF Within
    <3>2. CASE i > k
      <4>1. i - 1 \in 1 .. m /\ i - 1 \in k .. n /\ g[i - 1] = f[(i - 1) + 1]
        BY <1>7, <1>8, <3>2
      <4> QED
        BY <4>1 DEF Within
    <3> QED
      BY <2>4, <3>1, <3>2
  <2>5. ASSUME NEW d \in Within(n, f) PROVE d \in Within(m, g) \cup {f[k]}
    BY <2>4 DEF Within
  <2>6. f[k] \in Within(n, f)
    BY <1>8 DEF Within
  <2> QED
    BY <2>1, <2>2, <2>3, <2>5, <2>6
<1>12. Back(m, g)'
  <2> SUFFICES ASSUME NEW i \in 1 .. m + 1 PROVE prev[g[i]] = g[i - 1]
    BY <1>4 DEF Back
  <2>1. \A j \in 1 .. n + 1 : prev[f[j]] = IF j = k + 1 THEN f[k - 1] ELSE f[j - 1]
    BY <1>3 DEF BackBut
  <2>2. CASE i < k
    <3>1. /\ i \in 0 .. k - 1 /\ i - 1 \in 0 .. k - 1
          /\ i \in 1 .. n + 1 /\ i # k + 1
      BY <1>8, <2>2
    <3>2. g[i] = f[i] /\ g[i - 1] = f[i - 1]
      BY <1>7, <3>1
    <3> QED
      BY <2>1, <3>1, <3>2
  <2>3. CASE i = k
    BY <1>7, <1>8, <2>1, <2>3
  <2>4. CASE i > k
    <3>1. i + 1 \in 1 .. n + 1 /\ i + 1 # k + 1 /\ (i + 1) - 1 = i
      BY <1>8, <2>4
    <3>2. g[i] = f[i + 1] /\ g[i - 1] = f[i]
      <4>1. i \in k .. n /\ i - 1 \in k .. n /\ (i - 1) + 1 = i
        BY <1>8, <2>4
      <4> QED
        BY <1>7, <4>1
    <3> QED
      BY <2>1, <3>1, <3>2
  <2> QED
    BY <2>2, <2>3, <2>4
<1>13. Readers(w, m, g)'
  <2>1. does[w] \cap Removals # {}
    BY <1>3, Deletes
  <2> QED
    BY <1>5, <2>1 DEF Order, Readers
<1>14. OwnPlace(w, m, g)'
  <2>1. r.op = "clean" => r.q = g[1]
    BY <1>3, <1>7, <1>2
  <2> QED
    BY <1>3, <1>5, <2>1 DEF OwnPlace, Removed
<1>15. OwnLive(w, m, g)' /\ OwnLength(w, m)' /\ OwnLinks(w, m, g)'
  BY <1>2, <1>4, <1>5, <1>8, <1>11, <1>12 DEF OwnLive, OwnLength, OwnLinks, Adding, Removed
<1>16. Order(w, m, g)'
  BY <1>10, <1>13, <1>14, <1>15 DEF Order
<1> QED
  BY <1>4, <1>6, <1>8, <1>16 DEF After

\* The entry list_del has taken out is poisoned.
LEMMA WriterPoisons ==
    ASSUME TypeInv, NEW w \in Threads, ~wild, NEW n \in Nat, NEW f \in [0 .. n + 1 -> Cells],
           Order(w, n, f), list_del(w), th[w].pc \in {"del3", "del4"}, UNCHANGED does
    PROVE  After(w, n, f)
<1> DEFINE r == th[w]
<1>1. /\ Ring(n, f) /\ Back(n, f) /\ Valid(r.p) /\ r.p \in Cells
      /\ r.p \in Nodes \ Within(n, f) /\ live = Within(n, f) \cup {r.p}
      /\ r.op \in Removals /\ (r.op = "clean" => r.q = f[1])
  BY DEF Order, OwnLive, OwnPlace, OwnLinks, Removed, Adding, Valid, Cells
<1>2. /\ UNCHANGED <<length, live, wild, ops>>
      /\ \/ th[w].pc = "del3" /\ next' = [next EXCEPT ![r.p] = Poison] /\ prev' = prev /\ Goto(w, "del4")
         \/ th[w].pc = "del4" /\ prev' = [prev EXCEPT ![r.p] = Poison] /\ next' = next /\ Goto(w, "free")
  BY <1>1 DEF list_del, At, StoreNext, StorePrev
<1>3. /\ th'[w].pc \in {"del4", "free"} /\ th'[w].p = r.p /\ th'[w].op = r.op /\ th'[w].q = r.q
      /\ \A t \in Threads \ {w} : th'[t] = th[t]
  BY <1>2 DEF Goto, TypeInv, Frames
<1>4. \A i \in 0 .. n + 1 : f[i] \in Cells /\ f[i] # r.p
  BY <1>1, CellsTyped, ListRaceAssumption DEF Ring, Within
<1>5. \A i \in 0 .. n + 1 : next'[f[i]] = next[f[i]] /\ prev'[f[i]] = prev[f[i]]
  BY <1>2, <1>4 DEF TypeInv
<1>6. Ring(n, f)'
  BY <1>1, <1>5 DEF Ring
<1>7. Back(n, f)'
  BY <1>1, <1>5 DEF Back
<1>8. Readers(w, n, f)'
  BY <1>3 DEF Order, Readers, Within
<1>9. OwnLive(w, n, f)' /\ OwnLength(w, n)' /\ OwnPlace(w, n, f)' /\ OwnLinks(w, n, f)'
  BY <1>1, <1>2, <1>3, <1>7 DEF Order, OwnLive, OwnLength, OwnPlace, OwnLinks, Adding, Removed, Within
<1> QED
  BY <1>2, <1>6, <1>8, <1>9, Kept DEF Order

\* free of the entry that is out of the ring.
LEMMA WriterFrees ==
    ASSUME TypeInv, NEW w \in Threads, ~wild, NEW n \in Nat, NEW f \in [0 .. n + 1 -> Cells],
           Order(w, n, f), Free(w), UNCHANGED does
    PROVE  After(w, n, f)
<1> DEFINE r == th[w]
<1>1. /\ r.pc = "free" /\ Ring(n, f) /\ Back(n, f)
      /\ r.p \in Nodes \ Within(n, f) /\ live = Within(n, f) \cup {r.p}
      /\ r.op \in Removals /\ (r.op = "clean" => r.q = f[1])
  BY DEF Free, At, Order, OwnLive, OwnPlace, OwnLinks, Removed, Adding
<1>2. /\ live' = Within(n, f)
      /\ next' = [next EXCEPT ![r.p] = Poison] /\ prev' = [prev EXCEPT ![r.p] = Poison]
      /\ Goto(w, "dec") /\ UNCHANGED <<length, wild, ops>>
  <2>1. r.p \in live /\ live \ {r.p} = Within(n, f)
    BY <1>1
  <2> QED
    BY <2>1 DEF Free
<1>3. /\ th'[w].pc = "dec" /\ th'[w].p = r.p /\ th'[w].op = r.op /\ th'[w].q = r.q
      /\ \A t \in Threads \ {w} : th'[t] = th[t]
  BY <1>2 DEF Goto, TypeInv, Frames
<1>4. \A i \in 0 .. n + 1 : f[i] \in Cells /\ f[i] # r.p
  BY <1>1, CellsTyped, ListRaceAssumption DEF Ring, Within
<1>5. \A i \in 0 .. n + 1 : next'[f[i]] = next[f[i]] /\ prev'[f[i]] = prev[f[i]]
  BY <1>2, <1>4 DEF TypeInv
<1>6. Ring(n, f)'
  BY <1>1, <1>5 DEF Ring
<1>7. Back(n, f)'
  BY <1>1, <1>5 DEF Back
<1>8. Readers(w, n, f)'
  BY <1>3 DEF Order, Readers, Within
<1>9. OwnLive(w, n, f)' /\ OwnLength(w, n)' /\ OwnPlace(w, n, f)' /\ OwnLinks(w, n, f)'
  BY <1>1, <1>2, <1>3, <1>7 DEF Order, OwnLive, OwnLength, OwnPlace, OwnLinks, Adding, Removed, Within
<1> QED
  BY <1>2, <1>6, <1>8, <1>9, Kept DEF Order

\* What a step that changes neither the ring nor the writer keeps.
LEMMA Unmoved ==
    ASSUME NEW w \in Threads, NEW n, NEW f, Order(w, n, f),
           UNCHANGED <<next, prev, length, live>>, th'[w] = th[w]
    PROVE  /\ Ring(n, f)'
           /\ OwnLive(w, n, f)' /\ OwnLength(w, n)' /\ OwnPlace(w, n, f)' /\ OwnLinks(w, n, f)'
<1>1. Ring(n, f)'
  BY DEF Order, Ring
<1>2. OwnLive(w, n, f)'
  BY DEF Order, OwnLive, Within
<1>3. OwnLength(w, n)'
  BY DEF Order, OwnLength
<1>4. OwnPlace(w, n, f)'
  BY DEF Order, OwnPlace
<1>5. OwnLinks(w, n, f)'
  BY DEF Order, OwnLinks, OwnAdd, OwnRemove, Back, BackBut
<1> QED
  BY <1>1, <1>2, <1>3, <1>4, <1>5

\* A step of a thread that only lists.
LEMMA OthersRead ==
    ASSUME TypeInv, NEW w \in Threads, ~wild, NEW n \in Nat, NEW f \in [0 .. n + 1 -> Cells],
           Order(w, n, f), OnlyWriter(w), NEW t \in Threads \ {w}, Step(t), UNCHANGED does
    PROVE  After(w, n, f)
<1>1. /\ Ring(n, f) /\ Within(n, f) \subseteq live
      /\ th[t].pc = "idle" \/ (th[t].pc = "walk" /\ th[t].op = "all_in")
      /\ does[w] \cap Removals = {} /\ th[t].pc = "walk" => th[t].p \in Within(n, f) \cup {ListHead}
  BY DEF Order, OwnLive, Readers
<1>2. does[t] \subseteq {"all_in"}
  BY DEF OnlyWriter
<1>3. \/ Begin(t) /\ StartWalk(t, "all_in") /\ "all_in" \in does[t]
      \/ Walk(t) /\ th[t].op = "all_in" /\ th[t].pc = "walk"
  BY <1>1, <1>2 DEF Step, Begin, Walk, Steps, Write, CleanLoop, list_add_tail, __list_add, list_del,
                    Free, CountLoad, CountStore, At
<1>4. ASSUME UNCHANGED <<ring, length, live, wild>>, th'[w] = th[w],
             \A u \in Threads \ {w, t} : th'[u] = th[u],
             th'[t].pc = "idle" \/ (th'[t].pc = "walk" /\ th'[t].op = "all_in"),
             does[w] \cap Removals = {} /\ th'[t].pc = "walk" => th'[t].p \in Within(n, f) \cup {ListHead}
      PROVE  After(w, n, f)
  <2>1. Readers(w, n, f)'
    BY <1>4 DEF Order, Readers, Within
  <2> QED
    BY <1>4, <2>1, Unmoved, Kept DEF Order, ring
<1>5. f[1] \in Within(n, f)
  BY <1>1, RingEntries DEF Within
<1>6. CASE Begin(t) /\ StartWalk(t, "all_in")
  <2>1. /\ th' = [th EXCEPT ![t] = [Idle EXCEPT !.pc = "walk", !.op = "all_in", !.p = next[ListHead]]]
        /\ UNCHANGED <<ring, length, live, wild>>
    BY <1>6 DEF StartWalk, Begin
  <2>2. th'[t].pc = "walk" /\ th'[t].op = "all_in" /\ th'[t].p = f[1]
    BY <1>1, <2>1, RingEntries DEF TypeInv, Idle
  <2> QED
    BY <1>4, <1>5, <2>1, <2>2 DEF TypeInv
<1>7. CASE Walk(t) /\ th[t].op = "all_in" /\ th[t].pc = "walk"
  <2> DEFINE p == th[t].p
  <2>1. CASE th' = [th EXCEPT ![t] = Idle] /\ UNCHANGED <<ring, length, live, wild, ops>>
    BY <1>4, <2>1 DEF TypeInv, Idle
  <2>2. CASE p # ListHead /\ ~Valid(p) /\ Wild
    <3>1. does[w] \cap Removals # {}
      BY <1>1, <1>7, <2>2 DEF Valid
    <3>2. does[t] # {}
      BY <1>7 DEF TypeInv
    <3> QED
      BY <2>2, <3>1, <3>2 DEF Wild, After
  <2>3. CASE /\ p # ListHead /\ Valid(p)
             /\ th' = [th EXCEPT ![t].p = next[p],
                                 ![t].left = IF th[t].op = "match" THEN @ + 1 ELSE @]
             /\ UNCHANGED <<ring, length, live, wild, ops>>
    <3>1. th'[t].pc = "walk" /\ th'[t].op = "all_in" /\ th'[t].p = next[p]
      BY <1>7, <2>3 DEF TypeInv, Frames
    <3>2. does[w] \cap Removals = {} => next[p] \in Within(n, f) \cup {ListHead}
      <4> SUFFICES ASSUME does[w] \cap Removals = {} PROVE next[p] \in Within(n, f) \cup {ListHead}
        OBVIOUS
      <4>1. PICK i \in 1 .. n : p = f[i]
        BY <1>1, <1>7, <2>3 DEF Within
      <4>2. next[p] = f[i + 1] /\ f[n + 1] = ListHead
        BY <1>1, <4>1 DEF Ring
      <4> QED
        BY <4>2 DEF Within
    <3> QED
      BY <1>4, <2>3, <3>1, <3>2 DEF TypeInv
  <2> QED
    BY <1>7, <2>1, <2>2, <2>3 DEF Walk
<1> QED
  BY <1>3, <1>6, <1>7

-----------------------------------------------------------------------------
\* The new list of init_ruletables is a ring of the head and the policy, whoever may write it.
LEMMA WriterInit == ASSUME Init, NEW w \in Threads PROVE WriterInv(w)
<1> DEFINE f == [i \in 0 .. 2 |-> IF i = 1 THEN Policy ELSE ListHead]
<1>1. f \in [0 .. 1 + 1 -> Cells] /\ f[0] = ListHead /\ f[1] = Policy /\ f[2] = ListHead
  BY CellsTyped
<1> HIDE DEF f
<1>2. next[ListHead] = Policy /\ next[Policy] = ListHead /\ prev = next
  BY CellsTyped, ListRaceAssumption DEF Init
<1>3. Ring(1, f)
  BY <1>1, <1>2, ListRaceAssumption DEF Ring
<1>4. Within(1, f) = {Policy}
  BY <1>1 DEF Within
<1>5. Back(1, f)
  BY <1>1, <1>2 DEF Back
<1>6. \A t \in Threads : th[t].pc = "idle"
  BY DEF Init, Idle
<1>7. OwnLive(w, 1, f) /\ OwnLength(w, 1) /\ OwnPlace(w, 1, f) /\ OwnLinks(w, 1, f)
  BY <1>4, <1>5, <1>6 DEF Init, OwnLive, OwnLength, OwnPlace, OwnLinks, Adding, Removed
<1>8. Readers(w, 1, f)
  BY <1>6 DEF Readers
<1>9. Order(w, 1, f) /\ 1 \in Nat
  BY <1>3, <1>7, <1>8 DEF Order
<1> QED
  BY <1>1, <1>9 DEF WriterInv, Init

\* A step while no more than one thread writes.
LEMMA StepAfter ==
    ASSUME TypeInv, NEW w \in Threads, ~wild, NEW n \in Nat, NEW f \in [0 .. n + 1 -> Cells],
           Order(w, n, f), OnlyWriter(w), [Next]_vars
    PROVE  After(w, n, f)
<1>1. CASE UNCHANGED vars
  <2>1. Readers(w, n, f)'
    BY <1>1 DEF vars, Order, Readers, Within
  <2> QED
    BY <1>1, <2>1, Unmoved, Kept DEF vars, Order
<1>2. ASSUME NEW t \in Threads, Step(t), UNCHANGED does
      PROVE  After(w, n, f)
  <2>1. CASE t = w
    <3>1. CASE list_del(w)
      <4>1. th[w].pc \in {"del", "del1", "del2", "del3", "del4"}
        BY <3>1 DEF list_del, At
      <4> QED
        BY <1>2, <3>1, <4>1, WriterDeletes, WriterUnlinks, WriterPoisons
    <3> QED
      BY <1>2, <2>1, <3>1, WriterBegins, WriterWalks, WriterSteps, WriterWrites,
         WriterCleans, WriterAddsTail, WriterAdds, WriterCounts, WriterFrees DEF Step
  <2>2. CASE t # w
    BY <1>2, <2>2, OthersRead
  <2> QED
    BY <2>1, <2>2
<1> QED
  BY <1>1, <1>2 DEF Next

\* Every step keeps the invariant of one writer.
LEMMA WriterStep ==
    ASSUME TypeInv, NEW w \in Threads, WriterInv(w), [Next]_vars
    PROVE  WriterInv(w)'
<1>1. UNCHANGED does
  BY DEF Next, vars
<1>2. CASE wild
  <2>1. wild' = wild
    BY <1>2 DEF Next, vars, Step, Begin, Walk, Steps, Write, CleanLoop, list_add_tail, __list_add,
                list_del, Free, CountLoad, CountStore, At
  <2> QED
    BY <1>1, <1>2, <2>1 DEF WriterInv, OnlyWriter
<1>3. CASE ~wild /\ OnlyWriter(w)
  <2>1. PICK n \in Nat : \E f \in [0 .. n + 1 -> Cells] : Order(w, n, f)
    BY <1>3 DEF WriterInv
  <2>2. PICK f \in [0 .. n + 1 -> Cells] : Order(w, n, f)
    BY <2>1
  <2>3. After(w, n, f)
    BY <1>3, <2>2, StepAfter
  <2>4. \A m, g : Order(w, m, g)' => m \in Nat /\ g \in [0 .. m + 1 -> Cells]
    BY DEF Order, Ring
  <2> QED
    BY <1>1, <2>3, <2>4 DEF After, WriterInv
<1> QED
  BY <1>1, <1>2, <1>3 DEF WriterInv, OnlyWriter

\* The invariant of one writer holds in every reachable state, for any number of threads.
THEOREM OneWriter == Spec => [](TypeInv /\ \A w \in Threads : WriterInv(w))
<1>1. Init => TypeInv /\ \A w \in Threads : WriterInv(w)
  BY TypeInit, WriterInit
<1>2. (TypeInv /\ \A w \in Threads : WriterInv(w)) /\ [Next]_vars
      => (TypeInv /\ \A w \in Threads : WriterInv(w))'
  BY TypeStep, WriterStep
<1> QED
  BY <1>1, <1>2, PTL DEF Spec

-----------------------------------------------------------------------------
(* What Forward meets.                                                     *)

Longer(s) == IF s[Len(s)] \in live THEN Append(s, next[s[Len(s)]]) ELSE s

\* There are finitely many cells.
LEMMA FiniteCells == IsFiniteSet(Cells)
<1>1. IsFiniteSet(Nodes \cup {Policy})
  BY ListRaceAssumption, FS_AddElement
<1>2. IsFiniteSet((Nodes \cup {Policy}) \cup {ListHead})
  BY <1>1, FS_AddElement
<1>3. Cells = (Nodes \cup {Policy}) \cup {ListHead}
  BY DEF Cells
<1> QED
  BY <1>2, <1>3

\* Forward is what the walk of it defines.
LEMMA ForwardWalk ==
    ASSUME TypeInv
    PROVE  \E g \in [0 .. Cardinality(Cells) -> Seq(Pointers)] :
               /\ g[0] = <<next[ListHead]>>
               /\ \A m \in 1 .. Cardinality(Cells) : g[m] = Longer(g[m - 1])
               /\ Forward = g[Cardinality(Cells)]
<1> DEFINE C == Cardinality(Cells)
           V == Seq(Pointers)
           G == [s \in V |-> Longer(s)]
           a == <<next[ListHead]>>
           walk[m \in 0 .. C] ==
                IF m = 0 THEN <<next[ListHead]>>
                ELSE LET s == walk[m - 1]
                         c == s[Len(s)]
                     IN IF c \in live THEN Append(s, next[c]) ELSE s
<1>1. C \in Nat
  BY FiniteCells, FS_CardinalityType
<1>2. a \in V /\ G \in [V -> V]
  <2>1. ASSUME NEW s \in V PROVE Longer(s) \in V
    BY <2>1, CellsTyped DEF TypeInv, Longer, Cells
  <2> QED
    BY <2>1, CellsTyped DEF TypeInv
<1>3. PICK u : Recursion(C, V, a, G, u)
  <2> HIDE DEF C, V, G, a, walk
  <2> QED
    BY <1>1, <1>2, IntervalRecursion
<1>4. u = [m \in 0 .. C |-> IF m = 0 THEN <<next[ListHead]>>
                           ELSE LET s == u[m - 1]
                                    c == s[Len(s)]
                                IN IF c \in live THEN Append(s, next[c]) ELSE s]
  <2>1. ASSUME NEW m \in 0 .. C
        PROVE  u[m] = IF m = 0 THEN <<next[ListHead]>>
                      ELSE LET s == u[m - 1]
                               c == s[Len(s)]
                           IN IF c \in live THEN Append(s, next[c]) ELSE s
    <3>1. CASE m = 0
      BY <1>3, <3>1 DEF Recursion
    <3>2. CASE m # 0
      <4>1. m \in 1 .. C /\ m - 1 \in 0 .. C
        BY <1>1, <3>2
      <4> QED
        BY <1>3, <3>2, <4>1 DEF Longer, Recursion
    <3> QED
      BY <3>1, <3>2
  <2> HIDE DEF C, V, walk
  <2> QED
    BY <1>3, <2>1 DEF Recursion
<1>5. walk = [m \in 0 .. C |-> IF m = 0 THEN <<next[ListHead]>>
                           ELSE LET s == walk[m - 1]
                                    c == s[Len(s)]
                                IN IF c \in live THEN Append(s, next[c]) ELSE s]
  <2> HIDE DEF C
  <2> QED
    BY <1>4, Zenon
<1>6. Forward = walk[C]
  BY Zenon DEF Forward
<1>7. \A m \in 0 .. C : walk[m] = u[m]
  <2> DEFINE S == {m \in 0 .. C : walk[m] = u[m]}
  <2>1. 0 \in S
    <3> HIDE DEF walk
    <3> QED
      BY <1>1, <1>4, <1>5
  <2>2. \A m \in 0 .. C - 1 : m \in S => m + 1 \in S
    <3> SUFFICES ASSUME NEW m \in 0 .. C - 1, m \in S PROVE m + 1 \in S
      OBVIOUS
    <3>1. m + 1 \in 0 .. C /\ m + 1 # 0 /\ (m + 1) - 1 = m
      BY <1>1
    <3> HIDE DEF walk
    <3>2. walk[m + 1] = Longer(walk[m])
      BY <1>5, <3>1 DEF Longer
    <3>3. u[m + 1] = Longer(u[m])
      BY <1>4, <3>1 DEF Longer
    <3> QED
      BY <3>1, <3>2, <3>3
  <2> HIDE DEF S
  <2>3. 0 .. C \subseteq S
    BY <1>1, <2>1, <2>2, IntervalInduction
  <2> QED
    BY <2>3 DEF S
<1> HIDE DEF walk
<1>8. Forward = u[C]
  BY <1>1, <1>6, <1>7
<1>9. \A m \in 1 .. C : u[m] = Longer(u[m - 1])
  <2> SUFFICES ASSUME NEW m \in 1 .. C PROVE u[m] = Longer(u[m - 1])
    OBVIOUS
  <2>1. m - 1 \in 0 .. C
    BY <1>1
  <2> QED
    BY <1>3, <2>1 DEF Recursion
<1> QED
  BY <1>3, <1>8, <1>9 DEF Recursion

\* Forward meets the entries of the ring in their order, then the head.
LEMMA ForwardRing ==
    ASSUME TypeInv, NEW n \in Nat, NEW f \in [0 .. n + 1 -> Cells],
           Ring(n, f), Within(n, f) \subseteq live
    PROVE  /\ Forward \in Seq(Pointers) /\ Len(Forward) = n + 1
           /\ \A i \in 1 .. n + 1 : Forward[i] = f[i]
<1> DEFINE C == Cardinality(Cells)
           low(m) == IF m < n THEN m ELSE n
<1>1. PICK g \in [0 .. C -> Seq(Pointers)] :
               /\ g[0] = <<next[ListHead]>>
               /\ \A m \in 1 .. C : g[m] = Longer(g[m - 1])
               /\ Forward = g[C]
  BY ForwardWalk
<1>2. C \in Nat /\ n + 1 <= C
  <2> DEFINE h == [i \in 0 .. n |-> f[i]]
  <2>1. h \in Injection(0 .. n, Cells)
    BY DEF Ring, Injection, IsInjective
  <2>2. IsFiniteSet(Cells)
    BY FiniteCells
  <2>3. Cardinality(0 .. n) = n + 1
    BY FS_Interval
  <2> HIDE DEF h
  <2>4. Cardinality(0 .. n) <= C
    BY <2>1, <2>2, FS_Injection
  <2> QED
    BY <2>2, <2>3, <2>4, FS_CardinalityType
<1>3. ListHead \notin live /\ f[n + 1] = ListHead /\ n >= 1
  BY ListRaceAssumption DEF TypeInv, Ring
<1>4. \A i \in 1 .. n : f[i] \in live /\ next[f[i]] = f[i + 1]
  BY DEF Ring, Within
<1> DEFINE S == {m \in 0 .. C : /\ Len(g[m]) = low(m) + 1
                               /\ \A i \in 1 .. low(m) + 1 : g[m][i] = f[i]}
<1>5. 0 \in S
  <2>1. low(0) = 0
    BY <1>3
  <2>2. Len(g[0]) = 1 /\ g[0][1] = f[1] /\ 0 \in 0 .. C
    BY <1>1, <1>2, RingEntries
  <2> QED
    BY <2>1, <2>2
<1>6. ASSUME NEW m \in 0 .. C - 1, m \in S
      PROVE  m + 1 \in S
  <2>1. /\ g[m] \in Seq(Pointers) /\ Len(g[m]) = low(m) + 1
        /\ \A i \in 1 .. low(m) + 1 : g[m][i] = f[i]
    BY <1>1, <1>2, <1>6
  <2>2. g[m + 1] = Longer(g[m]) /\ m + 1 \in 0 .. C
    <3>1. m + 1 \in 1 .. C /\ (m + 1) - 1 = m
      BY <1>2
    <3> QED
      BY <1>1, <3>1
  <2>3. CASE m < n
    <3>1. low(m) = m /\ low(m + 1) = m + 1
      BY <2>3
    <3>2. g[m][m + 1] = f[m + 1] /\ m + 1 \in 1 .. n
      BY <2>1, <2>3, <3>1
    <3>3. g[m + 1] = Append(g[m], f[m + 2])
      BY <1>4, <2>1, <2>2, <3>1, <3>2 DEF Longer
    <3>4. /\ Len(g[m + 1]) = m + 2
          /\ \A i \in 1 .. m + 1 : g[m + 1][i] = g[m][i]
          /\ g[m + 1][m + 2] = f[m + 2]
      BY <2>1, <3>1, <3>3
    <3>5. \A i \in 1 .. m + 2 : g[m + 1][i] = f[i]
      BY <2>1, <3>1, <3>4
    <3> QED
      BY <2>2, <3>1, <3>4, <3>5
  <2>4. CASE m >= n
    <3>1. low(m) = n /\ low(m + 1) = n
      BY <2>4
    <3>2. g[m][n + 1] = ListHead
      BY <1>3, <2>1, <3>1
    <3>3. g[m + 1] = g[m]
      BY <1>3, <2>1, <2>2, <3>1, <3>2 DEF Longer
    <3> QED
      BY <2>1, <2>2, <3>1, <3>3
  <2> QED
    BY <1>2, <2>3, <2>4
<1>7. C \in S
  <2> HIDE DEF S, C
  <2>1. \A m \in 0 .. C - 1 : m \in S => m + 1 \in S
    BY <1>6
  <2>2. 0 .. C \subseteq S
    BY <1>2, <1>5, <2>1, IntervalInduction
  <2> QED
    BY <1>2, <2>2
<1> QED
  BY <1>1, <1>2, <1>7

\* If no more than one thread writes, the others only list.
LEMMA SomeWriter ==
    ASSUME Cardinality(Writers) <= 1
    PROVE  \E w \in Threads : OnlyWriter(w)
<1>1. IsFiniteSet(Writers)
  BY ListRaceAssumption, FS_Subset DEF Writers
<1>2. CASE Cardinality(Writers) = 1
  <2>1. PICK w : Writers = {w}
    BY <1>1, <1>2, FS_Singleton
  <2> QED
    BY <2>1 DEF Writers, OnlyWriter
<1>3. CASE Cardinality(Writers) # 1
  <2>1. Writers = {}
    <3>1. Cardinality(Writers) \in Nat
      BY <1>1, FS_CardinalityType
    <3>2. Cardinality(Writers) = 0
      BY <1>3, <3>1
    <3> QED
      BY <1>1, <3>2, FS_EmptySet
  <2>2. PICK w : w \in Threads
    BY ListRaceAssumption
  <2> QED
    BY <2>1, <2>2 DEF Writers, OnlyWriter
<1> QED
  BY <1>2, <1>3

\* The ring of one writer, as Forward sees it.
LEMMA OrderForward ==
    ASSUME TypeInv, NEW w \in Threads, NEW n, NEW f, Order(w, n, f)
    PROVE  /\ Forward \in Seq(Pointers) /\ Len(Forward) = n + 1
           /\ \A i \in 1 .. n + 1 : Forward[i] = f[i]
<1>1. n \in Nat /\ f \in [0 .. n + 1 -> Cells] /\ Ring(n, f) /\ Within(n, f) \subseteq live
  BY DEF Order, Ring, OwnLive
<1> QED
  BY <1>1, ForwardRing

\* The invariant of one writer implies RingExact.
LEMMA RingExactHolds ==
    ASSUME TypeInv, \A w \in Threads : WriterInv(w)
    PROVE  RingExact
<1> SUFFICES ASSUME ~wild, AllIdle, Cardinality(Writers) <= 1
             PROVE  LET s == Forward
                    IN /\ Len(s) = length + 1
                       /\ {s[i] : i \in 1 .. Len(s) - 1} = live
                       /\ Len(s) > 1 /\ s[Len(s) - 1] = Policy
                       /\ \A c \in live \cup {ListHead} : prev[next[c]] = c
  BY DEF RingExact
<1>1. PICK w \in Threads : OnlyWriter(w)
  BY SomeWriter
<1>2. PICK n \in Nat : \E f \in [0 .. n + 1 -> Cells] : Order(w, n, f)
  BY <1>1 DEF WriterInv
<1>3. PICK f \in [0 .. n + 1 -> Cells] : Order(w, n, f)
  BY <1>2
<1>4. /\ Ring(n, f) /\ live = Within(n, f) /\ length = n /\ Back(n, f)
  BY <1>3 DEF AllIdle, Order, OwnLive, OwnLength, OwnLinks, Adding, Removed
<1>5. /\ Len(Forward) = n + 1 /\ \A i \in 1 .. n + 1 : Forward[i] = f[i]
  BY <1>3, OrderForward
<1>6. n >= 1 /\ f[n] = Policy /\ f[0] = ListHead
  BY <1>4 DEF Ring
<1>7. {Forward[i] : i \in 1 .. n} = live
  BY <1>4, <1>5 DEF Within
<1>8. ASSUME NEW c \in live \cup {ListHead} PROVE prev[next[c]] = c
  <2>1. PICK i \in 0 .. n : c = f[i]
    BY <1>4, <1>6 DEF Within
  <2>2. next[c] = f[i + 1] /\ i + 1 \in 1 .. n + 1 /\ (i + 1) - 1 = i
    BY <1>4, <2>1 DEF Ring
  <2> QED
    BY <1>4, <2>1, <2>2 DEF Back
<1>9. Len(Forward) - 1 = n
  BY <1>5
<1> QED
  BY <1>4, <1>5, <1>6, <1>7, <1>8, <1>9

\* ListRace!RingExact: between the operations of one writer the list is whole, forwards and
\* backwards, and counted.
THEOREM RingIsExact == Spec => []RingExact
<1>1. TypeInv /\ (\A w \in Threads : WriterInv(w)) => RingExact
  BY RingExactHolds
<1> QED
  BY <1>1, OneWriter, PTL

\* Entries is the ring without the head.
Listed == \A w \in Threads : \A n, f : Order(w, n, f) =>
              /\ Entries \in Seq(Pointers) /\ Len(Entries) = n
              /\ \A i \in 1 .. n : Entries[i] = f[i]

\* Entries is the ring of the invariant.
LEMMA EntriesListed == TypeInv => Listed
<1> SUFFICES ASSUME TypeInv, NEW w \in Threads, NEW n, NEW f, Order(w, n, f)
             PROVE  /\ Entries \in Seq(Pointers) /\ Len(Entries) = n
                    /\ \A i \in 1 .. n : Entries[i] = f[i]
  BY DEF Listed
<1>1. /\ Forward \in Seq(Pointers) /\ Len(Forward) = n + 1
      /\ \A i \in 1 .. n + 1 : Forward[i] = f[i]
  BY OrderForward
<1>2. n \in Nat
  BY DEF Order, Ring
<1> QED
  BY <1>1, <1>2 DEF Entries

\* Sequences that agree everywhere are one.
LEMMA SameSequence ==
    ASSUME NEW V, NEW s \in Seq(V), NEW t \in Seq(V), Len(s) = Len(t), \A i \in 1 .. Len(s) : s[i] = t[i]
    PROVE  s = t
OBVIOUS

\* b is s with c in front of its k-th element; b is s without its k-th element.
Gained(V, s, k, c, b) ==
    /\ b \in Seq(V) /\ Len(b) = Len(s) + 1
    /\ \A i \in 1 .. k - 1 : b[i] = s[i]
    /\ b[k] = c
    /\ \A i \in k + 1 .. Len(s) + 1 : b[i] = s[i - 1]

Lost(V, s, k, b) ==
    /\ b \in Seq(V) /\ Len(b) = Len(s) - 1
    /\ \A i \in 1 .. k - 1 : b[i] = s[i]
    /\ \A i \in k .. Len(s) - 1 : b[i] = s[i + 1]

\* InsertAt, element by element.
LEMMA InsertElements ==
    ASSUME NEW V, NEW s \in Seq(V), NEW k \in 1 .. Len(s), NEW c \in V, NEW b, b = InsertAt(s, k, c)
    PROVE  Gained(V, s, k, c, b)
<1>1. PICK x : x = SubSeq(s, 1, k - 1)
  OBVIOUS
<1>2. PICK y : y = SubSeq(s, k, Len(s))
  OBVIOUS
<1>3. x \in Seq(V) /\ Len(x) = k - 1 /\ \A i \in 1 .. k - 1 : x[i] = s[i]
  BY <1>1
<1>4. y \in Seq(V) /\ Len(y) = Len(s) - k + 1 /\ \A i \in 1 .. Len(s) - k + 1 : y[i] = s[k + i - 1]
  BY <1>2
<1>5. PICK z : z = x \o <<c>>
  OBVIOUS
<1>6. z \in Seq(V) /\ Len(z) = k /\ z[k] = c /\ \A i \in 1 .. k - 1 : z[i] = s[i]
  BY <1>3, <1>5
<1>7. b = z \o y
  BY <1>1, <1>2, <1>5 DEF InsertAt
<1>8. /\ b \in Seq(V) /\ Len(b) = Len(z) + Len(y)
      /\ \A i \in 1 .. Len(z) + Len(y) : b[i] = IF i <= Len(z) THEN z[i] ELSE y[i - Len(z)]
  <2>1. y \in Seq(V) /\ z \in Seq(V)
    BY <1>4, <1>6
  <2> QED
    BY <1>7, <2>1, ConcatProperties, ZenonT(30)
<1>9. Len(b) = Len(s) + 1
  BY <1>4, <1>6, <1>8
<1>10. (\A i \in 1 .. k - 1 : b[i] = s[i]) /\ b[k] = c
  BY <1>4, <1>6, <1>8
<1>11. ASSUME NEW i \in k + 1 .. Len(s) + 1 PROVE b[i] = s[i - 1]
  <2>1. i - k \in 1 .. Len(s) - k + 1 /\ k + (i - k) - 1 = i - 1
    OBVIOUS
  <2>2. b[i] = y[i - k]
    BY <1>4, <1>6, <1>8
  <2> QED
    BY <1>4, <2>1, <2>2
<1> QED
  BY <1>8, <1>9, <1>10, <1>11 DEF Gained

\* RemoveAt, element by element.
LEMMA RemoveElements ==
    ASSUME NEW V, NEW s \in Seq(V), NEW k \in 1 .. Len(s), NEW b, b = RemoveAt(s, k)
    PROVE  Lost(V, s, k, b)
<1>1. PICK x : x = SubSeq(s, 1, k - 1)
  OBVIOUS
<1>2. PICK y : y = SubSeq(s, k + 1, Len(s))
  OBVIOUS
<1>3. x \in Seq(V) /\ Len(x) = k - 1 /\ \A i \in 1 .. k - 1 : x[i] = s[i]
  BY <1>1
<1>4. y \in Seq(V) /\ Len(y) = Len(s) - k /\ \A i \in 1 .. Len(s) - k : y[i] = s[k + i]
  BY <1>2
<1>5. b = x \o y
  BY <1>1, <1>2 DEF RemoveAt
<1>6. b \in Seq(V) /\ Len(b) = Len(s) - 1
  <2>1. b \in Seq(V) /\ Len(b) = Len(x) + Len(y)
    <3>1. x \in Seq(V) /\ y \in Seq(V)
      BY <1>3, <1>4
    <3> QED
      BY <1>5, <3>1, ConcatProperties, Zenon
  <2> QED
    BY <1>3, <1>4, <2>1
<1>7. \A i \in 1 .. k - 1 : b[i] = s[i]
  BY <1>3, <1>4, <1>5
<1>8. ASSUME NEW i \in k .. Len(s) - 1 PROVE b[i] = s[i + 1]
  <2>1. i - (k - 1) \in 1 .. Len(s) - k /\ k + (i - (k - 1)) = i + 1
    OBVIOUS
  <2>2. b[i] = y[i - (k - 1)]
    BY <1>3, <1>4, <1>5
  <2> QED
    BY <1>4, <2>1, <2>2
<1> QED
  BY <1>6, <1>7, <1>8 DEF Lost

\* Every step of one writer changes Entries by one insertion, one removal or not at all.
LEMMA OneChange ==
    ASSUME TypeInv, \A w \in Threads : WriterInv(w), Listed, Listed', [Next]_vars,
           ~wild', Cardinality(Writers) <= 1
    PROVE  \/ Entries' = Entries
           \/ \E k \in 1 .. Len(Entries) : Entries' = RemoveAt(Entries, k)
           \/ \E k \in 1 .. Len(Entries), n \in Nodes : Entries' = InsertAt(Entries, k, n)
<1>1. PICK w \in Threads : OnlyWriter(w)
  BY SomeWriter
<1>2. ~wild
  BY DEF Next, vars, Step, Begin, Walk, Steps, Write, CleanLoop, list_add_tail, __list_add,
         list_del, Free, CountLoad, CountStore, At
<1>3. PICK n \in Nat : \E f \in [0 .. n + 1 -> Cells] : Order(w, n, f)
  BY <1>1, <1>2 DEF WriterInv
<1>4. PICK f \in [0 .. n + 1 -> Cells] : Order(w, n, f)
  BY <1>3
<1>c. PICK e, d : e = Entries /\ d = Entries'
  OBVIOUS
<1>5. e \in Seq(Pointers) /\ Len(e) = n /\ \A i \in 1 .. n : e[i] = f[i]
  BY <1>4, <1>c DEF Listed
<1>6. \A m, g : Order(w, m, g)' =>
          d \in Seq(Pointers) /\ Len(d) = m /\ \A i \in 1 .. m : d[i] = g[i]
  BY <1>c DEF Listed
<1>7. CASE Order(w, n, f)'
  <2>1. d \in Seq(Pointers) /\ Len(d) = n /\ \A i \in 1 .. n : d[i] = f[i]
    BY <1>6, <1>7
  <2> QED
    BY <1>c, <1>5, <2>1, SameSequence
<1>8. ASSUME NEW k \in 1 .. n, NEW c \in Nodes, NEW g, g = Inserted(n, f, k, c), Order(w, n + 1, g)'
      PROVE  d = InsertAt(e, k, c)
  <2>1. d \in Seq(Pointers) /\ Len(d) = n + 1 /\ \A i \in 1 .. n + 1 : d[i] = g[i]
    BY <1>6, <1>8
  <2>2. PICK b : b = InsertAt(e, k, c)
    OBVIOUS
  <2>3. /\ b \in Seq(Pointers) /\ Len(b) = n + 1
        /\ \A i \in 1 .. k - 1 : b[i] = e[i]
        /\ b[k] = c
        /\ \A i \in k + 1 .. n + 1 : b[i] = e[i - 1]
    <3>1. c \in Pointers /\ k \in 1 .. Len(e)
      BY <1>5 DEF Pointers, Cells
    <3>2. Gained(Pointers, e, k, c, b)
      BY <1>5, <2>2, <3>1, InsertElements
    <3> QED
      BY <1>5, <3>2 DEF Gained
  <2>g. /\ \A i \in 1 .. k - 1 : g[i] = f[i]
        /\ g[k] = c
        /\ \A i \in k + 1 .. n + 1 : g[i] = f[i - 1]
    BY <1>8 DEF Inserted
  <2>4. ASSUME NEW i \in 1 .. n + 1 PROVE d[i] = b[i]
    <3>1. CASE i < k
      <4>1. i \in 1 .. n /\ i \in 1 .. k - 1
        BY <3>1
      <4> QED
        BY <1>5, <2>1, <2>3, <2>g, <4>1
    <3>2. CASE i = k
      BY <1>5, <2>1, <2>3, <2>g, <3>2
    <3>3. CASE i > k
      <4>1. i - 1 \in 1 .. n /\ i \in k + 1 .. n + 1
        BY <3>3
      <4>2. g[i] = f[i - 1] /\ b[i] = e[i - 1] /\ e[i - 1] = f[i - 1] /\ d[i] = g[i]
        BY <1>5, <2>1, <2>3, <2>g, <4>1
      <4> QED
        BY <4>2
    <3> QED
      BY <3>1, <3>2, <3>3
  <2> QED
    BY <2>1, <2>2, <2>3, <2>4, SameSequence
<1>9. ASSUME NEW k \in 1 .. n - 1, NEW m, NEW g, m = n - 1, g = Without(n, f, k), Order(w, m, g)'
      PROVE  d = RemoveAt(e, k)
  <2>1. d \in Seq(Pointers) /\ Len(d) = n - 1 /\ \A i \in 1 .. n - 1 : d[i] = g[i]
    BY <1>6, <1>9
  <2>2. PICK b : b = RemoveAt(e, k)
    OBVIOUS
  <2>3. /\ b \in Seq(Pointers) /\ Len(b) = n - 1
        /\ \A i \in 1 .. k - 1 : b[i] = e[i]
        /\ \A i \in k .. n - 1 : b[i] = e[i + 1]
    <3>1. k \in 1 .. Len(e)
      BY <1>5
    <3>2. Lost(Pointers, e, k, b)
      BY <1>5, <2>2, <3>1, RemoveElements
    <3> QED
      BY <1>5, <3>2 DEF Lost
  <2>g. /\ \A i \in 1 .. k - 1 : g[i] = f[i]
        /\ \A i \in k .. n - 1 : g[i] = f[i + 1]
    BY <1>9 DEF Without
  <2>4. ASSUME NEW i \in 1 .. n - 1 PROVE d[i] = b[i]
    <3>1. CASE i < k
      BY <1>5, <2>1, <2>3, <2>g, <3>1
    <3>2. CASE i >= k
      <4>1. i + 1 \in 1 .. n /\ i \in k .. n - 1
        BY <3>2
      <4> QED
        BY <1>5, <2>1, <2>3, <2>g, <4>1
    <3> QED
      BY <3>1, <3>2
  <2> QED
    BY <2>1, <2>2, <2>3, <2>4, SameSequence
<1>10. After(w, n, f)
  BY <1>1, <1>2, <1>4, StepAfter
<1> QED
  BY <1>c, <1>5, <1>7, <1>8, <1>9, <1>10 DEF After

\* ListRace!OneStoreChanges: one thread's insertion or deletion is one change of the sequence
\* the others see, so do_command of a single thread may be read as InsertAt and RemoveAt.
THEOREM ChangesAreOneStore == Spec => OneStoreChanges
<1> DEFINE Inv == TypeInv /\ (\A w \in Threads : WriterInv(w))
           Change == \/ wild' \/ Cardinality(Writers) > 1 \/ Entries' = Entries
                     \/ \E k \in 1 .. Len(Entries) : Entries' = RemoveAt(Entries, k)
                     \/ \E k \in 1 .. Len(Entries), n \in Nodes : Entries' = InsertAt(Entries, k, n)
<1>1. Inv /\ Listed /\ Listed' /\ [Next]_vars => [Change]_vars
  <2>1. Cardinality(Writers) <= 1 \/ Cardinality(Writers) > 1
    <3>1. IsFiniteSet(Writers)
      BY ListRaceAssumption, FS_Subset DEF Writers
    <3> QED
      BY <3>1, FS_CardinalityType
  <2> QED
    BY <2>1, OneChange
<1>2. Inv => Listed
  BY EntriesListed
<1>3. Spec => []Inv
  BY OneWriter
<1> HIDE DEF Change
<1>4. Spec => [][Change]_vars
  BY <1>1, <1>2, <1>3, PTL DEF Spec
<1> QED
  BY <1>4 DEF Change, OneStoreChanges

-----------------------------------------------------------------------------
(* Threads that insert, alter and list.  An insertion that races another may be lost, *)
(* but what is reached by next or prev still leads from the head to the policy.      *)

\* The entries threads are linking in whose pc is one of ps.
NewOf(ps) == {th[t].new : t \in {u \in Threads : th[u].pc \in ps}}

\* The cells whose prev leads on: all but those whose insertion has not begun.
Ranked == {ListHead} \cup (live \ NewOf({"add_tail"}))

\* The cells whose next leads on: all but those that are being linked in.
Settled == {ListHead} \cup (live \ NewOf(Adding))

\* rk rises along next from the head to the policy, which next leads back to the head,
\* and falls along prev.
NextAscends(rk) ==
    /\ next[Policy] = ListHead
    /\ \A c \in Settled \ {Policy} : next[c] \in Settled \ {ListHead} /\ rk[c] < rk[next[c]]

PrevDescends(rk) ==
    /\ prev[ListHead] = Policy
    /\ \A c \in Settled \ {ListHead} : prev[c] \in Ranked /\ rk[prev[c]] < rk[c]

PolicyLast(rk) == \A c \in Ranked \ {Policy} : rk[c] < rk[Policy]

\* What a thread that inserts knows.
Adder(t, rk) ==
    LET r == th[t]
    IN /\ r.pc \in {"idle", "walk", "steps", "write", "inc", "inc_store"} \cup Adding
       /\ r.op \notin Removals
       /\ r.pc = "walk" => r.p \in Settled
       /\ r.pc \in {"steps", "write"} => r.op = "alter" /\ r.p \in Settled
       /\ r.pc = "add_tail" => r.p \in Settled \ {ListHead}
       /\ r.pc \in Adding => r.new \in live \cap Nodes
       /\ r.pc \in Adding \ {"add_tail"} =>
            /\ r.nxt \in Settled \ {ListHead} /\ r.prv \in Ranked
            /\ rk[r.prv] < rk[r.new] /\ rk[r.new] < rk[r.nxt]
       /\ r.pc \in {"add3", "add4"} =>
            next[r.new] \in Settled \ {ListHead} /\ rk[r.new] < rk[next[r.new]]
       /\ r.pc = "add4" => prev[r.new] \in Ranked /\ rk[prev[r.new]] < rk[r.new]

OwnNews == \A t, u \in Threads :
              t # u /\ th[t].pc \in Adding /\ th[u].pc \in Adding => th[t].new # th[u].new

Ascends(rk) ==
    /\ Policy \in live
    /\ NextAscends(rk) /\ PrevDescends(rk) /\ PolicyLast(rk)
    /\ OwnNews /\ \A t \in Threads : Adder(t, rk)

Adders == \A t \in Threads : does[t] \cap Removals = {}

AddersInv ==
    Adders => IF wild THEN \E t \in Threads : "alter" \in does[t]
              ELSE \E rk \in [Cells -> Int] : Ascends(rk)

\* What is ranked and settled are cells.
LEMMA RankedCells ==
    ASSUME TypeInv
    PROVE  /\ Settled \subseteq Ranked /\ Ranked \subseteq Cells
           /\ ListHead \in Settled
           /\ \A c \in Ranked : Valid(c)
           /\ ListHead \notin live
BY ListRaceAssumption DEF TypeInv, Settled, Ranked, NewOf, Adding, Cells, Valid

\* The policy entry stays in the list.
LEMMA PolicySettled ==
    ASSUME TypeInv, NEW rk, Ascends(rk)
    PROVE  Policy \in Settled \ {ListHead}
BY ListRaceAssumption DEF Ascends, Adder, Settled, NewOf

\* A step of t that leaves next, prev and the two sets alone.
LEMMA AscendsStill ==
    ASSUME NEW rk, Ascends(rk), NEW t \in Threads, \A u \in Threads \ {t} : th'[u] = th[u],
           UNCHANGED <<next, prev>>, live \subseteq live', Settled' = Settled, Ranked' = Ranked,
           OwnNews', Adder(t, rk)'
    PROVE  Ascends(rk)'
<1>1. NextAscends(rk)' /\ PrevDescends(rk)' /\ PolicyLast(rk)'
  BY DEF Ascends, NextAscends, PrevDescends, PolicyLast
<1>2. ASSUME NEW u \in Threads \ {t} PROVE Adder(u, rk)'
  <2>1. Adder(u, rk)
    BY DEF Ascends
  <2> QED
    BY <2>1 DEF Adder
<1> QED
  BY <1>1, <1>2 DEF Ascends

\* The sets while t is not inserting.
LEMMA SetsStill ==
    ASSUME TypeInv, OwnNews, NEW t \in Threads, NEW r, th' = [th EXCEPT ![t] = r], live' = live,
           th[t].pc \notin Adding, r.pc \notin Adding
    PROVE  Settled' = Settled /\ Ranked' = Ranked /\ OwnNews' /\ th'[t] = r
           /\ \A u \in Threads \ {t} : th'[u] = th[u]
<1>1. th'[t] = r /\ \A u \in Threads \ {t} : th'[u] = th[u]
  BY DEF TypeInv
<1>2. NewOf(Adding)' = NewOf(Adding) /\ NewOf({"add_tail"})' = NewOf({"add_tail"})
  BY <1>1 DEF NewOf, Adding
<1>3. OwnNews'
  BY <1>1 DEF OwnNews
<1> QED
  BY <1>1, <1>2, <1>3 DEF Settled, Ranked

\* The sets when t takes an entry from malloc.
LEMMA SetsMalloc ==
    ASSUME TypeInv, NEW rk, Ascends(rk), NEW t \in Threads, NEW r, NEW c \in Nodes \ live,
           th' = [th EXCEPT ![t] = r], live' = live \cup {c},
           th[t].pc \notin Adding, r.pc = "add_tail", r.new = c
    PROVE  Settled' = Settled /\ Ranked' = Ranked /\ OwnNews' /\ th'[t] = r
           /\ \A u \in Threads \ {t} : th'[u] = th[u]
<1>1. th'[t] = r /\ \A u \in Threads \ {t} : th'[u] = th[u]
  BY DEF TypeInv
<1>2. NewOf(Adding)' = NewOf(Adding) \cup {c} /\ NewOf({"add_tail"})' = NewOf({"add_tail"}) \cup {c}
  BY <1>1 DEF NewOf, Adding
<1>3. NewOf(Adding) \subseteq live /\ NewOf({"add_tail"}) \subseteq live
  BY DEF Ascends, Adder, NewOf, Adding
<1>4. OwnNews'
  BY <1>1 DEF Ascends, Adder, OwnNews
<1> QED
  BY <1>1, <1>2, <1>3, <1>4 DEF Settled, Ranked

\* The sets while t goes on inserting.
LEMMA SetsInsert ==
    ASSUME TypeInv, OwnNews, NEW t \in Threads, NEW r, th' = [th EXCEPT ![t] = r], live' = live,
           th[t].pc \in Adding \ {"add_tail"}, r.pc \in Adding \ {"add_tail"}, r.new = th[t].new
    PROVE  Settled' = Settled /\ Ranked' = Ranked /\ OwnNews' /\ th'[t] = r
           /\ \A u \in Threads \ {t} : th'[u] = th[u]
<1>1. th'[t] = r /\ \A u \in Threads \ {t} : th'[u] = th[u]
  BY DEF TypeInv
<1>2. NewOf(Adding)' = NewOf(Adding) /\ NewOf({"add_tail"})' = NewOf({"add_tail"})
  BY <1>1 DEF NewOf, Adding
<1>3. OwnNews'
  BY <1>1 DEF OwnNews
<1> QED
  BY <1>1, <1>2, <1>3 DEF Settled, Ranked

\* Starting an operation.
LEMMA AddersBegin ==
    ASSUME TypeInv, Adders, NEW rk \in [Cells -> Int], Ascends(rk), NEW t \in Threads, Begin(t)
    PROVE  Ascends(rk)' /\ ~wild'
<1>1. th[t].pc = "idle" /\ th[t].pc \notin Adding /\ ~wild' /\ OwnNews
  BY DEF Begin, At, Adding, Ascends
<1>2. Settled \subseteq Cells /\ ListHead \in Settled /\ Policy \in Settled \ {ListHead}
  BY RankedCells, PolicySettled
<1>3. prev[ListHead] = Policy /\ next[ListHead] \in Settled
  BY <1>2, ListRaceAssumption DEF Ascends, NextAscends, PrevDescends
<1>4. CASE StartAppend(t)
  <2>1. PICK c \in Nodes \ live :
             /\ live' = live \cup {c}
             /\ th' = [th EXCEPT ![t] = [Idle EXCEPT !.pc = "add_tail", !.op = "append",
                                                     !.new = c, !.p = prev[ListHead]]]
             /\ UNCHANGED <<ring, length>>
    BY <1>4 DEF StartAppend
  <2> DEFINE r == [Idle EXCEPT !.pc = "add_tail", !.op = "append", !.new = c, !.p = prev[ListHead]]
  <2>2. r.pc = "add_tail" /\ r.op = "append" /\ r.new = c /\ r.p = Policy
    BY <1>3 DEF Idle
  <2>3. th' = [th EXCEPT ![t] = r]
    BY <2>1
  <2> HIDE DEF r
  <2>4. /\ Settled' = Settled /\ Ranked' = Ranked /\ OwnNews' /\ th'[t] = r
        /\ \A u \in Threads \ {t} : th'[u] = th[u]
    BY <1>1, <2>1, <2>2, <2>3, SetsMalloc
  <2>5. Adder(t, rk)'
    <3>1. th'[t].pc = "add_tail" /\ th'[t].op \notin Removals
      BY <2>2, <2>4 DEF Removals
    <3>2. th'[t].p \in Settled' \ {ListHead}
      BY <1>2, <2>2, <2>4
    <3>3. th'[t].new \in live' \cap Nodes
      BY <2>1, <2>2, <2>4
    <3> QED
      BY <3>1, <3>2, <3>3 DEF Adder, Adding
  <2> QED
    BY <1>1, <2>1, <2>4, <2>5, AscendsStill DEF ring
<1>5. ASSUME NEW op \in {"insert", "all_in"}, StartWalk(t, op)
      PROVE  Ascends(rk)'
  <2> DEFINE r == [Idle EXCEPT !.pc = "walk", !.op = op, !.p = next[ListHead]]
  <2>1. th' = [th EXCEPT ![t] = r] /\ UNCHANGED <<ring, length, live>>
    BY <1>5 DEF StartWalk
  <2>2. r.pc = "walk" /\ r.op = op /\ r.p = next[ListHead]
    BY DEF Idle
  <2> HIDE DEF r
  <2>3. /\ Settled' = Settled /\ Ranked' = Ranked /\ OwnNews' /\ th'[t] = r
        /\ \A u \in Threads \ {t} : th'[u] = th[u]
    BY <1>1, <2>1, <2>2, SetsStill DEF Adding
  <2>4. Adder(t, rk)'
    BY <1>3, <2>2, <2>3 DEF Adder, Adding, Removals
  <2> QED
    BY <2>1, <2>3, <2>4, AscendsStill DEF ring
<1>6. CASE StartSteps(t, "alter")
  <2>1. PICK index \in Indexes :
            /\ th' = [th EXCEPT ![t] = [Idle EXCEPT !.pc = "steps", !.op = "alter", !.left = index]]
            /\ UNCHANGED <<ring, length, live>>
    BY <1>6 DEF StartSteps
  <2> DEFINE r == [Idle EXCEPT !.pc = "steps", !.op = "alter", !.left = index]
  <2>2. r.pc = "steps" /\ r.op = "alter" /\ r.p = ListHead
    BY DEF Idle
  <2>3. th' = [th EXCEPT ![t] = r]
    BY <2>1
  <2> HIDE DEF r
  <2>4. /\ Settled' = Settled /\ Ranked' = Ranked /\ OwnNews' /\ th'[t] = r
        /\ \A u \in Threads \ {t} : th'[u] = th[u]
    BY <1>1, <2>1, <2>2, <2>3, SetsStill DEF Adding
  <2>5. Adder(t, rk)'
    BY <1>2, <2>2, <2>4 DEF Adder, Adding, Removals
  <2> QED
    BY <1>1, <2>1, <2>4, <2>5, AscendsStill DEF ring
<1> QED
  BY <1>1, <1>4, <1>5, <1>6 DEF Begin, Adders, Removals

\* A walk towards the place of an insertion, of all_in or of print_info.
LEMMA AddersWalk ==
    ASSUME TypeInv, NEW rk \in [Cells -> Int], Ascends(rk), NEW t \in Threads, Walk(t)
    PROVE  Ascends(rk)' /\ ~wild'
<1> DEFINE p == th[t].p
<1>1. /\ th[t].pc = "walk" /\ th[t].pc \notin Adding /\ ~wild /\ OwnNews
      /\ p \in Settled /\ th[t].op \notin Removals
  BY DEF Walk, At, Adding, Ascends, Adder
<1>2. /\ Settled \subseteq Cells /\ ListHead \in Settled /\ Policy \in Settled \ {ListHead}
      /\ \A c \in Settled : Valid(c)
  BY RankedCells, PolicySettled
<1>3. prev[ListHead] = Policy /\ \A c \in Settled : next[c] \in Settled
  BY <1>2 DEF Ascends, NextAscends, PrevDescends
<1>4. CASE th' = [th EXCEPT ![t] = Idle] /\ UNCHANGED <<ring, length, live, wild, ops>>
  <2>1. Idle.pc = "idle" /\ Idle.op = "none"
    BY DEF Idle
  <2>2. /\ Settled' = Settled /\ Ranked' = Ranked /\ OwnNews' /\ th'[t] = Idle
        /\ \A u \in Threads \ {t} : th'[u] = th[u]
    BY <1>1, <1>4, <2>1, SetsStill DEF Adding
  <2>3. Adder(t, rk)'
    BY <2>1, <2>2 DEF Adder, Adding, Removals
  <2> QED
    BY <1>1, <1>4, <2>2, <2>3, AscendsStill DEF ring
<1>5. CASE Stop(t, p) /\ th[t].op = "insert"
  <2> DEFINE b == IF p = ListHead THEN prev[ListHead] ELSE p
  <2>1. PICK c \in Nodes \ live :
             /\ live' = live \cup {c}
             /\ th' = [th EXCEPT ![t].pc = "add_tail", ![t].new = c, ![t].p = b]
             /\ UNCHANGED <<ring, length, wild, ops>>
    BY <1>5 DEF Stop
  <2> DEFINE r == [th[t] EXCEPT !.pc = "add_tail", !.new = c, !.p = b]
  <2>2. b \in Settled \ {ListHead}
    BY <1>1, <1>2, <1>3
  <2>3. r.pc = "add_tail" /\ r.op = "insert" /\ r.new = c /\ r.p = b
    BY <1>5 DEF TypeInv, Frames
  <2>4. th' = [th EXCEPT ![t] = r]
    BY <2>1 DEF TypeInv
  <2> HIDE DEF r, b
  <2>5. /\ Settled' = Settled /\ Ranked' = Ranked /\ OwnNews' /\ th'[t] = r
        /\ \A u \in Threads \ {t} : th'[u] = th[u]
    BY <1>1, <2>1, <2>3, <2>4, SetsMalloc
  <2>6. Adder(t, rk)'
    <3>1. th'[t].pc = "add_tail" /\ th'[t].op \notin Removals
      BY <2>3, <2>5 DEF Removals
    <3>2. th'[t].p \in Settled' \ {ListHead}
      BY <2>2, <2>3, <2>5
    <3>3. th'[t].new \in live' \cap Nodes
      BY <2>1, <2>3, <2>5
    <3> QED
      BY <3>1, <3>2, <3>3 DEF Adder, Adding
  <2> QED
    BY <1>1, <2>1, <2>5, <2>6, AscendsStill DEF ring
<1>6. CASE /\ th' = [th EXCEPT ![t].p = next[p],
                               ![t].left = IF th[t].op = "match" THEN @ + 1 ELSE @]
           /\ UNCHANGED <<ring, length, live, wild, ops>>
  <2> DEFINE k == IF th[t].op = "match" THEN th[t].left + 1 ELSE th[t].left
             r == [th[t] EXCEPT !.p = next[p], !.left = k]
  <2>1. r.pc = "walk" /\ r.op = th[t].op /\ r.p = next[p]
    BY <1>1 DEF TypeInv, Frames
  <2>2. th' = [th EXCEPT ![t] = r]
    BY <1>6 DEF TypeInv
  <2> HIDE DEF r
  <2>3. /\ Settled' = Settled /\ Ranked' = Ranked /\ OwnNews' /\ th'[t] = r
        /\ \A u \in Threads \ {t} : th'[u] = th[u]
    BY <1>1, <1>6, <2>1, <2>2, SetsStill DEF Adding
  <2>4. Adder(t, rk)'
    BY <1>1, <1>3, <2>1, <2>3 DEF Adder, Adding
  <2> QED
    BY <1>1, <1>6, <2>3, <2>4, AscendsStill DEF ring
<1> QED
  BY <1>1, <1>2, <1>4, <1>5, <1>6 DEF Walk, Removals

\* A step of do_alter towards an index never leaves what is settled.
LEMMA AddersSteps ==
    ASSUME TypeInv, NEW rk \in [Cells -> Int], Ascends(rk), NEW t \in Threads, Steps(t)
    PROVE  Ascends(rk)' /\ ~wild'
<1>1. /\ th[t].pc = "steps" /\ th[t].pc \notin Adding /\ ~wild /\ OwnNews
      /\ th[t].p \in Settled /\ th[t].op = "alter"
  BY DEF Steps, At, Adding, Ascends, Adder
<1>2. Settled \subseteq Cells /\ Policy \in Settled /\ \A c \in Settled : Valid(c)
  BY RankedCells, PolicySettled
<1>3. \A c \in Settled : next[c] \in Settled
  BY <1>2, RankedCells DEF Ascends, NextAscends
<1>4. PICK r : /\ th' = [th EXCEPT ![t] = r] /\ r.op = "alter" /\ r.pc \in {"steps", "write"}
               /\ r.p \in Settled
  <2>1. CASE th[t].left = 0
    <3> DEFINE r == [th[t] EXCEPT !.pc = "write"]
    <3>1. th' = [th EXCEPT ![t] = r] /\ r.op = "alter" /\ r.pc = "write" /\ r.p = th[t].p
      BY <1>1, <2>1 DEF Steps, Goto, TypeInv, Frames
    <3> HIDE DEF r
    <3> QED
      BY <1>1, <3>1
  <2>2. CASE th[t].left # 0
    <3> DEFINE r == [th[t] EXCEPT !.p = next[th[t].p], !.left = @ - 1]
    <3>1. th' = [th EXCEPT ![t] = r] /\ r.op = "alter" /\ r.pc = "steps" /\ r.p = next[th[t].p]
      BY <1>1, <1>2, <2>2 DEF Steps, TypeInv, Frames
    <3> HIDE DEF r
    <3> QED
      BY <1>1, <1>3, <3>1
  <2> QED
    BY <2>1, <2>2
<1>5. UNCHANGED <<next, prev, length, live, wild>>
  BY <1>1, <1>2 DEF Steps, ring
<1>6. /\ Settled' = Settled /\ Ranked' = Ranked /\ OwnNews' /\ th'[t] = r
      /\ \A u \in Threads \ {t} : th'[u] = th[u]
  BY <1>1, <1>4, <1>5, SetsStill DEF Adding
<1>7. Adder(t, rk)'
  BY <1>4, <1>6 DEF Adder, Adding, Removals
<1> QED
  BY <1>1, <1>5, <1>6, <1>7, AscendsStill

\* What print_info leaves.
LEMMA AddersPrint ==
    ASSUME TypeInv, NEW rk \in [Cells -> Int], Ascends(rk), NEW t \in Threads,
           th[t].pc \notin Adding, th' = [th EXCEPT ![t] = print_info],
           UNCHANGED <<next, prev, live>>
    PROVE  Ascends(rk)'
<1>1. /\ print_info.pc = "walk" /\ print_info.op = "print" /\ print_info.p = next[ListHead]
  BY DEF print_info, Idle
<1>2. OwnNews /\ next[ListHead] \in Settled
  BY RankedCells, PolicySettled, ListRaceAssumption DEF Ascends, NextAscends
<1>3. /\ Settled' = Settled /\ Ranked' = Ranked /\ OwnNews' /\ th'[t] = print_info
      /\ \A u \in Threads \ {t} : th'[u] = th[u]
  BY <1>1, <1>2, SetsStill DEF Adding
<1>4. Adder(t, rk)'
  BY <1>1, <1>2, <1>3 DEF Adder, Adding, Removals
<1> QED
  BY <1>3, <1>4, AscendsStill

\* do_alter's write: it may have come to the head.
LEMMA AddersWrite ==
    ASSUME TypeInv, NEW rk \in [Cells -> Int], Ascends(rk), NEW t \in Threads, Write(t)
    PROVE  IF wild' THEN "alter" \in does[t] ELSE Ascends(rk)'
<1>1. th[t].pc = "write" /\ th[t].op = "alter" /\ th[t].pc \notin Adding /\ ~wild
  BY DEF Write, At, Ascends, Adder, Adding
<1>2. CASE Wild
  BY <1>1, <1>2 DEF Wild, TypeInv
<1>3. CASE th' = [th EXCEPT ![t] = print_info] /\ UNCHANGED <<ring, length, live, wild, ops>>
  BY <1>1, <1>3, AddersPrint DEF ring
<1> QED
  BY <1>2, <1>3 DEF Write

\* info[i].length++.
LEMMA AddersCount ==
    ASSUME TypeInv, NEW rk \in [Cells -> Int], Ascends(rk), NEW t \in Threads,
           CountLoad(t, "inc", "inc_store") \/ CountLoad(t, "dec", "dec_store") \/ CountStore(t)
    PROVE  Ascends(rk)' /\ ~wild'
<1>1. th[t].pc \in {"inc", "inc_store"} /\ th[t].pc \notin Adding /\ ~wild' /\ OwnNews
  BY DEF CountLoad, CountStore, At, Ascends, Adder, Adding
<1>2. CASE CountLoad(t, "inc", "inc_store")
  <2> DEFINE r == [th[t] EXCEPT !.len = length, !.pc = "inc_store"]
  <2>1. /\ th' = [th EXCEPT ![t] = r] /\ r.pc = "inc_store" /\ r.op = th[t].op
        /\ UNCHANGED <<next, prev, live>>
    BY <1>2 DEF CountLoad, TypeInv, Frames, ring
  <2> HIDE DEF r
  <2>2. /\ Settled' = Settled /\ Ranked' = Ranked /\ OwnNews' /\ th'[t] = r
        /\ \A u \in Threads \ {t} : th'[u] = th[u]
    BY <1>1, <2>1, SetsStill DEF Adding
  <2>3. Adder(t, rk)'
    BY <2>1, <2>2 DEF Ascends, Adder, Adding
  <2> QED
    BY <1>1, <2>1, <2>2, <2>3, AscendsStill
<1>3. CASE CountStore(t)
  <2>1. th' = [th EXCEPT ![t] = print_info] /\ UNCHANGED <<next, prev, live>>
    BY <1>1, <1>3 DEF CountStore, At, ring
  <2> QED
    BY <1>1, <2>1, AddersPrint
<1> QED
  BY <1>1, <1>2, <1>3 DEF CountLoad, At

-----------------------------------------------------------------------------
\* The ranks when c gets the place of x.
Ranks(rk, c, x) == [d \in Cells |-> IF d = c THEN rk[x] ELSE IF rk[d] < rk[x] THEN rk[d] ELSE rk[d] + 1]

\* list_add_tail: the new entry is ranked between the neighbours it was given.
LEMMA AddersAddTail ==
    ASSUME TypeInv, NEW rk \in [Cells -> Int], Ascends(rk), NEW t \in Threads, list_add_tail(t)
    PROVE  ~wild' /\ \E sk \in [Cells -> Int] : Ascends(sk)'
<1>1. /\ th[t].pc = "add_tail" /\ ~wild /\ OwnNews
      /\ th[t].p \in Settled \ {ListHead} /\ th[t].new \in live \cap Nodes /\ th[t].op \notin Removals
  BY DEF list_add_tail, At, Ascends, Adder, Adding
<1>2. PICK c, x : c = th[t].new /\ x = th[t].p
  OBVIOUS
<1>3. Settled \subseteq Ranked /\ Ranked \subseteq Cells /\ \A d \in Ranked : Valid(d)
  BY RankedCells
<1> DEFINE r == [th[t] EXCEPT !.nxt = x, !.prv = prev[x], !.pc = "add1"]
<1>4. /\ th' = [th EXCEPT ![t] = r] /\ r.pc = "add1" /\ r.new = c /\ r.nxt = x /\ r.prv = prev[x]
      /\ r.op = th[t].op /\ UNCHANGED <<next, prev, length, live, wild>>
  BY <1>1, <1>2, <1>3 DEF list_add_tail, TypeInv, Frames, ring
<1> HIDE DEF r
<1>5. th'[t] = r /\ \A u \in Threads \ {t} : th'[u] = th[u]
  BY <1>4 DEF TypeInv
<1>6. /\ c \in Cells /\ c # ListHead /\ c # Policy /\ c \notin Ranked
      /\ x \in Settled \ {ListHead} /\ prev[x] \in Ranked /\ rk[prev[x]] < rk[x]
  BY <1>1, <1>2, CellsTyped, ListRaceAssumption DEF Ranked, NewOf, Cells, Ascends, PrevDescends
<1>7. Settled' = Settled
  BY <1>1, <1>2, <1>4, <1>5 DEF Settled, NewOf, Adding
<1>8. Ranked' = Ranked \cup {c}
  <2>1. NewOf({"add_tail"}) = NewOf({"add_tail"})' \cup {c}
    BY <1>1, <1>2, <1>4, <1>5 DEF NewOf
  <2>2. c \notin NewOf({"add_tail"})'
    BY <1>1, <1>2, <1>4, <1>5 DEF NewOf, OwnNews, Adding
  <2> QED
    BY <1>1, <1>2, <1>4, <2>1, <2>2 DEF Ranked
<1>9. OwnNews'
  BY <1>1, <1>2, <1>4, <1>5 DEF OwnNews, Adding
<1>10. PICK sk : sk = Ranks(rk, c, x)
  OBVIOUS
<1>11. /\ sk \in [Cells -> Int] /\ sk[c] = rk[x]
       /\ \A d \in Cells : d # c /\ rk[d] < rk[x] => sk[d] = rk[d]
       /\ \A d \in Cells : d # c /\ rk[d] >= rk[x] => sk[d] = rk[d] + 1
  BY <1>3, <1>6, <1>10 DEF Ranks
<1>12. \A d, e \in Ranked : rk[d] < rk[e] => sk[d] < sk[e]
  <2> SUFFICES ASSUME NEW d \in Ranked, NEW e \in Ranked, rk[d] < rk[e] PROVE sk[d] < sk[e]
    OBVIOUS
  <2>1. d \in Cells /\ e \in Cells /\ d # c /\ e # c /\ rk[d] \in Int /\ rk[e] \in Int /\ rk[x] \in Int
    BY <1>3, <1>6
  <2> QED
    BY <1>11, <2>1
<1>13. \A d \in Ranked : rk[d] < rk[x] => sk[d] < sk[c]
  BY <1>3, <1>6, <1>11
<1>14. sk[c] < sk[x]
  BY <1>3, <1>6, <1>11
<1>15. NextAscends(sk)'
  BY <1>3, <1>4, <1>7, <1>12 DEF Ascends, NextAscends
<1>16. PrevDescends(sk)'
  BY <1>3, <1>4, <1>7, <1>8, <1>12 DEF Ascends, PrevDescends
<1>17. PolicyLast(sk)'
  <2>1. Policy \in Settled
    BY PolicySettled
  <2>2. sk[c] < sk[Policy]
    <3>1. x = Policy \/ sk[x] < sk[Policy]
      BY <1>3, <1>6, <1>12, <2>1 DEF Ascends, PolicyLast
    <3>2. sk[c] \in Int /\ sk[x] \in Int /\ sk[Policy] \in Int
      BY <1>3, <1>6, <1>11, <2>1
    <3> QED
      BY <1>14, <3>1, <3>2
  <2> QED
    BY <1>3, <1>8, <1>12, <2>1, <2>2 DEF Ascends, PolicyLast
<1>18. Adder(t, sk)'
  <2>1. prev[x] \in Ranked' /\ sk[prev[x]] < sk[c]
    BY <1>6, <1>8, <1>13
  <2> QED
    BY <1>1, <1>2, <1>4, <1>5, <1>6, <1>7, <1>14, <2>1 DEF Adder, Adding
<1>19. ASSUME NEW u \in Threads \ {t} PROVE Adder(u, sk)'
  <2>1. Adder(u, rk)
    BY DEF Ascends
  <2>2. th[u].pc \in Adding \ {"add_tail"} => th[u].new \in Ranked
    <3> SUFFICES ASSUME th[u].pc \in Adding \ {"add_tail"} PROVE th[u].new \in Ranked
      OBVIOUS
    <3>1. th[u].new \in live
      BY <2>1 DEF Adder
    <3>2. th[u].new \notin NewOf({"add_tail"})
      BY <1>1 DEF OwnNews, NewOf, Adding
    <3> QED
      BY <3>1, <3>2 DEF Ranked
  <2> QED
    BY <1>3, <1>4, <1>5, <1>7, <1>8, <1>12, <2>1, <2>2 DEF Adder, Adding
<1> QED
  BY <1>1, <1>4, <1>9, <1>11, <1>15, <1>16, <1>17, <1>18, <1>19 DEF Ascends

\* The four stores of __list_add, in any order with those of other insertions.
LEMMA AddersLink ==
    ASSUME TypeInv, NEW rk \in [Cells -> Int], Ascends(rk), NEW t \in Threads, __list_add(t)
    PROVE  Ascends(rk)' /\ ~wild'
<1>1. /\ th[t].pc \in Adding \ {"add_tail"} /\ ~wild /\ OwnNews /\ Adder(t, rk)
      /\ Policy \in live
  BY DEF __list_add, At, Ascends, Adding
<1>2. PICK c, x, y : c = th[t].new /\ x = th[t].nxt /\ y = th[t].prv
  OBVIOUS
<1>3. Settled \subseteq Ranked /\ Ranked \subseteq Cells /\ \A d \in Ranked : Valid(d)
  BY RankedCells
<1>4. /\ c \in live \cap Nodes /\ x \in Settled \ {ListHead} /\ y \in Ranked
      /\ rk[y] < rk[c] /\ rk[c] < rk[x]
  BY <1>1, <1>2 DEF Adder
<1>5. c \in Ranked \ Settled /\ c # ListHead /\ c # Policy
  <2>1. c \notin NewOf({"add_tail"})
    BY <1>1, <1>2 DEF OwnNews, NewOf, Adding
  <2>2. c \in NewOf(Adding)
    BY <1>1, <1>2 DEF NewOf
  <2> QED
    BY <1>4, <2>1, <2>2, ListRaceAssumption DEF Ranked, Settled
<1>6. y # Policy
  <2>1. Policy \in Settled
    BY PolicySettled
  <2>2. x = Policy \/ rk[x] < rk[Policy]
    BY <1>3, <1>4 DEF Ascends, PolicyLast
  <2>3. rk[x] \in Int /\ rk[y] \in Int /\ rk[c] \in Int /\ rk[Policy] \in Int
    BY <1>3, <1>4, <1>5, <2>1
  <2> QED
    BY <1>4, <2>2, <2>3
<1>7. \A u \in Threads \ {t} : th[u].pc \in Adding => th[u].new # c /\ th[u].new \notin Settled
  <2> SUFFICES ASSUME NEW u \in Threads \ {t}, th[u].pc \in Adding
               PROVE  th[u].new # c /\ th[u].new \notin Settled
    OBVIOUS
  <2>1. th[u].new # c
    BY <1>1, <1>2 DEF OwnNews
  <2>2. th[u].new \in Nodes
    BY DEF Ascends, Adder
  <2>3. th[u].new \in NewOf(Adding)
    BY DEF NewOf
  <2> QED
    BY <2>1, <2>2, <2>3, ListRaceAssumption DEF Settled
<1>8. CASE th[t].pc = "add1"
  <2> DEFINE r == [th[t] EXCEPT !.pc = "add2"]
  <2>1. /\ th' = [th EXCEPT ![t] = r] /\ r.pc = "add2" /\ r.op = th[t].op
        /\ r.new = c /\ r.nxt = x /\ r.prv = y
        /\ prev' = [prev EXCEPT ![x] = c] /\ UNCHANGED <<next, live, wild>>
    BY <1>1, <1>2, <1>3, <1>4, <1>8 DEF __list_add, At, StorePrev, Goto, TypeInv, Frames
  <2> HIDE DEF r
  <2>2. /\ Settled' = Settled /\ Ranked' = Ranked /\ OwnNews' /\ th'[t] = r
        /\ \A u \in Threads \ {t} : th'[u] = th[u]
    BY <1>1, <1>2, <2>1, SetsInsert DEF Adding
  <2>3. \A d \in Cells : prev'[d] = IF d = x THEN c ELSE prev[d]
    BY <2>1 DEF TypeInv
  <2>4. NextAscends(rk)' /\ PolicyLast(rk)'
    BY <2>1, <2>2 DEF Ascends, NextAscends, PolicyLast
  <2>5. PrevDescends(rk)'
    BY <1>3, <1>4, <1>5, <2>2, <2>3, CellsTyped DEF Ascends, PrevDescends
  <2>6. Adder(t, rk)'
    BY <1>1, <1>4, <2>1, <2>2 DEF Adder, Adding
  <2>7. ASSUME NEW u \in Threads \ {t} PROVE Adder(u, rk)'
    <3>1. Adder(u, rk)
      BY DEF Ascends
    <3>2. th[u].pc = "add4" => prev'[th[u].new] = prev[th[u].new]
      BY <1>4, <1>7, <2>3, <3>1 DEF Adder, Adding, Cells
    <3> QED
      BY <2>1, <2>2, <3>1, <3>2 DEF Adder
  <2> QED
    BY <1>1, <2>1, <2>2, <2>4, <2>5, <2>6, <2>7 DEF Ascends
<1>9. CASE th[t].pc = "add2"
  <2> DEFINE r == [th[t] EXCEPT !.pc = "add3"]
  <2>1. /\ th' = [th EXCEPT ![t] = r] /\ r.pc = "add3" /\ r.op = th[t].op
        /\ r.new = c /\ r.nxt = x /\ r.prv = y
        /\ next' = [next EXCEPT ![c] = x] /\ UNCHANGED <<prev, live, wild>>
    BY <1>1, <1>2, <1>3, <1>5, <1>9 DEF __list_add, At, StoreNext, Goto, TypeInv, Frames
  <2> HIDE DEF r
  <2>2. /\ Settled' = Settled /\ Ranked' = Ranked /\ OwnNews' /\ th'[t] = r
        /\ \A u \in Threads \ {t} : th'[u] = th[u]
    BY <1>1, <1>2, <2>1, SetsInsert DEF Adding
  <2>3. \A d \in Cells : next'[d] = IF d = c THEN x ELSE next[d]
    BY <2>1 DEF TypeInv
  <2>4. PrevDescends(rk)' /\ PolicyLast(rk)'
    BY <2>1, <2>2 DEF Ascends, PrevDescends, PolicyLast
  <2>5. NextAscends(rk)'
    BY <1>3, <1>5, <2>2, <2>3, CellsTyped DEF Ascends, NextAscends
  <2>6. Adder(t, rk)'
    <3>1. next'[c] = x
      BY <1>3, <1>5, <2>3
    <3> QED
      BY <1>1, <1>4, <2>1, <2>2, <3>1 DEF Adder, Adding
  <2>7. ASSUME NEW u \in Threads \ {t} PROVE Adder(u, rk)'
    <3>1. Adder(u, rk)
      BY DEF Ascends
    <3>2. th[u].pc \in {"add3", "add4"} => next'[th[u].new] = next[th[u].new]
      BY <1>7, <2>3, <3>1 DEF Adder, Adding, Cells
    <3> QED
      BY <2>1, <2>2, <3>1, <3>2 DEF Adder
  <2> QED
    BY <1>1, <2>1, <2>2, <2>4, <2>5, <2>6, <2>7 DEF Ascends
<1>10. CASE th[t].pc = "add3"
  <2> DEFINE r == [th[t] EXCEPT !.pc = "add4"]
  <2>1. /\ th' = [th EXCEPT ![t] = r] /\ r.pc = "add4" /\ r.op = th[t].op
        /\ r.new = c /\ r.nxt = x /\ r.prv = y
        /\ prev' = [prev EXCEPT ![c] = y] /\ UNCHANGED <<next, live, wild>>
    BY <1>1, <1>2, <1>3, <1>5, <1>10 DEF __list_add, At, StorePrev, Goto, TypeInv, Frames
  <2> HIDE DEF r
  <2>2. /\ Settled' = Settled /\ Ranked' = Ranked /\ OwnNews' /\ th'[t] = r
        /\ \A u \in Threads \ {t} : th'[u] = th[u]
    BY <1>1, <1>2, <2>1, SetsInsert DEF Adding
  <2>3. \A d \in Cells : prev'[d] = IF d = c THEN y ELSE prev[d]
    BY <2>1 DEF TypeInv
  <2>4. NextAscends(rk)' /\ PolicyLast(rk)'
    BY <2>1, <2>2 DEF Ascends, NextAscends, PolicyLast
  <2>5. PrevDescends(rk)'
    BY <1>3, <1>5, <2>2, <2>3, CellsTyped DEF Ascends, PrevDescends
  <2>6. Adder(t, rk)'
    <3>1. prev'[c] = y
      BY <1>3, <1>5, <2>3
    <3>2. next[c] \in Settled \ {ListHead} /\ rk[c] < rk[next[c]]
      BY <1>1, <1>2, <1>10 DEF Adder
    <3> QED
      BY <1>1, <1>4, <2>1, <2>2, <3>1, <3>2 DEF Adder, Adding
  <2>7. ASSUME NEW u \in Threads \ {t} PROVE Adder(u, rk)'
    <3>1. Adder(u, rk)
      BY DEF Ascends
    <3>2. th[u].pc = "add4" => prev'[th[u].new] = prev[th[u].new]
      BY <1>7, <2>3, <3>1 DEF Adder, Adding, Cells
    <3> QED
      BY <2>1, <2>2, <3>1, <3>2 DEF Adder
  <2> QED
    BY <1>1, <2>1, <2>2, <2>4, <2>5, <2>6, <2>7 DEF Ascends
<1>11. CASE th[t].pc = "add4"
  <2> DEFINE r == [th[t] EXCEPT !.pc = "inc"]
  <2>1. /\ th' = [th EXCEPT ![t] = r] /\ r.pc = "inc" /\ r.op = th[t].op
        /\ next' = [next EXCEPT ![y] = c] /\ UNCHANGED <<prev, live, wild>>
    BY <1>1, <1>2, <1>3, <1>4, <1>11 DEF __list_add, At, StoreNext, Goto, TypeInv, Frames
  <2> HIDE DEF r
  <2>2. th'[t] = r /\ \A u \in Threads \ {t} : th'[u] = th[u]
    BY <2>1 DEF TypeInv
  <2>3. Ranked' = Ranked
    BY <1>11, <2>1, <2>2 DEF Ranked, NewOf
  <2>4. Settled' = Settled \cup {c}
    <3>1. NewOf(Adding) = NewOf(Adding)' \cup {c}
      BY <1>1, <1>2, <2>1, <2>2 DEF NewOf, Adding
    <3>2. c \notin NewOf(Adding)'
      BY <1>7, <2>1, <2>2 DEF NewOf, Adding
    <3> QED
      BY <1>4, <2>1, <3>1, <3>2 DEF Settled
  <2>5. OwnNews'
    BY <1>1, <2>1, <2>2 DEF OwnNews, Adding
  <2>6. \A d \in Cells : next'[d] = IF d = y THEN c ELSE next[d]
    BY <2>1 DEF TypeInv
  <2>7. /\ next[c] \in Settled \ {ListHead} /\ rk[c] < rk[next[c]]
        /\ prev[c] \in Ranked /\ rk[prev[c]] < rk[c]
    BY <1>1, <1>2, <1>11 DEF Adder
  <2>8. y # c
    BY <1>3, <1>4
  <2>9. NextAscends(rk)'
    <3>1. next'[Policy] = ListHead
      BY <1>6, <2>6, CellsTyped DEF Ascends, NextAscends
    <3>2. ASSUME NEW d \in Settled' \ {Policy}
          PROVE  next'[d] \in Settled' \ {ListHead} /\ rk[d] < rk[next'[d]]
      <4>1. d \in Cells
        BY <1>3, <1>5, <2>4
      <4>2. CASE d = y
        BY <1>4, <1>5, <2>4, <2>6, <4>1, <4>2
      <4>3. CASE d = c
        BY <2>4, <2>6, <2>7, <2>8, <4>1, <4>3
      <4>4. CASE d # y /\ d # c
        BY <2>4, <2>6, <4>1, <4>4 DEF Ascends, NextAscends
      <4> QED
        BY <4>2, <4>3, <4>4
    <3> QED
      BY <3>1, <3>2 DEF NextAscends
  <2>10. PrevDescends(rk)' /\ PolicyLast(rk)'
    BY <2>1, <2>3, <2>4, <2>7 DEF Ascends, PrevDescends, PolicyLast
  <2>11. Adder(t, rk)'
    BY <1>1, <2>1, <2>2 DEF Adder, Adding
  <2>12. ASSUME NEW u \in Threads \ {t} PROVE Adder(u, rk)'
    <3>1. Adder(u, rk)
      BY DEF Ascends
    <3>2. th[u].pc \in {"add3", "add4"} =>
            next'[th[u].new] \in Settled' \ {ListHead} /\ rk[th[u].new] < rk[next'[th[u].new]]
      <4> SUFFICES ASSUME th[u].pc \in {"add3", "add4"}
                   PROVE  next'[th[u].new] \in Settled' \ {ListHead} /\ rk[th[u].new] < rk[next'[th[u].new]]
        OBVIOUS
      <4>1. th[u].new \in Cells
        BY <3>1 DEF Adder, Adding, Cells
      <4>2. CASE th[u].new = y
        BY <1>4, <1>5, <2>4, <2>6, <4>1, <4>2
      <4>3. CASE th[u].new # y
        BY <2>4, <2>6, <3>1, <4>1, <4>3 DEF Adder
      <4> QED
        BY <4>2, <4>3
    <3>3. Settled \subseteq Settled'
      BY <2>4
    <3> QED
      BY <2>1, <2>2, <2>3, <3>1, <3>2, <3>3 DEF Adder
  <2> QED
    BY <1>1, <2>1, <2>2, <2>5, <2>9, <2>10, <2>11, <2>12 DEF Ascends
<1> QED
  BY <1>1, <1>8, <1>9, <1>10, <1>11 DEF Adding

-----------------------------------------------------------------------------
\* In the new list the head has the lowest rank and the policy the one above it.
LEMMA AddersInit == Init => AddersInv
<1> SUFFICES ASSUME Init PROVE \E rk \in [Cells -> Int] : Ascends(rk)
  BY DEF AddersInv, Init
<1>1. PICK rk : rk = [c \in Cells |-> IF c = ListHead THEN 0 ELSE 1]
  OBVIOUS
<1>2. /\ rk \in [Cells -> Int] /\ rk[ListHead] = 0 /\ rk[Policy] = 1 /\ ListHead # Policy
  BY <1>1, CellsTyped, ListRaceAssumption
<1>3. \A t \in Threads : th[t] = Idle /\ Idle.pc = "idle" /\ Idle.op = "none"
  BY DEF Init, Idle
<1>4. Settled = {ListHead, Policy} /\ Ranked = {ListHead, Policy}
  BY <1>3 DEF Init, Settled, Ranked, NewOf, Adding
<1>5. /\ next[ListHead] = Policy /\ next[Policy] = ListHead /\ prev = next
  BY CellsTyped, ListRaceAssumption DEF Init
<1>6. NextAscends(rk) /\ PrevDescends(rk) /\ PolicyLast(rk)
  BY <1>2, <1>4, <1>5 DEF NextAscends, PrevDescends, PolicyLast
<1>7. OwnNews /\ \A t \in Threads : Adder(t, rk)
  BY <1>3 DEF OwnNews, Adder, Adding, Removals
<1> QED
  BY <1>2, <1>6, <1>7 DEF Ascends, Init

\* Every step keeps the invariant of threads that insert.
LEMMA AddersStep == TypeInv /\ AddersInv /\ [Next]_vars => AddersInv'
<1> SUFFICES ASSUME TypeInv, AddersInv, [Next]_vars, Adders'
             PROVE  IF wild' THEN \E t \in Threads : "alter" \in does'[t]
                    ELSE \E rk \in [Cells -> Int] : Ascends(rk)'
  BY DEF AddersInv
<1>1. does' = does /\ Adders
  BY DEF Next, vars, Adders
<1>2. CASE wild
  <2>1. wild' = wild
    BY <1>2 DEF Next, vars, Step, Begin, Walk, Steps, Write, CleanLoop, list_add_tail, __list_add,
                list_del, Free, CountLoad, CountStore, At
  <2> QED
    BY <1>1, <1>2, <2>1 DEF AddersInv
<1>3. CASE ~wild
  <2>1. PICK rk \in [Cells -> Int] : Ascends(rk)
    BY <1>1, <1>3 DEF AddersInv
  <2>2. CASE UNCHANGED vars
    <3>1. Ascends(rk)'
      BY <2>1, <2>2, SMTT(30)
         DEF vars, Ascends, NextAscends, PrevDescends, PolicyLast, OwnNews, Adder, Settled,
                        Ranked, NewOf
    <3> QED
      BY <1>3, <2>2, <3>1 DEF vars
  <2>3. ASSUME NEW t \in Threads, Step(t)
        PROVE  IF wild' THEN \E u \in Threads : "alter" \in does'[u]
               ELSE \E sk \in [Cells -> Int] : Ascends(sk)'
    <3>1. th[t].pc \in {"idle", "walk", "steps", "write", "inc", "inc_store"} \cup Adding
      BY <2>1 DEF Ascends, Adder
    <3>2. ~CleanLoop(t) /\ ~list_del(t) /\ ~Free(t)
      BY <3>1 DEF CleanLoop, list_del, Free, At, Adding
    <3>3. CASE Write(t)
      BY <1>1, <2>1, <3>3, AddersWrite
    <3> QED
      BY <1>1, <2>1, <2>3, <3>2, <3>3, AddersBegin, AddersWalk, AddersSteps, AddersAddTail, AddersLink,
         AddersCount DEF Step
  <2> QED
    BY <2>2, <2>3 DEF Next
<1> QED
  BY <1>2, <1>3

\* A sequence that rises through settled entries.
Rises(s, m, rk) ==
    /\ Len(s) = m + 1
    /\ \A i \in 1 .. m + 1 : s[i] \in Settled \ {ListHead}
    /\ \A i, j \in 1 .. m + 1 : i < j => rk[s[i]] < rk[s[j]]

\* While nothing is freed, the walk from the head comes back to it: it can only rise, and
\* there are finitely many cells.
LEMMA ForwardEnds ==
    ASSUME TypeInv, NEW rk \in [Cells -> Int], Ascends(rk)
    PROVE  Forward[Len(Forward)] = ListHead
<1> DEFINE C == Cardinality(Cells)
<1>1. PICK g \in [0 .. C -> Seq(Pointers)] :
               /\ g[0] = <<next[ListHead]>>
               /\ \A m \in 1 .. C : g[m] = Longer(g[m - 1])
               /\ Forward = g[C]
  BY ForwardWalk
<1>2. C \in Nat
  BY FiniteCells, FS_CardinalityType
<1>3. /\ ListHead \notin live /\ Settled \subseteq Cells /\ Settled \ {ListHead} \subseteq live
      /\ next[Policy] = ListHead
      /\ \A c \in Settled \ {Policy} : next[c] \in Settled \ {ListHead} /\ rk[c] < rk[next[c]]
  BY RankedCells DEF Settled, Ascends, NextAscends
<1> DEFINE S == {m \in 0 .. C : g[m][Len(g[m])] = ListHead \/ Rises(g[m], m, rk)}
<1>4. 0 \in S
  <2>1. next[ListHead] \in Settled \ {ListHead}
    BY <1>3, RankedCells, ListRaceAssumption
  <2>2. Len(g[0]) = 1 /\ g[0][1] = next[ListHead]
    BY <1>1, <1>2
  <2> QED
    BY <1>2, <2>1, <2>2 DEF Rises
<1>5. ASSUME NEW m \in 0 .. C - 1, m \in S
      PROVE  m + 1 \in S
  <2>1. g[m + 1] = Longer(g[m]) /\ m + 1 \in 0 .. C /\ m \in 0 .. C
    <3>1. m + 1 \in 1 .. C /\ (m + 1) - 1 = m /\ m + 1 \in 0 .. C /\ m \in 0 .. C
      BY <1>2
    <3> QED
      BY <1>1, <3>1
  <2>2. CASE g[m][Len(g[m])] = ListHead
    BY <1>3, <2>1, <2>2 DEF Longer
  <2>3. CASE Rises(g[m], m, rk)
    <3>1. PICK s, e : s = g[m] /\ e = s[m + 1]
      OBVIOUS
    <3>2. /\ s \in Seq(Pointers) /\ Len(s) = m + 1 /\ e \in Settled \ {ListHead} /\ e \in Cells
          /\ \A i \in 1 .. m + 1 : s[i] \in Settled \ {ListHead} /\ s[i] \in Cells
          /\ \A i, j \in 1 .. m + 1 : i < j => rk[s[i]] < rk[s[j]]
      BY <1>1, <1>3, <2>1, <2>3, <3>1 DEF Rises
    <3>3. PICK b : b = Append(s, next[e])
      OBVIOUS
    <3>4. g[m + 1] = b
      BY <1>3, <2>1, <3>1, <3>2, <3>3 DEF Longer
    <3>5. next[e] \in Pointers
      BY <3>2 DEF TypeInv
    <3>6. Len(b) = m + 2 /\ b[m + 2] = next[e] /\ \A i \in 1 .. m + 1 : b[i] = s[i]
      BY <3>2, <3>3, <3>5
    <3>7. CASE e = Policy
      BY <1>3, <2>1, <3>4, <3>6, <3>7
    <3>8. CASE e # Policy
      <4>1. next[e] \in Settled \ {ListHead} /\ next[e] \in Cells /\ rk[e] < rk[next[e]]
        BY <1>3, <3>2, <3>8
      <4>2. ASSUME NEW i \in 1 .. m + 2, NEW j \in 1 .. m + 2, i < j PROVE rk[b[i]] < rk[b[j]]
        <5>1. CASE j <= m + 1
          BY <3>2, <3>6, <4>2, <5>1
        <5>2. CASE j = m + 2
          <6>1. i \in 1 .. m + 1 /\ b[i] = s[i] /\ s[i] \in Cells /\ b[j] = next[e]
            BY <3>2, <3>6, <4>2, <5>2
          <6>2. i = m + 1 \/ rk[s[i]] < rk[e]
            BY <3>1, <3>2, <6>1
          <6>3. rk[s[i]] \in Int /\ rk[e] \in Int /\ rk[next[e]] \in Int
            BY <3>2, <4>1, <6>1
          <6> QED
            BY <3>1, <4>1, <6>1, <6>2, <6>3
        <5> QED
          BY <5>1, <5>2
      <4>3. ASSUME NEW i \in 1 .. m + 2 PROVE b[i] \in Settled \ {ListHead}
        BY <3>2, <3>6, <4>1
      <4>4. Rises(b, m + 1, rk)
        <5>1. (m + 1) + 1 = m + 2
          OBVIOUS
        <5> QED
          BY <3>6, <4>2, <4>3, <5>1 DEF Rises
      <4> QED
        BY <2>1, <3>4, <4>4
    <3> QED
      BY <3>7, <3>8
  <2>4. g[m][Len(g[m])] = ListHead \/ Rises(g[m], m, rk)
    BY <1>5
  <2> QED
    BY <2>2, <2>3, <2>4
<1>6. C \in S
  <2> HIDE DEF S, C
  <2>1. \A m \in 0 .. C - 1 : m \in S => m + 1 \in S
    BY <1>5
  <2>2. 0 .. C \subseteq S
    BY <1>2, <1>4, <2>1, IntervalInduction
  <2> QED
    BY <1>2, <2>2
<1>7. ~Rises(g[C], C, rk)
  <2> SUFFICES ASSUME Rises(g[C], C, rk) PROVE FALSE
    OBVIOUS
  <2>1. PICK h : h = [i \in 1 .. C + 1 |-> g[C][i]]
    OBVIOUS
  <2>2. h \in [1 .. C + 1 -> Cells] /\ \A i, j \in 1 .. C + 1 : i < j => rk[h[i]] < rk[h[j]]
    BY <1>2, <1>3, <2>1 DEF Rises
  <2>3. \A i, j \in 1 .. C + 1 : h[i] = h[j] => i = j
    <3> SUFFICES ASSUME NEW i \in 1 .. C + 1, NEW j \in 1 .. C + 1, h[i] = h[j], i < j PROVE FALSE
      BY <1>2
    <3>1. h[i] \in Cells /\ rk[h[i]] \in Int /\ rk[h[i]] < rk[h[j]]
      BY <2>2
    <3> QED
      BY <3>1
  <2>4. IsFiniteSet(Cells) /\ IsFiniteSet(1 .. C + 1) /\ Cardinality(1 .. C + 1) = C + 1
    <3>1. IsFiniteSet(1 .. C + 1) /\ Cardinality(1 .. C + 1) = IF 1 > C + 1 THEN 0 ELSE (C + 1) - 1 + 1
      <4>1. 1 \in Int /\ C + 1 \in Int
        BY <1>2
      <4> HIDE DEF C
      <4> QED
        BY <4>1, FS_Interval, Zenon
    <3> QED
      BY <1>2, <3>1, FiniteCells
  <2>5. h \in Injection(1 .. C + 1, Cells)
    BY <2>2, <2>3 DEF Injection, IsInjective
  <2>6. Cardinality(1 .. C + 1) <= Cardinality(Cells)
    BY <2>4, <2>5, FS_Injection
  <2> QED
    BY <1>2, <2>4, <2>6
<1> QED
  BY <1>1, <1>6, <1>7

-----------------------------------------------------------------------------
\* What holds in every reachable state.
Inv == TypeInv /\ (\A w \in Threads : WriterInv(w)) /\ AddersInv

\* It does, for any number of threads, entries and operations.
THEOREM InvHolds == Spec => []Inv
<1>1. Init => TypeInv /\ AddersInv
  BY TypeInit, AddersInit
<1>2. (TypeInv /\ AddersInv) /\ [Next]_vars => (TypeInv /\ AddersInv)'
  BY TypeStep, AddersStep
<1> QED
  BY <1>1, <1>2, OneWriter, PTL DEF Spec, Inv

\* The invariants imply ForwardWhole.
LEMMA InvForward == Inv => ForwardWhole
<1> SUFFICES ASSUME Inv, ~wild, Cardinality(Writers) <= 1 \/ Adders
             PROVE  Forward[Len(Forward)] = ListHead
  BY DEF ForwardWhole, Adders
<1>1. CASE Cardinality(Writers) <= 1
  <2>1. PICK w \in Threads : OnlyWriter(w)
    BY <1>1, SomeWriter
  <2>2. PICK n \in Nat : \E f \in [0 .. n + 1 -> Cells] : Order(w, n, f)
    BY <2>1 DEF Inv, WriterInv
  <2>3. PICK f \in [0 .. n + 1 -> Cells] : Order(w, n, f)
    BY <2>2
  <2>4. Len(Forward) = n + 1 /\ \A i \in 1 .. n + 1 : Forward[i] = f[i]
    BY <2>3, OrderForward DEF Inv
  <2>5. f[n + 1] = ListHead
    BY <2>3 DEF Order, Ring
  <2> QED
    BY <2>4, <2>5
<1>2. CASE Adders
  BY <1>2, ForwardEnds DEF Inv, AddersInv
<1> QED
  BY <1>1, <1>2

\* ListRace!ForwardWhole: in the middle of an insertion or deletion too, a walk from the head
\* comes back to it through live entries, if one thread changes the list or if all only insert.
THEOREM ForwardIsWhole == Spec => []ForwardWhole
BY InvHolds, InvForward, PTL

\* The invariants imply NeverWild.
LEMMA InvWild == Inv => NeverWild
<1> SUFFICES ASSUME Inv, wild,
                    \A t, u \in Threads : t # u =>
                        /\ does[t] \cap Removals = {} \/ does[u] = {}
                        /\ "alter" \notin does[t] \/ u \notin Writers
             PROVE  FALSE
  BY DEF NeverWild
<1>1. CASE \E t \in Threads : does[t] \cap Removals # {}
  <2>1. PICK t \in Threads : does[t] \cap Removals # {}
    BY <1>1
  <2>2. \A u \in Threads \ {t} : does[u] = {}
    BY <2>1
  <2>3. OnlyWriter(t)
    BY <2>2 DEF OnlyWriter
  <2> QED
    BY <2>2, <2>3 DEF Inv, WriterInv
<1>2. CASE Adders /\ \E t \in Threads : "alter" \in does[t]
  <2>1. PICK t \in Threads : "alter" \in does[t]
    BY <1>2
  <2>2. OnlyWriter(t)
    BY <2>1 DEF OnlyWriter, Writers
  <2> QED
    BY <1>2, <2>2 DEF Inv, WriterInv, Adders
<1>3. CASE Adders /\ \A t \in Threads : "alter" \notin does[t]
  BY <1>3 DEF Inv, AddersInv
<1> QED
  BY <1>1, <1>2, <1>3 DEF Adders

\* ListRace!NeverWild: a thread leaves the list only where two race and one frees entries, or
\* takes an entry by its number.
THEOREM WildOnlyInRace == Spec => []NeverWild
BY InvHolds, InvWild, PTL
=============================================================================
