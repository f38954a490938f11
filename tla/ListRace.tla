------------------------------ MODULE ListRace ------------------------------
(***************************************************************************)
(* One rule list at the grain of single loads and stores: the list_head    *)
(* ring of ruletables/linux_list.h and the code of operate_tables.c that   *)
(* walks and changes it.  ipt_server (ruletables/conn.c 50-60) starts a    *)
(* second thread and both call do_command; no lock is taken anywhere.      *)
(*                                                                         *)
(* Stores take effect in program order, one at a time, and threads         *)
(* interleave between any two of them.  A load or store through a pointer  *)
(* that is not to a live entry, and a free of what is not one, sets wild,  *)
(* after which nothing is said.  Contents of entries are left out: a search*)
(* by priority or by content may stop at any entry.                        *)
(***************************************************************************)
EXTENDS Integers, Sequences, FiniteSets, SequencesExt

CONSTANTS
    Threads,
    Roles,     \* the ways the threads share the work: functions from threads to sets
               \* of operations
    Nodes,     \* what malloc may return for an entry
    ListHead,      \* info[].head
    Policy,    \* the entry init_ruletables made
    Poison,    \* LIST_POISON1, LIST_POISON2, and the contents of fresh memory
    MaxOps     \* bound: operations started

ASSUME ListRaceAssumption ==
    /\ IsFiniteSet(Threads) /\ Threads # {}
    /\ IsFiniteSet(Nodes)
    /\ {ListHead, Policy, Poison} \cap Nodes = {}
    /\ ListHead # Policy /\ Poison \notin {ListHead, Policy}
    /\ MaxOps \in Nat

\* do_append with priority 0, do_insert, do_delete by content and by index, do_alter,
\* free_all, all_in
Operations == {"append", "insert", "match", "delete", "alter", "clean", "all_in"}

Cells == {ListHead, Policy} \cup Nodes

VARIABLES
    next, prev,   \* the fields of each list_head
    length,       \* info[].length
    live,         \* allocated entries
    wild,
    does,         \* does[t]: the operations thread t performs
    th,           \* th[t]: where thread t is, with its local variables
    ops           \* operations started

vars == <<next, prev, length, live, wild, does, th, ops>>
ring == <<next, prev>>

-----------------------------------------------------------------------------
Idle == [pc |-> "idle", op |-> "none", p |-> ListHead, q |-> ListHead, new |-> ListHead,
         prv |-> ListHead, nxt |-> ListHead, left |-> 0, len |-> 0]

\* init_ruletables: the policy entry alone
Init ==
    /\ next = [c \in Cells |-> IF c = ListHead THEN Policy ELSE IF c = Policy THEN ListHead ELSE Poison]
    /\ prev = next
    /\ length = 1
    /\ live = {Policy}
    /\ wild = FALSE
    /\ does \in Roles
    /\ th = [t \in Threads |-> Idle]
    /\ ops = 0

Valid(c) == c = ListHead \/ c \in live

At(t, where) == ~wild /\ th[t].pc = where

Wild ==
    /\ wild' = TRUE
    /\ UNCHANGED <<next, prev, length, live, th, ops>>

\* Thread t goes on at pc with the fields of r changed.
Goto(t, where) == th' = [th EXCEPT ![t].pc = where]

-----------------------------------------------------------------------------
(* Starting an operation.                                                  *)

\* malloc and the load of info[i].head->prev
StartAppend(t) ==
    \E n \in Nodes \ live :
        /\ live' = live \cup {n}
        /\ th' = [th EXCEPT ![t] = [Idle EXCEPT !.pc = "add_tail", !.op = "append",
                                                !.new = n, !.p = prev[ListHead]]]
        /\ UNCHANGED <<ring, length>>

\* list_for_each_entry from info[i].head->next
StartWalk(t, op) ==
    /\ th' = [th EXCEPT ![t] = [Idle EXCEPT !.pc = "walk", !.op = op, !.p = next[ListHead]]]
    /\ UNCHANGED <<ring, length, live>>

\* mutants: the policy entry may be named; any entry and the head may
Indexes_policy == 1 .. length
Indexes_any == 1 .. length + 1

Indexes == 1 .. length - 1

\* info[i].length - 1 < h->index is refused; otherwise index steps from the head
StartSteps(t, op) ==
    \E index \in Indexes :
        /\ th' = [th EXCEPT ![t] = [Idle EXCEPT !.pc = "steps", !.op = op, !.left = index]]
        /\ UNCHANGED <<ring, length, live>>

StartClean(t) ==
    /\ length - 1 # 0
    /\ th' = [th EXCEPT ![t] = [Idle EXCEPT !.pc = "clean", !.op = "clean", !.p = next[ListHead]]]
    /\ UNCHANGED <<ring, length, live>>

Begin(t) ==
    /\ At(t, "idle") /\ ops < MaxOps
    /\ ops' = ops + 1
    /\ UNCHANGED wild
    /\ \/ "append" \in does[t] /\ StartAppend(t)
       \/ \E op \in {"insert", "match", "all_in"} \cap does[t] : StartWalk(t, op)
       \/ \E op \in {"delete", "alter"} \cap does[t] : StartSteps(t, op)
       \/ "clean" \in does[t] /\ StartClean(t)

-----------------------------------------------------------------------------
(* Walking.                                                                *)

\* do_insert has stopped in front of p, or is back at the head and takes head->prev
Stop(t, p) ==
    \E n \in Nodes \ live :
        /\ live' = live \cup {n}
        /\ th' = [th EXCEPT ![t].pc = "add_tail", ![t].new = n,
                            ![t].p = IF p = ListHead THEN prev[ListHead] ELSE p]
        /\ UNCHANGED <<ring, length, wild, ops>>

Walk(t) ==
    LET p == th[t].p
    IN /\ At(t, "walk")
       /\ \/ /\ p = ListHead /\ th[t].op # "insert"
             /\ th' = [th EXCEPT ![t] = Idle]
             /\ UNCHANGED <<ring, length, live, wild, ops>>
          \/ p = ListHead /\ th[t].op = "insert" /\ Stop(t, p)
          \/ p # ListHead /\ ~Valid(p) /\ Wild
          \/ p # ListHead /\ Valid(p) /\ th[t].op = "insert" /\ Stop(t, p)
          \/ /\ p # ListHead /\ Valid(p)
             /\ th[t].op = "match" /\ th[t].left < length - 1
             /\ Goto(t, "del")
             /\ UNCHANGED <<ring, length, live, wild, ops>>
          \/ /\ p # ListHead /\ Valid(p)
             /\ th' = [th EXCEPT ![t].p = next[p],
                                 ![t].left = IF th[t].op = "match" THEN @ + 1 ELSE @]
             /\ UNCHANGED <<ring, length, live, wild, ops>>

\* for (j = 0; j < h->index; j++, p = p->next)
Steps(t) ==
    LET p == th[t].p
    IN /\ At(t, "steps")
       /\ IF th[t].left = 0
          THEN Goto(t, IF th[t].op = "alter" THEN "write" ELSE "del")
               /\ UNCHANGED <<ring, length, live, wild, ops>>
          ELSE \/ ~Valid(p) /\ Wild
               \/ /\ Valid(p)
                  /\ th' = [th EXCEPT ![t].p = next[p], ![t].left = @ - 1]
                  /\ UNCHANGED <<ring, length, live, wild, ops>>

\* print_info, with which every change but free_all ends: it walks the list as well
print_info == [Idle EXCEPT !.pc = "walk", !.op = "print", !.p = next[ListHead]]

\* do_alter writes the fields of the entry it has come to
Write(t) ==
    /\ At(t, "write")
    /\ \/ th[t].p \notin live /\ Wild
       \/ /\ th[t].p \in live
          /\ th' = [th EXCEPT ![t] = print_info]
          /\ UNCHANGED <<ring, length, live, wild, ops>>

\* for (pos = head->next; pos != head && length - 1 != 0; pos = q) q = pos->next
CleanLoop(t) ==
    LET p == th[t].p
    IN /\ At(t, "clean")
       /\ \/ /\ p = ListHead \/ length - 1 = 0
             /\ th' = [th EXCEPT ![t] = Idle]
             /\ UNCHANGED <<ring, length, live, wild, ops>>
          \/ p # ListHead /\ length - 1 # 0 /\ ~Valid(p) /\ Wild
          \/ /\ p # ListHead /\ length - 1 # 0 /\ Valid(p)
             /\ th' = [th EXCEPT ![t].q = next[p], ![t].pc = "del"]
             /\ UNCHANGED <<ring, length, live, wild, ops>>

-----------------------------------------------------------------------------
(* list_add_tail(new, p): __list_add(new, p->prev, p).                     *)

list_add_tail(t) ==
    /\ At(t, "add_tail")
    /\ \/ ~Valid(th[t].p) /\ Wild
       \/ /\ Valid(th[t].p)
          /\ th' = [th EXCEPT ![t].nxt = th[t].p, ![t].prv = prev[th[t].p], ![t].pc = "add1"]
          /\ UNCHANGED <<ring, length, live, wild, ops>>

StoreNext(t, c, v, then) ==
    \/ ~Valid(c) /\ Wild
    \/ /\ Valid(c)
       /\ next' = [next EXCEPT ![c] = v]
       /\ Goto(t, then)
       /\ UNCHANGED <<prev, length, live, wild, ops>>

StorePrev(t, c, v, then) ==
    \/ ~Valid(c) /\ Wild
    \/ /\ Valid(c)
       /\ prev' = [prev EXCEPT ![c] = v]
       /\ Goto(t, then)
       /\ UNCHANGED <<next, length, live, wild, ops>>

\* mutant: the entry is linked in before its own next is set
__list_add_early(t) ==
    LET r == th[t]
    IN \/ At(t, "add1") /\ StorePrev(t, r.nxt, r.new, "add2")
       \/ At(t, "add2") /\ StoreNext(t, r.prv, r.new, "add3")
       \/ At(t, "add3") /\ StorePrev(t, r.new, r.prv, "add4")
       \/ At(t, "add4") /\ StoreNext(t, r.new, r.nxt, "inc")

__list_add(t) ==
    LET r == th[t]
    IN \/ At(t, "add1") /\ StorePrev(t, r.nxt, r.new, "add2")
       \/ At(t, "add2") /\ StoreNext(t, r.new, r.nxt, "add3")
       \/ At(t, "add3") /\ StorePrev(t, r.new, r.prv, "add4")
       \/ At(t, "add4") /\ StoreNext(t, r.prv, r.new, "inc")

\* info[i].length++ and info[i].length--: a load and a store
CountLoad(t, from, to) ==
    /\ At(t, from)
    /\ th' = [th EXCEPT ![t].len = length, ![t].pc = to]
    /\ UNCHANGED <<ring, length, live, wild, ops>>

CountStore(t) ==
    \/ /\ At(t, "inc_store")
       /\ length' = th[t].len + 1
       /\ th' = [th EXCEPT ![t] = print_info]
       /\ UNCHANGED <<ring, live, wild, ops>>
    \/ /\ At(t, "dec_store")
       /\ length' = th[t].len - 1
       /\ th' = [th EXCEPT ![t] = IF th[t].op = "clean"
                                  THEN [Idle EXCEPT !.pc = "clean", !.op = "clean", !.p = th[t].q]
                                  ELSE print_info]
       /\ UNCHANGED <<ring, live, wild, ops>>

-----------------------------------------------------------------------------
(* list_del(p): __list_del(p->prev, p->next), poison; then free.           *)

\* mutant: the entry is poisoned before it is unlinked
list_del_early(t) ==
    LET r == th[t]
    IN \/ /\ At(t, "del")
          /\ \/ ~Valid(r.p) /\ Wild
             \/ /\ Valid(r.p)
                /\ th' = [th EXCEPT ![t].prv = prev[r.p], ![t].nxt = next[r.p], ![t].pc = "del1"]
                /\ UNCHANGED <<ring, length, live, wild, ops>>
       \/ At(t, "del1") /\ StoreNext(t, r.p, Poison, "del2")
       \/ At(t, "del2") /\ StorePrev(t, r.p, Poison, "del3")
       \/ At(t, "del3") /\ StorePrev(t, r.nxt, r.prv, "del4")
       \/ At(t, "del4") /\ StoreNext(t, r.prv, r.nxt, "free")

list_del(t) ==
    LET r == th[t]
    IN \/ /\ At(t, "del")
          /\ \/ ~Valid(r.p) /\ Wild
             \/ /\ Valid(r.p)
                /\ th' = [th EXCEPT ![t].prv = prev[r.p], ![t].nxt = next[r.p], ![t].pc = "del1"]
                /\ UNCHANGED <<ring, length, live, wild, ops>>
       \/ At(t, "del1") /\ StorePrev(t, r.nxt, r.prv, "del2")
       \/ At(t, "del2") /\ StoreNext(t, r.prv, r.nxt, "del3")
       \/ At(t, "del3") /\ StoreNext(t, r.p, Poison, "del4")
       \/ At(t, "del4") /\ StorePrev(t, r.p, Poison, "free")

Free(t) ==
    /\ At(t, "free")
    /\ \/ th[t].p \notin live /\ Wild
       \/ /\ th[t].p \in live
          /\ live' = live \ {th[t].p}
          /\ next' = [next EXCEPT ![th[t].p] = Poison]
          /\ prev' = [prev EXCEPT ![th[t].p] = Poison]
          /\ Goto(t, "dec")
          /\ UNCHANGED <<length, wild, ops>>

Step(t) ==
    \/ Begin(t) \/ Walk(t) \/ Steps(t) \/ Write(t) \/ CleanLoop(t)
    \/ list_add_tail(t) \/ __list_add(t)
    \/ list_del(t) \/ Free(t)
    \/ CountLoad(t, "inc", "inc_store") \/ CountLoad(t, "dec", "dec_store") \/ CountStore(t)

Next == UNCHANGED does /\ \E t \in Threads : Step(t)

Spec == Init /\ [][Next]_vars

-----------------------------------------------------------------------------
(* Properties.                                                             *)

\* The cells met by following next from the head, until the head, a dead pointer or
\* a cycle that misses the head.
Forward ==
    LET walk[n \in 0 .. Cardinality(Cells)] ==
            IF n = 0 THEN <<next[ListHead]>>
            ELSE LET s == walk[n - 1]
                     c == s[Len(s)]
                 IN IF c \in live THEN Append(s, next[c]) ELSE s
    IN walk[Cardinality(Cells)]

\* What frees an entry.
Removals == {"match", "delete", "clean"}

Writers == {t \in Threads : does[t] \ {"all_in"} # {}}

\* At every moment, in the middle of an insertion or deletion too, whoever follows
\* next from the head comes back to the head through live entries only: if one thread
\* changes the list, and if several only insert, although entries may get lost then.
ForwardWhole ==
    /\ ~wild
    /\ Cardinality(Writers) <= 1 \/ \A t \in Threads : does[t] \cap Removals = {}
    => LET s == Forward IN s[Len(s)] = ListHead

AllIdle == \A t \in Threads : th[t].pc = "idle"

\* Between operations of a single writer, whatever another thread reads meanwhile, the
\* ring holds exactly the live entries, reads backwards as it reads forwards, ends with
\* the policy, and is counted by length.
RingExact ==
    ~wild /\ AllIdle /\ Cardinality(Writers) <= 1 =>
        LET s == Forward
        IN /\ Len(s) = length + 1
           /\ {s[i] : i \in 1 .. Len(s) - 1} = live
           /\ Len(s) > 1 /\ s[Len(s) - 1] = Policy
           /\ \A c \in live \cup {ListHead} : prev[next[c]] = c

\* An operation reads, writes or frees something that is no live entry only if another
\* thread frees entries meanwhile, or if it takes an entry by its number while another
\* thread changes the list: insertions that race may count an entry that got lost, and
\* the walk to the last number ends at the head.  One thread alone, threads that insert
\* and list, and one that alters while others list, never do.
NeverWild ==
    wild => \E t, u \in Threads :
                /\ t # u
                /\ \/ does[t] \cap Removals # {} /\ does[u] # {}
                   \/ "alter" \in does[t] /\ u \in Writers

\* With a single writer, insertion and deletion are each one change of the sequence a
\* walk from the head sees, made by a single store: that is why one thread's do_command may be read as
\* InsertAt and RemoveAt.
Entries == SubSeq(Forward, 1, Len(Forward) - 1)

OneStoreChanges ==
    [][\/ wild' \/ Cardinality(Writers) > 1 \/ Entries' = Entries
       \/ \E k \in 1 .. Len(Entries) : Entries' = RemoveAt(Entries, k)
       \/ \E k \in 1 .. Len(Entries), n \in Nodes : Entries' = InsertAt(Entries, k, n)]_vars

\* "Insert a new entry between two known consecutive entries" (linux_list.h:66): the
\* two entries __list_add is given are neighbours when it begins to store.
ConsecutiveEntries ==
    \A t \in Threads : At(t, "add1") => next[th[t].prv] = th[t].nxt
=============================================================================
