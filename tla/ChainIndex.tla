----------------------------- MODULE ChainIndex -----------------------------
(***************************************************************************)
(* How libiptc finds a chain by its name: the list of user-defined chains, *)
(* kept in the order of their names, and the chain index, an array of      *)
(* pointers into that list every CHAIN_INDEX_BUCKET_LEN chains             *)
(* (libiptc.c 282-635, 654-785, 841-924, 1040-1075, 2226-2405).            *)
(*                                                                         *)
(* A handle is used by one thread.  Names are integers in strcmp order; the*)
(* names of built-in chains and of verdicts, which are tested for first,   *)
(* are not among them.  Chains with rules or references, which TC_DELETE_  *)
(* CHAIN refuses, are chains that are not deleted.                         *)
(*                                                                         *)
(* A slot of the index holds a chain (its name stands for it), NULL, the   *)
(* handle itself seen as a chain (list_entry of the list head), or a chain *)
(* that was freed.  The handle read as a chain has a name, the bytes of    *)
(* chain_iterator_cur: the empty string, because no program changes chains *)
(* during an iteration (for_each_chain4, iptables.c, collects names first). *)
(***************************************************************************)
EXTENDS Integers, Sequences, FiniteSets, SequencesExt

CONSTANTS
    Names, EmptyName,
    NULL, Handle, Freed,
    CHAIN_INDEX_BUCKET_LEN,
    CHAIN_INDEX_INSERT_MAX,
    Programs,     \* which of "create", "delete", "rename" a program may call:
                  \* the choices
    MaxParsed     \* bound: user-defined chains the kernel's table has

ASSUME ChainIndexAssumption ==
    /\ Names \subseteq Int
    /\ EmptyName \in Int /\ \A n \in Names : EmptyName < n
    /\ {NULL, Handle, Freed} \cap Names = {}
    /\ NULL # Handle /\ NULL # Freed /\ Handle # Freed
    /\ CHAIN_INDEX_BUCKET_LEN \in Nat \ {0} /\ CHAIN_INDEX_INSERT_MAX \in Nat
    /\ MaxParsed \in Nat

VARIABLES
    phase,       \* "parse" (reading the blob), "fixup" (its second pass), "use",
                 \* "fault" after a read through NULL or of a freed chain
    order,       \* the chains in the order of their offsets, while parsing
    chains,      \* the user-defined part of the list handle->chains
    num_chains,
    index,       \* chain_index: a function on 0 .. chain_index_sz - 1
    sorted_offsets,
    calls        \* the calls this program makes

vars == <<phase, order, chains, num_chains, index, sorted_offsets, calls>>

-----------------------------------------------------------------------------
(* Searching.                                                              *)

\* The name read through a slot.
NameIn(slot) == IF slot = Handle THEN EmptyName ELSE slot

Unreadable(slot) == slot \in {NULL, Freed}

\* The next position to try when the name is further on.
Forward(s) == (s.pos + s.end) \div 2

\* The name is before that of the next slot.
InSection(key, next) == key < next

\* The search ends.
Ends(s, where) == [s EXCEPT !.to = where]

\* res < 0: the list position of the slot is kept, the search goes on in front of it.
JumpBack(s) ==
    IF s.pos = 0 THEN Ends(s, "slot")
    ELSE [s EXCEPT !.end = s.pos, !.pos = s.pos \div 2]

\* res > 0
JumpForward(ix, keys, key, s) ==
    IF s.pos = Cardinality(DOMAIN ix) - 1 THEN Ends(s, "slot")
    ELSE IF Unreadable(ix[s.pos + 1]) THEN Ends(s, "fault")
    ELSE IF InSection(key, keys[s.pos + 1]) THEN Ends(s, "slot")
    ELSE [s EXCEPT !.pos = Forward(s)]

\* One turn of the loop of __iptcc_bsearch_chain_index, for the keys of the slots
\* and the key searched.  to is "loop", or where the search ends: "slot" (at pos),
\* "head" (the list head) or "fault".  idx is *idx, -1 before it is set.
Turn(ix, keys, key, s) ==
    LET here == [s EXCEPT !.idx = s.pos]
    IN IF s.to # "loop" THEN s
       ELSE IF ix[s.pos] = NULL THEN Ends(s, "head")
       ELSE IF ix[s.pos] = Freed THEN Ends(s, "fault")
       ELSE IF key = keys[s.pos] THEN Ends(here, "slot")
       ELSE IF key < keys[s.pos] THEN JumpBack(here)
       ELSE JumpForward(ix, keys, key, here)

\* Each turn lowers end, or leaves it and raises pos below it: this many bring every
\* search to its end.
Turns(sz) == sz * (sz + 1)

\* The whole search
__iptcc_bsearch_chain_index(ix, keys, key) ==
    LET sz == Cardinality(DOMAIN ix)
        start == [pos |-> sz \div 2, end |-> sz, idx |-> -1, to |-> IF sz = 0 THEN "head" ELSE "loop"]
        after[n \in 0 .. Turns(sz)] == IF n = 0 THEN start ELSE Turn(ix, keys, key, after[n - 1])
    IN after[Turns(sz)]

iptcc_bsearch_chain_index(ix, name) ==
    __iptcc_bsearch_chain_index(ix, [i \in DOMAIN ix |-> NameIn(ix[i])], name)

\* The slot, or the list head, a search returns.
ListPos(ix, r) == IF r.to = "slot" THEN ix[r.pos] ELSE Handle

PlaceOf(cs, c) == CHOOSE i \in DOMAIN cs : cs[i] = c

\* Where a walk starts that begins at a slot: the list head stands for the first.
WalkFrom(cs, slot) == IF slot = Handle THEN 1 ELSE PlaceOf(cs, slot)

\* The walk of iptcc_find_label from position k: it stops behind the place of name.
Walked(cs, k, name) ==
    \E i \in k .. Len(cs) : cs[i] = name /\ \A j \in k .. i - 1 : cs[j] < name

\* "found", "none" or "fault"
iptcc_find_label(name) ==
    LET r == iptcc_bsearch_chain_index(index, name)
        slot == ListPos(index, r)
    IN IF r.to = "fault" \/ slot = Freed THEN "fault"
       ELSE IF num_chains # 0 /\ Walked(chains, WalkFrom(chains, slot), name) THEN "found"
       ELSE "none"

-----------------------------------------------------------------------------
(* Building the index.                                                     *)

ArraySize(n) == n \div CHAIN_INDEX_BUCKET_LEN + (IF n % CHAIN_INDEX_BUCKET_LEN # 0 THEN 1 ELSE 0)

\* iptcc_chain_index_alloc and _build: slots by the counter, contents by the list
IndexOf(cs, n) ==
    [i \in 0 .. ArraySize(n) - 1 |->
        LET k == i * CHAIN_INDEX_BUCKET_LEN + 1
        IN IF k <= Len(cs) THEN cs[k] ELSE NULL]

-----------------------------------------------------------------------------
(* Changing the list.  Each gives [chains, index, fault].                  *)

Outcome(cs, ix) == [chains |-> cs, index |-> ix, fault |-> FALSE]
Fault == [chains |-> <<>>, index |-> <<>>, fault |-> TRUE]

\* mutant: always at the tail
PlaceFor_tail(cs, k, name) == Len(cs) + 1

\* The place in front of the first chain from position k on that is not smaller.
PlaceFor(cs, k, name) ==
    CHOOSE i \in k .. Len(cs) + 1 :
        /\ \A j \in k .. i - 1 : cs[j] < name
        /\ i <= Len(cs) => name <= cs[i]

\* mutant: index[0] is not replaced by a smaller chain
iptc_insert_chain_first(cs, ix, name) ==
    LET r == iptcc_bsearch_chain_index(ix, name)
    IN IF r.to = "fault" THEN Fault
       ELSE Outcome(InsertAt(cs, PlaceFor(cs, WalkFrom(cs, ListPos(ix, r)), name), name), ix)

iptc_insert_chain(cs, ix, name) ==
    LET r == iptcc_bsearch_chain_index(ix, name)
        first == r.idx = 0 /\ name <= NameIn(ix[0])
        slot == IF first THEN Handle ELSE ListPos(ix, r)
    IN IF r.to = "fault" THEN Fault
       ELSE Outcome(InsertAt(cs, PlaceFor(cs, WalkFrom(cs, slot), name), name),
                    IF first THEN [ix EXCEPT ![0] = name] ELSE ix)

\* The element behind c in the circular list.
NextOf(cs, c) == LET i == PlaceOf(cs, c) IN IF i = Len(cs) THEN Handle ELSE cs[i + 1]

\* list_del
Without(cs, c) == RemoveAt(cs, PlaceOf(cs, c))

\* mutant: the index keeps the chain
iptcc_chain_index_delete_chain_kept(cs, ix, n, c) == {Outcome(Without(cs, c), ix)}

\* The outcomes are several when idx2 was never set.
iptcc_chain_index_delete_chain(cs, ix, n, c) ==
    LET rest == Without(cs, c)
        c2 == NextOf(cs, c)
        r  == iptcc_bsearch_chain_index(ix, c)
        r2 == iptcc_bsearch_chain_index(ix, NameIn(c2))
        shifted == Outcome(rest, [ix EXCEPT ![r.idx] = c2])
        rebuilt == Outcome(rest, IndexOf(rest, n))
    IN IF r.to = "fault" THEN {Fault}
       ELSE IF ListPos(ix, r) # c THEN {Outcome(rest, ix)}
       ELSE IF r2.to = "fault" THEN {Fault}
       ELSE IF r2.idx = -1 THEN {shifted, rebuilt}
       ELSE IF r2.idx = r.idx THEN {shifted} ELSE {rebuilt}

-----------------------------------------------------------------------------
(* Reading the kernel's table.                                             *)

Init ==
    /\ phase = "parse"
    /\ order = <<>>
    /\ chains = <<>>
    /\ num_chains = 0
    /\ index = <<>>
    /\ sorted_offsets = TRUE
    /\ calls \in Programs

\* mutant: the flag is left alone
NoteUnsorted_never(b) == b

\* h->sorted_offsets = 0
NoteUnsorted(b) == FALSE

\* cache_add_entry and __iptcc_p_add_chain for the head of a user-defined chain: put
\* at the tail when it is in order, else inserted, and offsets can no more be searched.
__iptcc_p_add_chain(name) ==
    /\ phase = "parse"
    /\ Len(order) < MaxParsed /\ ~Contains(order, name)
    /\ order' = Append(order, name)
    /\ num_chains' = num_chains + 1
    /\ IF chains = <<>> \/ name > Last(chains)
       THEN /\ chains' = Append(chains, name)
            /\ UNCHANGED sorted_offsets
       ELSE /\ chains' = InsertAt(chains, PlaceFor(chains, 1, name), name)
            /\ sorted_offsets' = NoteUnsorted(sorted_offsets)
    /\ UNCHANGED <<phase, index>>

\* The end of the first pass of parse_table.
EndOfTable ==
    /\ phase = "parse"
    /\ phase' = "fixup"
    /\ index' = IndexOf(chains, num_chains)
    /\ UNCHANGED <<order, chains, num_chains, sorted_offsets>>

\* The second pass has resolved the jumps; offsets are not needed any more.
EndOfFixup ==
    /\ phase = "fixup"
    /\ phase' = "use"
    /\ order' = <<>>
    /\ UNCHANGED <<chains, num_chains, index, sorted_offsets>>

OffsetOf(name) == PlaceOf(order, name)

\* iptcc_find_chain_by_offset for the head offset of a chain: the chain found before
\* the walk would come round, if any
iptcc_find_chain_by_offset(offset) ==
    LET r == __iptcc_bsearch_chain_index(index, [i \in DOMAIN index |-> OffsetOf(index[i])], offset)
        slot == IF sorted_offsets THEN ListPos(index, r) ELSE Handle
    IN {chains[i] : i \in {j \in WalkFrom(chains, slot) .. Len(chains) : OffsetOf(chains[j]) = offset}}

-----------------------------------------------------------------------------
(* The calls.                                                              *)

\* The state after an outcome, with n chains.
Take(o, n) ==
    /\ phase' = IF o.fault THEN "fault" ELSE "use"
    /\ chains' = o.chains
    /\ index' = o.index
    /\ num_chains' = n
    /\ UNCHANGED <<order, sorted_offsets>>

LookupFault == Take(Fault, num_chains)

\* exceeded > CHAIN_INDEX_INSERT_MAX, in signed arithmetic
Exceeded(n, sz) == n - sz * CHAIN_INDEX_BUCKET_LEN > CHAIN_INDEX_INSERT_MAX

TC_CREATE_CHAIN(name) ==
    /\ phase = "use" /\ "create" \in calls
    /\ \/ /\ iptcc_find_label(name) = "fault"
          /\ LookupFault
       \/ /\ iptcc_find_label(name) = "none"
          /\ LET n == num_chains + 1
                 o == iptc_insert_chain(chains, index, name)
             IN Take(IF ~o.fault /\ Exceeded(n, Cardinality(DOMAIN o.index))
                     THEN Outcome(o.chains, IndexOf(o.chains, n)) ELSE o, n)

\* Slots that still point to a chain after free(c)
AfterFree(o, c) == [o EXCEPT !.index = [i \in DOMAIN @ |-> IF @[i] = c THEN Freed ELSE @[i]]]

TC_DELETE_CHAIN(name) ==
    /\ phase = "use" /\ "delete" \in calls
    /\ \/ /\ iptcc_find_label(name) = "fault"
          /\ LookupFault
       \/ /\ iptcc_find_label(name) = "found"
          /\ \E o \in iptcc_chain_index_delete_chain(chains, index, num_chains - 1, name) :
                Take(IF o.fault THEN o ELSE AfterFree(o, name), num_chains - 1)

\* Slots that still point to a renamed chain
AfterStrncpy(o, old, new) ==
    [o EXCEPT !.index = [i \in DOMAIN @ |-> IF @[i] = old THEN new ELSE @[i]]]

\* strncpy of the name, iptc_insert_chain
InsertRenamed(o, old, new) ==
    IF o.fault THEN o
    ELSE LET q == AfterStrncpy(o, old, new) IN iptc_insert_chain(q.chains, q.index, new)

\* The chain is out of the list while the index may be rebuilt; num_chains counts it.
TC_RENAME_CHAIN(old, new) ==
    /\ phase = "use" /\ "rename" \in calls
    /\ \/ /\ "fault" \in {iptcc_find_label(new), iptcc_find_label(old)}
          /\ LookupFault
       \/ /\ iptcc_find_label(new) = "none" /\ iptcc_find_label(old) = "found"
          /\ \E o \in iptcc_chain_index_delete_chain(chains, index, num_chains, old) :
                Take(InsertRenamed(o, old, new), num_chains)

Next ==
    /\ UNCHANGED calls
    /\ \/ \E n \in Names : __iptcc_p_add_chain(n)
       \/ EndOfTable \/ EndOfFixup
       \/ \E n \in Names : TC_CREATE_CHAIN(n) \/ TC_DELETE_CHAIN(n)
       \/ \E n, m \in Names : TC_RENAME_CHAIN(n, m)

Spec == Init /\ [][Next]_vars

-----------------------------------------------------------------------------
(* Properties.                                                             *)

\* No call reads through a NULL slot or from a chain that was freed.
NeverFaults ==
    /\ phase # "fault"
    /\ phase = "use" => \A n \in Names : iptcc_find_label(n) # "fault"

\* A lookup finds every chain of the table and no other, whatever was created, deleted
\* and renamed before, unless it faults; and creating and deleting alone never leads to
\* that: deletion moves every slot on from the chain it frees, and leaves none without a
\* chain.
LookupExact ==
    /\ phase = "use" =>
           \A n \in Names :
               /\ iptcc_find_label(n) # "none" \/ ~Contains(chains, n)
               /\ iptcc_find_label(n) # "found" \/ Contains(chains, n)
    /\ "rename" \notin calls => NeverFaults

\* Each jump of the kernel's table is resolved to the chain whose head it names, sorted
\* or not ("if chains were not received sorted from kernel, then an offset bsearch is
\* no longer valid", line 912).
JumpsResolved ==
    phase = "fixup" =>
        \A n \in {chains[i] : i \in DOMAIN chains} : iptcc_find_chain_by_offset(OffsetOf(n)) = {n}

\* The list a table is written back from is in the order of the names, with every chain
\* once, and num_chains, by which the next index is sized, is their number.
ListInOrder ==
    /\ \A i, j \in DOMAIN chains : i < j => chains[i] < chains[j]
    /\ phase # "fault" => num_chains = Len(chains)
=============================================================================
