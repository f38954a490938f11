---------------------------- MODULE ChainSearch -----------------------------
(***************************************************************************)
(* The loop of __iptcc_bsearch_chain_index (libiptc.c 340-429), one turn a *)
(* step, on any chain index without NULL slots: which slot it returns and  *)
(* that it stays inside the array.  It is no textbook binary search: after *)
(* a jump back it halves the position, not the interval.                   *)
(***************************************************************************)
EXTENDS Integers

CONSTANTS
    Keys,      \* names (or head offsets) in the order of the comparison
    MaxSize    \* bound: slots of the index

ASSUME ChainSearchAssumption == Keys \subseteq Int /\ MaxSize \in Nat

VARIABLES
    sz,       \* chain_index_sz
    key,      \* key[i]: the name or offset in slot i
    name,     \* what is searched
    pos, end, pc

searchvars == <<sz, key, name, pos, end, pc>>

Ascending(k, n) == \A i, j \in 0 .. n - 1 : i < j => k[i] < k[j]

\* An index as iptcc_chain_index_build leaves it; an empty one is never searched.
SearchInit ==
    /\ sz \in 1 .. MaxSize
    /\ key \in [0 .. sz - 1 -> Keys]
    /\ Ascending(key, sz)
    /\ name \in Keys
    /\ pos = sz \div 2
    /\ end = sz
    /\ pc = "loop"

Found(p) ==
    /\ pc' = "done"
    /\ pos' = p
    /\ UNCHANGED end

\* pos = pos / 2
Back(p) == p \div 2

\* mutants: half of end added; half of end
Ahead_far(p, e) == p + e \div 2
Ahead_start(p, e) == e \div 2

\* pos = (pos + end) / 2
Ahead(p, e) == (p + e) \div 2

DirectHit == name = key[pos] /\ Found(pos)

\* res < 0
SearchBack ==
    /\ name < key[pos]
    /\ \/ pos = 0 /\ Found(pos)
       \/ pos # 0 /\ end' = pos /\ pos' = Back(pos) /\ UNCHANGED pc

\* mutant: the next slot's own name counted to this section
Between_closed(p) == name <= key[p + 1]

\* The next slot's name is greater: name belongs to this section of the list.
Between(p) == name < key[p + 1]

\* res > 0
SearchForward ==
    /\ name > key[pos]
    /\ \/ pos = sz - 1 /\ Found(pos)
       \/ pos # sz - 1 /\ Between(pos) /\ Found(pos)
       \/ pos # sz - 1 /\ ~Between(pos) /\ pos' = Ahead(pos, end) /\ UNCHANGED <<end, pc>>

SearchTurn ==
    /\ pc = "loop"
    /\ DirectHit \/ SearchBack \/ SearchForward
    /\ UNCHANGED <<sz, key, name>>

SearchSpec == SearchInit /\ [][SearchTurn]_searchvars /\ WF_searchvars(SearchTurn)

-----------------------------------------------------------------------------
(* Properties.                                                             *)

\* Every variable keeps its type, pos inside the array: chain_index[pos] and, where it
\* is read, chain_index[pos + 1] exist.
TypeOK ==
    /\ sz \in 1 .. MaxSize
    /\ key \in [0 .. sz - 1 -> Keys]
    /\ name \in Keys
    /\ pos \in 0 .. sz - 1
    /\ end \in 1 .. sz
    /\ pc \in {"loop", "done"}

\* The slot returned is the last one whose name is not greater, or slot 0: the walk
\* from there passes the place of name, and passes no other slot before it.
RightSection ==
    pc = "done" =>
        /\ pos = 0 \/ key[pos] <= name
        /\ \A i \in pos + 1 .. sz - 1 : name < key[i]

\* The search ends for every index and name.
SearchEnds == <>(pc = "done")
=============================================================================
