------------------------------ MODULE MCChains ------------------------------
(* ChainIndex and ChainSearch for TLC, each in behaviours of its own.      *)
EXTENDS ChainIndex, ChainSearch

Renaming == {{"create", "delete", "rename"}}
Straight == {{"create", "delete"}} \cup Renaming

VARIABLE part  \* "edit": the table is read and edited; "search": one search by turns

chainvars == <<vars, searchvars, part>>

\* A search that is over, in a table that is edited.
NoSearch == sz = 1 /\ key = [i \in {0} |-> 1] /\ name = 1 /\ pos = 0 /\ end = 1 /\ pc = "done"

ChainsInit ==
    /\ Init
    /\ \/ part = "edit" /\ NoSearch
       \/ part = "search" /\ SearchInit /\ calls = CHOOSE p \in Programs : TRUE

EditStep == part = "edit" /\ Next /\ UNCHANGED <<searchvars, part>>
SearchStep == part = "search" /\ SearchTurn /\ UNCHANGED <<vars, part>>

ChainsNext == EditStep \/ SearchStep

ChainsSpec == ChainsInit /\ [][ChainsNext]_chainvars /\ WF_chainvars(SearchStep)
=============================================================================
