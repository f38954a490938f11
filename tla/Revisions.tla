------------------------------ MODULE Revisions ------------------------------
(***************************************************************************)
(* Which revision of an extension serves a name.  An extension may exist   *)
(* in several revisions, in a form for one address family and one for all, *)
(* and under the name of a newer one (an alias); the kernel knows some of  *)
(* them.  They register one by one, in no particular order, and the name   *)
(* must end up with the best of those the kernel knows.                    *)
(***************************************************************************)
EXTENDS RevisionOrder

VARIABLES
    compatible,   \* what the kernel knows (compatible_revision)
    waiting,      \* not yet considered
    serving       \* for each name, the structure find_match gives, or NULL

rvars == <<compatible, waiting, serving>>

\* Which of two structures xtables_fully_register_pending_match keeps.
Chosen(old, me) ==
    IF Prefer(old, me) /\ old \in compatible THEN old
    ELSE IF me \in compatible THEN me ELSE old

Init ==
    /\ compatible \in SUBSET Structs
    /\ waiting = Structs
    /\ serving = [n \in Names |-> NULL]

Register(me) ==
    /\ waiting' = waiting \ {me}
    /\ serving' = [serving EXCEPT ![Desc[me].name] = IF @ = NULL THEN me ELSE Chosen(@, me)]
    /\ UNCHANGED compatible

Next == \E me \in waiting : Register(me)

Spec == Init /\ [][Next]_rvars
-----------------------------------------------------------------------------
Considered(n) == {s \in Structs \ waiting : Desc[s].name = n}

\* A name is served by one of its structures, and if the kernel knows one of them, by
\* the best that it knows, in whatever order they registered.
BestServes ==
    \A n \in Names :
        /\ serving[n] \in Considered(n) \cup {NULL}
        /\ serving[n] = NULL => Considered(n) = {}
        /\ \A s \in Considered(n) \cap compatible :
              /\ serving[n] \in compatible
              /\ s = serving[n] \/ Prefer(serving[n], s)
=============================================================================
