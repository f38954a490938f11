----------------------------- MODULE RevisionOrder -----------------------------
(***************************************************************************)
(* The structures extensions register with libxtables (xtables_match,      *)
(* xtables_target) and which of two of the same name is preferred.         *)
(***************************************************************************)
EXTENDS Integers

CONSTANTS
    Structs,   \* the structures
    Desc,      \* of each structure a record: its name, whether the name is that of a
               \* newer extension (alias), its revision, and whether it is for one
               \* address family (specific)
    NULL       \* no structure

ASSUME StructsAssumption ==
    /\ NULL \notin Structs
    /\ \A s \in Structs : Desc[s].alias \in BOOLEAN /\ Desc[s].revision \in Nat /\ Desc[s].specific \in BOOLEAN

\* Two structures of one name differ in what they are compared by; a second one that
\* does not ends the program ("already registered").
ASSUME DistinctAssumption ==
    \A s, t \in Structs :
        Desc[s].name = Desc[t].name /\ Desc[s].alias = Desc[t].alias /\ Desc[s].revision = Desc[t].revision
            /\ Desc[s].specific = Desc[t].specific => s = t

Names == {Desc[s].name : s \in Structs}

\* xtables_mt_prefer(a, b) > 0
Prefer(a, b) ==
    IF Desc[a].alias # Desc[b].alias THEN Desc[a].alias
    ELSE IF Desc[a].revision # Desc[b].revision THEN Desc[a].revision > Desc[b].revision
    ELSE Desc[a].specific /\ ~Desc[b].specific
=============================================================================
