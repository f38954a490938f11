----------------------------- MODULE MCListRace -----------------------------
(* Instances of ListRace for TLC.                                          *)
EXTENDS ListRace, TLC

CONSTANTS t1, t2

\* One thread alone; one that changes while the other lists; two that insert; two that
\* insert, of which one alters.
OneThread == (t1 :> Operations) @@ (t2 :> {})
OneWriter == (t1 :> Operations) @@ (t2 :> {"all_in"})
Appenders == (t1 :> {"append", "insert"}) @@ (t2 :> {"append", "insert", "all_in"})

Altering == (t1 :> {"append"}) @@ (t2 :> {"append", "alter"})

SafeRoles == {OneThread, OneWriter, Appenders, Altering}

TwoWriters == {(t1 :> Operations) @@ (t2 :> Operations)}

NodeSymmetry == Permutations(Nodes)
=============================================================================
