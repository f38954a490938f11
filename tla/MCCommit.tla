------------------------------ MODULE MCCommit ------------------------------
(* Instances of Commit for TLC.                                            *)
EXTENDS Commit, TLC

CONSTANTS p1, p2

ChainOrder == <<"INPUT", "OUTPUT", "c1", "c2">>

E(target) == [image |-> "any", target |-> target, cnt |-> 0]

Policy == [NewChain EXCEPT !.verdict = StandardTargets["ACCEPT"]]
Empty == [changed |-> FALSE, num_entries |-> 0, chains |-> [c \in BuiltIn |-> Policy]]

\* A rule without target and a jump, and a chain after the one they are in.
Some == TC_APPEND_ENTRY(TC_APPEND_ENTRY(TC_CREATE_CHAIN(Empty, "c1").h, "INPUT", E("")).h,
                        "INPUT", E("c1")).h

\* Jumps to a later chain and back to an earlier one.
Linked == TC_APPEND_ENTRY(TC_CREATE_CHAIN(TC_APPEND_ENTRY(TC_CREATE_CHAIN(
                Empty, "c2").h, "OUTPUT", E("c2")).h, "c1").h, "c2", E("c1")).h

ProcSymmetry == Permutations(Procs)

FewTables == {Some, Linked}
OneTable == {Some}

\* All programs take the lock; the tool's does and the daemon does not.
AllLock == {Procs}
ToolLocks == {{p1}}
=============================================================================
