---------------------------- MODULE PolicyChains ----------------------------
(***************************************************************************)
(* What the daemon's rule tables promise, without lists, counters or       *)
(* indexes into a ring: each chain has a policy and a sequence of rules    *)
(* ordered by priority, rules of one priority in order of arrival.  A      *)
(* request changes one rule, one policy, or empties the chains of a table. *)
(***************************************************************************)
EXTENDS Integers, Sequences, SequencesExt

CONSTANTS
    Chains,
    Policies,
    Rules,    \* what a request may ask for: records with a priority field
    Groups    \* the sets of chains that are emptied together: the tables

VARIABLES policy, rules

pvars == <<policy, rules>>

Init ==
    /\ policy \in [Chains -> Policies]
    /\ rules = [c \in Chains |-> <<>>]

SetPolicy(c, p) ==
    /\ policy' = [policy EXCEPT ![c] = p]
    /\ UNCHANGED rules

\* A new rule goes behind every rule of its priority or higher and in front of
\* every rule of a lower priority.
Add(c, r) ==
    /\ \E k \in 1 .. Len(rules[c]) + 1 :
          /\ \A i \in 1 .. k - 1 : rules[c][i].priority >= r.priority
          /\ \A i \in k .. Len(rules[c]) : rules[c][i].priority < r.priority
          /\ rules' = [rules EXCEPT ![c] = InsertAt(@, k, r)]
    /\ UNCHANGED policy

\* A rule is replaced in place; its priority stays.
Alter(c, k, r) ==
    /\ rules' = [rules EXCEPT ![c] = ReplaceAt(@, k, [r EXCEPT !.priority = rules[c][k].priority])]
    /\ UNCHANGED policy

Drop(c, k) ==
    /\ rules' = [rules EXCEPT ![c] = RemoveAt(@, k)]
    /\ UNCHANGED policy

Clear(C) ==
    /\ rules' = [c \in Chains |-> IF c \in C THEN <<>> ELSE rules[c]]
    /\ UNCHANGED policy

\* A step that changes neither rules nor policies is a stutter.
Next ==
    \/ \E c \in {x \in Chains : policy'[x] # policy[x]}, p \in Policies : SetPolicy(c, p)
    \/ \E c \in {x \in Chains : rules'[x] # rules[x]} :
          \/ \E r \in Rules : Add(c, r)
          \/ \E k \in 1 .. Len(rules[c]), r \in Rules : Alter(c, k, r)
          \/ \E k \in 1 .. Len(rules[c]) : Drop(c, k)
    \/ \E C \in Groups : Clear(C)

Spec == Init /\ [][Next]_pvars
=============================================================================
