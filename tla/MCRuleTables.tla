---------------------------- MODULE MCRuleTables ----------------------------
(* Instances of RuleTables for TLC.                                        *)
EXTENDS RuleTables

CONSTANT h1     \* a header besides the all-zero one

Req(i, c, t, a, hd, p, d) ==
    [index |-> i, command |-> c, tablename |-> t, actionType |-> a,
     table |-> [head |-> hd, priority |-> p, actionDesc |-> d]]

\* On one chain every order of requests: priorities 0 (append), 7, 100 in a rule that
\* looks like the policy entry, and 200 (above the policy's), and every index from -1
\* to past the end.
OneChain ==
    {Req(0, "APPEND", "filter", "INPUT", h1, p, "ACCEPT") : p \in {0, 7, 200}}
    \cup {Req(0, "APPEND", "filter", "INPUT", NoHead, 100, "ACCEPT")}
    \cup {Req(1, "APPEND", "filter", "INPUT", h1, 0, "ACCEPT")}
    \cup {Req(i, "ALTER", "filter", "INPUT", h1, 0, "DROP") : i \in -1 .. MaxRules + 2}
    \cup {Req(i, "DELETE", "filter", "INPUT", NoHead, 100, "ACCEPT") : i \in -1 .. MaxRules + 2}
    \cup {Req(0, "DELETE", "filter", "INPUT", h1, 7, "DROP")}
    \cup {Req(0, "SET_POLICY", "filter", "INPUT", NoHead, 0, d) : d \in {"DESC_NONE", "DROP"}}
    \cup {Req(0, "CLEAN", "filter", "INPUT", NoHead, 0, "DESC_NONE")}

\* A chain of the same table and the chain of the same name in another; tables,
\* chains and commands there are none of.
OtherChains ==
    {Req(0, "APPEND", "filter", "OUTPUT", h1, 0, "ACCEPT"),
     Req(0, "APPEND", "nat", "INPUT", h1, 7, "DROP"),
     Req(0, "DELETE", "nat", "INPUT", h1, 7, "DROP"),
     Req(0, "CLEAN", "nat", "TYPE_NONE", h1, 0, "ACCEPT")}
    \cup {Req(0, c, "NAME_NONE", "INPUT", h1, 7, "DROP") :
            c \in {"SET_POLICY", "APPEND", "ALTER", "DELETE", "CLEAN", "OTHER"}}
    \cup {Req(0, "APPEND", "filter", "PREROUTING", h1, 7, "ACCEPT")}

AllRequests == OneChain \cup OtherChains
=============================================================================
