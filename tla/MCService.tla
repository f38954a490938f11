----------------------------- MODULE MCService ------------------------------
(* Instances of Service for TLC.                                           *)
EXTENDS Service

Header(s, proto, ports) ==
    [s_addr |-> s, smsk |-> 0, d_addr |-> 0, dmsk |-> 0,
     spts |-> <<0, 0>>, dpts |-> ports, proto |-> proto]

NoHeader == Header(0, "PROTO_NONE", <<0, 0>>)
Tcp      == Header(0, "TCP", <<0, 0>>)
TcpPort  == Header(0, "TCP", <<0, 2>>)
TcpBad   == Header(0, "TCP", <<2, 1>>)
Icmp     == Header(1, "ICMP", <<0, 0>>)
IcmpPort == Header(1, "ICMP", <<0, 2>>)

\* The controller sends numbers.
NoNames == <<>>

AllHeads == {NoHeader, Tcp, TcpPort, TcpBad, Icmp, IcmpPort}

Req(i, c, t, a, header, p, d) ==
    [index |-> i, command |-> c, tablename |-> t, actionType |-> a,
     table |-> [head |-> header, priority |-> p, actionDesc |-> d]]

In(i, c, h, p, d) == Req(i, c, "filter", "INPUT", h, p, d)

\* Rules of two priorities on one chain, put in, replaced, taken out by place and by
\* content, and the table emptied; requests the daemon refuses, drops, cannot convert
\* or does not survive.
Controller ==
    {In(0, "APPEND", Tcp, p, "DROP") : p \in {0, 7}}
    \cup {In(0, "APPEND", IcmpPort, 0, "DROP"), In(0, "APPEND", Icmp, 0, "DROP")}
    \cup {In(i, "ALTER", Tcp, 0, "DROP") : i \in {0, 1}}
    \cup {In(2, "DELETE", Tcp, 0, "DROP"), In(0, "DELETE", Tcp, 0, "DROP"),
          In(0, "CLEAN", Tcp, 0, "DESC_NONE"), In(0, "ALLIN", Tcp, 0, "DESC_NONE"),
          In(0, "SET_POLICY", Tcp, 0, "DROP")}

\* What the tool puts in looks unlike the rules of the controller, some of which it takes
\* out; the kernel does not do the last two.
ToolReports ==
    {In(0, "APPEND", Icmp, 0, "DROP"), In(0, "DELETE", Tcp, 0, "DROP"),
     In(0, "ALLIN", NoHeader, 0, "DESC_NONE"), In(0, "SET_POLICY", NoHeader, 0, "RETURN")}

AllRequests == Controller \cup ToolReports

\* No step reads what the previous do_command left in out.
WithoutOut == <<list, length, mem, kernel, pc, hd, unixq, up, running, drift>>

=============================================================================
