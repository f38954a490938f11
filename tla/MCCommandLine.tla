---------------------------- MODULE MCCommandLine ----------------------------
(* Command lines for TLC.                                                  *)
EXTENDS CommandLine

\* names of one address, of two, and of three, of which two are the same
Names == ("h1" :> <<5>>) @@ ("h2" :> <<5, 9>>) @@ ("h3" :> <<6, 6, 12>>)

\* One command of each way of reading its words, a chain, a verdict, a protocol, the table
\* that refuses the verdict, a rule number and a word that is none, options of a rule, a
\* match with ports.
\* -C reads like -A, -S like -L, -X like -F and -E like -P.
Words ==
    {Opt(o) : o \in {"-A", "-D", "-R", "-I", "-L", "-Z", "-F", "-N", "-P"}}
    \cup {Opt(o) : o \in {"-t", "-s", "-p", "-j", "-m", "--sport"}}
    \cup {Word("INPUT"), Word("DROP"), Word("nat"), Word("tcp"), Num(2), Bang}

\* Requests: every address and mask on one side, every pair of ports, every command
\* with indexes on both sides of one.
Header0(proto) == [s_addr |-> 0, smsk |-> 0, d_addr |-> 0, dmsk |-> 0,
                   spts |-> <<0, 0>>, dpts |-> <<0, 0>>, proto |-> proto]

Protocols == {"TCP", "UDP"}
Ports == (0 .. 2) \X (0 .. 2)

Headers ==
    {[Header0(p) EXCEPT !.s_addr = a, !.smsk = m] : p \in Protocols, a \in Addresses, m \in Addresses}
    \cup {[Header0(p) EXCEPT !.d_addr = a, !.dmsk = m, !.s_addr = 5, !.smsk = 12] :
            p \in Protocols, a \in {0, 6}, m \in Addresses}
    \cup {[Header0(p) EXCEPT !.spts = s, !.dpts = d] : p \in Protocols, s \in Ports, d \in Ports}

FewHeaders == {Header0(p) : p \in Protocols}
    \cup {[Header0(p) EXCEPT !.s_addr = 5, !.smsk = 12, !.dpts = d] :
            p \in Protocols, d \in {<<1, 2>>, <<2, 1>>}}

Req(i, c, t, header, p, d) ==
    [index |-> i, command |-> c, tablename |-> t, actionType |-> "INPUT",
     table |-> [head |-> header, priority |-> p, actionDesc |-> d]]

\* do_append refuses an index with priority 0; do_insert leaves one of at least 1.
AllServed ==
    {Req(i, "APPEND", "filter", h, i, "ACCEPT") : i \in {0, 1}, h \in Headers}
    \cup {Req(i, "APPEND", t, h, i, d) :
            i \in {0, 2}, t \in {"filter", "nat", "mangle"}, h \in FewHeaders,
            d \in {"DESC_NONE", "DROP", "RETURN"}}
    \cup {Req(i, c, t, h, 7, d) :
            i \in {-1, 0, 1, 3}, c \in {"ALTER", "DELETE", "SET_POLICY", "CLEAN"},
            t \in {"filter", "nat"}, h \in FewHeaders, d \in {"DESC_NONE", "DROP", "ACCEPT"}}

-----------------------------------------------------------------------------
(* Whole lines: the addresses, interfaces and commands of rules.           *)

\* The masks: none, all kinds of prefix and one too long; dotted ones, prefix or not.
Masks == {NoMask, Bits(0), Bits(1), Bits(2), Bits(3), Bits(4), Bits(5),
          Dotted(0), Dotted(5), Dotted(10), Dotted(12)}

\* Short reads in one family; "gone" is a name nobody resolves.
Items == {Numeric(a, m) : a \in {0, 6, 13}, m \in Masks}
    \cup {Name(w, m) : w \in {"h2", "gone"}, m \in {NoMask, Bits(0), Bits(2), Bits(5)}}
    \cup {Short(2), Short(7)}

FewItems == {Numeric(6, NoMask), Numeric(6, Bits(2)), Numeric(13, Dotted(10)), Numeric(5, Bits(0)),
             Name("h1", NoMask), Name("h2", Bits(3)), Name("h3", NoMask), Name("gone", NoMask)}

Negated(b) == IF b THEN <<Bang>> ELSE <<>>
Address(b, o, items) == Negated(b) \o <<Opt(o), AddressWord(items)>>

Singles == {Address(b, o, <<it>>) : b \in BOOLEAN, o \in {"-s", "-d"}, it \in Items}
Pairs == {Address(b, "-s", <<it, jt>>) : b \in BOOLEAN, it \in FewItems, jt \in FewItems}
Triples == {Address(FALSE, "-d", <<it, Name("h2", NoMask), jt>>) : it \in FewItems, jt \in FewItems}
Both == {Address(b, "-s", <<it>>) \o Address(FALSE, "-d", <<jt, kt>>) :
            b \in BOOLEAN, it \in FewItems, jt \in {Name("h1", NoMask), Name("h3", Bits(3))},
            kt \in {Numeric(13, NoMask), Name("h2", NoMask)}}

Commands == {<<Opt(o), Word("FORWARD")>> : o \in {"-A", "-D", "-C", "-I"}}
    \cup {<<Opt(o), Word("FORWARD"), Num(n)>> : o \in {"-I", "-R"}, n \in {1, 2}}

Accept == <<Opt("-j"), Word("ACCEPT")>>

\* Interfaces of up to IFNAMSIZ letters, of which '+' is one.
Interfaces == {Negated(b) \o <<Opt(o), InterfaceWord(w)>> :
                 b \in BOOLEAN, o \in {"-i", "-o"},
                 w \in UNION {[1 .. n -> {"a", "+"}] : n \in 0 .. IFNAMSIZ}}

\* Matches with ports, loaded by name and by protocol, more than once and for no command.
Port(o, n) == <<Opt(o), Num(n)>>
M(w) == <<Opt("-m"), Word(w)>>
Loads == {<<>>, M("tcp"), M("udp"), M("limit"), M("tcp") \o M("udp"), M("udp") \o M("tcp") \o M("udp"),
          M("tcp") \o M("tcp"), <<Opt("-p"), Word("tcp")>>, <<Opt("-p"), Num(17)>>, <<Opt("-p"), Word("icmp")>>}
PortLines == {c \o l \o Port("--sport", n) \o k \o Port(o, 2) :
                c \in {<<Opt("-A"), Word("INPUT")>>, <<Opt("-D"), Word("INPUT")>>, <<Opt("-F")>>},
                l \in Loads, n \in {-1, 3}, k \in Loads, o \in {"--sport", "--dport"}}

\* Counters, chains and tables that are none, and targets after -j and -g.
Odd == {<<Opt("-c"), AddressWord(w)>> : w \in {<<Short(1)>>, <<Short(1), Short(2)>>, <<Short(1), Name("x", NoMask)>>,
                                               <<Name("x", NoMask), Short(1)>>}}
    \cup {<<Opt("-c"), AddressWord(<<Short(1)>>), w>> : w \in {Num(2), Word("x")}}
    \cup {<<Opt(o), Word(w)>> : o \in {"-j", "-g"}, w \in {"ACCEPT", "OUTPUT", "POSTROUTING", "nobody"}}
    \cup {<<Opt("-t"), Word(w)>> : w \in {"raw", "nowhere"}} \cup {<<>>}
OddLines == {<<Opt(o), Word(c)>> \o w : o \in {"-A", "-C", "-D", "-N"}, c \in {"FORWARD"} \cup LongNames, w \in Odd}

AllLines ==
    PortLines \cup OddLines \cup
    {c \o a \o Accept : c \in Commands, a \in Pairs \cup Triples \cup Both}
    \cup {<<Opt("-A"), Word("FORWARD")>> \o a \o Accept : a \in Singles \cup Interfaces}
    \cup {c \o Negated(b) \o <<Opt(o)>> \o Accept : c \in Commands, b \in BOOLEAN, o \in {"-f", "-4", "-6"}}
=============================================================================
