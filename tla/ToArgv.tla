------------------------------- MODULE ToArgv -------------------------------
(***************************************************************************)
(* to_argv of ruletables/conn.c (212-530): the argument vector the daemon  *)
(* hands to do_command4 for a request, and what the parsers of addresses   *)
(* and ports make of the words in it.                                      *)
(*                                                                         *)
(* A header is a record of the fields of struct basic_header.  Addresses   *)
(* and masks are numbers below 2^AddrBits, first address bit highest; the  *)
(* text of an address or port word is its value after parsing, so that two *)
(* words are equal when the kernel would see the same match.               *)
(***************************************************************************)
EXTENDS FiniteSets, DoCommand4

\* mutant: the loop stops before bit 0
PopCount_short(x) == Cardinality({i \in 1 .. AddrBits - 1 : Bit(x, i) = 1})

\* The loop that counts the bits of a mask.
PopCount(x) == Cardinality({i \in 0 .. AddrBits - 1 : Bit(x, i) = 1})

\* The prefix length written after '/'; a zero mask writes none, which
\* xtables_ipparse_multiple reads as a full mask.
PrefixLength(mask) == LET n == PopCount(mask) IN IF n = 0 THEN AddrBits ELSE n

\* The network the parser keeps: the address with the host bits cleared.
Network(addr, mask) ==
    LET n == PrefixLength(mask)
        unit == 2^(AddrBits - n)
    IN <<(addr \div unit) * unit, n>>

\* what follows the address
MaskWord(mask) == IF PopCount(mask) = 0 THEN NoMask ELSE Bits(PopCount(mask))

AddressArgs(o, addr, mask) ==
    IF addr = 0 THEN <<>>
    ELSE <<Opt(o), [Word(ToString(Network(addr, mask))) EXCEPT
                       !.items = <<Numeric(addr, MaskWord(mask))>>]>>

ProtoArgs(proto) ==
    CASE proto = "TCP"  -> <<Opt("-p"), Word("tcp")>>
      [] proto = "UDP"  -> <<Opt("-p"), Word("udp")>>
      [] proto = "ARP"  -> <<Opt("-p"), Word("arp")>>
      [] proto = "ICMP" -> <<Opt("-p"), Word("icmp")>>
      [] OTHER          -> <<>>

\* The ports kept for the two fields: a pair is a range, one field alone a port.
PortRange(p0, p1) ==
    IF p0 # 0 /\ p1 # 0 THEN <<p0, p1>> ELSE IF p0 # 0 THEN <<p0, p0>> ELSE <<p1, p1>>

PortArgs(o, p0, p1) ==
    LET r == PortRange(p0, p1)
    IN IF p0 = 0 /\ p1 = 0 THEN <<>>
       ELSE <<Opt(o), [Word(ToString(r)) EXCEPT !.num = IF r[1] > r[2] THEN -1 ELSE 0]>>

HeadArgs(header) ==
    AddressArgs("-s", header.s_addr, header.smsk) \o AddressArgs("-d", header.d_addr, header.dmsk)
    \o ProtoArgs(header.proto)
    \o IF header.proto \in {"TCP", "UDP"}
       THEN PortArgs("--sport", header.spts[1], header.spts[2]) \o PortArgs("--dport", header.dpts[1], header.dpts[2])
       ELSE <<>>

TableArgs(t) == IF t = "NAME_NONE" THEN <<>> ELSE <<Opt("-t"), Word(t)>>

\* -A when the priority is the lowest, else -I
CommandArgs(h) ==
    CASE h.command = "SET_POLICY" -> <<Opt("-P")>>
      [] h.command = "APPEND"     -> IF h.table.priority = 0 THEN <<Opt("-A")>> ELSE <<Opt("-I")>>
      [] h.command = "ALTER"      -> <<Opt("-R")>>
      [] h.command = "DELETE"     -> <<Opt("-D")>>
      [] h.command = "CLEAN"      -> <<Opt("-F")>>
      [] OTHER                    -> <<>>

ChainArgs(a) == IF a = "TYPE_NONE" THEN <<>> ELSE <<Word(a)>>

\* mutants: places counted from zero; an index of zero is written too
IndexArgs_zero(i) == IF i > 1 THEN <<Num(i - 1)>> ELSE <<>>
IndexArgs_any(i) == <<Num(i)>>

IndexArgs(i) == IF i > 0 THEN <<Num(i)>> ELSE <<>>

\* The action: the bare verdict for -P; -j in any case for -A, -I and -D; -j only
\* with a verdict for -R.
TargetArgs(h) ==
    LET d == h.table.actionDesc
        v == IF d = "DESC_NONE" THEN <<>> ELSE <<Word(d)>>
    IN CASE h.command = "SET_POLICY"            -> v
         [] h.command \in {"APPEND", "DELETE"}  -> <<Opt("-j")>> \o v
         [] h.command = "ALTER" /\ v # <<>>     -> <<Opt("-j")>> \o v
         [] OTHER                               -> <<>>

to_argv(h) ==
    LET upToCommand == TableArgs(h.tablename) \o CommandArgs(h)
        upToIndex == upToCommand \o ChainArgs(h.actionType) \o IndexArgs(h.index)
    IN IF h.command = "CLEAN" THEN upToCommand
       ELSE IF h.command = "DELETE" /\ h.index > 0 THEN upToIndex
       ELSE upToIndex \o TargetArgs(h) \o HeadArgs(h.table.head)

\* The match the kernel holds for a header: what do_command4 makes of its words.
HeadMatch(header) == ReadAll(HeadArgs(header)).match
=============================================================================
