---------------------------- MODULE CommandLine -----------------------------
(***************************************************************************)
(* do_command4 and do_command6 reading a command line word by word         *)
(* (ruletables/iptables.c 1331-1739), typed by a user or written by        *)
(* to_argv for a request of the controller (ruletables/conn.c 532-567),    *)
(* and the rules it stands for.  What is asked: what the final switch may  *)
(* rely on; whether the daemon survives the reading; whether the command   *)
(* and the rules that come out are those that were asked for, can be taken *)
(* back, and are saved as they are.                                        *)
(***************************************************************************)
EXTENDS ToArgv, RuleCalls

CONSTANTS
    Tokens,      \* argument words that may be typed
    MaxTokens,   \* bound: length of a typed line
    Lines,       \* whole lines that are given
    Served,      \* the requests that reach send_to_kernel
    NoRequest    \* of a line that is no request

ASSUME NoRequestAssumption == NoRequest \notin Served

\* An argument word is not empty, and what it reads as is a number.
IsArgument(w) == w.text # None /\ w.num \in Int

ASSUME WordsAssumption ==
    /\ \A w \in Tokens : IsArgument(w)
    /\ \A words \in Lines \cup {to_argv(h) : h \in Served} :
          words \in Seq(ToSet(words)) /\ \A w \in ToSet(words) : IsArgument(w)

VARIABLES
    family,    \* 4: iptables and the daemon; 6: ip6tables
    request,   \* the request the daemon serves, or NoRequest
    argv,      \* words of a request or given line not read yet
    line,      \* the parser
    count,     \* words typed; MaxTokens when a line was given
    done       \* the line has ended

vars == <<family, request, argv, line, count, done>>

FromDaemon == request # NoRequest

\* The daemon has no IPv6 (conn.c 582-611 is commented out).
Init ==
    /\ family \in {4, 6}
    /\ request \in IF family = 4 THEN Served \cup {NoRequest} ELSE {NoRequest}
    /\ argv \in IF FromDaemon THEN {to_argv(request)} ELSE Lines \cup {<<>>}
    /\ line = Start
    /\ count = IF argv = <<>> THEN 0 ELSE MaxTokens
    /\ done = FALSE

Reads(p, w) == IF family = 4 THEN Read(p, w) ELSE Read6(p, w)

TypedWord ==
    /\ ~FromDaemon /\ ~done /\ ~line.exit /\ count < MaxTokens
    /\ \E w \in Tokens : line' = Reads(line, w)
    /\ count' = count + 1
    /\ UNCHANGED <<family, request, argv, done>>

GivenWord ==
    /\ argv # <<>> /\ ~line.exit
    /\ line' = Reads(line, Head(argv))
    /\ argv' = Tail(argv)
    /\ UNCHANGED <<family, request, count, done>>

EndOfLine ==
    /\ argv = <<>> /\ ~done /\ ~line.exit
    /\ line' = IF family = 4 THEN Finish(line) ELSE Finish6(line)
    /\ done' = TRUE
    /\ UNCHANGED <<family, request, argv, count>>

Next == TypedWord \/ GivenWord \/ EndOfLine

Spec == Init /\ [][Next]_vars

Accepted == done /\ ~line.exit

MakesRules == Accepted /\ line.command \cap RuleCommands # {}

-----------------------------------------------------------------------------
(* Properties.                                                             *)

\* What the final switch of do_command4 relies on.  It has a case for every set of
\* commands a line can end with, although -L, -S and -Z combine and -D and -Z overwrite
\* the set: its default, "We should never reach this..." (line 1925), is not reached.
\* rulenum is unsigned and passed on as rulenum - 1: a command that uses it has one of
\* at least 1.  A command that hands the chain on without a NULL test has a chain.
\* Of a rule no address, interface, protocol or target is read and then ignored: a line
\* whose command takes none (delete by number, flush, policy ...) is refused if it has
\* one, wherever in the line it stands.  generic_opt_check knows nothing of matches:
\* -m and the options of the matches it loads are all that may be read for nothing.
HasCase ==
    \/ \E c \in DOMAIN commands_v_options : line.command = {c}
    \/ \E c \in {"LIST", "LIST_RULES"}, z \in {"ZERO", "ZERO_NUM"} : line.command = {c, z}
NeedsNumber == line.command \cap {"REPLACE", "INSERT", "DELETE_NUM", "ZERO_NUM"} # {}
NeedsChain ==
    line.command \cap (RuleCommands \cup
        {"DELETE_NUM", "ZERO_NUM", "NEW_CHAIN", "RENAME_CHAIN", "SET_POLICY"}) # {}
NoIgnoredRule ==
    line.command \cap RuleCommands = {} => line.jumpto = None /\ \A m \in line.match : m[1] \in PortOptions
SwitchComplete ==
    Accepted =>
        /\ HasCase
        /\ NeedsNumber => line.rulenum >= 1
        /\ NeedsChain => line.chain # None
        /\ NoIgnoredRule

Verdict == request.table.actionDesc # "DESC_NONE"
Reversed(p) == p[1] # 0 /\ p[2] # 0 /\ p[1] > p[2]
Header == request.table.head

\* The requests the mirror accepts and do_command4 does not: reading them ends the
\* daemon.  A policy, since a served request has a protocol and -p is illegal with
\* -P; a rule without a verdict; DROP in the nat table; a replacement without a rule
\* number; a tcp port range whose ends are reversed.
Fatal ==
    LET byNumber == request.command = "DELETE" /\ request.index > 0
        rule == request.command \in {"APPEND", "ALTER", "DELETE"} /\ ~byNumber
    IN \/ request.command = "SET_POLICY"
       \/ request.command \in {"APPEND", "DELETE"} /\ ~byNumber /\ ~Verdict
       \/ rule /\ request.tablename = "nat" /\ request.table.actionDesc = "DROP"
       \/ request.command = "ALTER" /\ request.index <= 0
       \/ rule /\ Header.proto = "TCP" /\ (Reversed(Header.spts) \/ Reversed(Header.dpts))

\* Reading a request ends the daemon in those cases and in no other, whichever
\* addresses, masks, ports and indexes it has.
ExitsOnlyIfFatal == FromDaemon => (line.exit => Fatal) /\ (done /\ ~line.exit => ~Fatal)

Addresses == 0 .. AllBits

Contiguous(mask) == \E n \in 0 .. AddrBits : mask = Prefix(n)

\* The mask a zero mask field stands for: all bits.
FullMask(mask) == IF mask = 0 THEN AllBits ELSE mask

\* The daemon's words and the tool's grammar agree on what the request is: the
\* command, table, chain and rule number that come out are those it asked for.
CommandKept ==
    /\ line.table = request.tablename
    /\ line.command = {CASE request.command = "APPEND" -> IF request.table.priority = 0
                                                          THEN "APPEND" ELSE "INSERT"
                         [] request.command = "ALTER"  -> "REPLACE"
                         [] request.command = "CLEAN"  -> "FLUSH"
                         [] request.command = "DELETE" -> IF request.index > 0
                                                          THEN "DELETE_NUM" ELSE "DELETE"}
    /\ request.command # "CLEAN" => line.chain = request.actionType
    /\ request.command # "CLEAN" /\ request.index > 0 => line.rulenum = request.index

\* The kernel's rule takes exactly the addresses that agree with the header's under
\* its mask, if the mask is a prefix: counting the bits of the mask, and masking the
\* address when it is read, loses nothing.  A zero address means any, whatever the mask.
AddressKept ==
    LET r == Rules(line)[1]
        agree(a, x, mask) == x = 0 \/ (a & FullMask(mask)) = (x & FullMask(mask))
    IN Contiguous(FullMask(Header.smsk)) /\ Contiguous(FullMask(Header.dmsk)) =>
         /\ Len(Rules(line)) = 1
         /\ \A a \in Addresses : ((a & r.smsk) = r.src) <=> agree(a, Header.s_addr, Header.smsk)
         /\ \A a \in Addresses : ((a & r.dmsk) = r.dst) <=> agree(a, Header.d_addr, Header.dmsk)

RequestKept ==
    /\ FromDaemon /\ Accepted => CommandKept
    /\ FromDaemon /\ MakesRules => AddressKept

\* What a user means with an address of a list: a and x agree in as many bits.
AgreesUnder(m, x, a) ==
    CASE m.kind = "none"   -> a = x
      [] m.kind = "bits"   -> a \div 2^(AddrBits - m.val) = x \div 2^(AddrBits - m.val)
      [] m.kind = "dotted" -> (a & m.val) = (x & m.val)

Means(o, a) ==
    \/ line.hosts[o] = <<>>
    \/ Inverted(line, o) # \E k \in DOMAIN line.hosts[o] :
            LET it == line.hosts[o][k]
            IN \/ it.mask \in {Bits(0), Dotted(0)}
               \/ \E x \in ToSet(ipparse_hostnetwork(family, it)) : AgreesUnder(it.mask, x, a)

\* The rules a line stands for take, between them, exactly the packets its addresses
\* describe: lists and names of many addresses, masks of every form, negated or not.
RulesMeanLine ==
    MakesRules =>
        LET rules == Rules(line)
        IN \A s, d \in Addresses :
               (\E k \in DOMAIN rules : RuleTakes(rules[k], s, d)) <=> Means("-s", s) /\ Means("-d", d)

\* Chains a line may meet: up to two rules, its first, its last, and one of its rules
\* with another target.
EarlierChains ==
    LET rules == Rules(line)
        known == {rules[1], rules[Len(rules)], [rules[1] EXCEPT !.target = "OTHER"]}
    IN {<<>>} \cup {<<r>> : r \in known} \cup {<<r, q>> : r \in known, q \in known}

Occurrences(chain, r) == Cardinality({k \in DOMAIN chain : chain[k] = r})

\* chain has the rules of the line more than before, or is before
SameOr(before, chain, rules, sign) ==
    \/ chain = before
    \/ \A r \in ToSet(before \o chain \o rules) :
           Occurrences(chain, r) = Occurrences(before, r) + sign * Occurrences(rules, r)

\* A line of several rules is carried out as a whole or not at all, whatever the chain
\* holds, although its calls are made one by one; and what -A or -I has added -C finds
\* and the same line with -D takes away, no rule more and no rule less.
WholeAndUndone ==
    MakesRules =>
        LET rules == Rules(line)
            as(c) == [line EXCEPT !.command = {c}]
        IN \A before \in EarlierChains :
               LET after == Carried(line, before)
               IN /\ line.command = {"DELETE"} => SameOr(before, after, rules, -1)
                  /\ line.command \cap {"APPEND", "INSERT"} # {} => SameOr(before, after, rules, 1)
                  /\ line.command \cap {"APPEND", "INSERT"} # {} /\ after # before =>
                        /\ Call(as("CHECK"), after).ret
                        /\ SameOr(after, Carried(as("DELETE"), after), rules, -1)
                        /\ Carried(as("DELETE"), after) # after

\* The addresses of a rule, each with its mask and whether it is negated.
AddressesOf(r) == {<<r.src, r.smsk, "-s" \in r.invflags>>, <<r.dst, r.dmsk, "-d" \in r.invflags>>}

\* What -S writes for an address reads back as the same address and mask.
AddressSaved(addr, mask, invert) ==
    LET w == print_ip(family, addr, mask, invert)
    IN IF w = <<>> THEN mask = 0 /\ addr = 0 /\ ~invert
       ELSE xtables_ipparse_multiple(family, w) = <<[addr |-> addr, mask |-> mask]>>

\* What -L writes for an address tells its mask from every other, but those that are no
\* prefixes from one another in IPv4: there all of them are listed as "/-1".
AddressListed(addr, mask) ==
    \A m \in Addresses :
        print_firewall(family, addr, m) = print_firewall(family, addr, mask) =>
            m = mask \/ (family = 4 /\ ~Contiguous(m) /\ ~Contiguous(mask))

\* What -S writes for an interface reads back as the same compared letters; only a
\* negated "+", which no packet passes, is saved as no interface at all.
InterfaceSaved(o) ==
    line.vias[o] # <<>> =>
        LET via == xtables_parse_interface(line.vias[o])
            w == print_iface(via)
        IN IF w = <<>> THEN via.mask = 0 /\ (Inverted(line, o) => line.vias[o] = <<"+">>)
           ELSE xtables_parse_interface(w) = via

\* A rule is saved as a line that makes the same rule, and listed so that it can be told
\* from one of other addresses, whatever its addresses, masks and interfaces, with the
\* exceptions named above.
RuleShown ==
    MakesRules =>
        /\ \A e \in UNION {AddressesOf(r) : r \in ToSet(Rules(line))} :
               AddressSaved(e[1], e[2], e[3]) /\ AddressListed(e[1], e[2])
        /\ InterfaceSaved("-i") /\ InterfaceSaved("-o")
=============================================================================
