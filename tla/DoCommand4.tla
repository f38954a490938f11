----------------------------- MODULE DoCommand4 -----------------------------
(***************************************************************************)
(* The command line of iptables as do_command4 reads it                    *)
(* (ruletables/iptables.c 1285-1946): the getopt loop, the tests behind it *)
(* and the choice of the libiptc call.  The daemon hands it the argument   *)
(* vector that to_argv writes (ToArgv.tla).                                *)
(*                                                                         *)
(* Every failed test is xtables_error or exit_tryhelp, which end the whole *)
(* process (iptables_exit_error, lines 267-285): here p.exit.  The text of *)
(* an argument is kept, and what addresses and interfaces read as          *)
(* (IpPart.tla); what extension options mean is not, a rule's match is the *)
(* set of the options that were given.  Of extensions there are here the   *)
(* matches with ports, which -m or the protocol loads.                     *)
(***************************************************************************)
EXTENDS IpPart, TLC

CONSTANT LongNames    \* words that are too long for a chain: XT_EXTENSION_MAXNAMELEN letters

\* Argument words.  An option begins with '-'; "!" negates what follows; num is
\* the value of a word that reads as a rule number, which cannot be zero, and -1
\* for a port range whose ends are reversed.  As the argument of -s or -d a word is
\* a list of addresses, as that of -i or -o a name of the given letters.
Argument(k, w, n, items) == [kind |-> k, text |-> w, num |-> n, items |-> items, letters |-> <<w>>]
Opt(o)  == Argument("opt",  o, 0, <<Name(o, NoMask)>>)
Bang    == Argument("bang", "!", 0, <<Name("!", NoMask)>>)
Word(w) == Argument("word", w, 0, <<Name(w, NoMask)>>)
Num(n)  == Argument("word", ToString(n), n, <<Short(n)>>)
AddressWord(items) == Argument("word", ToString(items), 0, items)
InterfaceWord(letters) == [Word(ToString(letters)) EXCEPT !.letters = letters]

None == ""

\* optflags letters: OPT_NUMERIC .. OPT_FRAGMENT
OptionFlags == {"n", "s", "d", "p", "j", "v", "x", "i", "o", "line", "c", "f"}

\* commands_v_options: the options that are not marked illegal for a command
RuleOptions == {"s", "d", "p", "j", "v", "i", "o", "f"}
commands_v_options ==
    [INSERT |-> RuleOptions \cup {"c"}, DELETE |-> RuleOptions, DELETE_NUM |-> {"v"},
     REPLACE |-> RuleOptions \cup {"c"}, APPEND |-> RuleOptions \cup {"c"},
     LIST |-> {"n", "v", "x", "line"}, FLUSH |-> {"v"}, ZERO |-> {"v"}, ZERO_NUM |-> {"v"},
     NEW_CHAIN |-> {"v"}, DELETE_CHAIN |-> {"v"}, SET_POLICY |-> {"v", "c"},
     RENAME_CHAIN |-> {"v"}, LIST_RULES |-> {"v"}, CHECK |-> RuleOptions]

\* inverse_for_options
Invertible == {"s", "d", "p", "i", "o", "f"}

\* The commands that carry a rule specification.
RuleCommands == {"APPEND", "DELETE", "CHECK", "INSERT", "REPLACE"}

\* Verdicts of the standard target.
StandardTargets == {"ACCEPT", "DROP", "QUEUE", "RETURN"}

\* iptc_init, iptc_is_chain: the tables of the kernel and the chains they have; a
\* user-defined chain is not modelled.
BuiltinChains ==
    [filter   |-> {"INPUT", "FORWARD", "OUTPUT"},
     nat      |-> {"PREROUTING", "INPUT", "OUTPUT", "POSTROUTING"},
     mangle   |-> {"PREROUTING", "INPUT", "FORWARD", "OUTPUT", "POSTROUTING"},
     raw      |-> {"PREROUTING", "OUTPUT"},
     security |-> {"INPUT", "FORWARD", "OUTPUT"}]
Tables == DOMAIN BuiltinChains

-----------------------------------------------------------------------------
(* The state of the getopt loop.                                           *)

\* want: what the previous word asks of the next one.
\*   "none"; an option letter that requires an argument; or, for the words read
\*   with argv[optind++], "num?" (optional rule number), "num!" (required),
\*   "policy!", "newname!", "bytes!", "chain?" (optional chain), and for -L, -S
\* and -Z "chain?num" and "num?" in turn.  last is the option being served.
\* loaded is cs.matches; serving says which of them reads port options, 0 if none does.
Start == [command |-> {}, options |-> {}, chain |-> None, rulenum |-> 0,
          policy |-> None, newname |-> None, jumpto |-> None, goto |-> FALSE, table |-> "filter",
          protocol |-> None, match |-> {}, loaded |-> <<>>, serving |-> 0, invert |-> FALSE,
          hosts |-> [o \in {"-s", "-d"} |-> <<>>], vias |-> [o \in {"-i", "-o"} |-> <<>>],
          addrs |-> [o \in {"-s", "-d"} |-> <<>>],
          want |-> "none", last |-> None, exit |-> FALSE]

\* xtables_error, exit_tryhelp: the process ends and nothing of p matters
Fail(p) == [Start EXCEPT !.exit = TRUE]

CommandOptions == {"-A", "-C", "-D", "-R", "-I", "-L", "-S", "-F", "-Z", "-N", "-X", "-E", "-P"}
CommandOf == [o \in CommandOptions |->
    CASE o = "-A" -> "APPEND"    [] o = "-C" -> "CHECK"      [] o = "-D" -> "DELETE"
      [] o = "-R" -> "REPLACE"   [] o = "-I" -> "INSERT"     [] o = "-L" -> "LIST"
      [] o = "-S" -> "LIST_RULES" [] o = "-F" -> "FLUSH"     [] o = "-Z" -> "ZERO"
      [] o = "-N" -> "NEW_CHAIN" [] o = "-X" -> "DELETE_CHAIN"
      [] o = "-E" -> "RENAME_CHAIN" [] o = "-P" -> "SET_POLICY"]

\* the commands that may stand together
OtherCommands(o) ==
    CASE o \in {"-L", "-S"} -> {"ZERO", "ZERO_NUM"}
      [] o = "-Z"           -> {"LIST", "LIST_RULES"}
      [] OTHER              -> {}

FlagOf == [o \in {"-s", "-d", "-p", "-j", "-g", "-i", "-o", "-c", "-n", "-x", "--line-numbers", "-f"} |->
    CASE o = "-s" -> "s" [] o = "-d" -> "d" [] o = "-p" -> "p" [] o \in {"-j", "-g"} -> "j"
      [] o = "-i" -> "i" [] o = "-o" -> "o" [] o = "-c" -> "c" [] o = "-n" -> "n" [] o = "-x" -> "x"
      [] o = "--line-numbers" -> "line" [] o = "-f" -> "f"]

PortOptions == {"--sport", "--dport"}

\* The matches that have them, and one that has not; all protocols known by name.
PortMatches == {"tcp", "udp", "sctp", "dccp"}
KnownMatches == PortMatches \cup {"limit"}
xtables_chain_protos ==
    {"tcp", "sctp", "udp", "udplite", "icmp", "icmpv6", "ipv6-icmp", "esp", "ah", "ipv6-mh", "mh", "all"}

\* options whose argument getopt takes from the next word, whatever it looks like
WithArgument == {"-A", "-C", "-D", "-R", "-I", "-N", "-E", "-P", "-t", "-s", "-d", "-p",
                 "-j", "-g", "-i", "-o", "-m", "-M", "-c"} \cup PortOptions

add_command(p, o) ==
    IF p.invert \/ p.command \ OtherCommands(o) # {} THEN Fail(p)
    ELSE [p EXCEPT !.command = @ \cup {CommandOf[o]}]

set_option(p, f) ==
    IF f \in p.options \/ (p.invert /\ f \notin Invertible) THEN Fail(p)
    ELSE [p EXCEPT !.options = @ \cup {f}]

\* mutant: DELETE stays in the set when a rule number follows
AsNumbered_both(p, c) == [p EXCEPT !.command = @ \cup {c}]

\* "command = CMD_DELETE_NUM" and "command = CMD_ZERO_NUM" overwrite
AsNumbered(p, c) == [p EXCEPT !.command = {c}]

\* parse_rulenumber and its callers
TakeNumber(p, w) ==
    LET q == IF p.last = "-D" THEN AsNumbered(p, "DELETE_NUM")
             ELSE IF p.last = "-Z" THEN AsNumbered(p, "ZERO_NUM") ELSE p
    IN IF w.num < 1 THEN Fail(p)
       ELSE [q EXCEPT !.rulenum = w.num, !.want = "none", !.invert = FALSE]

\* What a served option wants after its own argument.
WantAfter(o) ==
    CASE o \in {"-D", "-I"} -> "num?"
      [] o = "-R"           -> "num!"
      [] o = "-P"           -> "policy!"
      [] o = "-E"           -> "newname!"
      [] o = "-c"           -> "bytes!"
      [] OTHER              -> "none"

\* xtables_parse_protocol: a number of a byte or a name
BadProtocol(w) == w.text \notin xtables_chain_protos /\ w.num \notin 1 .. 255

\* sscanf: a counter is numeric; "packets,bytes" are two in one word.
IsCounter(w, k) == k \in DOMAIN w.items /\ w.items[k].kind # "name"
TwoCounters(o, w) == o = "-c" /\ Len(w.items) > 1

\* The option being served has its argument: what it wants after that.
Answered(p, w) ==
    LET next == IF TwoCounters(p.last, w) THEN "none" ELSE WantAfter(p.last)
    IN [p EXCEPT !.want = next, !.invert = IF next = "none" THEN FALSE ELSE @]

NoteChain(q, w)       == [q EXCEPT !.chain = w.text]
NoteTable(q, w)       == [q EXCEPT !.table = w.text]
NoteTarget(q, w)      == [q EXCEPT !.jumpto = w.text]
NoteGoto(q, w)        == [q EXCEPT !.jumpto = w.text, !.goto = TRUE]
NoteProtocol(q, w, m) == [q EXCEPT !.protocol = w.text, !.match = @ \cup {m}]
NoteHosts(q, w, m)    == [q EXCEPT !.hosts[q.last] = w.items, !.match = @ \cup {m}]
NoteVia(q, w, m)      == [q EXCEPT !.vias[q.last] = w.letters, !.match = @ \cup {m}]
NoteMatch(q, m)       == [q EXCEPT !.match = @ \cup {m}]

\* command_match and load_proto: one match more.  Of several with one name the last is
\* open and the others are completed, it reads their options; its own come before those
\* of all matches with other names when it is the first of its name.
LoadMatch(p, name) ==
    LET first == \A k \in DOMAIN p.loaded : p.loaded[k] # name
        again == p.serving # 0 /\ p.loaded[p.serving] = name
    IN [p EXCEPT !.loaded = Append(@, name),
                 !.serving = IF name \in PortMatches /\ (first \/ again) THEN Len(p.loaded) + 1 ELSE @]

\* find_proto: the match of a protocol, which may be given by number.
ProtocolMatch(name) ==
    CASE name = "6"   -> "tcp"
      [] name = "17"  -> "udp"
      [] name = "132" -> "sctp"
      [] OTHER        -> name

\* parse_tcp_ports, parse_sctp_ports: min > max; the others do not look.
ReversedPorts(p, w) == p.loaded[p.serving] \in {"tcp", "sctp"} /\ w.num < 0

\* What ends the program at once.
Rejected(p, w) ==
    LET o == p.last
    IN \/ o = "-N" /\ (w.kind # "word" \/ w.text \in StandardTargets)
       \/ o = "-p" /\ (BadProtocol(w) \/ (w.text = "all" /\ p.invert))
       \/ o \in {"-i", "-o"} /\ ~InterfaceReads(w.letters)
       \/ o = "-m" /\ w.text \notin KnownMatches
       \/ o = "-c" /\ ~(IsCounter(w, 1) /\ (TwoCounters(o, w) => IsCounter(w, 2)))
       \/ o \in PortOptions /\ ReversedPorts(p, w)

\* The argument w of the option being served.
TakeArgument(p, w) ==
    LET o == p.last
        q == Answered(p, w)
        m == <<o, w.text, p.invert, IF o \in PortOptions THEN p.serving ELSE 0>>
    IN IF Rejected(p, w) THEN Fail(p)
       ELSE CASE o \in {"-A", "-C", "-D", "-R", "-I", "-P", "-E", "-N"} -> NoteChain(q, w)
              [] o = "-t" -> NoteTable(q, w)
              [] o = "-p" -> NoteProtocol(q, w, m)
              [] o = "-j" -> NoteTarget(q, w)
              [] o = "-g" -> NoteGoto(q, w)
              [] o \in {"-s", "-d"} -> NoteHosts(q, w, m)
              [] o \in {"-i", "-o"} -> NoteVia(q, w, m)
              [] o = "-m" -> LoadMatch(q, w.text)
              [] o \in PortOptions -> NoteMatch(q, m)
              [] OTHER -> q

\* A word read with argv[optind++], only if it starts with neither '-' nor '!'.
TakeWord(p, w) ==
    CASE p.want \in {"num?", "num!"} -> TakeNumber(p, w)
      [] p.want = "policy!"  -> [p EXCEPT !.policy = w.text, !.want = "none", !.invert = FALSE]
      [] p.want = "newname!" -> [p EXCEPT !.newname = w.text, !.want = "none", !.invert = FALSE]
      [] p.want = "bytes!"   -> IF IsCounter(w, 1) THEN [p EXCEPT !.want = "none", !.invert = FALSE]
                                ELSE Fail(p)
      [] p.want = "chain?num" -> [p EXCEPT !.chain = w.text, !.want = "num?"]
      [] p.want = "chain?"   -> [p EXCEPT !.chain = w.text, !.want = "none", !.invert = FALSE]

\* The word that was wanted is not there: -R, -P, -E and -c fail, -I means rule 1.
NoWord(p) ==
    IF p.want \in {"num!", "policy!", "newname!", "bytes!"} THEN Fail(p)
    ELSE [p EXCEPT !.rulenum = IF p.want = "num?" /\ p.last = "-I" THEN 1 ELSE @,
                   !.want = "none", !.invert = IF p.want = "none" THEN @ ELSE FALSE]

\* The words a command may take that is not followed by a required one.
OptionalWords(o) == IF o \in {"-F", "-X"} THEN "chain?" ELSE "chain?num"

\* Option o is being served and awaits next; or it is complete, after a flag was set.
Awaiting(p, o, next) == [p EXCEPT !.last = o, !.want = next]
Completed(p, o) == [p EXCEPT !.last = o, !.invert = FALSE]
SetFlag(p, o, f) == LET q == set_option(p, f) IN IF q.exit THEN q ELSE Completed(q, o)

\* command_default: if no match reads port options, load_proto brings in that of the
\* protocol, which -p has named before.
WithPortMatch(p) ==
    IF p.serving = 0 /\ ProtocolMatch(p.protocol) \in PortMatches
    THEN LoadMatch(p, ProtocolMatch(p.protocol)) ELSE p

\* No match reads the option, or the one that does has read it before.
Misplaced(p, o) == p.serving = 0 \/ \E m \in p.match : m[1] = o /\ m[4] = p.serving

TakePorts(p, o) ==
    LET q == WithPortMatch(p)
    IN IF Misplaced(q, o) THEN Fail(p) ELSE Awaiting(q, o, o)

\* getopt returns option o.
TakeOption(p, o) ==
    CASE o \in {"-A", "-C", "-D", "-R", "-I", "-N", "-E", "-P"} -> add_command(Awaiting(p, o, o), o)
      [] o \in {"-L", "-S", "-Z", "-F", "-X"} -> add_command(Awaiting(p, o, OptionalWords(o)), o)
      [] o \in {"-s", "-d", "-p", "-j", "-g", "-i", "-o", "-c"} -> set_option(Awaiting(p, o, o), FlagOf[o])
      [] o \in {"-n", "-x", "-f", "--line-numbers"} -> SetFlag(p, o, FlagOf[o])
      [] o = "-v" -> IF "v" \in p.options THEN Completed(p, o) ELSE SetFlag(p, o, "v")
      [] o \in {"-t", "-m"} -> IF p.invert THEN Fail(p) ELSE Awaiting(p, o, o)
      [] o = "-M" -> Awaiting(p, o, o)
      [] o \in {"-w", "-4"} -> Completed(p, o)
      [] o \in PortOptions -> TakePorts(p, o)
      [] OTHER -> Fail(p)       \* -h, -V, -6, unknown options

\* A word that getopt does not see, because the option before it reads it.
IsValue(p, w) == p.want \in WithArgument \/ (p.want # "none" /\ w.kind = "word")

TakeValue(p, w) == IF p.want \in WithArgument THEN TakeArgument(p, w) ELSE TakeWord(p, w)

\* A word that is no option: "!", or Bad argument.
NonOption(p, w) == IF w.kind = "bang" /\ ~p.invert THEN [p EXCEPT !.invert = TRUE] ELSE Fail(p)

\* One word of the command line.
Read(p, w) ==
    LET q == NoWord(p)
    IN CASE p.exit                      -> p
         [] ~p.exit /\ IsValue(p, w)    -> TakeValue(p, w)
         [] ~p.exit /\ ~IsValue(p, w)   -> IF q.exit THEN q
                                           ELSE IF w.kind = "opt" THEN TakeOption(q, w.text)
                                           ELSE NonOption(q, w)

-----------------------------------------------------------------------------
(* The tests after the loop.                                               *)

\* mutant: the table of illegal options is not consulted
generic_opt_check_off(p, table) == TRUE

\* An option is legal if any command of the line allows it.
generic_opt_check(p, table) ==
    \A f \in p.options : \E c \in p.command : f \in table[c]

NatDrop(p) == p.table = "nat" /\ (p.policy = "DROP" \/ p.jumpto = "DROP")

\* -o has no meaning for an incoming packet, -i none for an outgoing one.
WrongInterface(p) ==
    \/ p.chain \in {"PREROUTING", "INPUT"} /\ "o" \in p.options
    \/ p.chain \in {"POSTROUTING", "OUTPUT"} /\ "i" \in p.options

\* A rule has one target, which must exist: a verdict, or a chain, and after -g a chain.
BadRule(p) ==
    LET targets == BuiltinChains[p.table] \cup IF p.goto THEN {} ELSE StandardTargets \cup {None}
    IN /\ p.command \cap RuleCommands # {}
       /\ WrongInterface(p) \/ p.jumpto \notin targets

Inverted(p, o) == \E x \in p.match : x[1] = o /\ x[3]

\* The addresses of -s and -d, those of 0.0.0.0/0 or ::0/0 when the option is not given.
Everything == [addr |-> 0, mask |-> 0]

WithAddresses(family, p) ==
    IF p.exit \/ \E o \in DOMAIN p.hosts : ~ListReads(family, p.hosts[o]) THEN Fail(p)
    ELSE [p EXCEPT !.addrs = [o \in DOMAIN p.hosts |->
            IF p.hosts[o] = <<>> THEN <<Everything>>
            ELSE xtables_ipparse_multiple(family, p.hosts[o])]]

\* mutant: a list may be negated
BadAddresses_negated(p) ==
    p.command = {"REPLACE"} /\ \E o \in DOMAIN p.addrs : Len(p.addrs[o]) # 1

\* Several addresses cannot be negated, and cannot replace a rule.
BadAddresses(p) ==
    /\ \E o \in DOMAIN p.addrs : Len(p.addrs[o]) > 1
    /\ p.command = {"REPLACE"} \/ \E o \in DOMAIN p.addrs : Inverted(p, o)

\* The word that is still pending at the end of the line.
LastWord(p) == IF p.want \in WithArgument THEN Fail(p) ELSE NoWord(p)

\* The end of the line: the pending word, the tests of lines 1687-1763, and those of a
\* rule.
Finish(p) ==
    LET q == WithAddresses(4, LastWord(p))
    IN IF \/ q.exit
          \/ NatDrop(q)
          \/ q.command = {}
          \/ q.invert
          \/ BadAddresses(q)
          \/ ~generic_opt_check(q, commands_v_options)
          \/ q.chain \in LongNames
          \/ q.table \notin Tables
          \/ BadRule(q)
       THEN Fail(q)
       ELSE q

\* The getopt loop over a whole argument vector, and do_command4's reading of it.
ReadAll(argv) ==
    LET upTo[n \in 0 .. Len(argv)] == IF n = 0 THEN Start ELSE Read(upTo[n - 1], argv[n])
    IN upTo[Len(argv)]

do_command4(argv) == Finish(ReadAll(argv))
=============================================================================
