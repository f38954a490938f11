------------------------- MODULE CommandLineProofs --------------------------
(***************************************************************************)
(* What the final switches of do_command4 and do_command6 rely on, proved  *)
(* for lines of any words and any length.                                  *)
(***************************************************************************)
EXTENDS CommandLine, SequenceTheorems, TLAPS

-----------------------------------------------------------------------------
(* The parser between two words.                                           *)

IsParser(p) ==
    p = [command |-> p.command, options |-> p.options, chain |-> p.chain, rulenum |-> p.rulenum,
         policy |-> p.policy, newname |-> p.newname, jumpto |-> p.jumpto, goto |-> p.goto,
         table |-> p.table, protocol |-> p.protocol, match |-> p.match, loaded |-> p.loaded,
         serving |-> p.serving, invert |-> p.invert,
         hosts |-> p.hosts, vias |-> p.vias, addrs |-> p.addrs,
         want |-> p.want, last |-> p.last, exit |-> p.exit]

CommandNames == DOMAIN commands_v_options

\* The sets of commands a line can hold.
Combined(C) ==
    \/ C = {}
    \/ \E c \in CommandNames : C = {c}
    \/ \E c \in {"LIST", "LIST_RULES"}, z \in {"ZERO", "ZERO_NUM"} : C = {c, z}

\* Options with a chain as argument, and those of a rule with what set_option notes.
ChainOptions == {"-A", "-C", "-D", "-R", "-I", "-N", "-P", "-E"}
RuleFlag == [o \in {"-s", "-d", "-p", "-j", "-g", "-i", "-o"} |->
    CASE o = "-s" -> "s" [] o = "-d" -> "d" [] o \in {"-j", "-g"} -> "j"
      [] o = "-i" -> "i" [] o = "-o" -> "o" [] OTHER -> "p"]

WordsAwaited == {"num?", "num!", "policy!", "newname!", "bytes!", "chain?num", "chain?"}

\* What is awaited is an option's argument, which the option reads, or a word.
Awaits(p) ==
    /\ p.want \in {"none"} \cup WithArgument \cup WordsAwaited
    /\ p.want \in WithArgument => p.last = p.want
    /\ p.want \in {"num?", "num!"} => p.chain # None

\* A command that needs a number or a chain has it, or awaits it.
Numbered(p) ==
    /\ p.rulenum \in Nat
    /\ "REPLACE" \in p.command => p.rulenum >= 1 \/ p.want \in {"-R", "num!"}
    /\ "INSERT" \in p.command => p.rulenum >= 1 \/ p.want = "-I" \/ (p.want = "num?" /\ p.last = "-I")
    /\ p.command \cap {"DELETE_NUM", "ZERO_NUM"} # {} => p.rulenum >= 1

Chained(p) ==
    p.command \cap (RuleCommands \cup
        {"DELETE_NUM", "ZERO_NUM", "NEW_CHAIN", "RENAME_CHAIN", "SET_POLICY"}) # {}
    => p.chain # None \/ p.want \in ChainOptions

\* Nothing of a rule is read that set_option has not noted, but the options of matches.
Noted(p) ==
    /\ p.want \in DOMAIN RuleFlag => RuleFlag[p.want] \in p.options
    /\ p.jumpto # None => "j" \in p.options
    /\ \A m \in p.match : m[1] \in PortOptions \/ (m[1] \in DOMAIN RuleFlag /\ RuleFlag[m[1]] \in p.options)

ParserInv(p) ==
    /\ IsParser(p) /\ p.exit \in BOOLEAN
    /\ Combined(p.command)
    /\ Awaits(p) /\ Numbered(p) /\ Chained(p) /\ Noted(p)

\* What the switch relies on.
Complete(p) ==
    /\ p.command # {} /\ Combined(p.command)
    /\ p.command \cap {"REPLACE", "INSERT", "DELETE_NUM", "ZERO_NUM"} # {} => p.rulenum >= 1
    /\ p.command \cap (RuleCommands \cup
           {"DELETE_NUM", "ZERO_NUM", "NEW_CHAIN", "RENAME_CHAIN", "SET_POLICY"}) # {} => p.chain # None
    /\ p.command \cap RuleCommands = {} => p.jumpto = None /\ \A m \in p.match : m[1] \in PortOptions

\* The words of the lines and requests that are given.
LineWords == UNION {ToSet(words) : words \in Lines \cup {to_argv(h) : h \in Served}}

IInv ==
    /\ ParserInv(line)
    /\ argv \in Seq(LineWords)
    /\ done => argv = <<>>
    /\ done /\ ~line.exit => Complete(line)

-----------------------------------------------------------------------------
(* The tables.                                                             *)

LEMMA FlagValues ==
    /\ FlagOf["-s"] = "s" /\ FlagOf["-d"] = "d" /\ FlagOf["-p"] = "p" /\ FlagOf["-j"] = "j"
    /\ FlagOf["-g"] = "j" /\ FlagOf["-i"] = "i" /\ FlagOf["-o"] = "o"
BY DEF FlagOf

LEMMA RuleFlagValues ==
    /\ RuleFlag["-s"] = "s" /\ RuleFlag["-d"] = "d" /\ RuleFlag["-p"] = "p" /\ RuleFlag["-j"] = "j"
    /\ RuleFlag["-g"] = "j" /\ RuleFlag["-i"] = "i" /\ RuleFlag["-o"] = "o"
    /\ DOMAIN RuleFlag = {"-s", "-d", "-p", "-j", "-g", "-i", "-o"}
BY DEF RuleFlag

LEMMA CommandValues ==
    /\ CommandOf["-A"] = "APPEND" /\ CommandOf["-C"] = "CHECK" /\ CommandOf["-D"] = "DELETE"
    /\ CommandOf["-R"] = "REPLACE" /\ CommandOf["-I"] = "INSERT" /\ CommandOf["-L"] = "LIST"
    /\ CommandOf["-S"] = "LIST_RULES" /\ CommandOf["-F"] = "FLUSH" /\ CommandOf["-Z"] = "ZERO"
    /\ CommandOf["-N"] = "NEW_CHAIN" /\ CommandOf["-X"] = "DELETE_CHAIN"
    /\ CommandOf["-E"] = "RENAME_CHAIN" /\ CommandOf["-P"] = "SET_POLICY"
BY DEF CommandOf, CommandOptions

LEMMA CommandSet ==
    CommandNames = {"INSERT", "DELETE", "DELETE_NUM", "REPLACE", "APPEND", "LIST", "FLUSH", "ZERO",
                    "ZERO_NUM", "NEW_CHAIN", "DELETE_CHAIN", "SET_POLICY", "RENAME_CHAIN",
                    "LIST_RULES", "CHECK"}
BY DEF CommandNames, commands_v_options

\* The options of a rule are legal for no other command.
LEMMA RuleOptionsLegal ==
    ASSUME NEW c \in CommandNames, NEW f \in {"s", "d", "p", "j", "i", "o"}, f \in commands_v_options[c]
    PROVE  c \in RuleCommands
BY CommandSet DEF commands_v_options, RuleOptions, RuleCommands

-----------------------------------------------------------------------------
(* Reading a word.                                                         *)

LEMMA NothingAwaited ==
    /\ "none" \notin WithArgument /\ "none" \notin DOMAIN RuleFlag
    /\ "none" \notin {"num?", "num!"} \cup ChainOptions
BY RuleFlagValues DEF WithArgument, PortOptions, ChainOptions

LEMMA BlankKeeps ==
    ASSUME NEW p, IsParser(p), p.exit \in BOOLEAN, p.command = {}, p.match = {}, p.want = "none",
           p.jumpto = None, p.rulenum = 0
    PROVE  ParserInv(p)
<1>1. Combined(p.command)
  BY DEF Combined
<1>2. Awaits(p)
  BY NothingAwaited DEF Awaits
<1>3. Numbered(p)
  BY DEF Numbered
<1>4. Chained(p)
  BY DEF Chained
<1>5. Noted(p)
  BY NothingAwaited DEF Noted
<1> QED
  BY <1>1, <1>2, <1>3, <1>4, <1>5 DEF ParserInv

LEMMA ParserStart == ParserInv(Start)
<1>1. PICK q : q = Start
  OBVIOUS
<1>2. /\ IsParser(q) /\ q.exit = FALSE /\ q.command = {} /\ q.match = {} /\ q.want = "none"
      /\ q.jumpto = None /\ q.rulenum = 0
  BY <1>1 DEF Start, IsParser
<1>3. q.exit \in BOOLEAN
  BY <1>2
<1> QED
  BY <1>1, <1>2, <1>3, BlankKeeps

LEMMA ParserFail == ASSUME NEW p PROVE ParserInv(Fail(p)) /\ Fail(p).exit = TRUE /\ Fail(p).want = "none"
<1>1. PICK q : q = Fail(p)
  OBVIOUS
<1>2. /\ IsParser(q) /\ q.exit = TRUE /\ q.command = {} /\ q.match = {} /\ q.want = "none"
      /\ q.jumpto = None /\ q.rulenum = 0
  BY <1>1 DEF Fail, Start, IsParser
<1>3. q.exit \in BOOLEAN
  BY <1>2
<1> QED
  BY <1>1, <1>2, <1>3, BlankKeeps

LEMMA NoWordKeeps ==
    ASSUME NEW p, ParserInv(p), p.want \notin WithArgument
    PROVE  ParserInv(NoWord(p)) /\ NoWord(p).want = "none"
<1>1. CASE p.want \in {"num!", "policy!", "newname!", "bytes!"}
  BY <1>1, ParserFail DEF NoWord
<1>2. CASE p.want \notin {"num!", "policy!", "newname!", "bytes!"}
  <2>1. PICK q : q = NoWord(p)
    OBVIOUS
  <2>2. /\ IsParser(q) /\ q.exit = p.exit /\ q.command = p.command /\ q.options = p.options
        /\ q.chain = p.chain /\ q.jumpto = p.jumpto
        /\ q.match = p.match /\ q.want = "none"
        /\ q.rulenum = IF p.want = "num?" /\ p.last = "-I" THEN 1 ELSE p.rulenum
    BY <1>2, <2>1 DEF NoWord, ParserInv, IsParser
  <2>3. q.want \notin WithArgument \cup {"num?", "num!"} \cup DOMAIN RuleFlag \cup ChainOptions
    BY <2>2, RuleFlagValues DEF WithArgument, PortOptions, ChainOptions
  <2>4. Awaits(q) /\ Noted(q)
    BY <2>2, <2>3 DEF Awaits, Noted, ParserInv
  <2>5. Numbered(q)
    BY <1>2, <2>2 DEF Numbered, ParserInv, WithArgument
  <2>6. Chained(q)
    BY <2>2 DEF Chained, ParserInv, WithArgument, ChainOptions
  <2> QED
    BY <2>1, <2>2, <2>4, <2>5, <2>6 DEF ParserInv
<1> QED
  BY <1>1, <1>2

\* An option has read its argument.
LEMMA ServedKeeps ==
    ASSUME NEW p, ParserInv(p), NEW o \in WithArgument, p.want = o,
           NEW r, IsParser(r), r.exit = p.exit, r.command = p.command, r.options = p.options,
           r.rulenum = p.rulenum, r.last = o,
           r.want = WantAfter(o) \/ (r.want = "none" /\ o = "-c"),
           o \in ChainOptions => r.chain # None, o \notin ChainOptions => r.chain = p.chain,
           r.jumpto = p.jumpto \/ o \in {"-j", "-g"},
           \A m \in r.match : m \in p.match \/ (m[1] = o /\ o \in DOMAIN RuleFlag \cup PortOptions)
    PROVE  ParserInv(r)
<1>1. /\ r.want \in {"none", "num?", "num!", "policy!", "newname!", "bytes!"}
      /\ r.want = "num?" <=> o \in {"-D", "-I"}
      /\ r.want = "num!" <=> o = "-R"
  BY DEF WantAfter
<1>2. r.want \notin WithArgument \cup DOMAIN RuleFlag \cup ChainOptions
  BY <1>1, RuleFlagValues DEF WithArgument, PortOptions, ChainOptions
<1>3. Awaits(r)
  BY <1>1, <1>2 DEF Awaits, WordsAwaited, ChainOptions
<1>4. Numbered(r)
  <2>1. o \notin {"num!", "num?"}
    BY DEF WithArgument, PortOptions
  <2> QED
    BY <1>1, <2>1 DEF Numbered, ParserInv
<1>5. Chained(r)
  BY <1>1 DEF Chained, ParserInv
<1>6. Noted(r)
  <2>1. o \in DOMAIN RuleFlag => RuleFlag[o] \in p.options
    BY DEF Noted, ParserInv
  <2>3. r.jumpto # None => "j" \in p.options
    BY <2>1, RuleFlagValues DEF Noted, ParserInv
  <2>4. ASSUME NEW m \in r.match
        PROVE  m[1] \in PortOptions \/ (m[1] \in DOMAIN RuleFlag /\ RuleFlag[m[1]] \in p.options)
    <3>1. CASE m \in p.match
      BY <3>1 DEF Noted, ParserInv
    <3>2. CASE m[1] = o /\ o \in DOMAIN RuleFlag \cup PortOptions
      BY <3>2, <2>1
    <3> QED
      BY <3>1, <3>2
  <2> QED
    BY <1>2, <2>3, <2>4 DEF Noted
<1> QED
  BY <1>3, <1>4, <1>5, <1>6 DEF ParserInv

\* Loading a match changes which matches there are and which of them reads port options.
LEMMA LoadKeeps ==
    ASSUME NEW p, IsParser(p), NEW name, NEW r, r = LoadMatch(p, name)
    PROVE  /\ IsParser(r) /\ r.exit = p.exit /\ r.command = p.command /\ r.options = p.options
           /\ r.rulenum = p.rulenum /\ r.last = p.last /\ r.want = p.want /\ r.chain = p.chain
           /\ r.jumpto = p.jumpto /\ r.match = p.match
<1>1. PICK x, y : r = [p EXCEPT !.loaded = x, !.serving = y]
  BY Zenon DEF LoadMatch
<1> QED
  BY <1>1 DEF IsParser

\* What an option's argument may leave of a parser: m is noted, or nothing.
Serves(c, o, m, r) ==
    /\ IsParser(r) /\ r.exit = c.exit /\ r.command = c.command /\ r.options = c.options
    /\ r.rulenum = c.rulenum /\ r.last = c.last /\ r.want = c.want
    /\ o \in ChainOptions => r.chain # None
    /\ o \notin ChainOptions => r.chain = c.chain
    /\ r.jumpto = c.jumpto \/ o \in {"-j", "-g"}
    /\ r.match = c.match \/ (r.match = c.match \cup {m} /\ o \in DOMAIN RuleFlag \cup PortOptions)

LEMMA ArgumentServes ==
    ASSUME NEW c, IsParser(c), NEW o, NEW w, IsArgument(w), NEW m
    PROVE  /\ o \in ChainOptions => Serves(c, o, m, NoteChain(c, w))
           /\ o = "-t" => Serves(c, o, m, NoteTable(c, w))
           /\ o = "-p" => Serves(c, o, m, NoteProtocol(c, w, m))
           /\ o = "-j" => Serves(c, o, m, NoteTarget(c, w))
           /\ o = "-g" => Serves(c, o, m, NoteGoto(c, w))
           /\ o \in {"-s", "-d"} => Serves(c, o, m, NoteHosts(c, w, m))
           /\ o \in {"-i", "-o"} => Serves(c, o, m, NoteVia(c, w, m))
           /\ o = "-m" => Serves(c, o, m, LoadMatch(c, w.text))
           /\ o \in PortOptions => Serves(c, o, m, NoteMatch(c, m))
           /\ o \notin ChainOptions => Serves(c, o, m, c)
<1>1. o \in ChainOptions => Serves(c, o, m, NoteChain(c, w))
  BY DEF Serves, NoteChain, IsParser, IsArgument
<1>2. o = "-t" => Serves(c, o, m, NoteTable(c, w))
  BY DEF Serves, NoteTable, IsParser, ChainOptions
<1>3. o = "-p" => Serves(c, o, m, NoteProtocol(c, w, m))
  <2>1. PICK r : r = NoteProtocol(c, w, m)
    OBVIOUS
  <2>2. /\ IsParser(r) /\ r.exit = c.exit /\ r.command = c.command /\ r.options = c.options
        /\ r.rulenum = c.rulenum /\ r.last = c.last /\ r.want = c.want /\ r.chain = c.chain
        /\ r.jumpto = c.jumpto /\ r.match = c.match \cup {m}
    BY <2>1 DEF NoteProtocol, IsParser
  <2>3. o = "-p" => o \notin ChainOptions /\ o \in DOMAIN RuleFlag
    BY RuleFlagValues DEF ChainOptions
  <2> QED
    BY <2>1, <2>2, <2>3 DEF Serves
<1>4. /\ o = "-j" => Serves(c, o, m, NoteTarget(c, w))
      /\ o = "-g" => Serves(c, o, m, NoteGoto(c, w))
  <2>1. PICK r, g : r = NoteTarget(c, w) /\ g = NoteGoto(c, w)
    OBVIOUS
  <2>2. ASSUME NEW t \in {r, g}
        PROVE  /\ IsParser(t) /\ t.exit = c.exit /\ t.command = c.command /\ t.options = c.options
               /\ t.rulenum = c.rulenum /\ t.last = c.last /\ t.want = c.want /\ t.chain = c.chain
               /\ t.match = c.match
    BY <2>1, <2>2 DEF NoteTarget, NoteGoto, IsParser
  <2>3. o \in {"-j", "-g"} => o \notin ChainOptions
    BY DEF ChainOptions
  <2>4. o \in {"-j", "-g"} => Serves(c, o, m, r) /\ Serves(c, o, m, g)
    BY <2>2, <2>3 DEF Serves
  <2> QED
    BY <2>1, <2>4
<1>5. o \in {"-s", "-d"} => Serves(c, o, m, NoteHosts(c, w, m))
  <2>1. PICK r : r = NoteHosts(c, w, m)
    OBVIOUS
  <2>2. /\ IsParser(r) /\ r.exit = c.exit /\ r.command = c.command /\ r.options = c.options
        /\ r.rulenum = c.rulenum /\ r.last = c.last /\ r.want = c.want /\ r.chain = c.chain
        /\ r.jumpto = c.jumpto /\ r.match = c.match \cup {m}
    BY <2>1 DEF NoteHosts, IsParser
  <2>3. o \in {"-s", "-d"} => o \notin ChainOptions /\ o \in DOMAIN RuleFlag
    BY RuleFlagValues DEF ChainOptions
  <2> QED
    BY <2>1, <2>2, <2>3 DEF Serves
<1>6. o \in {"-i", "-o"} => Serves(c, o, m, NoteVia(c, w, m))
  <2>1. PICK r : r = NoteVia(c, w, m)
    OBVIOUS
  <2>2. /\ IsParser(r) /\ r.exit = c.exit /\ r.command = c.command /\ r.options = c.options
        /\ r.rulenum = c.rulenum /\ r.last = c.last /\ r.want = c.want /\ r.chain = c.chain
        /\ r.jumpto = c.jumpto /\ r.match = c.match \cup {m}
    BY <2>1 DEF NoteVia, IsParser
  <2>3. o \in {"-i", "-o"} => o \notin ChainOptions /\ o \in DOMAIN RuleFlag
    BY RuleFlagValues DEF ChainOptions
  <2> QED
    BY <2>1, <2>2, <2>3 DEF Serves
<1>7. /\ o = "-m" => Serves(c, o, m, LoadMatch(c, w.text))
      /\ o \in PortOptions => Serves(c, o, m, NoteMatch(c, m))
  <2>1. PICK r : r = LoadMatch(c, w.text)
    OBVIOUS
  <2>2. /\ IsParser(r) /\ r.exit = c.exit /\ r.command = c.command /\ r.options = c.options
        /\ r.rulenum = c.rulenum /\ r.last = c.last /\ r.want = c.want /\ r.chain = c.chain
        /\ r.jumpto = c.jumpto /\ r.match = c.match
    BY <2>1, LoadKeeps
  <2>3. o = "-m" => Serves(c, o, m, r)
    BY <2>2 DEF Serves, ChainOptions
  <2>4. o \in PortOptions => Serves(c, o, m, NoteMatch(c, m))
    BY RuleFlagValues DEF Serves, NoteMatch, IsParser, ChainOptions, PortOptions
  <2> QED
    BY <2>1, <2>3, <2>4
<1>8. o \notin ChainOptions => Serves(c, o, m, c)
  BY DEF Serves
<1> QED
  BY <1>1, <1>2, <1>3, <1>4, <1>5, <1>6, <1>7, <1>8

LEMMA TakeArgumentKeeps ==
    ASSUME NEW p, ParserInv(p), p.want \in WithArgument, NEW w, IsArgument(w)
    PROVE  ParserInv(TakeArgument(p, w))
<1>1. p.want = p.last /\ IsParser(p)
  BY DEF Awaits, ParserInv
<1>2. PICK o : o = p.last
  OBVIOUS
<1>3. PICK m : m = <<o, w.text, p.invert, IF o \in PortOptions THEN p.serving ELSE 0>>
  OBVIOUS
<1>4. PICK c : c = Answered(p, w)
  OBVIOUS
<1>5. /\ IsParser(c) /\ c.exit = p.exit /\ c.command = p.command /\ c.options = p.options
      /\ c.rulenum = p.rulenum /\ c.last = o /\ c.chain = p.chain
      /\ c.want = WantAfter(o) \/ (c.want = "none" /\ o = "-c")
      /\ c.jumpto = p.jumpto /\ c.match = p.match
  <2>1. PICK n, i : c = [p EXCEPT !.want = n, !.invert = i]
                    /\ (n = WantAfter(o) \/ (n = "none" /\ o = "-c"))
    BY <1>2, <1>4 DEF Answered, TwoCounters
  <2> QED
    BY <1>1, <1>2, <2>1 DEF IsParser
<1>6. ASSUME NEW r, Serves(c, o, m, r)
      PROVE  ParserInv(r)
  <2>1. \A x \in r.match : x \in p.match \/ (x[1] = o /\ o \in DOMAIN RuleFlag \cup PortOptions)
    BY <1>3, <1>5, <1>6 DEF Serves
  <2>2. /\ IsParser(r) /\ r.exit = p.exit /\ r.command = p.command /\ r.options = p.options
        /\ r.rulenum = p.rulenum /\ r.last = o
        /\ r.want = WantAfter(o) \/ (r.want = "none" /\ o = "-c")
        /\ o \in ChainOptions => r.chain # None
        /\ o \notin ChainOptions => r.chain = p.chain
        /\ r.jumpto = p.jumpto \/ o \in {"-j", "-g"}
    BY <1>5, <1>6 DEF Serves
  <2> QED
    BY <1>1, <1>2, <2>1, <2>2, ServedKeeps
<1>7. CASE Rejected(p, w)
  BY <1>7, ParserFail DEF TakeArgument
<1>8. CASE ~Rejected(p, w)
  <2>1. TakeArgument(p, w) =
        CASE o \in {"-A", "-C", "-D", "-R", "-I", "-P", "-E", "-N"} -> NoteChain(c, w)
          [] o = "-t" -> NoteTable(c, w)
          [] o = "-p" -> NoteProtocol(c, w, m)
          [] o = "-j" -> NoteTarget(c, w)
          [] o = "-g" -> NoteGoto(c, w)
          [] o \in {"-s", "-d"} -> NoteHosts(c, w, m)
          [] o \in {"-i", "-o"} -> NoteVia(c, w, m)
          [] o = "-m" -> LoadMatch(c, w.text)
          [] o \in PortOptions -> NoteMatch(c, m)
          [] OTHER -> c
    BY <1>2, <1>3, <1>4, <1>8 DEF TakeArgument
  <2>2. Serves(c, o, m, TakeArgument(p, w))
    BY <1>5, <2>1, ArgumentServes DEF ChainOptions, PortOptions
  <2> QED
    BY <1>6, <2>2
<1> QED
  BY <1>7, <1>8

LEMMA TakeNumberKeeps ==
    ASSUME NEW p, ParserInv(p), p.want \in {"num?", "num!"}, NEW w, IsArgument(w)
    PROVE  ParserInv(TakeNumber(p, w))
<1>1. CASE w.num < 1
  BY <1>1, ParserFail DEF TakeNumber
<1>2. CASE ~(w.num < 1)
  <2>1. w.num \in Nat /\ w.num >= 1
    BY <1>2 DEF IsArgument
  <2>2. PICK r : r = TakeNumber(p, w)
    OBVIOUS
  <2>3. /\ IsParser(r) /\ r.exit = p.exit /\ r.options = p.options /\ r.chain = p.chain
        /\ r.jumpto = p.jumpto /\ r.match = p.match
        /\ r.want = "none" /\ r.rulenum = w.num
        /\ r.command = p.command \/ r.command = {"DELETE_NUM"} \/ r.command = {"ZERO_NUM"}
    BY <1>2, <2>2 DEF TakeNumber, AsNumbered, ParserInv, IsParser
  <2>4. Combined(r.command)
    BY <2>3, CommandSet DEF Combined, ParserInv
  <2>5. Awaits(r)
    BY <2>3, NothingAwaited DEF Awaits
  <2>6. Numbered(r)
    BY <2>1, <2>3 DEF Numbered
  <2>7. Chained(r)
    BY <2>3 DEF Chained, Awaits, ParserInv
  <2>8. Noted(r)
    BY <2>3, NothingAwaited DEF Noted, ParserInv
  <2> QED
    BY <2>2, <2>3, <2>4, <2>5, <2>6, <2>7, <2>8 DEF ParserInv
<1> QED
  BY <1>1, <1>2

\* A word is read that is no number: the chain may be known after it.
LEMMA WordKeeps ==
    ASSUME NEW p, ParserInv(p), p.want \in {"policy!", "newname!", "bytes!", "chain?num", "chain?"},
           NEW r, IsParser(r), r.exit = p.exit, r.command = p.command, r.options = p.options,
           r.rulenum = p.rulenum, r.jumpto = p.jumpto, r.match = p.match,
           r.chain # None \/ (r.chain = p.chain /\ r.want = "none"),
           r.want = "none" \/ (r.want = "num?" /\ r.chain # None)
    PROVE  ParserInv(r)
<1>1. r.want \notin WithArgument \cup DOMAIN RuleFlag \cup ChainOptions
  BY RuleFlagValues DEF WithArgument, PortOptions, ChainOptions
<1>2. p.want \notin ChainOptions
  BY DEF ChainOptions
<1>3. Awaits(r)
  BY <1>1 DEF Awaits, WordsAwaited
<1>4. Numbered(r)
  BY DEF Numbered, ParserInv
<1>5. Chained(r)
  BY <1>1, <1>2 DEF Chained, ParserInv
<1>6. Noted(r)
  BY <1>1 DEF Noted, ParserInv
<1> QED
  BY <1>3, <1>4, <1>5, <1>6 DEF ParserInv

LEMMA TakeWordKeeps ==
    ASSUME NEW p, ParserInv(p), p.want \notin WithArgument, p.want # "none", NEW w, IsArgument(w)
    PROVE  ParserInv(TakeWord(p, w))
<1>1. p.want \in {"num?", "num!"} \cup {"policy!", "newname!", "bytes!", "chain?num", "chain?"}
  BY DEF ParserInv, Awaits, WordsAwaited
<1>2. CASE p.want \in {"num?", "num!"}
  <2>1. TakeWord(p, w) = TakeNumber(p, w)
    BY <1>2 DEF TakeWord
  <2> QED
    BY <1>2, <2>1, TakeNumberKeeps
<1>3. CASE p.want \in {"policy!", "newname!", "bytes!", "chain?num", "chain?"}
  <2>1. PICK r : r = TakeWord(p, w)
    OBVIOUS
  <2>2. IsParser(p) /\ w.text # None
    BY DEF ParserInv, IsArgument
  <2>3. CASE r = [p EXCEPT !.policy = w.text, !.want = "none", !.invert = FALSE]
    <3>1. /\ IsParser(r) /\ r.exit = p.exit /\ r.command = p.command /\ r.options = p.options
          /\ r.rulenum = p.rulenum /\ r.jumpto = p.jumpto
          /\ r.match = p.match /\ r.chain = p.chain /\ r.want = "none"
      BY <2>2, <2>3 DEF IsParser
    <3> QED
      BY <1>3, <2>1, <3>1, WordKeeps
  <2>4. CASE r = [p EXCEPT !.newname = w.text, !.want = "none", !.invert = FALSE]
    <3>1. /\ IsParser(r) /\ r.exit = p.exit /\ r.command = p.command /\ r.options = p.options
          /\ r.rulenum = p.rulenum /\ r.jumpto = p.jumpto
          /\ r.match = p.match /\ r.chain = p.chain /\ r.want = "none"
      BY <2>2, <2>4 DEF IsParser
    <3> QED
      BY <1>3, <2>1, <3>1, WordKeeps
  <2>8. CASE r = Fail(p)
    BY <2>1, <2>8, ParserFail
  <2>5. CASE r = [p EXCEPT !.want = "none", !.invert = FALSE]
    <3>1. /\ IsParser(r) /\ r.exit = p.exit /\ r.command = p.command /\ r.options = p.options
          /\ r.rulenum = p.rulenum /\ r.jumpto = p.jumpto
          /\ r.match = p.match /\ r.chain = p.chain /\ r.want = "none"
      BY <2>2, <2>5 DEF IsParser
    <3> QED
      BY <1>3, <2>1, <3>1, WordKeeps
  <2>6. CASE r = [p EXCEPT !.chain = w.text, !.want = "num?"]
    <3>1. /\ IsParser(r) /\ r.exit = p.exit /\ r.command = p.command /\ r.options = p.options
          /\ r.rulenum = p.rulenum /\ r.jumpto = p.jumpto
          /\ r.match = p.match /\ r.chain = w.text /\ r.want = "num?"
      BY <2>2, <2>6 DEF IsParser
    <3> QED
      BY <1>3, <2>1, <2>2, <3>1, WordKeeps
  <2>7. CASE r = [p EXCEPT !.chain = w.text, !.want = "none", !.invert = FALSE]
    <3>1. /\ IsParser(r) /\ r.exit = p.exit /\ r.command = p.command /\ r.options = p.options
          /\ r.rulenum = p.rulenum /\ r.jumpto = p.jumpto
          /\ r.match = p.match /\ r.chain = w.text /\ r.want = "none"
      BY <2>2, <2>7 DEF IsParser
    <3> QED
      BY <1>3, <2>1, <2>2, <3>1, WordKeeps
  <2> QED
    BY <1>3, <2>1, <2>3, <2>4, <2>5, <2>6, <2>7, <2>8 DEF TakeWord
<1> QED
  BY <1>1, <1>2, <1>3

-----------------------------------------------------------------------------
(* Options.                                                                *)

\* The command line with one command more, and what that awaits.
LEMMA AddCommandKeeps ==
    ASSUME NEW p, ParserInv(p), p.want = "none", NEW o \in CommandOptions,
           NEW x, x = IF o \in {"-L", "-S", "-Z", "-F", "-X"} THEN OptionalWords(o) ELSE o,
           NEW q, q = [p EXCEPT !.last = o, !.want = x]
    PROVE  ParserInv(add_command(q, o))
<1>1. /\ IsParser(q) /\ q.exit = p.exit /\ q.command = p.command /\ q.options = p.options
      /\ q.rulenum = p.rulenum /\ q.chain = p.chain
      /\ q.jumpto = p.jumpto /\ q.match = p.match /\ q.last = o /\ q.want = x
  BY DEF ParserInv, IsParser
<1>2. PICK r : r = add_command(q, o)
  OBVIOUS
<1>3. CASE r = Fail(q)
  BY <1>2, <1>3, ParserFail
<1>4. CASE r # Fail(q)
  <2>1. r = [q EXCEPT !.command = q.command \cup {CommandOf[o]}] /\ q.command \ OtherCommands(o) = {}
    BY <1>2, <1>4 DEF add_command
  <2>2. /\ IsParser(r) /\ r.exit = p.exit /\ r.command = p.command \cup {CommandOf[o]}
        /\ r.options = p.options /\ r.rulenum = p.rulenum /\ r.chain = p.chain
        /\ r.jumpto = p.jumpto /\ r.match = p.match
        /\ r.last = o /\ r.want = x
    BY <1>1, <2>1 DEF IsParser
  <2>3. Combined(r.command)
    <3>1. CASE o \notin {"-L", "-S", "-Z"}
      <4>1. p.command = {}
        BY <1>1, <2>1, <3>1 DEF OtherCommands
      <4>2. CommandOf[o] \in CommandNames
        BY CommandValues, CommandSet DEF CommandOptions
      <4> QED
        BY <2>2, <4>1, <4>2 DEF Combined
    <3>2. CASE o \in {"-L", "-S"}
      <4>1. p.command \subseteq {"ZERO", "ZERO_NUM"}
        BY <1>1, <2>1, <3>2 DEF OtherCommands
      <4>2. p.command = {} \/ p.command = {"ZERO"} \/ p.command = {"ZERO_NUM"}
        BY <4>1 DEF Combined, ParserInv
      <4>3. CommandOf[o] \in {"LIST", "LIST_RULES"} /\ CommandOf[o] \in CommandNames
        BY <3>2, CommandValues, CommandSet
      <4> QED
        BY <2>2, <4>2, <4>3 DEF Combined
    <3>3. CASE o = "-Z"
      <4>1. p.command \subseteq {"LIST", "LIST_RULES"}
        BY <1>1, <2>1, <3>3 DEF OtherCommands
      <4>2. p.command = {} \/ p.command = {"LIST"} \/ p.command = {"LIST_RULES"}
        BY <4>1 DEF Combined, ParserInv
      <4>3. CommandOf[o] = "ZERO" /\ CommandOf[o] \in CommandNames
        BY <3>3, CommandValues, CommandSet
      <4> QED
        BY <2>2, <4>2, <4>3 DEF Combined
    <3> QED
      BY <3>1, <3>2, <3>3
  <2>4. Awaits(r)
    <3>1. (x \in WithArgument /\ x = o) \/ x \in {"chain?", "chain?num"}
      BY DEF WithArgument, CommandOptions, OptionalWords
    <3>2. {"chain?", "chain?num"} \cap WithArgument = {} /\ WithArgument \cap {"num?", "num!"} = {}
      BY DEF WithArgument, PortOptions
    <3>3. x \notin {"num?", "num!"} /\ x \in {"none"} \cup WithArgument \cup WordsAwaited
      BY <3>1, <3>2 DEF WordsAwaited
    <3> QED
      BY <2>2, <3>1, <3>2, <3>3 DEF Awaits
  <2>5. Numbered(r)
    <3>1. /\ "REPLACE" \in p.command => p.rulenum >= 1
          /\ "INSERT" \in p.command => p.rulenum >= 1
          /\ p.command \cap {"DELETE_NUM", "ZERO_NUM"} # {} => p.rulenum >= 1
          /\ p.rulenum \in Nat
      BY DEF Numbered, ParserInv
    <3>2. /\ CommandOf[o] = "REPLACE" => x = "-R"
          /\ CommandOf[o] = "INSERT" => x = "-I"
          /\ CommandOf[o] \notin {"DELETE_NUM", "ZERO_NUM"}
      BY CommandValues DEF CommandOptions
    <3> QED
      BY <2>2, <3>1, <3>2 DEF Numbered
  <2>6. Chained(r)
    <3>1. "none" \notin ChainOptions
      BY NothingAwaited
    <3>2. CommandOf[o] \in RuleCommands \cup
              {"DELETE_NUM", "ZERO_NUM", "NEW_CHAIN", "RENAME_CHAIN", "SET_POLICY"}
          => x \in ChainOptions
      BY CommandValues DEF CommandOptions, RuleCommands, ChainOptions
    <3> QED
      BY <2>2, <3>1, <3>2 DEF Chained, ParserInv
  <2>7. Noted(r)
    <3>1. x \notin DOMAIN RuleFlag
      BY RuleFlagValues DEF CommandOptions, OptionalWords
    <3> QED
      BY <2>2, <3>1 DEF Noted, ParserInv
  <2> QED
    BY <1>2, <2>2, <2>3, <2>4, <2>5, <2>6, <2>7 DEF ParserInv
<1> QED
  BY <1>3, <1>4

\* An option of a rule, whose argument is awaited, or one that is complete.
LEMMA OptionKeeps ==
    ASSUME NEW p, ParserInv(p), p.want = "none",
           NEW o, NEW x, NEW r, IsParser(r), r.exit = p.exit, r.command = p.command,
           p.options \subseteq r.options, r.rulenum = p.rulenum, r.chain = p.chain,
           r.jumpto = p.jumpto, r.match = p.match,
           r.last = o, r.want = x, x = "none" \/ (x = o /\ o \in WithArgument),
           x \in DOMAIN RuleFlag => RuleFlag[x] \in r.options
    PROVE  ParserInv(r)
<1>1. x \notin {"num?", "num!"} /\ "none" \notin {"num?", "num!"} \cup ChainOptions
  BY DEF WithArgument, PortOptions, ChainOptions
<1>2. Awaits(r)
  BY <1>1, NothingAwaited DEF Awaits
<1>3. Numbered(r)
  BY DEF Numbered, ParserInv
<1>4. Chained(r)
  BY <1>1 DEF Chained, ParserInv
<1>5. Noted(r)
  BY DEF Noted, ParserInv
<1> QED
  BY <1>2, <1>3, <1>4, <1>5 DEF ParserInv

LEMMA SetOptionKeeps ==
    ASSUME NEW p, ParserInv(p), p.want = "none", NEW o \in {"-s", "-d", "-p", "-j", "-g", "-i", "-o", "-c"},
           NEW q, q = [p EXCEPT !.last = o, !.want = o]
    PROVE  ParserInv(set_option(q, FlagOf[o]))
<1>1. /\ IsParser(q) /\ q.exit = p.exit /\ q.command = p.command /\ q.options = p.options
      /\ q.rulenum = p.rulenum /\ q.chain = p.chain
      /\ q.jumpto = p.jumpto /\ q.match = p.match /\ q.last = o /\ q.want = o
  BY DEF ParserInv, IsParser
<1>2. PICK r : r = set_option(q, FlagOf[o])
  OBVIOUS
<1>3. CASE r = Fail(q)
  BY <1>2, <1>3, ParserFail
<1>4. CASE r # Fail(q)
  <2>1. r = [q EXCEPT !.options = q.options \cup {FlagOf[o]}]
    BY <1>2, <1>4 DEF set_option
  <2>2. /\ IsParser(r) /\ r.exit = p.exit /\ r.command = p.command
        /\ r.options = p.options \cup {FlagOf[o]} /\ r.rulenum = p.rulenum /\ r.chain = p.chain
        /\ r.jumpto = p.jumpto /\ r.match = p.match
        /\ r.last = o /\ r.want = o
    BY <1>1, <2>1 DEF IsParser
  <2>3. o \in DOMAIN RuleFlag => RuleFlag[o] = FlagOf[o]
    BY RuleFlagValues, FlagValues
  <2>4. o \in WithArgument
    BY DEF WithArgument
  <2> QED
    BY <1>2, <2>2, <2>3, <2>4, OptionKeeps
<1> QED
  BY <1>3, <1>4

\* An option that is complete, and a flag that it sets.
LEMMA CompletedKeeps ==
    ASSUME NEW p, ParserInv(p), p.want = "none", NEW o
    PROVE  ParserInv(Completed(p, o)) /\ \A f : ParserInv(SetFlag(p, o, f))
<1>1. ASSUME NEW q, IsParser(q), q.exit = p.exit, q.command = p.command, p.options \subseteq q.options,
             q.rulenum = p.rulenum, q.chain = p.chain,
             q.jumpto = p.jumpto, q.match = p.match, q.want = "none"
      PROVE  ParserInv(Completed(q, o))
  <2>1. PICK r : r = Completed(q, o)
    OBVIOUS
  <2>2. /\ IsParser(r) /\ r.exit = p.exit /\ r.command = p.command
        /\ r.options = q.options /\ r.rulenum = p.rulenum /\ r.chain = p.chain
        /\ r.jumpto = p.jumpto /\ r.match = p.match
        /\ r.last = o /\ r.want = "none"
    BY <1>1, <2>1 DEF Completed, IsParser
  <2>3. p.options \subseteq r.options
    BY <1>1, <2>2
  <2> QED
    BY <2>1, <2>2, <2>3, NothingAwaited, OptionKeeps
<1>2. IsParser(p)
  BY DEF ParserInv
<1>3. ASSUME NEW f PROVE ParserInv(SetFlag(p, o, f))
  <2>1. PICK q : q = set_option(p, f)
    OBVIOUS
  <2>2. CASE q.exit
    <3>1. q = Fail(p) \/ q = [p EXCEPT !.options = p.options \cup {f}]
      BY <2>1 DEF set_option
    <3>2. CASE q = Fail(p)
      BY <2>1, <2>2, <3>2, ParserFail DEF SetFlag
    <3>3. CASE q = [p EXCEPT !.options = p.options \cup {f}]
      <4>1. PICK r : r = [p EXCEPT !.options = p.options \cup {f}]
        OBVIOUS
      <4>2. /\ IsParser(r) /\ r.exit = p.exit /\ r.command = p.command
            /\ r.options = p.options \cup {f} /\ r.rulenum = p.rulenum /\ r.chain = p.chain
            /\ r.jumpto = p.jumpto /\ r.match = p.match
            /\ r.last = p.last /\ r.want = "none"
        BY <1>2, <4>1 DEF IsParser
      <4>3. ParserInv(r)
        BY <4>2, NothingAwaited, OptionKeeps
      <4> QED
        BY <2>1, <2>2, <3>3, <4>1, <4>3 DEF SetFlag
    <3> QED
      BY <3>1, <3>2, <3>3
  <2>3. CASE ~q.exit
    <3>1. q = [p EXCEPT !.options = p.options \cup {f}]
      BY <2>1, <2>3, ParserFail DEF set_option
    <3>2. /\ IsParser(q) /\ q.exit = p.exit /\ q.command = p.command /\ p.options \subseteq q.options
          /\ q.rulenum = p.rulenum /\ q.chain = p.chain
          /\ q.jumpto = p.jumpto /\ q.match = p.match /\ q.want = "none"
      BY <1>2, <3>1 DEF IsParser
    <3> QED
      BY <1>1, <2>1, <2>3, <3>2 DEF SetFlag
  <2> QED
    BY <2>2, <2>3
<1>4. ParserInv(Completed(p, o))
  BY <1>1, <1>2
<1> QED
  BY <1>3, <1>4

\* An option whose argument nothing has to be noted for beforehand.
LEMMA AwaitingKeeps ==
    ASSUME NEW p, ParserInv(p), p.want = "none", NEW o \in {"-t", "-m", "-M"} \cup PortOptions
    PROVE  ParserInv(Awaiting(p, o, o))
<1>1. PICK r : r = Awaiting(p, o, o)
  OBVIOUS
<1>2. /\ IsParser(r) /\ r.exit = p.exit /\ r.command = p.command /\ r.options = p.options
      /\ r.rulenum = p.rulenum /\ r.chain = p.chain
      /\ r.jumpto = p.jumpto /\ r.match = p.match /\ r.last = o /\ r.want = o
  BY <1>1 DEF ParserInv, IsParser, Awaiting
<1>3. o \in WithArgument
  BY DEF WithArgument
<1>4. o \notin DOMAIN RuleFlag
  BY RuleFlagValues DEF PortOptions
<1> QED
  BY <1>1, <1>2, <1>3, <1>4, OptionKeeps

\* So is a port option's, for which the match of the protocol may have to be loaded.
LEMMA TakePortsKeeps ==
    ASSUME NEW p, ParserInv(p), p.want = "none", NEW o \in PortOptions
    PROVE  ParserInv(TakePorts(p, o))
<1>1. PICK q : q = WithPortMatch(p)
  OBVIOUS
<1>2. ParserInv(q) /\ q.want = "none"
  <2>1. CASE q = p
    BY <2>1
  <2>2. CASE \E name : q = LoadMatch(p, name)
    <3>1. /\ IsParser(q) /\ q.exit = p.exit /\ q.command = p.command /\ q.options = p.options
          /\ q.rulenum = p.rulenum /\ q.last = p.last /\ q.want = p.want /\ q.chain = p.chain
          /\ q.jumpto = p.jumpto /\ q.match = p.match
      BY <2>2, LoadKeeps DEF ParserInv
    <3> QED
      BY <3>1, NothingAwaited, OptionKeeps
  <2> QED
    BY <1>1, <2>1, <2>2 DEF WithPortMatch
<1>3. TakePorts(p, o) = Fail(p) \/ TakePorts(p, o) = Awaiting(q, o, o)
  BY <1>1 DEF TakePorts
<1> QED
  BY <1>2, <1>3, ParserFail, AwaitingKeeps

LEMMA TakeOptionKeeps ==
    ASSUME NEW p, ParserInv(p), p.want = "none", NEW o
    PROVE  ParserInv(TakeOption(p, o))
<1>1. PICK t : t = TakeOption(p, o)
  OBVIOUS
<1>2. CASE o \in {"-A", "-C", "-D", "-R", "-I", "-N", "-E", "-P"}
  <2>1. t = add_command(Awaiting(p, o, o), o)
    BY <1>1, <1>2 DEF TakeOption, PortOptions
  <2>2. o \in CommandOptions /\ o \notin {"-L", "-S", "-Z", "-F", "-X"}
    BY <1>2 DEF CommandOptions
  <2>3. ParserInv(add_command([p EXCEPT !.last = o, !.want = o], o))
    BY <2>2, AddCommandKeeps
  <2> QED
    BY <1>1, <2>1, <2>3 DEF Awaiting
<1>3. CASE o \in {"-L", "-S", "-Z", "-F", "-X"}
  <2>1. t = add_command(Awaiting(p, o, OptionalWords(o)), o)
    BY <1>1, <1>3 DEF TakeOption, PortOptions
  <2>2. o \in CommandOptions
    BY <1>3 DEF CommandOptions
  <2>3. ParserInv(add_command([p EXCEPT !.last = o, !.want = OptionalWords(o)], o))
    BY <1>3, <2>2, AddCommandKeeps
  <2> QED
    BY <1>1, <2>1, <2>3 DEF Awaiting
<1>4. CASE o \in {"-s", "-d", "-p", "-j", "-g", "-i", "-o", "-c"}
  <2>1. t = set_option(Awaiting(p, o, o), FlagOf[o])
    BY <1>1, <1>4 DEF TakeOption, PortOptions
  <2> QED
    BY <1>1, <1>4, <2>1, SetOptionKeeps DEF Awaiting
<1>5. CASE o \in {"-n", "-x", "-f", "--line-numbers", "-v"}
  <2>1. t = SetFlag(p, o, FlagOf[o]) \/ t = SetFlag(p, o, "v") \/ t = Completed(p, o)
    BY <1>1, <1>5 DEF TakeOption, PortOptions
  <2> QED
    BY <1>1, <2>1, CompletedKeeps
<1>6. CASE o \in {"-t", "-m", "-M"} \cup PortOptions
  <2>1. t = Fail(p) \/ t = Awaiting(p, o, o) \/ (o \in PortOptions /\ t = TakePorts(p, o))
    BY <1>1, <1>6 DEF TakeOption, PortOptions
  <2> QED
    BY <1>1, <1>6, <2>1, ParserFail, AwaitingKeeps, TakePortsKeeps
<1>7. CASE o \in {"-w", "-4"}
  <2>1. t = Completed(p, o)
    BY <1>1, <1>7 DEF TakeOption, PortOptions
  <2> QED
    BY <1>1, <2>1, CompletedKeeps
<1>8. CASE o \notin {"-A", "-C", "-D", "-R", "-I", "-N", "-E", "-P", "-L", "-S", "-Z", "-F", "-X",
                    "-s", "-d", "-p", "-j", "-g", "-i", "-o", "-c", "-n", "-x", "-f", "--line-numbers",
                    "-v", "-t", "-m", "-M", "-w", "-4"} \cup PortOptions
  <2>1. t = Fail(p)
    BY <1>1, <1>8 DEF TakeOption
  <2> QED
    BY <1>1, <2>1, ParserFail
<1> QED
  BY <1>2, <1>3, <1>4, <1>5, <1>6, <1>7, <1>8

LEMMA TakeOption6Keeps ==
    ASSUME NEW p, ParserInv(p), p.want = "none", NEW o
    PROVE  ParserInv(TakeOption6(p, o))
<1>1. PICK t : t = TakeOption6(p, o)
  OBVIOUS
<1>2. t = Fail(p) \/ t = Completed(p, o) \/ t = TakeOption(p, o)
  BY <1>1 DEF TakeOption6
<1> QED
  BY <1>1, <1>2, ParserFail, CompletedKeeps, TakeOptionKeeps

LEMMA NonOptionKeeps ==
    ASSUME NEW p, ParserInv(p), p.want = "none", NEW w
    PROVE  ParserInv(NonOption(p, w))
<1>1. CASE NonOption(p, w) = Fail(p)
  BY <1>1, ParserFail
<1>2. CASE NonOption(p, w) = [p EXCEPT !.invert = TRUE]
  <2>1. PICK r : r = [p EXCEPT !.invert = TRUE]
    OBVIOUS
  <2>2. /\ IsParser(r) /\ r.exit = p.exit /\ r.command = p.command /\ r.options = p.options
        /\ r.rulenum = p.rulenum /\ r.chain = p.chain
        /\ r.jumpto = p.jumpto /\ r.match = p.match /\ r.want = "none"
    BY <2>1 DEF ParserInv, IsParser
  <2>3. ParserInv(r)
    BY <2>2, NothingAwaited, OptionKeeps
  <2> QED
    BY <1>2, <2>1, <2>3
<1> QED
  BY <1>1, <1>2 DEF NonOption

LEMMA ReadKeeps ==
    ASSUME NEW p, ParserInv(p), NEW w, IsArgument(w)
    PROVE  ParserInv(Read(p, w)) /\ ParserInv(Read6(p, w))
<1>1. p.exit \in BOOLEAN
  BY DEF ParserInv
<1>2. CASE p.exit
  BY <1>2 DEF Read, Read6
<1>3. CASE ~p.exit /\ IsValue(p, w)
  <2>1. Read(p, w) = TakeValue(p, w) /\ Read6(p, w) = TakeValue(p, w)
    BY <1>3 DEF Read, Read6
  <2>2. CASE p.want \in WithArgument
    BY <2>1, <2>2, TakeArgumentKeeps DEF TakeValue
  <2>3. CASE p.want \notin WithArgument
    BY <1>3, <2>1, <2>3, TakeWordKeeps DEF TakeValue, IsValue
  <2> QED
    BY <2>2, <2>3
<1>4. CASE ~p.exit /\ ~IsValue(p, w)
  <2>1. PICK q : q = NoWord(p)
    OBVIOUS
  <2>2. ParserInv(q) /\ q.want = "none"
    BY <1>4, <2>1, NoWordKeeps DEF IsValue
  <2>3. q.exit \in BOOLEAN
    BY <2>2 DEF ParserInv
  <2>4. Read(p, w) = q \/ Read(p, w) = TakeOption(q, w.text) \/ Read(p, w) = NonOption(q, w)
    BY <1>4, <2>1, <2>3 DEF Read
  <2>5. Read6(p, w) = TakeOption6(q, w.text) \/ Read6(p, w) = Read(p, w)
    BY <2>1 DEF Read6
  <2> QED
    BY <2>2, <2>4, <2>5, TakeOptionKeeps, TakeOption6Keeps, NonOptionKeeps
<1> QED
  BY <1>1, <1>2, <1>3, <1>4

-----------------------------------------------------------------------------
(* The end of the line.                                                    *)

\* A line that passes the test of its options is complete.
LEMMA CheckedIsComplete ==
    ASSUME NEW p, ParserInv(p), p.want = "none", p.command # {},
           NEW table, \A c \in CommandNames : table[c] \subseteq commands_v_options[c],
           generic_opt_check(p, table)
    PROVE  Complete(p)
<1>1. Combined(p.command) /\ Numbered(p) /\ Chained(p) /\ Noted(p)
  BY DEF ParserInv
<1>2. p.want \notin {"-R", "num!", "-I", "num?"} \cup ChainOptions
  BY DEF ChainOptions
<1>3. p.command \cap {"REPLACE", "INSERT", "DELETE_NUM", "ZERO_NUM"} # {} => p.rulenum >= 1
  BY <1>1, <1>2 DEF Numbered
<1>4. p.command \cap (RuleCommands \cup
         {"DELETE_NUM", "ZERO_NUM", "NEW_CHAIN", "RENAME_CHAIN", "SET_POLICY"}) # {} => p.chain # None
  BY <1>1, <1>2 DEF Chained
<1>5. p.command \subseteq CommandNames
  BY <1>1, CommandSet DEF Combined
<1>6. ASSUME NEW f \in {"s", "d", "p", "j", "i", "o"}, f \in p.options
      PROVE  p.command \cap RuleCommands # {}
  <2>1. PICK c \in p.command : f \in table[c]
    BY <1>6 DEF generic_opt_check
  <2>2. c \in RuleCommands
    BY <1>5, <1>6, <2>1, RuleOptionsLegal
  <2> QED
    BY <2>1, <2>2
<1>7. \A o \in DOMAIN RuleFlag : RuleFlag[o] \in {"s", "d", "p", "j", "i", "o"}
  BY RuleFlagValues
<1>8. p.command \cap RuleCommands = {} => p.jumpto = None /\ \A m \in p.match : m[1] \in PortOptions
  BY <1>1, <1>6, <1>7, RuleFlagValues DEF Noted
<1> QED
  BY <1>1, <1>3, <1>4, <1>8 DEF Complete

\* What is read at the end, a pending word and the addresses.
LEMMA AddressesKeep ==
    ASSUME NEW p, ParserInv(p), NEW f, NEW q, q = WithAddresses(f, LastWord(p))
    PROVE  ParserInv(q) /\ q.want = "none"
<1>1. PICK r : r = LastWord(p)
  OBVIOUS
<1>2. ParserInv(r) /\ r.want = "none"
  BY <1>1, ParserFail, NoWordKeeps DEF LastWord
<1>3. CASE q = Fail(r)
  BY <1>3, ParserFail
<1>4. CASE q # Fail(r)
  <2>1. PICK a : q = [r EXCEPT !.addrs = a]
    BY <1>1, <1>4 DEF WithAddresses
  <2>2. /\ IsParser(q) /\ q.exit = r.exit /\ q.command = r.command /\ q.options = r.options
        /\ q.rulenum = r.rulenum /\ q.chain = r.chain
        /\ q.jumpto = r.jumpto /\ q.match = r.match /\ q.last = r.last /\ q.want = "none"
    BY <1>2, <2>1 DEF ParserInv, IsParser
  <2> QED
    BY <1>2, <2>2, NothingAwaited, OptionKeeps
<1> QED
  BY <1>3, <1>4

LEMMA Tables6 ==
    \A c \in CommandNames : commands_v_options6[c] \subseteq commands_v_options[c]
BY DEF commands_v_options6, CommandNames

LEMMA FinishKeeps ==
    ASSUME NEW p, ParserInv(p), NEW t, t = Finish(p) \/ t = Finish6(p)
    PROVE  ParserInv(t) /\ (~t.exit => Complete(t))
<1>1. ASSUME NEW f, NEW q, q = WithAddresses(f, LastWord(p)), NEW table,
             \A c \in CommandNames : table[c] \subseteq commands_v_options[c],
             t = Fail(q) \/ (t = q /\ q.command # {} /\ generic_opt_check(q, table))
      PROVE  ParserInv(t) /\ (~t.exit => Complete(t))
  <2>1. CASE t = Fail(q)
    BY <2>1, ParserFail
  <2>2. CASE t = q /\ q.command # {} /\ generic_opt_check(q, table)
    BY <1>1, <2>2, AddressesKeep, CheckedIsComplete
  <2> QED
    BY <1>1, <2>1, <2>2
<1>2. CASE t = Finish(p)
  <2>1. PICK q : q = WithAddresses(4, LastWord(p))
    OBVIOUS
  <2>2. t = Fail(q) \/ (t = q /\ q.command # {} /\ generic_opt_check(q, commands_v_options))
    BY <1>2, <2>1 DEF Finish
  <2> QED
    BY <1>1, <2>1, <2>2
<1>3. CASE t = Finish6(p)
  <2>1. PICK q : q = WithAddresses(6, LastWord(p))
    OBVIOUS
  <2>2. t = Fail(q) \/ (t = q /\ q.command # {} /\ generic_opt_check(q, commands_v_options6))
    BY <1>3, <2>1 DEF Finish6
  <2> QED
    BY <1>1, <2>1, <2>2, Tables6
<1> QED
  BY <1>2, <1>3

-----------------------------------------------------------------------------
(* The whole line.                                                         *)

LEMMA LinesOfWords ==
    ASSUME NEW words \in Lines \cup {to_argv(h) : h \in Served}
    PROVE  words \in Seq(LineWords)
<1>1. words \in Seq(ToSet(words)) /\ ToSet(words) \subseteq LineWords
  BY WordsAssumption DEF LineWords
<1> QED
  BY <1>1

LEMMA WordsAreArguments == \A w \in LineWords : IsArgument(w)
BY WordsAssumption DEF LineWords

LEMMA InitIInv == Init => IInv
<1> SUFFICES ASSUME Init PROVE IInv
  OBVIOUS
<1>1. argv \in Seq(LineWords)
  <2>1. argv = <<>> \/ argv \in Lines \cup {to_argv(h) : h \in Served}
    BY DEF Init, FromDaemon
  <2>2. <<>> \in Seq(LineWords)
    OBVIOUS
  <2>3. ASSUME argv \in Lines \cup {to_argv(h) : h \in Served} PROVE argv \in Seq(LineWords)
    BY <2>3, LinesOfWords
  <2> QED
    BY <2>1, <2>2, <2>3
<1>2. ParserInv(line)
  BY ParserStart DEF Init
<1> QED
  BY <1>1, <1>2 DEF Init, IInv

LEMMA NextIInv == IInv /\ [Next]_vars => IInv'
<1> SUFFICES ASSUME IInv, [Next]_vars PROVE IInv'
  OBVIOUS
<1>1. CASE TypedWord
  <2>1. PICK w \in Tokens : line' = Reads(line, w)
    BY <1>1 DEF TypedWord
  <2>2. ParserInv(line')
    BY <2>1, WordsAssumption, ReadKeeps DEF IInv, Reads
  <2>3. ~done' /\ argv' = argv
    BY <1>1 DEF TypedWord
  <2> QED
    BY <2>2, <2>3 DEF IInv
<1>2. CASE GivenWord
  <2>1. Head(argv) \in LineWords /\ Tail(argv) \in Seq(LineWords)
    BY <1>2, HeadTailProperties DEF GivenWord, IInv
  <2>2. ParserInv(line')
    BY <1>2, <2>1, WordsAreArguments, ReadKeeps DEF GivenWord, IInv, Reads
  <2>3. ~done'
    BY <1>2 DEF GivenWord, IInv
  <2> QED
    BY <1>2, <2>1, <2>2, <2>3 DEF IInv, GivenWord
<1>3. CASE EndOfLine
  <2>1. line' = Finish(line) \/ line' = Finish6(line)
    BY <1>3 DEF EndOfLine
  <2>2. ParserInv(line') /\ (~line'.exit => Complete(line'))
    BY <2>1, FinishKeeps DEF IInv
  <2> QED
    BY <1>3, <2>2 DEF EndOfLine, IInv
<1>4. CASE UNCHANGED vars
  BY <1>4 DEF vars, IInv
<1> QED
  BY <1>1, <1>2, <1>3, <1>4 DEF Next

\* do_command4 and do_command6, their final switch and the calls behind it: whatever is
\* typed or served, a line that is not refused ends with a set of commands the switch
\* has a case for, with the rule number and the chain that case uses, and with no part
\* of a rule that it leaves unread.
THEOREM SwitchStaysComplete == Spec => []SwitchComplete
<1>1. IInv => SwitchComplete
  BY DEF IInv, SwitchComplete, Accepted, Complete, Combined, CommandNames, HasCase,
         NeedsNumber, NeedsChain, NoIgnoredRule
<1> QED
  BY <1>1, InitIInv, NextIInv, PTL DEF Spec
=============================================================================
