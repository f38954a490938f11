------------------------------ MODULE RuleCalls ------------------------------
(***************************************************************************)
(* The rules an accepted command line stands for, and the libiptc calls    *)
(* that carry it out, one for each source and destination address          *)
(* (ruletables/iptables.c 626-803, ip6tables.c 639-817).  The calls work   *)
(* on a handle; if one fails the caller drops the handle.                  *)
(***************************************************************************)
EXTENDS DoCommand6

\* What tells two rules apart: addresses, which options are negated, interfaces, all
\* other options, the matches in their order, and the target.
Rule(p, s, d) ==
    [src |-> s.addr, smsk |-> s.mask, dst |-> d.addr, dmsk |-> d.mask,
     invflags |-> {x[1] : x \in {y \in p.match : y[3]}},
     vias |-> p.vias,
     matches |-> {x \in p.match : x[1] \notin {"-s", "-d", "-i", "-o"}},
     loaded |-> p.loaded,
     target |-> p.jumpto]

\* The order of the calls: every destination for the first source, and so on.
Rules(p) ==
    LET S == p.addrs["-s"]
        D == p.addrs["-d"]
    IN [k \in 1 .. Len(S) * Len(D) |->
          Rule(p, S[((k - 1) \div Len(D)) + 1], D[((k - 1) % Len(D)) + 1])]

\* A kernel rule takes a packet unless an address does not agree, or does and is negated.
RuleTakes(r, s, d) ==
    /\ ("-s" \in r.invflags) # ((s & r.smsk) = r.src)
    /\ ("-d" \in r.invflags) # ((d & r.dmsk) = r.dst)

-----------------------------------------------------------------------------
(* Each call gives what the handle holds then, and ret.                    *)

Begin(chain) == [rules |-> chain, ret |-> TRUE]

append_entry(chain, rules) == [rules |-> chain \o rules, ret |-> TRUE]

\* every rule goes to the same place, in front of the one before it
insert_entry(chain, rules, rulenum) ==
    FoldLeft(LAMBDA h, r : IF rulenum > Len(h.rules) + 1 THEN [h EXCEPT !.ret = FALSE]
                           ELSE [h EXCEPT !.rules = InsertAt(@, rulenum, r)],
             Begin(chain), rules)

replace_entry(chain, rules, rulenum) ==
    IF rulenum > Len(chain) THEN [rules |-> chain, ret |-> FALSE]
    ELSE [rules |-> ReplaceAt(chain, rulenum, rules[1]), ret |-> TRUE]

\* mutant: the last call decides
delete_entry_last(chain, rules) ==
    FoldLeft(LAMBDA h, r : [rules |-> RemoveFirst(h.rules, r), ret |-> Contains(h.rules, r)],
             Begin(chain), rules)

\* ret &= ...: the first rule like r goes; one that is not there fails the line, but
\* the calls behind it are made all the same
delete_entry(chain, rules) ==
    FoldLeft(LAMBDA h, r : [rules |-> RemoveFirst(h.rules, r), ret |-> h.ret /\ Contains(h.rules, r)],
             Begin(chain), rules)

check_entry(chain, rules) ==
    [rules |-> chain, ret |-> \A k \in DOMAIN rules : Contains(chain, rules[k])]

CallOf(command, chain, rules, rulenum) ==
    CASE command = {"APPEND"}  -> append_entry(chain, rules)
      [] command = {"INSERT"}  -> insert_entry(chain, rules, rulenum)
      [] command = {"REPLACE"} -> replace_entry(chain, rules, rulenum)
      [] command = {"DELETE"}  -> delete_entry(chain, rules)
      [] command = {"CHECK"}   -> check_entry(chain, rules)

\* iptcc_map_target: every call fails for a rule that jumps to a built-in chain.
Call(p, chain) ==
    LET rules == Rules(p)
    IN CASE p.jumpto \in BuiltinChains[p.table] -> [rules |-> chain, ret |-> FALSE]
         [] OTHER -> CallOf(p.command, chain, rules, p.rulenum)

\* send_to_kernel and the tools commit only if do_command4 returned 1 (conn.c 562).
Carried(p, chain) ==
    LET h == Call(p, chain) IN IF h.ret THEN h.rules ELSE chain
=============================================================================
