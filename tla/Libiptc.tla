------------------------------ MODULE Libiptc ------------------------------
(***************************************************************************)
(* A table in the form libiptc gives it, a handle with chains of rules, and*)
(* in the form the kernel has it, a blob of entries; the conversion both   *)
(* ways (libiptc.c 786-1080, 1082-1236) and the calls that change a handle *)
(* (libiptc.c 1640-2225, 2226-2435).                                       *)
(*                                                                         *)
(* All entries have one size, so that the offset of an entry and its index *)
(* are the same: its position in the blob.  A chain is found by its name   *)
(* (ChainIndex shows that it is).  malloc does not fail.                   *)
(***************************************************************************)
EXTENDS Integers, Sequences, FiniteSets, FiniteSetsExt, SequencesExt

CONSTANTS
    Order,      \* the names a chain may have: the built-in ones by hook, then the
                \* others in strcmp order
    BuiltIn,
    NoMatch,    \* the image of an entry that matches every packet
    CounterBits \* bound: width of a counter

ChainNames == {Order[i] : i \in DOMAIN Order}

NoChain == "no chain"

ASSUME LibiptcAssumption ==
    /\ Order \in Seq(ChainNames)
    /\ \A i, j \in DOMAIN Order : i # j => Order[i] # Order[j]
    /\ BuiltIn \subseteq ChainNames /\ NoChain \notin ChainNames
    /\ CounterBits \in Nat

\* Counters are unsigned: differences wrap.
Counter(n) == n % 2^CounterBits

-----------------------------------------------------------------------------
(* Rules.  An entry has an image (what it matches), a target name, empty   *)
(* for a verdict, and a verdict: negative, or the position it jumps to.    *)
(* The verdict of a jump or of a rule without target is written only when  *)
(* the handle is compiled; until then it is 0 here.  History: from is the  *)
(* entry a rule or policy was read from, 0 for a new one.                  *)

RETURN == -5

StandardTargets == [ACCEPT |-> -2, DROP |-> -1, QUEUE |-> -4, RETURN |-> RETURN]

\* struct rule_head for an entry a caller passes.
Rule(e, type, target, verdict, jump) ==
    [image |-> e.image, target |-> target, verdict |-> verdict, cnt |-> e.cnt,
     type |-> type, jump |-> jump, map |-> "SET", pos |-> 0, from |-> 0]

\* The outcome of a call: what it returned and the handle after it.
Done(h) == [ok |-> TRUE, h |-> h]
Failed(h) == [ok |-> FALSE, h |-> h]
Changed(h) == [h EXCEPT !.changed = TRUE]

\* References of chain c, by n.
Refer(h, c, n) == IF c = NoChain THEN h ELSE [h EXCEPT !.chains[c].references = @ + n]

\* iptcc_map_target: the rule made of an entry, and the handle after it; a call with a
\* target that is a built-in chain fails.
Mappable(h, e) == ~(e.target \in BuiltIn /\ e.target \in DOMAIN h.chains)

iptcc_map_target(h, e) ==
    IF e.target = "" THEN [r |-> Rule(e, "FALLTHROUGH", "", 0, NoChain), h |-> h]
    ELSE IF e.target \in DOMAIN StandardTargets
    THEN [r |-> Rule(e, "STANDARD", "", StandardTargets[e.target], NoChain), h |-> h]
    ELSE IF e.target \in DOMAIN h.chains
    THEN [r |-> Rule(e, "JUMP", "", 0, e.target), h |-> Refer(h, e.target, 1)]
    ELSE [r |-> Rule(e, "MODULE", e.target, 0, NoChain), h |-> Changed(h)]

\* Rule rulenum + 1 by the walk from the nearer end; num_rules says where that is.
Located(c, rulenum) ==
    IF rulenum + 1 <= c.num_rules \div 2 THEN rulenum + 1
    ELSE Len(c.rules) - (c.num_rules - rulenum) + 1

\* The places of the jumps to chain d in a list of rules, and in all chains.
JumpsIn(rules, d) == {i \in DOMAIN rules : rules[i].jump = d}
Jumps(chains, d) == UNION {{c} \X JumpsIn(chains[c].rules, d) : c \in DOMAIN chains}

\* Chain c with rules rs, and num_rules changed by n.
WithRules(h, c, rs, n) ==
    [h EXCEPT !.chains[c].rules = rs, !.chains[c].num_rules = @ + n]

-----------------------------------------------------------------------------
(* Calls.                                                                  *)

TC_INSERT_ENTRY(h, c, e, rulenum) ==
    IF c \notin DOMAIN h.chains \/ rulenum > h.chains[c].num_rules \/ ~Mappable(h, e) THEN Failed(h)
    ELSE LET ch == h.chains[c]
             at == IF rulenum = ch.num_rules THEN Len(ch.rules) + 1 ELSE Located(ch, rulenum)
             m  == iptcc_map_target(h, e)
         IN Done(Changed(WithRules(m.h, c, InsertAt(ch.rules, at, m.r), 1)))

TC_APPEND_ENTRY(h, c, e) ==
    IF c \notin DOMAIN h.chains \/ ~Mappable(h, e) THEN Failed(h)
    ELSE LET m == iptcc_map_target(h, e)
         IN Done(Changed(WithRules(m.h, c, Append(h.chains[c].rules, m.r), 1)))

\* mutant: the old rule's reference stays
Dropped_kept(h, r) == h

\* iptcc_delete_rule, apart from the list: the reference of a jump is given back.
Dropped(h, r) == Refer(h, r.jump, -1)

TC_REPLACE_ENTRY(h, c, e, rulenum) ==
    IF c \notin DOMAIN h.chains \/ rulenum >= h.chains[c].num_rules \/ ~Mappable(h, e) THEN Failed(h)
    ELSE LET rs == h.chains[c].rules
             at == Located(h.chains[c], rulenum)
             m  == iptcc_map_target(h, e)
         IN Done(Changed(WithRules(Dropped(m.h, rs[at]), c, ReplaceAt(rs, at, m.r), 0)))

\* is_same and target_same
Same(a, b) ==
    /\ a.image = b.image /\ a.type = b.type
    /\ CASE a.type = "STANDARD"    -> a.verdict = b.verdict
         [] a.type = "JUMP"        -> a.jump = b.jump
         [] a.type = "MODULE"      -> a.target = b.target
         [] a.type = "FALLTHROUGH" -> TRUE

\* The search of delete_entry; a module's name leaves the handle changed even if it
\* fails, or is a check.
delete_entry(h, c, e, dry_run) ==
    IF c \notin DOMAIN h.chains \/ ~Mappable(h, e) THEN Failed(h)
    ELSE LET m == iptcc_map_target(h, e)
             g == Refer(m.h, m.r.jump, -1)
             rs == h.chains[c].rules
             found == {i \in DOMAIN rs : Same(m.r, rs[i])}
             i == Min(found)
         IN IF found = {} THEN Failed(g)
            ELSE IF dry_run THEN Done(g)
            ELSE Done(Changed(WithRules(Dropped(g, rs[i]), c, RemoveAt(rs, i), -1)))

TC_CHECK_ENTRY(h, c, e) == delete_entry(h, c, e, TRUE)
TC_DELETE_ENTRY(h, c, e) == delete_entry(h, c, e, FALSE)

TC_DELETE_NUM_ENTRY(h, c, rulenum) ==
    IF c \notin DOMAIN h.chains \/ rulenum >= h.chains[c].num_rules THEN Failed(h)
    ELSE LET rs == h.chains[c].rules
             at == Located(h.chains[c], rulenum)
         IN Done(Changed(WithRules(Dropped(h, rs[at]), c, RemoveAt(rs, at), -1)))

TC_FLUSH_ENTRIES(h, c) ==
    IF c \notin DOMAIN h.chains THEN Failed(h)
    ELSE LET given(d) == Cardinality(JumpsIn(h.chains[c].rules, d))
             chains == [d \in DOMAIN h.chains |-> [h.chains[d] EXCEPT !.references = @ - given(d)]]
         IN Done(Changed([h EXCEPT !.chains = [chains EXCEPT ![c].rules = <<>>, ![c].num_rules = 0]]))

\* A counter that came from the kernel and was not touched is zeroed.
Zeroed(x) == IF x.map = "NORMAL" THEN [x EXCEPT !.map = "ZEROED"] ELSE x

TC_ZERO_ENTRIES(h, c) ==
    IF c \notin DOMAIN h.chains THEN Failed(h)
    ELSE LET ch == Zeroed(h.chains[c])
         IN Done(Changed([h EXCEPT !.chains[c] =
                [ch EXCEPT !.rules = [i \in DOMAIN ch.rules |-> Zeroed(ch.rules[i])]]]))

\* rulenum counts from one here.
TC_ZERO_COUNTER(h, c, rulenum) ==
    IF c \notin DOMAIN h.chains \/ rulenum \notin DOMAIN h.chains[c].rules THEN Failed(h)
    ELSE Done(Changed([h EXCEPT !.chains[c].rules[rulenum] = Zeroed(@)]))

NewChain == [verdict |-> 0, cnt |-> 0, map |-> "NOMAP", pos |-> 0, from |-> 0,
             references |-> 0, num_rules |-> 0, rules |-> <<>>]

TC_CREATE_CHAIN(h, c) ==
    IF c \in DOMAIN h.chains \cup DOMAIN StandardTargets THEN Failed(h)
    ELSE Done(Changed([h EXCEPT !.chains = [d \in DOMAIN @ \cup {c} |->
                                              IF d = c THEN NewChain ELSE @[d]]]))

TC_DELETE_CHAIN(h, c) ==
    IF \/ c \notin DOMAIN h.chains \/ c \in BuiltIn
       \/ h.chains[c].references > 0 \/ h.chains[c].num_rules # 0 THEN Failed(h)
    ELSE Done(Changed([h EXCEPT !.chains = [d \in DOMAIN @ \ {c} |-> @[d]]]))

\* Jumps point to the chain, not to its name.
TC_RENAME_CHAIN(h, old, new) ==
    IF \/ new \in DOMAIN h.chains \cup DOMAIN StandardTargets
       \/ old \notin DOMAIN h.chains \/ old \in BuiltIn THEN Failed(h)
    ELSE LET Redirected(r) == IF r.jump = old THEN [r EXCEPT !.jump = new] ELSE r
             from(d) == h.chains[IF d = new THEN old ELSE d]
         IN Done(Changed([h EXCEPT !.chains =
                [d \in (DOMAIN h.chains \ {old}) \cup {new} |->
                    [from(d) EXCEPT !.rules = [i \in DOMAIN @ |-> Redirected(@[i])]]]]))

\* counters is a number, or -1 for NULL.
TC_SET_POLICY(h, c, policy, counters) ==
    IF c \notin DOMAIN h.chains \/ c \notin BuiltIn \/ policy \notin {"ACCEPT", "DROP"} THEN Failed(h)
    ELSE Done(Changed([h EXCEPT !.chains[c] =
                IF counters = -1
                THEN [@ EXCEPT !.verdict = StandardTargets[policy], !.map = "NOMAP"]
                ELSE [@ EXCEPT !.verdict = StandardTargets[policy], !.map = "SET", !.cnt = counters]]))

-----------------------------------------------------------------------------
(* From a handle to a blob.                                                *)

\* Entries of a chain in front of its first rule.
Header(c) == IF c \in BuiltIn THEN 0 ELSE 1

\* The place of a name in that order.
Place == [c \in ChainNames |-> CHOOSE i \in DOMAIN Order : Order[i] = c]

\* The entries of chain c in a blob: none if there is no such chain.
Size(h, c) == IF c \in DOMAIN h.chains THEN Header(c) + Len(h.chains[c].rules) + 1 ELSE 0

\* mutant: chains are taken to have no header
head_offset_flat(h, c) ==
    LET at[i \in 0 .. Len(Order)] ==
            IF i = 0 THEN 1
            ELSE at[i - 1] + IF Size(h, Order[i]) = 0 THEN 0 ELSE Len(h.chains[Order[i]].rules) + 1
    IN at[Place[c] - 1]

\* Where the entries of the chains up to the i-th name end.
Offsets(h) ==
    LET at[i \in 0 .. Len(Order)] == IF i = 0 THEN 1 ELSE at[i - 1] + Size(h, Order[i]) IN at

\* iptcc_compile_chain_offsets: where the chain's entries begin.
head_offset(h, c) == Offsets(h)[Place[c] - 1]

rule_offset(h, c, i) == head_offset(h, c) + Header(c) + i - 1

\* iptcc_compile_table_prep: the last is the error entry at the end
new_number(h) == Offsets(h)[Len(Order)]

Entry(name, image, target, verdict, cnt) ==
    [name |-> name, image |-> image, target |-> target, verdict |-> verdict, cnt |-> cnt]

\* Only the entry at the head of a user-defined chain and the last one have a name.
NoName == "no name"
ErrorEntry(name) == Entry(name, NoMatch, "ERROR", 0, 0)

\* mutant: a jump goes to the head of the chain
iptcc_compile_rule_head(h, r, at) ==
    CASE r.type = "JUMP"        -> Entry(NoName, r.image, "", head_offset(h, r.jump), r.cnt)
      [] r.type = "FALLTHROUGH" -> Entry(NoName, r.image, "", at + 1, r.cnt)
      [] OTHER                  -> Entry(NoName, r.image, r.target, r.verdict, r.cnt)

\* A jump goes behind the header of the chain, a rule without target to the next entry.
iptcc_compile_rule(h, r, at) ==
    CASE r.type = "JUMP"        -> Entry(NoName, r.image, "", head_offset(h, r.jump) + 1, r.cnt)
      [] r.type = "FALLTHROUGH" -> Entry(NoName, r.image, "", at + 1, r.cnt)
      [] OTHER                  -> Entry(NoName, r.image, r.target, r.verdict, r.cnt)

\* One element for each entry of the blob: those of the chains in the order of the
\* list, H for a header, R for the rules, F for the foot, and E for the last.
Laid(h, H(_), R(_, _), F(_), E) ==
    LET chain(c) == IF c \notin DOMAIN h.chains THEN <<>>
                    ELSE (IF c \in BuiltIn THEN <<>> ELSE <<H(c)>>)
                         \o [i \in DOMAIN h.chains[c].rules |-> R(c, i)] \o <<F(c)>>
    IN FlattenSeq([i \in DOMAIN Order |-> chain(Order[i])]) \o <<E>>

\* repl: entries and, for each hook, where its chain begins.
iptcc_compile_table(h) ==
    LET rule(c, i) == iptcc_compile_rule(h, h.chains[c].rules[i], rule_offset(h, c, i))
        foot(c) == Entry(NoName, NoMatch, "",
                         IF c \in BuiltIn THEN h.chains[c].verdict ELSE RETURN, h.chains[c].cnt)
    IN [entries |-> Laid(h, ErrorEntry, rule, foot, ErrorEntry("ERROR")),
        hook_entry |-> [b \in BuiltIn |-> IF b \in DOMAIN h.chains THEN head_offset(h, b) ELSE 1]]

-----------------------------------------------------------------------------
(* From a blob to a handle.                                                *)

\* cache_add_entry for a rule: jumps are resolved in the second pass.
ParsedRule(e, at) ==
    LET type == IF e.target # "" THEN "MODULE"
                ELSE IF e.verdict < 0 THEN "STANDARD"
                ELSE IF e.verdict = at + 1 THEN "FALLTHROUGH"
                ELSE "JUMP"
    IN [image |-> e.image, target |-> e.target, cnt |-> e.cnt, type |-> type,
        verdict |-> IF type = "FALLTHROUGH" THEN 0 ELSE e.verdict,
        jump |-> NoChain, map |-> "NORMAL", pos |-> at, from |-> at]

\* Entries that begin a chain: error entries, and those a hook begins at.  The last
\* entry of the blob begins none.
Starts(blob) ==
    {i \in 1 .. Len(blob.entries) - 1 :
        blob.entries[i].target = "ERROR" \/ \E b \in BuiltIn : blob.hook_entry[b] = i}

ChainOf(blob, i) ==
    IF blob.entries[i].target = "ERROR" THEN blob.entries[i].name
    ELSE Order[Min({k \in DOMAIN Order : Order[k] \in BuiltIn /\ blob.hook_entry[Order[k]] = i})]

\* The entries of the chain that begins at i: its header, if any, is not among them.
FirstEntry(blob, i) == IF blob.entries[i].target = "ERROR" THEN i + 1 ELSE i
LastEntry(blob, i) == Min({j \in Starts(blob) \cup {Len(blob.entries)} : j > i}) - 1

\* The parser reads through NULL when the blob does not begin with a chain, and takes
\* the list head for a rule when a chain has no entry.
Unparsable(blob) ==
    \/ Len(blob.entries) > 1 /\ 1 \notin Starts(blob)
    \/ \E i \in Starts(blob) : LastEntry(blob, i) < FirstEntry(blob, i)

\* __iptcc_p_del_policy: the last rule of a chain is its policy.
__iptcc_p_del_policy(blob, i) ==
    LET a == FirstEntry(blob, i)
        z == LastEntry(blob, i)
    IN [verdict |-> blob.entries[z].verdict, cnt |-> blob.entries[z].cnt,
        map |-> "ZEROED", pos |-> z, from |-> z, references |-> 0, num_rules |-> z - a,
        rules |-> [k \in 1 .. z - a |-> ParsedRule(blob.entries[a + k - 1], a + k - 1)]]

\* iptcc_find_chain_by_offset
Targets(blob, verdict) == {i \in Starts(blob) : i <= verdict /\ verdict <= LastEntry(blob, i)}

\* The rules of the first pass whose jump the second cannot resolve.
Unresolved(blob) ==
    \E i \in Starts(blob) :
        LET c == __iptcc_p_del_policy(blob, i)
        IN \E k \in DOMAIN c.rules : c.rules[k].type = "JUMP" /\ Targets(blob, c.rules[k].verdict) = {}

Resolved(blob, r) ==
    IF r.type # "JUMP" THEN r
    ELSE [r EXCEPT !.jump = ChainOf(blob, Min(Targets(blob, r.verdict))), !.verdict = 0]

\* parse_table of a blob that can be parsed.
parse_table(blob) ==
    LET start == [c \in {ChainOf(blob, i) : i \in Starts(blob)} |->
                    CHOOSE i \in Starts(blob) : ChainOf(blob, i) = c]
        first == [c \in DOMAIN start |-> __iptcc_p_del_policy(blob, start[c])]
        second == [c \in DOMAIN first |->
                    [first[c] EXCEPT !.rules = [k \in DOMAIN @ |-> Resolved(blob, @[k])]]]
    IN [changed |-> FALSE, num_entries |-> Len(blob.entries),
        chains |-> [c \in DOMAIN second |->
                      [second[c] EXCEPT !.references = Cardinality(Jumps(second, c))]]]

-----------------------------------------------------------------------------
(* What a handle says.                                                     *)

\* The counts libiptc keeps beside the lists are those of the lists, and every jump
\* leads to a chain of the handle.
CountsExactIn(h) ==
    /\ \A c \in DOMAIN h.chains :
          /\ h.chains[c].num_rules = Len(h.chains[c].rules)
          /\ h.chains[c].references = Cardinality(Jumps(h.chains, c))
    /\ \A c \in DOMAIN h.chains : \A i \in DOMAIN h.chains[c].rules :
          LET r == h.chains[c].rules[i]
          IN IF r.type = "JUMP" THEN r.jump \in DOMAIN h.chains ELSE r.jump = NoChain

-----------------------------------------------------------------------------
(* Handles libiptc can have.                                               *)

IsSeq(s) == s \in Seq({s[i] : i \in DOMAIN s})

\* A rule in a table with chains D: a jump leads to one of them, nothing else does.
IsRule(D, r) ==
    /\ {"jump", "type"} \subseteq DOMAIN r
    /\ IF r.type = "JUMP" THEN r.jump \in D ELSE r.jump = NoChain

IsChain(D, x) ==
    /\ {"references", "num_rules", "rules"} \subseteq DOMAIN x
    /\ IsSeq(x.rules) /\ x.num_rules = Len(x.rules) /\ x.references \in Int
    /\ \A i \in DOMAIN x.rules : IsRule(D, x.rules[i])

Lists(h) ==
    /\ "chains" \in DOMAIN h
    /\ IsFiniteSet(DOMAIN h.chains) /\ NoChain \notin DOMAIN h.chains
    /\ \A c \in DOMAIN h.chains : IsChain(DOMAIN h.chains, h.chains[c])

\* The lists, and references that are those of the lists.
HandleInv(h) ==
    /\ Lists(h)
    /\ \A c \in DOMAIN h.chains : h.chains[c].references = Cardinality(Jumps(h.chains, c))

\* What rules of each type have in the fields the compiler copies; no rule jumps to a
\* built-in chain.
SoundRule(r) ==
    /\ {"image", "target", "verdict", "type", "jump"} \subseteq DOMAIN r
    /\ r.jump \notin BuiltIn
    /\ \/ r.type \in {"JUMP", "FALLTHROUGH"} /\ r.target = "" /\ r.verdict = 0
       \/ r.type = "STANDARD" /\ r.target = "" /\ r.verdict \in Int /\ r.verdict < 0
       \/ r.type = "MODULE" /\ r.target \notin {"", "ERROR"} /\ r.verdict = 0

\* The built-in chains are there, and every rule is sound.
Sound(h) ==
    /\ BuiltIn \subseteq DOMAIN h.chains /\ DOMAIN h.chains \subseteq ChainNames
    /\ \A c \in DOMAIN h.chains : \A i \in DOMAIN h.chains[c].rules : SoundRule(h.chains[c].rules[i])

\* The rules and policies, without counters and bookkeeping.
Content(h) ==
    [c \in DOMAIN h.chains |->
        [policy |-> IF c \in BuiltIn THEN h.chains[c].verdict ELSE RETURN,
         rules |-> [i \in DOMAIN h.chains[c].rules |->
                      LET r == h.chains[c].rules[i]
                      IN <<r.image, r.type, r.target, r.verdict, r.jump>>]]]
=============================================================================
