------------------------------- MODULE Commit -------------------------------
(***************************************************************************)
(* Programs that change one table of the kernel through libiptc: TC_INIT   *)
(* (libiptc.c 1270-1342), calls, TC_COMMIT (libiptc.c 2515-2689), while    *)
(* packets are counted.  A program is the daemon or a command of the tool: *)
(* one handle, some calls, a commit, and it is done (conn.c 555-580).      *)
(*                                                                         *)
(* locking is the set of the programs that hold the xtables lock from      *)
(* before TC_INIT until they are done (xshared.c 246-271).  do_command6    *)
(* takes it.  Not in the set are the daemon, as in do_command4 the code    *)
(* that takes it is a comment (iptables.c 1741-1748), and a program that   *)
(* cannot make the socket: it goes on without (xshared.c 255-257).         *)
(*                                                                         *)
(* The kernel's part is what libiptc relies on: it hands out a table only  *)
(* to a reader who knows its size, replaces it only for a writer who knows *)
(* the number of its entries, starts new entries at zero, and adds counters*)
(* only if there are as many as entries.  It may refuse a table.           *)
(***************************************************************************)
EXTENDS Libiptc

CONSTANTS
    Procs,
    NoProc,
    LockKinds,   \* values locking may have
    Tables,      \* handles whose tables the kernel may have at first
    Images,      \* matches of rules that programs add
    RuleTargets, \* their targets
    Counts,      \* the counters they give
    Modules,     \* targets the kernel knows
    MaxRules,    \* bound: rules in a handle
    MaxCalls,    \* bound: calls on a handle
    MaxCommits,  \* bound: tables replaced
    MaxPackets   \* bound: packets counted

ASSUME CommitAssumption ==
    /\ NoProc \notin Procs
    /\ LockKinds \subseteq SUBSET Procs
    /\ {MaxRules, MaxCalls, MaxCommits, MaxPackets} \subseteq Nat
    /\ 2^CounterBits \in Nat \ {0} /\ MaxPackets < 2^CounterBits
    /\ Counts \subseteq 0 .. 2^CounterBits - 1
    /\ \A t \in Tables : HandleInv(t) /\ Sound(t)
    /\ "ERROR" \notin RuleTargets  \* no extension has that name

VARIABLES
    locking, lock,
    kernel,      \* the table: entries and hook_entry
    hits,        \* history: the packets each entry should have counted
    packets,     \* packets counted so far
    version,     \* history: tables replaced so far
    pc,          \* "idle", "info" (SO_GET_INFO done), "use" (TC_INIT done),
                 \* "replaced" (SO_SET_REPLACE done), "wild" (read through NULL)
    info,        \* what SO_GET_INFO returned: num_entries, hook_entry
    handle,
    old,         \* repl->counters: the counters of the replaced table
    calls,       \* calls made on the handle
    asked,       \* history: the entries, as read, that they asked to be zeroed or set
    seen         \* history: the version the handle was read from

procvars == <<pc, info, handle, old, calls, asked, seen>>
vars == <<locking, lock, kernel, hits, packets, version, procvars>>

NoHandle == [chains |-> <<>>, changed |-> FALSE, num_entries |-> 0]
NoInfo == [num_entries |-> 0, hook_entry |-> [b \in BuiltIn |-> 0]]

\* A table as the kernel takes it over: its counters start at zero.
Fresh(blob) ==
    [blob EXCEPT !.entries = [i \in DOMAIN blob.entries |-> [blob.entries[i] EXCEPT !.cnt = 0]]]

\* A table that has counted: differently often for each entry.
Counted(blob) ==
    [blob EXCEPT !.entries = [i \in DOMAIN blob.entries |-> [blob.entries[i] EXCEPT !.cnt = Counter(i)]]]

Init ==
    /\ locking \in LockKinds /\ lock = NoProc
    /\ \E t \in Tables : kernel = Counted(iptcc_compile_table(t))
    /\ hits = [i \in DOMAIN kernel.entries |-> kernel.entries[i].cnt]
    /\ packets = 0 /\ version = 0
    /\ pc = [p \in Procs |-> "idle"]
    /\ info = [p \in Procs |-> NoInfo]
    /\ handle = [p \in Procs |-> NoHandle]
    /\ old = [p \in Procs |-> <<>>]
    /\ calls = [p \in Procs |-> 0]
    /\ asked = [p \in Procs |-> {}]
    /\ seen = [p \in Procs |-> 0]

-----------------------------------------------------------------------------
(* TC_INIT.                                                                *)

\* mutant: what bind returns is not looked at
xtables_lock_taken(p) == IF p \in locking THEN lock' = p ELSE UNCHANGED lock

\* The lock is free and is p's from now on, or p does without.
xtables_lock(p) == IF p \in locking THEN lock = NoProc /\ lock' = p ELSE UNCHANGED lock

SO_GET_INFO(p) ==
    /\ pc[p] = "idle" /\ version < MaxCommits
    /\ xtables_lock(p)
    /\ info' = [info EXCEPT ![p] = [num_entries |-> Len(kernel.entries),
                                    hook_entry |-> kernel.hook_entry]]
    /\ pc' = [pc EXCEPT ![p] = "info"]
    /\ UNCHANGED <<locking, kernel, hits, packets, version, handle, old, calls, asked, seen>>

\* The program is done; its handle is freed, its lock given back.
Leave(p) ==
    /\ pc' = [pc EXCEPT ![p] = "idle"]
    /\ info' = [info EXCEPT ![p] = NoInfo]
    /\ handle' = [handle EXCEPT ![p] = NoHandle]
    /\ old' = [old EXCEPT ![p] = <<>>]
    /\ calls' = [calls EXCEPT ![p] = 0]
    /\ asked' = [asked EXCEPT ![p] = {}]
    /\ seen' = [seen EXCEPT ![p] = 0]
    /\ lock' = IF lock = p THEN NoProc ELSE lock

\* The entries are those of now, the hooks those of SO_GET_INFO.
SO_GET_ENTRIES(p) ==
    LET blob == [entries |-> kernel.entries, hook_entry |-> info[p].hook_entry]
    IN /\ pc[p] = "info"
       /\ UNCHANGED <<locking, kernel, hits, packets, version>>
       /\ \/ /\ \/ Len(kernel.entries) # info[p].num_entries   \* EAGAIN: once more
                \/ ~Unparsable(blob) /\ Unresolved(blob)
             /\ Leave(p)
          \/ /\ Len(kernel.entries) = info[p].num_entries
             /\ UNCHANGED <<lock, info, old, calls, asked>>
             /\ \/ /\ Unparsable(blob)
                   /\ pc' = [pc EXCEPT ![p] = "wild"]
                   /\ UNCHANGED <<handle, seen>>
                \/ /\ ~Unparsable(blob) /\ ~Unresolved(blob)
                   /\ pc' = [pc EXCEPT ![p] = "use"]
                   /\ handle' = [handle EXCEPT ![p] = parse_table(blob)]
                   /\ seen' = [seen EXCEPT ![p] = version]

-----------------------------------------------------------------------------
(* Calls that succeed.  One that fails ends the program, see GiveUp.       *)

RulesOf(h) == MapThenSumSet(LAMBDA c : Len(h.chains[c].rules), DOMAIN h.chains)

Entries == [image : Images, target : RuleTargets, cnt : Counts]

\* The history of what is zeroed: entries by where they were read from, of the rules at some places.
From(rules, at) == {rules[i].from : i \in DOMAIN rules \cap at} \ {0}

\* A call on p's handle that succeeds, with the entries it asks to be zeroed.
Call(p, r, zeroed) ==
    /\ r.ok
    /\ handle' = [handle EXCEPT ![p] = r.h]
    /\ asked' = [asked EXCEPT ![p] = @ \cup zeroed]
    /\ calls' = [calls EXCEPT ![p] = @ + 1]
    /\ UNCHANGED <<locking, lock, kernel, hits, packets, version, pc, info, old, seen>>

Calling(p) == pc[p] = "use" /\ calls[p] < MaxCalls

AddRule(p) ==
    /\ Calling(p) /\ RulesOf(handle[p]) < MaxRules
    /\ \E c \in ChainNames, e \in Entries :
          \/ Call(p, TC_APPEND_ENTRY(handle[p], c, e), {})
          \/ \E n \in 0 .. MaxRules : Call(p, TC_INSERT_ENTRY(handle[p], c, e, n), {})

ReplaceRule(p) ==
    /\ Calling(p)
    /\ \E c \in ChainNames, e \in Entries, n \in 0 .. MaxRules :
          Call(p, TC_REPLACE_ENTRY(handle[p], c, e, n), {})

DeleteRule(p) ==
    /\ Calling(p)
    /\ \E c \in ChainNames :
          \/ \E e \in Entries : Call(p, TC_DELETE_ENTRY(handle[p], c, e), {})
          \/ \E n \in 0 .. MaxRules : Call(p, TC_DELETE_NUM_ENTRY(handle[p], c, n), {})
          \/ Call(p, TC_FLUSH_ENTRIES(handle[p], c), {})

CheckRule(p) ==
    /\ Calling(p)
    /\ \E c \in ChainNames, e \in Entries : Call(p, TC_CHECK_ENTRY(handle[p], c, e), {})

ChangeChain(p) ==
    /\ Calling(p)
    /\ \E c \in ChainNames :
          \/ Call(p, TC_CREATE_CHAIN(handle[p], c), {})
          \/ Call(p, TC_DELETE_CHAIN(handle[p], c), {})
          \/ \E d \in ChainNames : Call(p, TC_RENAME_CHAIN(handle[p], c, d), {})

SetPolicy(p) ==
    /\ Calling(p)
    /\ \E c \in DOMAIN handle[p].chains, v \in {"ACCEPT", "DROP"}, n \in Counts \cup {-1} :
          Call(p, TC_SET_POLICY(handle[p], c, v, n), {handle[p].chains[c].from})

Zero(p) ==
    /\ Calling(p)
    /\ \E c \in DOMAIN handle[p].chains :
          LET ch == handle[p].chains[c]
          IN \/ Call(p, TC_ZERO_ENTRIES(handle[p], c), From(ch.rules, DOMAIN ch.rules) \cup {ch.from})
             \/ \E n \in 0 .. MaxRules :
                   Call(p, TC_ZERO_COUNTER(handle[p], c, n), From(ch.rules, {n}))

\* The end without a commit: a call failed, nothing was changed, or the kernel refused
\* the table.
GiveUp(p) ==
    /\ pc[p] = "use"
    /\ Leave(p)
    /\ UNCHANGED <<locking, kernel, hits, packets, version>>

-----------------------------------------------------------------------------
(* TC_COMMIT.                                                              *)

\* The counter a rule or policy gets, from the counters of the replaced table.
NewCounter(x, counters) ==
    CASE x.map = "NOMAP"  -> 0
      [] x.map = "NORMAL" -> counters[x.pos]
      [] x.map = "ZEROED" -> Counter(counters[x.pos] - x.cnt)
      [] x.map = "SET"    -> x.cnt

\* For each entry of the compiled handle F of the rule or policy there, or 0.
PerEntry(h, F(_)) ==
    Laid(h, LAMBDA c : 0, LAMBDA c, i : F(h.chains[c].rules[i]),
         LAMBDA c : IF c \in BuiltIn THEN F(h.chains[c]) ELSE 0, 0)

\* mutant: the counters of the rule in front
newcounters_shifted(h, counters) ==
    PerEntry(h, LAMBDA x : NewCounter([x EXCEPT !.pos = IF @ > 1 THEN @ - 1 ELSE @], counters))

newcounters(h, counters) == PerEntry(h, LAMBDA x : NewCounter(x, counters))

\* History: what the new entries should have counted.  A rule that was read keeps its
\* hits, without those from before the reading if it is to be zeroed; a policy keeps
\* them unless it is set or zeroed.
HitsAfter(p) ==
    LET h == handle[p]
        counters == [i \in DOMAIN kernel.entries |-> kernel.entries[i].cnt]
        hit(x) == IF x.from = 0 THEN x.cnt
                     ELSE IF x.from \notin asked[p] THEN hits[x.from]
                     ELSE IF "rules" \in DOMAIN x THEN NewCounter(x, counters)
                     ELSE Counter(hits[x.from] - x.cnt)
    IN PerEntry(h, hit)

Acceptable(blob) ==
    \A i \in DOMAIN blob.entries : blob.entries[i].target \in Modules \cup {"", "ERROR"}

SO_SET_REPLACE(p) ==
    LET blob == iptcc_compile_table(handle[p])
    IN /\ pc[p] = "use" /\ handle[p].changed /\ version < MaxCommits
       /\ handle[p].num_entries = Len(kernel.entries)
       /\ Acceptable(blob)
       /\ kernel' = Fresh(blob)
       /\ old' = [old EXCEPT ![p] = [i \in DOMAIN kernel.entries |-> kernel.entries[i].cnt]]
       /\ hits' = IF locking = Procs THEN HitsAfter(p) ELSE [i \in DOMAIN blob.entries |-> 0]
       /\ version' = version + 1
       /\ pc' = [pc EXCEPT ![p] = "replaced"]
       /\ UNCHANGED <<locking, lock, packets, info, handle, calls, asked, seen>>

Added(entries, add) ==
    [i \in DOMAIN entries |-> [entries[i] EXCEPT !.cnt = Counter(entries[i].cnt + add[i])]]

\* Fails, and TC_COMMIT with it, if the number of entries is no longer the handle's.
SO_SET_ADD_COUNTERS(p) ==
    /\ pc[p] = "replaced"
    /\ LET add == newcounters(handle[p], old[p])
       IN kernel' = IF Len(add) = Len(kernel.entries)
                    THEN [kernel EXCEPT !.entries = Added(kernel.entries, add)]
                    ELSE kernel
    /\ Leave(p)
    /\ UNCHANGED <<locking, hits, packets, version>>

\* A packet meets a rule or a policy.
Packet(i) ==
    /\ packets < MaxPackets
    /\ i \in DOMAIN kernel.entries /\ kernel.entries[i].target # "ERROR"
    /\ kernel' = [kernel EXCEPT !.entries[i].cnt = Counter(@ + 1)]
    /\ hits' = IF locking = Procs THEN [hits EXCEPT ![i] = Counter(@ + 1)] ELSE hits
    /\ packets' = packets + 1
    /\ UNCHANGED <<locking, lock, version, procvars>>

Next ==
    \/ \E p \in Procs :
          \/ SO_GET_INFO(p) \/ SO_GET_ENTRIES(p)
          \/ AddRule(p) \/ ReplaceRule(p) \/ DeleteRule(p) \/ CheckRule(p)
          \/ ChangeChain(p) \/ SetPolicy(p) \/ Zero(p) \/ GiveUp(p)
          \/ SO_SET_REPLACE(p) \/ SO_SET_ADD_COUNTERS(p)
    \/ \E i \in DOMAIN kernel.entries : Packet(i)

Spec == Init /\ [][Next]_vars

-----------------------------------------------------------------------------
(* Properties.                                                             *)

\* What libiptc counts beside its lists is right after every call, and no jump leads
\* to a chain that is gone, for any table and whatever the kernel did meanwhile.
CountsExact ==
    \A p \in Procs : pc[p] \in {"use", "replaced"} => CountsExactIn(handle[p])

\* The table a handle would be written as is read back as the same rules, policies
\* and jumps: after any calls, for rules without target, empty chains and jumps in
\* either direction.
RoundTrip ==
    \A p \in Procs : locking = Procs /\ pc[p] = "use" =>
        LET blob == iptcc_compile_table(handle[p])
        IN /\ ~Unparsable(blob) /\ ~Unresolved(blob)
           /\ Content(parse_table(blob)) = Content(handle[p])

\* "Want in kernel: X + Y + Z" (line 2480), and Y + Z for a rule that was zeroed: between
\* commits a rule has counted every packet that met it, before, while and after tables
\* were replaced, whatever was inserted or deleted around it.
CountersKept ==
    locking = Procs /\ lock = NoProc =>
        \A s \in Starts(kernel) : \A i \in FirstEntry(kernel, s) .. LastEntry(kernel, s) - 1 :
            kernel.entries[i].cnt = hits[i]

\* p replaces the table by one made from an older table.
LosesUpdate(p) == pc[p] = "use" /\ pc'[p] = "replaced" /\ seen[p] # version

\* Nobody's table is replaced by one made from an older one: what "Another app is
\* currently holding the xtables lock" (iptables.c 1743) is there to prevent.
NoLostUpdate == [][\A p \in Procs : ~LosesUpdate(p)]_vars

\* The hooks of SO_GET_INFO are those of the table SO_GET_ENTRIES will read.
OneReading == \A p \in Procs : locking = Procs /\ pc[p] = "info" => info[p].hook_entry = kernel.hook_entry

\* Under the lock the two getsockopts of a reading are of one table (hooks and entries
\* fit, so that the parser never takes an entry for what it is not), and the two
\* setsockopts of a commit too (the counters fit the table they are added to, so that a
\* commit that has replaced the table does not report failure).
WholeUnderLock ==
    /\ OneReading
    /\ \A p \in Procs : locking = Procs =>
          /\ pc[p] # "wild"
          /\ pc[p] = "replaced" => new_number(handle[p]) = Len(kernel.entries)
=============================================================================
