# Verification of the rule-table service

The repository is a fork of iptables 1.4.20 with a daemon built on top of it: a
server that receives filtering rules as 72-byte records from a controller, keeps
its own copy of the twelve built-in chains, and changes the kernel's tables by
handing a command line to the iptables code it is linked with. The iptables tool
(the same binary family) reports the commands it has done to the daemon, so that
the daemon's copy follows them.

The modules in this directory are TLA+ models of that code. `*.cfg` files are TLC
configurations, `MC*.tla` the instances they use, `*Proofs.tla` hold
proofs for TLAPS. `PROJECT.json` maps every definition to the source lines it
stands for.

## 1. The system

### Components

| component | source | state it keeps | operations |
|---|---|---|---|
| rule-table mirror | `ruletables/operate_tables.c` | `info[]`: per built-in chain a circular list of `struct ruletable` and a length counter; the last entry is the policy | `init_ruletables`, `do_command` with `do_set_policy`, `do_append`, `do_insert`, `do_alter`, `do_delete`, `free_all`, `all_in` |
| linked list | `ruletables/linux_list.h` | `next`/`prev` of every `list_head` | `list_add_tail`, `list_del`, `list_for_each_entry` |
| daemon service | `ruletables/conn.c`, `ruletables/ruletables.c` | two threads, two listening sockets, one request each | `ipt_server`, `do_com_controller`, `do_com_iptables`, the two `do_message_from_*`, `send_to_kernel`, `alert_to_controller`, `send_to_controller` |
| request to command line | `ruletables/conn.c` `to_argv` | static character buffers | one function |
| iptables command | `ruletables/iptables.c`, `ruletables/xshared.c` | parser locals, `getopt` position | `do_command4`: the option loop, the tests behind it, the call of libiptc |
| libiptc | `libiptc/libiptc.c`, `libip4tc.c` | a copy of one kernel table: chains, rules, jump references, chain index, counter map | `TC_INIT`, rule and chain calls, `TC_COMMIT` |
| xtables lock | `ruletables/xshared.c` | a bound socket | `xtables_lock` |
| libxtables | `libxtables/xtables.c`, `xtoptions.c` | lists of pending and registered extensions, the data in their static structures, merged option tables | registration, `xtables_find_match`/`_target`, `xtables_option_mpcall`, `xtables_option_mfcall` |
| extensions | `extensions/lib*.c` | the match's or target's data, flags of options seen | `parse`, final check, `save`, `print` |
| ip6tables command | `ruletables/ip6tables.c` | as iptables | `do_command6` |
| libipq, utils | `libipq/`, `utils/` | none shared | stand-alone clients |

### How they interact

```
 controller --TCP 6666--> do_com_controller --do_command--> info[]  (mirror)
                             |  ret 1: to_argv -> do_command4 -> libiptc -> kernel
                             |  ret 0: alert_to_controller      (a new connection)
 iptables tool --kernel--> table
      \--Unix socket--> do_com_iptables --do_command--> info[]
                             |  ret 1: send_to_controller (echo)
                             |  ret 0: alert_to_controller
```

Calls inside the process, messages on two sockets, shared memory (`info[]`, used by
both threads without a lock), shared kernel tables (used by the daemon and by any
iptables process; the xtables lock is commented out at `iptables.c:1741-1748`).

### What is hard here

* Two threads change the same lists; neither takes a lock (`conn.c:50-60`).
* The mirror is changed *before* the kernel, and the tool changes the kernel before
  the mirror: in each direction there is a window, and a failure in the middle is not
  undone.
* Rule positions are computed by the mirror and used by the kernel. They mean the same
  place only while both hold the same rules.
* Every error of `do_command4` and every failed connection to the controller calls
  `exit` and ends both threads. A restarted daemon starts from empty tables.
* A request is converted to words and parsed again; the two grammars have to agree on
  masks, ports, positions, verdicts.
* Indexes are signed and tested from above only.
* libiptc finds chains by binary search over an index of cached list positions that
  chain creation, deletion and renaming have to keep right.
* `do_command4` was written for one call per process; the daemon calls it for every
  request, and the extensions' static structures keep what the last request wrote.
* An extension reads, checks, saves and prints its data in four functions written by
  hand; what one stores the other must write and the first must read again.
* A commit is two system calls after two others, and packets are counted all the while;
  counters follow their rules through places that every call shifts.

### What makes each component correct

* Mirror: the counter is the number of entries; the policy is the last entry; rules
  stand by descending priority, first come first within one priority; the position
  reported is the position used; no index reaches memory outside the entries.
* List: every change is one change of the sequence a walk sees; a reader sees a whole
  ring at every moment; between operations the ring reads the same both ways.
* Service: between requests mirror and kernel hold the same rules unless something
  nameable went wrong; what the mirror accepts the kernel can do; every request is
  answered, carried out, or the process is gone; a queued report is read.
* Conversion and command line: the rule that reaches the kernel is the rule asked for;
  which requests end the daemon; the parser's final switch covers what it can be given.
* libiptc: `iptcc_find_label` finds a chain exactly if it exists; positions, jump
  references and `num_rules` agree with the lists; a commit installs the table that
  was built, with the counters it should have, or nothing.
* libxtables: the best revision the kernel knows serves a name, in whatever order the
  revisions register; an option reaches the match it was written for; nothing of one
  command line is seen by the next; every line ends.
* Extensions: a saved rule reads back as the same rule; `!` is never lost; a listing
  shows what a rule does; the order of options does not matter.

`PROJECT.json` lists the hazards line by line with the properties that cover each.

## 2. Modules

| module | models | state | composed with |
|---|---|---|---|
| `RuleTables` | `operate_tables.c` | `list`, `length`, `mem`, `out` | |
| `PolicyChains` | what the mirror promises (abstract) | `policy`, `rules` | implemented by `RuleTables` (`ImplementsChains`) |
| `ServiceProofs` | theorems about `RuleTables` (its states and steps, and that it implements `PolicyChains`), about what `do_command4` reads of `to_argv`'s words, and about `Service` | | |
| `ListRace` | one list at the grain of loads and stores, two threads | `next`, `prev`, `length`, `live`, `th`, `does` | justifies `InsertAt`/`RemoveAt` as single steps |
| `ListRaceProofs` | theorems about `ListRace` | | |
| `Foundations` | induction and recursion over the natural numbers, inserting into and removing from a sequence, for proofs | | extended by the proofs about the mirror, the list and the chain index |
| `IpPart` | addresses, masks, lists of them and interface names: how libxtables reads them, how both tools save and list them | (operators) | |
| `DoCommand4` | the option loop of `do_command4` and the tests behind it | (operators) | extends `IpPart` |
| `DoCommand6` | where `do_command6` differs | (operators) | extends `DoCommand4` |
| `RuleCalls` | the rules of a line and the libiptc calls that carry it out | (operators) | extends `DoCommand6` |
| `ToArgv` | `to_argv`, mask and port words | (operators) | extends `DoCommand4` |
| `CommandLine` | both commands reading, word by word, any line that may be typed, a given line, or a line written for a request | `family`, `request`, `argv`, `line`, `count`, `done` | extends `ToArgv`, `RuleCalls` |
| `CommandLineProofs` | theorem about `CommandLine` | | |
| `Service` | both threads, mirror, conversion, kernel, tool, controller, exits | mirror, `kernel`, `pc`, `hd`, `unixq`, `up`, `running`, `drift` | extends `RuleTables`, `ToArgv` |
| `Libiptc` | a handle of libiptc, the calls that change it, reading it from and compiling it to what the kernel has | (operators) | |
| `Commit` | programs that read a table, change it and replace it, the kernel, packets that are counted, the xtables lock | `lock`, `kernel`, `pc`, `info`, `handle`, `old`, and histories | extends `Libiptc` |
| `CommitProofs` | theorems about `Commit` | | |
| `ChainIndex` | the sorted chain list of libiptc and its index, from reading the table to the last call | `phase`, `order`, `chains`, `num_chains`, `index`, `sorted_offsets`, `calls` | |
| `ChainIndexProofs` | theorems about `ChainIndex` | | |
| `ChainSearch` | the binary search of that index, turn by turn | `sz`, `key`, `name`, `pos`, `end`, `pc` | the loop `ChainIndex` runs as one step |
| `ChainSearchProofs` | theorems about `ChainSearch` | | |
| `MCChains` | the two for TLC, side by side | those of both, `part` | extends `ChainIndex`, `ChainSearch` |
| `Revisions` | which revision of an extension serves a name (abstract) | `compatible`, `waiting`, `serving` | implemented by `Registry` (`ImplementsRevisions`) |
| `RevisionOrder` | the structures of extensions and which of two is preferred | (operators) | extended by `Revisions` and `Registry` |
| `RevisionsProofs` | theorems about `Revisions` | | |
| `Registry` | the lists of extensions, searching them, and command lines that use them | the lists, `data` of each structure, `opts`, `matches`, `target`, `line`, `find`, `pc` | |
| `Xtoptions` | the guided option parser | (operators) | |
| `PortMatches` ... `MarkTargets` | the extensions, by kind | (operators) | extend `Xtoptions` |
| `Extensions` | the tables and functions of an extension by its name; a whole line | (operators) | extends those |
| `OptionLine` | the options of one match or target, typed, saved, listed, and read again | `call`, `given`, `status`, `saved`, `again` | extends `Extensions` |

### 2.1 RuleTables

`list[l]` is the sequence of entries of `info[l]` from `head->next` to `head->prev`,
`length[l]` is `info[l].length`; they are separate variables because the code trusts
the counter for every bound test. An entry is `[head, priority, actionDesc]`:
`struct basic_header` is one value, because no operation looks inside it. The
constants `Heads`, `NoHead`, `Priorities`, `Requests`, `MaxRules` are arbitrary up
to named assumptions.

`do_command(h)` is one action per command, with the code's order of tests: unknown
chain, index out of range, then the change. `Refuse` is `ret = 0` (an alert follows).
`WalkTo` is the loop `for (j = 0; j < index; j++) p = p->next` on the circular list:
position 0 is the list head, and a write or `free` there sets `mem = "wild"`, after
which the model makes no step. `do_insert`'s walk compares with *every* entry, the
policy (priority 100) included, and `h->index` gets the counter `j`, as in the code.

### 2.2 ListRace

The same operations on one ring, with `__list_add` and `__list_del` as four stores
each in program order, `length++` as load and store, `malloc` as the choice of a dead
node, `free` as poisoning. What a search compares is left out: a walk may stop
anywhere. `does[t]` says which operations thread `t` performs: a run chooses it at the
start from `Roles` (a single thread, a writer and a reader, two that append, two that
append of which one alters, two that do everything), and it never changes. Every store and every dereference of a pointer is one step of one thread. A
dereference of something that is not a live entry sets `wild`. The outer loop of
`free_all` reads one freed pointer it does not use; it is left out.
Memory is sequentially consistent, which is a stronger machine than the code has; what
goes wrong here goes wrong there as well.

### 2.3 IpPart, DoCommand4, DoCommand6, ToArgv, RuleCalls, CommandLine

`Read(p, w)` is one turn of the getopt loop: `p.want` says which argument, optional
word or nothing is expected, so that `argv[optind++]` reads are steps of the same
loop. `Finish(p)` is the end of the line and the tests of lines 1687-1739 and 1750-1830.
`xtables_error` and `exit_tryhelp` are `p.exit`. A rule's match is the set of options
given, with their text and inversion, and its matches in the order they were loaded. A
target is one of the four verdicts or, after `-j` and `-g`, a chain of the table; after
`-g` a chain only (1824-1830). A rule that jumps to a built-in chain is read, and refused
by the libiptc call. User-defined chains are left out, because no request can name one.
`LongNames` are the words `strlen` finds too long for a chain (1736).

`--sport` and `--dport` stand for the options of matches. They are read by a match that is
loaded: by `-m`, at any place and for any command, or by the protocol of `-p` when no match
reads them (`WithPortMatch`, `load_proto`). `serving` is the match they reach: of several
loaded with one name the last, of several names the first to have been loaded, as
`command_default` searches `option_offset` ranges and skips what is `completed`. A match
reads an option once. Neither `-m` nor these options have a letter in `options`, so that
`generic_opt_check` says nothing of them: `iptables -F INPUT -m tcp --sport 22` flushes the
chain. `SwitchComplete` says exactly that: what a command without a rule may ignore are
matches and their options, never an address, interface, protocol or target.
`DoCommand6` has the differences of `do_command6`: its options (no `-f`), the family it
refuses, and the test of the nat table it does not have. The two files are otherwise
twins, and `Read6` is the loop of `DoCommand4` with another `getopt`.

A word carries what `-s` or `-d` would read it as, a list of addresses with masks, and the
letters `-i` or `-o` would take it for. `IpPart` reads them: an address is a number, a
first byte alone (IPv4 completes it with zeros), or a name, which stands for one address or
several; a mask is missing, a number of bits, or written out. `xtables_ipparse_multiple`
is the loop over the list with its three counters: `count`, which begins as the number of commas
and one and grows by every further address of a name, the place `i`, and the items. A null mask replaces the
name, known or not. Writing is modelled for saving (`print_ip`, `print_iface`) and
for the columns of a listing (`print_firewall`). Hosts and networks are looked up in one
function, `Hosts`. The two loops for IPv4 and IPv6 are one operator; where the parsers
differ (masks, first bytes, printing) each has its own.

`ToArgv` writes the words in the code's order. An address word has as its text what
`xtables_ipparse_multiple` makes of `a.b.c.d/n`, so that two words are equal when the
kernel sees the same match; a port word carries the range, and a reversed one is marked
because `parse_tcp_ports` refuses it.

`RuleCalls` has what follows for the commands that carry a rule: `Rules` are the rules of a
line, one for each source and destination in the order of the two loops; `Call` makes
the libiptc calls on a handle, where `ret &=` goes on after a failure and nothing is taken
back; `Carried` is what the table holds afterwards, which depends on the caller dropping
the handle. What one call does to a chain is its effect in `Libiptc`, without counters.

`CommandLine` chooses a family, and a request, a given line, or words one at a time; the
daemon has no IPv6 (`conn.c:582-611` is a comment).

### 2.4 Service

Threads are `pc` values between the points where other parties can interfere:
`accept`, `message` (read, not applied), `kernel` (mirror changed, kernel next),
`alert`, `echo`, `all_in`. `do_command` is one step here; `ListRace` is where it is
taken apart. `send_to_kernel` either exits (the line is refused), takes effect, or
is refused by the kernel, after which the thread alerts or (on `EAGAIN`) exits.
`LineOf` is the composition `do_command4(to_argv(h))`; the kernel's tables are
changed by what it yields. `Crash` ends a process whose memory is corrupt,
`Restart` starts from `init_ruletables` without reading the kernel.

`drift` is a history variable. It becomes true at one of five events: both threads
had accepted changes under way (overlap); a deletion by content of an entry the mirror
holds, where another has the same match and verdict but another priority (twin); a report
the mirror refused (missed); a change the mirror accepted and the kernel refused; a start
over tables that are not empty. No guard reads it. In the shipped configuration each of
them happens, and with any one of them removed (the twin at either thread, the overlap seen
by either) TLC finds `MirrorIsKernel` violated, so none is an excuse.

### 2.5 ChainIndex and ChainSearch

`chains` is the user-defined part of `handle->chains` (the built-in chains stand in
front of it and are compared first). Names are integers in `strcmp` order. `index` is
`chain_index` as a function of slots. A slot is a pointer, and the model keeps what it
can point to: a chain, `NULL` (`memset` of the array), the list head read as a
`struct chain_head` (`list_entry` of `&handle->chains`, which happens when the last
chain is deleted), or memory that was freed. The name of the list head is what lies
where a name would be, `chain_iterator_cur`: the empty string, because no program of
the repository changes chains while it iterates (`for_each_chain4` collects the names
first).

Parsing (`__iptcc_p_add_chain`, `EndOfTable`, `EndOfFixup`) takes the chains in the
order in which the kernel holds them, which is arbitrary; `EndOfFixup` is where the
jumps have been resolved by offset. After it come `TC_CREATE_CHAIN`, `TC_DELETE_CHAIN`,
`TC_RENAME_CHAIN`, each one action with its lookups, its searches, the
index update and a rebuild where the code rebuilds. A read through `NULL` or of a freed
chain ends in `phase = "fault"`. `calls` is the set of calls this program makes, chosen
at the start from `Programs`.

`__iptcc_bsearch_chain_index` is an operator there, `Turns(sz)` turns of the loop for an
index of `sz` slots. That many always bring the search to its end (`SearchResult`, proved).
`ChainSearch` has the loop itself as a state machine on an arbitrary ascending array.
`MCChains` runs the two in behaviours of their own: `part` says which, the variables of the
other stay as they are.

### 2.6 Libiptc and Commit

A *handle* is what `TC_INIT` makes of a kernel table: chains by name with their rules,
`num_rules` and `references` beside the lists, and for each rule and policy a map that
says what becomes of its counter. A *blob* is the kernel's form: a sequence of entries
and the place where each hook begins. All entries have one size, so that offset and
index are one position; a jump's verdict is the position behind the target's header, a
rule without target has the position of the next entry, a verdict is negative.
`parse_table` and `iptcc_compile_table` convert; each call (`TC_INSERT_ENTRY` to
`TC_SET_POLICY`) is an operator that returns success and the handle after it.
`Located` is the walk from the nearer end. `Offsets` adds up the sizes of the chains in the
order of the list, `Order`, as `iptcc_compile_table_prep` does.
`delete_entry` builds and drops a rule to
compare with, references included, also for a check; a target that is no chain leaves
the handle changed even then. Chains are found by name here; that the index finds them
is the subject of `ChainIndex`.

In `Commit` a program is `idle`, has done `SO_GET_INFO` (`info`), has a handle (`use`), has
done `SO_SET_REPLACE` (`replaced`), and is `idle` again after `SO_SET_ADD_COUNTERS`; the
four system calls are four steps, with calls on the handle between the second and the
third. The lock is taken with the first and given back with the last, as the socket
bound by `xtables_lock` is: at the end of the process. `locking` is the set of the programs
that take it: `do_command6` does, unless its `socket()` fails, when `xtables_lock` answers
true without a lock (`xshared.c:255-257`); `do_command4`, the daemon's, does not (its call is
a comment). What is said of the lock is said where all programs take it; `NoLostUpdate` is
asked where the daemon does not, and is violated. `GiveUp` is every end without a commit: a call failed, nothing
was changed, the kernel refused. The kernel is what libiptc relies on: entries only for a
reader who knows the size, a new table only from a writer who knows the number of
entries, new entries from zero, counters added only if there are as many as entries.
`hits` counts for each entry the packets it should have counted; `asked` holds the
entries whose counters a program asked to be zeroed. Both are histories. A counter has
`CounterBits` bits and wraps.

`Service` keeps its one-step kernel: the daemon's thread is one program of `Commit` and
what it sees of the others is `EAGAIN` or a lost change, which is an event of `drift` there.
The daemon could not simply use the lock as it stands: `xtables_lock` never closes the
socket it binds, which the end of the process does for a command; the daemon's second
request would find the lock taken by its first, and exit.

### 2.7 RevisionOrder, Revisions, Registry

An extension file registers structures (`struct xtables_match`, `xtables_target`), each
with a name, a revision, a family and perhaps the name of a newer extension (alias).
Registration pushes them onto a pending list; the first search for a name registers the
pending ones of that name fully, comparing each with what serves the name already and
asking the kernel. `Registry` keeps both lists as the code does, threaded through
one `next` field per structure. A search is a stack of frames (`find.calls`), because
`xtables_fully_register_pending_match` searches again while the outer search stands in
the list: `Scan` is a turn of the loop over the pending ones, `Register` the end of the
inner search, `Load` is `load_extension` (in a build with files). What the caller does
with the result is an action of its own (`command_match`, `command_jump`,
`should_load_proto`, `load_proto`, `standard_target`).

A command line is `Begin` (the resets at the start of `do_command4`), a word at a time
(`Match`, `Jump`, `Proto`, `Option`), `EndOfWords`, and `Finish` (the data are copied to
the rule, freed, and the merged options dropped). `data[s].m` says whether the structure
points at nothing, at live memory or at freed memory; a second use of a match makes a
clone, which is an element of `matches` with data of its own. An option is an
`option_offset` range plus a number, and goes to whoever's range it falls in.
Builds with `ALL_INCLUSIVE` register all extensions at the start of every request
(`conn.c:555`), as the daemon does.

`Revisions` is the promise: structures are considered in any order, the name ends up
with the best one the kernel knows. `Registry` implements it with `serving` the first
structure of the name in the registered list.

Simplified: options are names; a numeric `-p` is left out; what extensions' final
checks refuse is in `OptionLine`; the libiptc call of a line is left out; reading
`/proc` or asking the kernel for a revision is the constant `Kernels`.

### 2.8 Xtoptions, the extensions, OptionLine

`Xtoptions` is `libxtables/xtoptions.c`: an option table is a function from option names
to entries (type, flags, where the value is stored, what it excludes and needs, minimum
and maximum), `xtopt_subparse` has a parser for each type, `xtables_option_parse` and
`xtables_options_fcheck` use them. An argument is the sequence of its components; the
characters are gone, the values and separators stay. Each extension then has its table,
its initial data, what its `parse` function does with the call record after the guided
parser, its final check, and `save` and `print`. `save` yields a line as options with
arguments, in the order in which the code writes them, so that it can be read again;
`print` yields the set of options a listing shows. Families that differ in the
length of an address share one definition; revisions are extensions of their own.

`OptionLine` types a line option by option (`Option`), ends it (`EndOfLine`: final
checks, then `save`), and gives the program the saved line, the line without an
inversion, and the line with two neighbours swapped (`ReadAgain`). The properties compare.

Where the code breaks a property the property says so by name: `Lossy`,
`InversionIgnored`, `Unlisted` and `OrderMatters` list, extension by extension, the data
for which it does, and `SavedIsRead` is an equivalence, so that an entry of `Lossy`
that was repaired in the code would fail the run. Section 3 describes them.

## 3. Runs

| run | question | bounds |
|---|---|---|
| `mirror` | every mix of commands on three tables, priorities 0, 7, 100 and 200, indexes -1 to beyond the end, commands that name one, all or none of the chains: counter, policy, order, reported place, stray writes, refinement of `PolicyChains` | 3 rules in all lists together |
| `list_threads` | list operations store by store: one thread; a writer and a reader; two threads that append; two that append, one of which alters | 4 nodes, 5 operations |
| `list_consecutive` | **violated**: two threads, all operations | 3 nodes, 4 operations |
| `command_line` | for each family every typed line, lines of rules with addresses, masks, lists, names and interfaces of every form, lines with matches loaded by name and by protocol, and every request of a set that crosses commands, verdicts, masks, ports, protocols and indexes, written and read back | 5 words typed; addresses of 4 bits |
| `service` | controller and tool edit; refused, dropped and fatal requests, exits, restarts, a controller that comes and goes: mirror and kernel agree, requests end, reports are read | 3 rules in all, requests under way among them |
| `chains` | any order of chains in the kernel, then creation and deletion, without and with renaming; and the search of the index alone, every ascending array and name | 5 parsed, 7 names, buckets of 2; 7 slots, 8 names |
| `chain_rename_null` | **violated**: renaming leaves a `NULL` slot that is read | as above |
| `commit` | two programs under the lock, each call on tables with jumps in both directions, packets in between: counts, compiled form, counters, one table read | 3 rules, 1 call per handle, 2 commits, 1 packet |
| `commit_unlocked` | **violated**: the tool takes the lock and the daemon does not; one's change is lost | as above, one table |
| `registry` | two requests after each other in one process, with matches in several revisions, an alias, a clone, a protocol that loads its match, a target and a name that is a chain | 2 lines of 4 words together, 2 kernels |
| `registry_static` | **violated**: in a static build the second request never ends | as above |
| `options` | each extension, each line of a few options with arguments at the ends of their ranges, what it stores, saves, lists, and reads again | 2 to 6 options |

What the passing runs show:

* **The mirror keeps its promises** for one caller: `LengthExact`, `PolicyAtTail`,
  `RulesSorted`, `ReportedPlace`, and it implements `PolicyChains`. The only way out is
  an index below one (`StrayOnlyBelowOne`): zero for ALTER, negative for both.
* **One thread, or one writer and one reader, cannot tear the list** (`OneStoreChanges`,
  `ForwardWhole`, `RingExact`): the store of `prev->next` is the change. Two threads that
  append may lose entries, but no walk leaves the ring (`ForwardWhole`, `NeverWild`): these
  properties name the roles they hold for. What they lose is still counted, so `length` may
  exceed the ring; a third request, an ALTER of the last number, then walks past the
  policy to the list head and would write there. `NeverWild` names that way out, and
  `ForwardWhole` holds next to it. With two writers of every kind nothing of this is
  left, which the violation of `ConsecutiveEntries` shows at its first step.
* **The parsers** reach their switch only with sets of commands it has a case for, with
  the number and chain it relies on, and never with a part of a rule they would ignore but
  for matches and their options, which nothing guards (`SwitchComplete`).
* **The conversion** keeps command, chain, number, and the address under a prefix mask
  (`RequestKept`); the requests that end the daemon are exactly those `Fatal` lists.
* **The rules of a line** take, together, exactly the packets its addresses describe
  (`RulesMeanLine`); they are made or deleted all or not at all, and `-D` takes back what `-A`
  or `-I` made, whatever the chain held before (`WholeAndUndone`); they are saved as
  lines that make them again and listed so that different ones can be told apart, with
  two exceptions (`RuleShown`, see *Findings*).
* **Mirror and kernel agree** at rest unless one of the five drift events happened.
* **Every request ends** in an answer, in the kernel, or with the process.
* **Chain lookups are exact** for every history of creations, deletions and renamings
  that does not fault, and none faults without renaming (`LookupExact`); user-defined
  chains stay in the order of their names (`ListInOrder`), and jumps are resolved for
  every order of chains in the kernel (`JumpsResolved`).

* **A commit under the lock is whole**: after any call the counts are those of the lists
  (`CountsExact`), the compiled table is read back as the same rules (`RoundTrip`),
  every rule has counted every packet, whatever was inserted or deleted in front of it
  (`CountersKept`; not so the policies, see below), hooks and entries are of one table and
  counters fit the table they are added to (`WholeUnderLock`). The daemon takes no lock, so
  that for it these hold only while no other program commits; `commit_unlocked` shows what
  happens otherwise.
* **Requests do not meet in the extensions**: what a match has seen is of this line
  (`OwnData`), an option goes to its match (`OptionsDispatched`, with one exception it
  names), the best revision serves (`ImplementsRevisions`), every line ends (`LineEnds`).
* **Saved rules read back**, except as listed under *Where the extensions disagree*.

### Bounds and why they are enough

* `MaxRules` bounds the rules in all lists together. Three rules and a policy in one
  list are a rule before, between and behind others, and every index relation (below,
  first, inside, last rule, policy, beyond); the same three spread over several lists
  show that an operation on one leaves the others alone. In `service` three is never the
  limit that stops the daemon: `WithRoom` (nobody sends an APPEND unless mirror and kernel,
  with the APPENDs under way, hold fewer than three) restrains only the senders, and a
  request in flight is always applied. Two rules of one image and two priorities, and a
  third, are what the drift events need: the third separates the twins, so that mirror and
  kernel are seen to have deleted different ones. The tool appends one kind of rule, which
  the controller deletes too, and deletes one of the controller's.
* `VIEW WithoutOut` (`service`): `out` is what `do_command` returned last;
  no step reads it in the next state, so states that differ in it only are one.
* `LongNames` has one word; `Words` and `Loads` have two matches with port options, one
  without, a protocol by name and by number, and one without a match. `-p`, `-m` or both
  come before an option, once or twice, for commands with and without a rule.
* `MaxTokens = 5`: a command with chain and number and an option with argument, two
  commands with their words, or a negated option with argument and a command with its chain;
  the tests behind the loop compare two of them. Longer lines are those of
  requests (up to 14 words) and the given ones.
* `AddrBits = 4` (2 in `Service`) in place of 32 or 128: counting bits and clearing host bits
  work bit by bit, and two bytes of two bits are enough for a prefix that ends within a
  byte, between two, before the first and behind the last. Every address is compared in
  `RulesMeanLine`. Ports are small numbers for the same reason.
* `Hosts`: a name with one address, one with two, one with three of which two are equal.
  Lists have up to three items, so that a name of several addresses stands first, between
  and last.
* `IFNAMSIZ = 4` in place of 16: names of up to three letters, `+` among them at each place.
* The chains of `WholeAndUndone` have up to two rules, of the line and of others: fewer
  than, as many as, and others than the line needs.
* `MaxOps`: list operations started, both threads together: five with four nodes build a
  ring, empty it and build it again; four with three nodes let two pairs interleave.
* The queue of the Unix socket holds at most one report: the tool waits for the reply
  of `connect`/`send` on a listening socket served by one thread, and a second report is
  the first of the next round.
* `CHAIN_INDEX_BUCKET_LEN = 2`, `CHAIN_INDEX_INSERT_MAX = 2` stand for 40 and 355: with
  7 names there are up to four slots, full and partial buckets, insertions that do not
  rebuild and one that does. The code uses the two numbers nowhere else.
* `commit`: each of two handles makes one call, and two commits follow each other, so that
  the second works on what the first left; the tables have a chain behind the jump to it
  and one in front, a rule without target, an empty chain. One packet at any moment
  between any two steps shows what is counted when. Entries start with counters equal to
  their positions, so that a counter at a wrong place shows. `CounterBits = 4`: no sum
  of the run reaches 16, so that a wrap would be the code's. `SYMMETRY ProcSymmetry`: programs
  differ only in name; the run states no liveness.
* `registry`: four words over two lines are a match with an option on each line; a match
  twice and its option; `-p`, an option that loads the match, then the same option. The
  words are shared because what one line leaves behind needs few words to be seen by the
  next. The two kernels know an alias's revision, or only the oldest. The protocols `tcp`
  and `udp` share an option name.
* `options`: `MaxOptions` is 2 for most extensions (each pair in each order), and more where
  a line needs more to be accepted (6 for CLUSTERIP, 4 for policy). Arguments of a type
  are the minimum, the maximum, one more, an inner value, an empty end of a range, a
  range upside down, and for text one that fits and one that does not. `AddressBits = 9`
  stands for 32 or 128, the least in which 255, the length stored for a mask that is no
  prefix, is itself an address that is none; `UINT32_MAX` is the largest integer of TLC. Sizes of arrays and strings are
  scaled (names of 7, patterns of 3) and named in the modules.
* `SYMMETRY NodeSymmetry` permutes the list nodes, which only `malloc` tells apart; no
  liveness property is checked under it.
* `CHECK_DEADLOCK FALSE` everywhere: the instances stop at a bound, at the end of a line
  or search, after a crash, or when every party is idle.

### Fairness

`Service`: weak fairness for each of the two threads, whose steps
(`do_message_from_controller`, `send_to_kernel` and the sends of the one; `do_com_iptables`
with a report waiting, `do_message_from_iptables` and the sends of the other) it takes when it
can go on by itself, because threads are scheduled by the system and the calls return
or fail; and for `Crash`, because memory that is corrupt does not stay unnoticed for
ever. None for the controller, the tool, and the restart: nobody is obliged to send or
to start the daemon again. `ChainSearch`: weak fairness of its only action, a
sequential loop (`SearchStep` in `MCChains`). `Registry`: weak fairness of `Step`, the program that reads its line
and calls nothing that waits; none of `Begin`, nobody has to send a request. The other
modules state safety only.

### Findings

`PROJECT.json` quotes the lines.

1. `list_consecutive`: two threads in the list macros without a lock.
2. `chain_rename_null`: `TC_RENAME_CHAIN` may leave a `NULL` slot in the chain index, which
   the search reads one position ahead (`libiptc.c:413`, `2393`): one `iptables -E` of
   the last of 81 chains.
3. `registry_static`: in a static build `send_to_kernel` registers the extensions again for
   every request (`conn.c:555-556`); structures that are registered already are pushed onto the
   pending list through the same link, and the second request walks a ring for ever.
4. `commit_unlocked`: `-w` is offered, read and documented ("wait for the xtables lock",
   `iptables.c:255`), but `do_command4` has the call that takes the lock in a comment
   (`iptables.c:1741-1748`). The daemon and the tool read one table; the tool replaces it, and
   the daemon replaces that by what it made from the older one. With the lock
   excluded are also a reading of two tables and a commit whose counters no longer
   fit (`libiptc.c:1353`, `2675`); without it both may happen.

Seen while modelling, and part of the models without a run of its own: a request that
is neither TCP nor UDP and has no ports is announced, then neither done nor answered
(`conn.c:190`; `Service` has such requests); policies are read with the counter
map that means "was zeroed" (`libiptc.c:823`), so that every commit drops what they have
counted; a byte rate below 16 b/s has no whole cost, and with a burst beside it
`libxt_hashlimit.c:153-159` divides by zero (the model has the program end there, as a line
that is refused).

Two exceptions of `RuleShown` are of this kind. `xtables_ipmask_to_numeric` stores the
prefix length, or -1, in a `uint32_t` (`xtables.c:1243`), so that the branch for masks that are "not
a decent combination of 1's and 0's" is never taken and all of them are listed as `/-1`;
the IPv6 function has an `int`. And `! -i +`, which no packet passes, is saved as no
option at all, since nothing of a bare `+` is compared (`iptables.c:970`).

A policy request of the controller ends the daemon, because it must carry `-p` to be
served and `-P` forbids it; `ExitsOnlyIfFatal` counts it among the fatal requests.

### Where the extensions disagree

`SavedIsRead` holds except for these (`Lossy` in `OptionLine`):

| extension | what is not kept |
|---|---|
| tcp, udp | an inverted full port range is not saved |
| esp, ah, frag, rt | the full range of a number is not saved, though it was given; `rt` saves one that was not |
| mh | an inverted full range of types |
| icmp | `255/code` is saved as `any` |
| sctp | ASCONF (193) is looked up in a table that is shorter |
| quota | `!` is saved without a blank before it, as `-m quota! --quota` |
| limit, hashlimit | a period that is no whole number of a unit is saved as another rate: 4838/min is 124, which saves as 80/sec, which is 125 |
| hashlimit | a burst in bytes is cut to a unit; a byte rate below 16 b/s is saved as 0b/s, which is refused; of ip6tables, a mask that is no prefix |
| connbytes | the range 0:0 |
| conntrack | revision 0 drops the states; revision 1 keeps eight bits of the states, so that UNTRACKED alone is stored as none; revision 3 takes a range that ends below its start and saves it so |
| state | revision 0: states of the complement |
| policy | `none` with elements |
| time | a stop date of 0, empty sets of days, day 0 |
| devgroup | `--dst-group` saved with the source's number |
| ipvs | `--vproto` |
| cluster | a node mask with bits above the limit |
| ECN | the IP bits, when both TCP bits are removed |
| LED | a delay `inf` is -1 and is saved as a number (`libxt_LED.c:112`) |
| NFQUEUE | the range 0:65535 has 65536 queues, stored in 16 bits as 0 |
| SNPT, DNPT | the first option is written without a blank behind the target's name |
| TCPOPTSTRIP | no option at all: the word is saved without an argument |

The mask of hashlimit is stored as a length, and one that is no prefix as 255. It is saved
as that number; `xtopt_parse_plen` tries what is no length as an address
(`xtoptions.c:707-710`), and `getaddrinfo` reads 255 as 0.0.0.255, which is no prefix
either: the IPv4 line reads back. No IPv6 address is written that way.

`InversionKept` excepts `dst` (`! --dst-len`), `set` revision 2 (`! --return-nomatch`) and
`connbytes` with equal ends. `OrderFree` excepts pairs that share a field:
`--ctstatus` with `--ctproto` (`libxt_conntrack.c:412-417`), `--rt-type` before
`--rt-0-*`, `--persistent` of SNAT and DNAT before the address, the options of ECN, the two of
TCPMSS, `--queue-bypass` after `--queue-cpu-fanout` (which it wipes out), and the
tuple of HMARK with fields it excludes.

## 4. Proofs

`ServiceProofs` begins with the mirror. It proves, for every set of headers, priorities and requests and every
`MaxRules`, from `HeadsAssumption` (the empty header is a header),
`PrioritiesAssumption` (one byte), `RequestsAssumption` (requests have the fields of
`struct handle`) and `MaxRulesAssumption`: `TypeOK`, `LengthExact`, `PolicyAtTail`,
`RulesSorted`. None is inductive alone. Refusing an index needs the counter; the
counter's decrement is right only if an entry was there; that a deletion does not take
the policy needs counter and policy together; that `do_insert` stops in front of the
policy needs the policy's priority and that of the rules. `IInv` says of each list that
it is a sequence of entries, that its counter is its length, that its last entry is a
policy, and that the entries before it descend; `GoodList` is the part about one list.
Lemmas say what insertion, removal and replacement do to any sequence, then what they
do to a `GoodList`; one step per command uses them. Theorem `MirrorInvariant` is
`Spec => []IInv`, the four others follow.

The second part proves from the same assumptions what the steps of the mirror do.
`Placed` says of one list that it grew by one entry at a position within it, and of the
others that they did not change; `AppendPlaces` shows it of `-A` from what it shows of the
walk of `do_append`. From it follow `ReportedPlace` and the step of `PolicyChains` that
adds a rule. `StrayOnlyBelowOne` needs `IInv`: an index that is not above the counter is
within the ring only because the counter is the ring's length. For `ImplementsChains` a
list maps to its last entry (the policy) and its front (the rules); four lemmas say what
inserting, removing and replacing an entry of a list do to its front, and one lemma for
each kind of request (`AddImplements`, `SetPolicyImplements`, `AlterImplements`,
`UnlinkImplements`, `CleanImplements`) maps the request to a step of `PolicyChains` or to
no change of it. Both sides need `PolicyAtTail`: without it a request could take
the last entry, and the front would lose a rule nobody named.

The rest of the module is about `Service`, and proves `MirrorIsKernel` and
`KernelCanFollow` for any requests of controller and tool, in any order. Besides those named
it uses `ServiceRequestsAssumption` (both sides send requests), `ToolRequestsAssumption` (the
tool, which has no notion of priority, reports an `-A` with priority 0) and
`IpPartAssumption` (the width of addresses). The argument has four layers.
*Reading*: `do_command4` is a fold over the words of `to_argv`; what the words of a request do to
the parser is shown pair by pair, option and argument, each asked of two parsers that stand
alike (`PairReads`), and put together part by part: table, command, header, target. So two
requests that differ in number and command only are read as the same rule, and the line has
the command, chain and number `to_argv` wrote or ends the daemon (`AppendLine` to `AllLine`).
*Images*: `MirrorImage` is a function of the policies and of the rules of each list; the image
of an inserted, removed or replaced rule is the insertion, removal or replacement of its image.
*Commands*: one lemma for each command (`PolicyFollowed` to `CleanFollowed`) shows that where
the kernel holds the mirror's image, the line of an accepted request has one result there,
the mirror's new image. For `-D` by content that needs that no other entry has the same image
and another priority; for a number that the mirror's position is the one
`ReportedPlace` is about, and the line's.
*Threads*: neither property is inductive, since at rest says nothing of requests under way.
`SInv` adds to `IInv` where the threads can be (`Wired`) and, as long as nothing drifted,
`Agrees`: if the controller's line is still to be sent, the kernel becomes the mirror's image by
it (`Told`) and no report is pending; otherwise the kernel is where the mirror's image comes
by the reports that are pending, the one that was read and then the one that waits (`Led`).
One lemma for each action keeps it.

`ListRaceProofs` proves, for any number of threads, entries and operations, from
`ListRaceAssumption` (threads and entries are finitely many; head, policy, poison and entries
are different), all four properties of `list_threads`. None is inductive: what a walk meets
depends on where in its stores each thread is. There are two invariants.
`WriterInv(w)` speaks of a list that only `w` changes. It says that a function
`f[0 .. n + 1]`, from the head through the entries back to the head, is the list (`Ring`),
and for each place in the code of `w` which stores have been made, so that `prev` and
`length` are those of the ring but for what `w` has still to store; and that what any
thread has in its local variables is the head, an entry, or what `w` has taken out. Every
store of `w` but one leaves `f` as it is; the store of `prev->next` makes it one
longer or one shorter. `AddersInv` speaks of threads that only insert and alter, and
may lose entries: there is no ring then, but there is a rank of the cells that goes up
along `next` and down along `prev`, with the policy last; an entry being linked gets its rank
between its neighbours at the load of `prv`. The invariant of the theorem `InvHolds` is
both. `RingIsExact`, `ForwardIsWhole` and `WildOnlyInRace` follow from it; for
`ChangesAreOneStore` each store is compared with the ring before and after it.
A walk is the recursive function `Forward`. That its equation has a solution, and what it
is, rests on `Foundations`: induction (`IntervalInduction`) and recursion
(`IntervalRecursion`) over an interval, with the property as a set, because the
library's theorems take it as an operator. The proof of `NeverWild` failed at first on
the ALTER described under *Runs*; the property, which had called it safe, was wrong.

`ChainSearchProofs` proves from `ChainSearchAssumption` (keys are integers) that the
search never reads outside the array and returns the right slot, for every size. The
invariant says that `pos` is below `end`, that `end` is within the array and, if it is
not the array's end, that the slot there is greater than the name; monotonicity of the
keys turns that into `RightSection` when the loop stops.

`ChainIndexProofs` proves from `ChainIndexAssumption` (names are integers above the empty
name; `NULL`, the list head and freed memory are different and no names) all three
properties about `ChainIndex` in `chains`, for any set of names, any bucket length and threshold, tables
of any size and any calls. `ChainInv` says that the chains ascend and `num_chains` counts
them (`Ordered`), and which indexes there can be (`Shape`): *whole*, every slot a chain of
the list, in order, the first the first chain; *the head only*, after the last chain of an
index of one slot went; and where chains are renamed, *cut* (three slots or more, the last
`NULL`) or *lost* (one or two, `NULL` where a search begins), which a rebuild leaves that
counts a chain not in the list. The last two are why renaming is no part of
`NeverFaults`. While the table is read it says that every chain has one offset and, as long
as `sorted_offsets` holds, that the order of offsets is that of names (`Parsed`).
The search is the first half of the work. `SearchStates` is where it can be in an index
whose first slots ascend: whatever is behind `end` is greater than the name. Each turn
stays there (`TurnKeeps`) and lowers `end`, or leaves it and raises `pos` (`Lowers`), so that
it ends within `Turns` at a slot that is not greater, or at the first, with all slots behind
it greater. A walk from there meets the name or its place (`WalkStart`), which gives
`LookupExact`, and with offsets for names `JumpsResolved`. The other half is one lemma for
each change of list and index: an insertion keeps the shape (`InsertKeeps`), a deletion whose
second search came to the same slot may move the slot on without passing the next one
(`ShiftKeeps`), a rebuild gives a whole or a cut index (`Built`), and a chain that is freed
or renamed is left in no slot that is looked at (`DeleteKeeps`).

`CommandLineProofs` proves `SwitchComplete` for any words, lines of any length and any
requests, in both commands, from `WordsAssumption`: an argument word is not empty (in the
model the empty text is the C code's `NULL`), and a line is a sequence of words. TLC reads
every line of five words; the theorem needs no bound, because
`ParserInv` says of the parser between two words all that the words before have left
behind. `Combined`: which commands can stand together, although `-D` and `-Z`
overwrite the set. `Awaits`: which word is asked for, and that the option that asked
for it is the one being served, with a chain already read when a number comes next.
`Numbered` and `Chained`: a command that needs a rule number or a chain has it, or the next
word is it. `Noted`: whatever has been read of a rule, but for matches
and their options, has left a letter in `options` first, which is what makes `generic_opt_check` enough: the letters of a rule are
legal for no command without a rule (`RuleOptionsLegal`), so that a line that passes it is
`Complete` (`CheckedIsComplete`). There is one lemma for each way an option or a word is
taken. `ip6tables` differs by three options, and by a table that allows less.

`CommitProofs` proves from `CommitAssumption` and `LibiptcAssumption` (chain names are listed
once each and none is `NoChain`; the tables the kernel may have at first are ones libiptc
could have written; no extension is called `ERROR`, which is the target of the entry at the
head of a chain) `LockInv` (`LockHeld`): where every program takes the lock, whoever is not
idle holds it, and a handle in use was read at the present version, for any number of
programs, tables and calls. `SO_SET_REPLACE` of one program makes every other handle old,
and there is none.
From the same invariant, and from what the fields of the kernel's table are, follows
`OneReading`, the part of `WholeUnderLock` about the two getsockopts of `TC_INIT`
(`ReadOnce`): between them nobody else may replace the table, and counting leaves its hooks
alone.

The rest is about contents. `CommitInv` has two parts. `HandlesInv` needs no lock: the kernel
has a list of entries, and every handle in use satisfies `HandleInv`, that is, `num_rules`
and `references` are those of the lists and jumps lead to chains of the handle.
`TablesInv` holds under the lock: the kernel's table is `Written`, compiled from some handle
and counted since; every handle in use is also `Sound`, its rules filled in as the
compiler expects them; the counters of a commit fit the table. There are three layers of
lemmas under it.
*Calls*: one lemma for each of the twelve calls, successful or not, that both conditions
are kept (`InsertKeeps` to `PolicyKeeps`). They rest on how an insertion, replacement or
removal changes the number of jumps to each chain in one list (`CountInsert`,
`CountReplace`, `CountRemove`), and on the number of jumps in a table being that of one
chain and that of the others (`JumpsSplit`).
*Reading anything*: a table of any entries that the parser does not fall over gives a
handle with exact counts and no dangling jump (`ParseKeeps`); this is what makes
`CountsStayExact` independent of the lock and of the kernel.
*Round trip*: `iptcc_compile_table` lays each chain at `head_offset`, for `Size` entries; the
spans of chains do not overlap and cover the table up to its last entry (`SpansApart`,
`SpansCover`), so that chains begin where the handle has them and nowhere else
(`TableStarts`), end in front of the next (`ChainFound`), and the offset a jump was written
as is found in the chain it led to (`JumpFound`). A rule is then read as what it was
(`RuleBack`): a jump is never the place behind its rule, which would be a fall-through, since no
rule leads to a built-in chain and the first entry of another is its header. `TableBack`
puts it together, for every table that differs in counters only from the one compiled.
`WrittenIsRead` and the parser's half of `LockMakesWhole` follow from it.
`FlattenSeq`, with which the compiled table is put together, is a recursive function of
the library: what it yields is proved in `Foundations` (`Flattened`) by recursion over an interval.
*Counters*: that a rule of the kernel has counted the packets that met it, through any
number of commits (`CountersKept`), is inductive only with an account of where each rule's
counter will come from, which is `KeptInv`. It holds under the lock and speaks of the places
of rules in the kernel's table (`RulePlaces`):
- each of them has a counter and the packets that met it (`Known`), and while nobody is
  between the two setsockopts they are equal (`Even`);
- a handle in use has a `Ledger`. Each of its rules either is new (`FreshRule`: its counter
  is to be set, in range) or was read from one of those places, no other rule from the
  same one (`Apart`), where the counter map still looks for it, to be kept or zeroed as was
  asked; policies look elsewhere (`Aside`);
- a program that has replaced the table holds in `newcounters` exactly what the rules are
  still `Due` until it adds them.

Each of the calls keeps the ledger (`InsertPosts` to `RenamePosts`); reading opens one
(`ParsedLedger`), since in a written table the places of rules are those of the chains'
rules and no two are the same (`TablePlaces`, `PlaceFacts`). `SO_SET_REPLACE` gives every rule
what it was at the reading minus what it is due (`ReplaceKept`): the new counters are laid
out as the table is (`ValuesAt`, `NewCountersAt`, `HitsAt`). Packets that come before the
second setsockopt count on both sides (`PacketKept`), and adding makes both sides equal (`AddKept`). Counters wrap;
a remainder taken early changes nothing (`CounterAdds`), so the theorem holds for them too.
The assumption says only that 2^`CounterBits` is a positive number, that the packets of the model
stay below it and that callers pass counters that fit.

`RevisionsProofs` proves from `StructsAssumption` (structures have the fields that are
compared) and `DistinctAssumption` (two structures of a name differ in one of them; the
code ends the program otherwise) that the best revision the kernel knows serves a name
(`BestRevision`), for any structures, kernel and order. It needs that the comparison is
a strict total order within a name (`PreferOrders`) and that the choice between two never
leaves a compatible one for one that is not (`ChosenIsBetter`); with both, the best of those
considered stays so when one more is considered. `ImplementsRevisions`, which TLC checks,
carries this to the lists of `Registry`.

Only model-checked: all liveness, what needs the fairness above; the refinement
`ImplementsRevisions`; everything about
`Registry` and the options of extensions; of the command line, what it means:
which request ends the daemon, which rules come out and how they are shown. `Registry`
walks its lists with a RECURSIVE operator, which the prover does not take. What an option line
comes to is a fold over its words, and a theorem about it is induction over data; so is
what a list of addresses or the bits of a mask come to, which the other properties
of `CommandLine` are about.

## 5. Not modelled

* Framing: 72 bytes sent and received in pieces of at most 10 (`conn.c:90-110`).
* Padding of `struct ruletable`, compared by `memcmp`; the buffers `sp[5]` and `sp[10]`
  of `to_argv`, which are too small for five digits or a long port range.
* Jumps to user-defined chains from the command line; listing of chains and of a rule
  beyond addresses and masks, saving of one beyond addresses, interfaces, matches and
  target; a protocol's name in capitals, which ip6tables accepts and iptables does not.
* The byte behind an IPv6 mask that `parse_ip6mask` clears for prefixes of whole bytes
  (`xtables.c:1707-1708`): what lies there depends on the build.
* Extensions: RATEEST (floating point, and a target file the kernel keeps), matches and
  targets without options (`unclean`, `eui64`, TRACE, MIRROR, `standard`), help texts, the
  reading of host, service, protocol and date names (they are values), revision 0 of `mark`
  and `connmark`, the twins of `MARK` and `CONNMARK`, IPv6 twins that differ in the address
  type only.
* libxtables: loading of kernel modules, the resolver behind `Hosts`, names in listings
  without `-n`; `xtables_ipparse_any` and `xtables_ip6parse_any`, which nobody calls.
* `TC_SET_COUNTER` (only iptables-restore calls it, which is not in the repository),
  rule iterators, masks of matches (`is_same` is equality), memory that runs out.
* A program killed between `SO_SET_REPLACE` and `SO_SET_ADD_COUNTERS`: its counters are
  gone, and nothing in the code could do otherwise.
* libipq, the stand-alone tools: see the notes in `PROJECT.json`.

## 6. Plan

In this order:

1. `Framing`: records of 72 bytes in pieces of at most 10, short reads, a peer that stops;
   then `Service` takes requests that are not whole.
2. `libipq`: requests, acknowledgements and errors of its netlink protocol.
3. `Service` with `Commit` in place of its one-step kernel, with the tool as the other program.
4. Proofs: `ImplementsRevisions`, which needs the walks of `Registry` written as functions.
