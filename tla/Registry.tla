------------------------------- MODULE Registry -------------------------------
(***************************************************************************)
(* The registered extensions of libxtables and the command lines that use  *)
(* them.  The structures of matches and targets hang in static lists that  *)
(* outlive a command line; do_command4 writes its data into them.  The     *)
(* original program reads one line and ends.  The daemon calls do_command4 *)
(* for one request after the other, so what a line leaves behind meets the *)
(* next.                                                                   *)
(*                                                                         *)
(* A search (xtables_find_match, xtables_find_target) registers pending    *)
(* structures on its way and calls itself to do so; its calls are the      *)
(* frames of find.calls, one step per turn of a loop.                      *)
(***************************************************************************)
EXTENDS RevisionOrder, Sequences, FiniteSets, SequencesExt, Functions

CONSTANTS
    Files,       \* for each extension file, the structures it registers, in that order
    FileOf,      \* for each name, the file found for it, or NULL (libxt_state.so is a
                 \* link to libxt_conntrack.so)
    Builds,      \* subset of BOOLEAN: built with ALL_INCLUSIVE or not
    Kernels,     \* the kernels: for each, the structures it knows
    Protocols,   \* the names -p takes
    MaxCalls,    \* bound: command lines
    MaxWords     \* bound: options of all command lines

\* Desc also has the fields kind, a match or a target, and options.
ASSUME FilesAssumption == Structs = UNION {ToSet(Files[f]) : f \in DOMAIN Files}
Kinds == {"match", "target"}
NamesOf(kind) == {Desc[s].name : s \in {t \in Structs : Desc[t].kind = kind}}

VARIABLES
    allInclusive, \* the build: extensions are part of the program, not files
    compatible,   \* the structures the kernel knows
    loaded,       \* the files that dlopen has opened
    next,         \* the link of each structure
    pending,      \* for each kind, the head of the list of pending structures
    registered,   \* for each kind, the head of the list of registered ones
    data,         \* for each structure: m (or t), option_offset, mflags (or tflags)
    option_offset,
    opts,         \* what is merged to the options of getopt, the latest first
    matches,      \* cs.matches
    target,       \* cs.target
    line,         \* the rest of cs: protocol, proto_used, the words read
    find,         \* the search going on
    lost,         \* allocated and out of reach
    calls,        \* command lines begun
    pc            \* "idle", "reading", "finding", "again", "ended" or "exit"

vars == <<allInclusive, compatible, loaded, next, pending, registered, data, option_offset,
          opts, matches, target, line, find, lost, calls, pc>>
lists == <<next, pending, registered>>
state == <<data, option_offset, opts, matches, target, line, lost>>
fixed == <<allInclusive, compatible>>

NoFind == [kind |-> "", name |-> "", load |-> FALSE, why |-> "", calls |-> <<>>]
NoLine == [proto |-> NULL, proto_used |-> FALSE, words |-> 0, option |-> NULL, chain |-> FALSE]

Init ==
    /\ allInclusive \in Builds
    /\ compatible \in Kernels
    /\ loaded = {}
    /\ next = [s \in Structs |-> NULL]
    /\ pending = [k \in Kinds |-> NULL] /\ registered = [k \in Kinds |-> NULL]
    /\ data = [s \in Structs |-> [m |-> "null", offset |-> 0, flags |-> {}]]
    /\ option_offset = 0
    /\ opts = <<>> /\ matches = <<>> /\ target = NULL /\ line = NoLine
    /\ find = NoFind /\ lost = 0 /\ calls = 0 /\ pc = "idle"

Exit == pc' = "exit"
-----------------------------------------------------------------------------
(* Lists.                                                                  *)

\* The structures met from h on, one for each link followed; a list that is a ring
\* goes on for ever, here for one more than there are structures.
RECURSIVE Walk(_, _, _)
Walk(links, h, n) == IF h = NULL \/ n = 0 THEN <<>> ELSE <<h>> \o Walk(links, links[h], n - 1)
Met(links, h) == Walk(links, h, Cardinality(Structs) + 1)
On(links, h) == ToSet(Met(links, h))
Endless(h) == Len(Met(next, h)) > Cardinality(Structs)
FirstNamed(h, name) ==
    LET hits == SelectSeq(Met(next, h), LAMBDA s : Desc[s].name = name)
    IN IF hits = <<>> THEN NULL ELSE hits[1]
\* The structure behind which a list goes on with s, or NULL for its head.
Before(links, h, s) ==
    IF h = s THEN NULL ELSE CHOOSE p \in On(links, h) : links[p] = s

\* xtables_register_match, xtables_register_target: pushed in front of the pending
\* ones, wherever the structure may hang already.
Pushed(l, s) ==
    [next |-> [l.next EXCEPT ![s] = l.pending[Desc[s].kind]], pending |-> [l.pending EXCEPT ![Desc[s].kind] = s]]
PushedAll(seq) == FoldLeft(Pushed, [next |-> next, pending |-> pending], seq)
-----------------------------------------------------------------------------
(* Beginning a command line.                                               *)

\* init_extensions: every extension of the program registers.
Extensions == FlattenSeq(SetToSeq({Files[f] : f \in DOMAIN Files}))

\* The start of do_command4 for a request (send_to_kernel): flags are cleared in the
\* registered structures, and the options are those of the program.
Begin ==
    /\ pc = "idle" /\ calls < MaxCalls
    /\ calls' = calls + 1
    /\ LET l == IF allInclusive THEN PushedAll(Extensions) ELSE [next |-> next, pending |-> pending]
           known == UNION {On(l.next, registered[k]) : k \in Kinds}
       IN /\ next' = l.next /\ pending' = l.pending
          /\ data' = [s \in Structs |-> IF s \in known THEN [data[s] EXCEPT !.flags = {}] ELSE data[s]]
    /\ opts' = <<>> /\ matches' = <<>> /\ target' = NULL /\ line' = [NoLine EXCEPT !.words = line.words]
    /\ pc' = "reading"
    /\ UNCHANGED <<fixed, loaded, registered, option_offset, find, lost>>
-----------------------------------------------------------------------------
(* Searching for an extension.                                             *)

Frame(me) == [me |-> me, at |-> NULL]
\* A search for name, which may load a file, and what the caller does with the result.
Find(kind, name, load, why) ==
    /\ find' = [kind |-> kind, name |-> name, load |-> load, why |-> why, calls |-> <<Frame(NULL)>>]
    /\ pc' = "finding"

Top == Last(find.calls)
\* mutant: the loop does not go on to the next one
Current_same == IF Top.at = NULL THEN pending[find.kind] ELSE Top.at
\* *dptr: what the loop over the pending structures looks at.
Current == IF Top.at = NULL THEN pending[find.kind] ELSE next[Top.at]

\* *dptr = (*dptr)->next; ptr->next = NULL
Unlinked ==
    [next |-> [(IF Top.at = NULL THEN next ELSE [next EXCEPT ![Top.at] = next[Current]])
                 EXCEPT ![Current] = NULL],
     pending |-> IF Top.at = NULL THEN [pending EXCEPT ![find.kind] = next[Current]] ELSE pending]

\* "Trigger delayed initialization": a pending structure of the name is taken out and
\* registered, which starts with a search for what is registered under the name.
Scan ==
    /\ pc = "finding" /\ Current # NULL
    /\ IF Desc[Current].name = find.name
       THEN /\ next' = Unlinked.next /\ pending' = Unlinked.pending
            /\ find' = [find EXCEPT !.calls = Append(@, Frame(Current))]
       ELSE /\ find' = [find EXCEPT !.calls[Len(find.calls)].at = Current]
            /\ UNCHANGED <<next, pending>>
    /\ UNCHANGED <<fixed, loaded, registered, state, calls, pc>>

Scanned == pc = "finding" /\ Current = NULL
Found == FirstNamed(registered[find.kind], find.name)
\* The search itself ends if it finds something or the list ends.
Ends == Found # NULL \/ ~Endless(registered[find.kind])

\* xtables_mt_prefer
xtables_mt_prefer(a, b) ==
    IF Desc[a].alias # Desc[b].alias THEN IF Desc[a].alias THEN 1 ELSE -1
    ELSE IF Desc[a].revision # Desc[b].revision
    THEN IF Desc[a].revision > Desc[b].revision THEN 1 ELSE -1
    ELSE IF Desc[a].specific # Desc[b].specific THEN IF Desc[a].specific THEN 1 ELSE -1
    ELSE 0

\* mutant: the structure that was replaced stays in the list
Without_kept(old) == [next |-> next, head |-> registered[find.kind]]
\* A registered list without old.
Without(old) ==
    LET h == registered[find.kind]
        p == Before(next, h, old)
    IN IF p = NULL THEN [next |-> next, head |-> next[old]]
       ELSE [next |-> [next EXCEPT ![p] = next[old]], head |-> h]
\* Matches are appended to their list, targets put in front of theirs.
With(l, me) ==
    IF find.kind = "target" THEN [next |-> [l.next EXCEPT ![me] = l.head], head |-> me]
    ELSE IF l.head = NULL THEN [next |-> [l.next EXCEPT ![me] = NULL], head |-> me]
    ELSE LET end == Before(l.next, l.head, NULL)
         IN [next |-> [l.next EXCEPT ![me] = NULL, ![end] = me], head |-> l.head]

\* xtables_fully_register_pending_match, xtables_fully_register_pending_target.
Register ==
    /\ Scanned /\ Top.me # NULL /\ Ends
    /\ LET me == Top.me
           old == Found
           compare == IF old = NULL THEN -1 ELSE xtables_mt_prefer(old, me)
           keep == old # NULL /\ ((compare > 0 /\ old \in compatible) \/ me \notin compatible)
           l == With(IF old = NULL THEN [next |-> next, head |-> registered[find.kind]] ELSE Without(old), me)
       IN IF compare = 0
          THEN Exit /\ UNCHANGED <<lists, data, find>>      \* "already registered"
          ELSE /\ find' = [find EXCEPT !.calls = Front(@)]
               /\ UNCHANGED pc
               /\ IF keep THEN UNCHANGED <<lists, data>>
                  ELSE /\ next' = l.next /\ registered' = [registered EXCEPT ![find.kind] = l.head]
                       /\ data' = [data EXCEPT ![me].m = "null", ![me].flags = {}]
                       /\ UNCHANGED pending
    /\ UNCHANGED <<fixed, loaded, option_offset, opts, matches, target, line, lost, calls>>

\* load_extension: the file is opened and its structures register, unless it was
\* opened before; then the search is repeated and loads no more.
Absent == Scanned /\ Top.me = NULL /\ Ends /\ Found = NULL
File == IF allInclusive \/ find.name \notin DOMAIN FileOf THEN NULL ELSE FileOf[find.name]
Load ==
    /\ Absent /\ find.load /\ File # NULL
    /\ loaded' = loaded \cup {File}
    /\ LET l == PushedAll(IF File \in loaded THEN <<>> ELSE Files[File])
       IN next' = l.next /\ pending' = l.pending
    /\ find' = [find EXCEPT !.load = FALSE, !.calls = <<Frame(NULL)>>]
    /\ UNCHANGED <<fixed, registered, state, calls, pc>>
-----------------------------------------------------------------------------
(* What the callers do with what is found.                                 *)

\* An entry of cs.matches: a structure itself or a copy of it (a clone), whose data is
\* then its own.  got: the options it has parsed.
Entry(s, clone, own) ==
    [match |-> s, clone |-> clone, own |-> own, completed |-> FALSE, got |-> {}]
DataOf(e) == IF e.clone THEN e.own ELSE data[e.match]

\* mutant: earlier uses of the extension are not completed
Completed_never(ms, name) == ms
\* A further use of an extension completes the earlier ones.
Completed(ms, name) == [i \in DOMAIN ms |-> [ms[i] EXCEPT !.completed = @ \/ Desc[ms[i].match].name = name]]

Merge(s) == Desc[s].options # {}
NewOffset == option_offset + 1
Merged(s) ==
    IF Merge(s) THEN opts' = <<[offset |-> NewOffset, options |-> Desc[s].options]>> \o opts /\ option_offset' = NewOffset
    ELSE UNCHANGED <<opts, option_offset>>

\* The structure found and what it is written to: m is allocated, and the options are
\* merged unless it is a clone that command_match was given.
UseMatch(s) ==
    LET clone == data[s].m # "null"
        merge == Merge(s) /\ (~clone \/ find.why = "proto")
        d == [data[s] EXCEPT !.m = "live", !.offset = IF merge THEN NewOffset ELSE @]
    IN /\ matches' = Append(Completed(matches, Desc[s].name),
                            Entry(s, clone, IF clone THEN [d EXCEPT !.flags = {}] ELSE NULL))
       /\ data' = IF clone THEN data ELSE [data EXCEPT ![s] = d]
       /\ IF merge THEN Merged(s) ELSE UNCHANGED <<opts, option_offset>>

UseTarget(s) ==
    /\ target' = s
    /\ lost' = IF data[s].m = "live" THEN lost + 1 ELSE lost
    /\ data' = [data EXCEPT ![s].m = "live", ![s].offset = IF find.why = "jump" /\ Merge(s) THEN NewOffset ELSE @]
    /\ IF find.why = "jump" THEN Merged(s) ELSE UNCHANGED <<opts, option_offset>>

Return == Scanned /\ Top.me = NULL /\ Ends /\ (Found # NULL \/ ~find.load \/ File = NULL)

\* command_match: a match that cannot be found ends the program.
command_match ==
    /\ Return /\ find.why = "match"
    /\ IF Found = NULL THEN Exit /\ UNCHANGED <<find, data, matches, opts, option_offset>>
       ELSE UseMatch(Found) /\ find' = NoFind /\ pc' = "reading"
    /\ UNCHANGED <<fixed, loaded, lists, target, line, lost, calls>>

\* command_jump: the name may be that of a chain.
command_jump ==
    /\ Return /\ find.why = "jump"
    /\ IF Found = NULL THEN UNCHANGED <<data, target, opts, option_offset, lost>> ELSE UseTarget(Found)
    /\ find' = NoFind /\ pc' = "reading"
    /\ UNCHANGED <<fixed, loaded, lists, matches, line, calls>>

\* should_load_proto: a search that collects nothing; what it finds in use is copied,
\* and the copy is dropped.
should_load_proto ==
    /\ Return /\ find.why = "should"
    /\ lost' = IF Found # NULL /\ data[Found].m # "null" THEN lost + 1 ELSE lost
    /\ IF Found = NULL \/ ~line.proto_used THEN Find("match", line.proto, TRUE, "proto")
       ELSE Exit /\ UNCHANGED find
    /\ UNCHANGED <<fixed, loaded, lists, data, option_offset, opts, matches, target, line, calls>>

\* command_default, the protocol's extension loaded: the option is read again.
load_proto ==
    /\ Return /\ find.why = "proto"
    /\ IF Found = NULL THEN Exit /\ UNCHANGED <<find, data, matches, opts, option_offset, line>>
       ELSE /\ UseMatch(Found) /\ find' = NoFind /\ pc' = "again"
            /\ line' = [line EXCEPT !.proto_used = TRUE]
    /\ UNCHANGED <<fixed, loaded, lists, target, lost, calls>>

\* The end of do_command4 for a rule without a target of its own.
standard_target ==
    /\ Return /\ find.why = "standard"
    /\ IF Found = NULL THEN Exit /\ UNCHANGED <<find, data, target, opts, option_offset, lost>>
       ELSE UseTarget(Found) /\ find' = NoFind /\ pc' = "ended"
    /\ UNCHANGED <<fixed, loaded, lists, matches, line, calls>>
-----------------------------------------------------------------------------
(* The words of a line.                                                    *)

Reading == pc = "reading" /\ line.words < MaxWords
Word == line' = [line EXCEPT !.words = @ + 1]

Match == \* -m
    /\ Reading /\ Word
    /\ \E name \in NamesOf("match") : Find("match", name, TRUE, "match")
    /\ UNCHANGED <<fixed, loaded, lists, data, option_offset, opts, matches, target, lost, calls>>

Jump == \* -j
    /\ Reading /\ target = NULL /\ ~line.chain
    /\ \E name \in NamesOf("target") \cup {"chain"} : 
          /\ line' = [line EXCEPT !.words = @ + 1, !.chain = name = "chain"]
          /\ Find("target", name, TRUE, "jump")
    /\ UNCHANGED <<fixed, loaded, lists, data, option_offset, opts, matches, target, lost, calls>>

Proto == \* -p
    /\ Reading /\ line.proto = NULL
    /\ \E p \in Protocols : line' = [line EXCEPT !.words = @ + 1, !.proto = p]
    /\ UNCHANGED <<fixed, loaded, lists, data, option_offset, opts, matches, target, find, lost, calls, pc>>

\* getopt_long: the group of the first option of this name.
Group(o) ==
    LET hits == {i \in DOMAIN opts : o \in opts[i].options}
    IN IF hits = {} THEN NULL ELSE opts[CHOOSE i \in hits : \A j \in hits : i <= j]
\* command_default: the match an option of that group is given to, or 0.
Receiver(g) ==
    LET hits == {i \in DOMAIN matches : ~matches[i].completed /\ DataOf(matches[i]).offset = g.offset}
    IN IF hits = {} THEN 0 ELSE CHOOSE i \in hits : \A j \in hits : i <= j
TargetReceives(g) == target # NULL /\ Desc[target].options # {} /\ data[target].offset = g.offset

\* xtables_option_parse accepts an option once; what is parsed is remembered with the
\* entry the user means: the last named one that has the option.
Meant(o) ==
    LET hits == {i \in DOMAIN matches : o \in Desc[matches[i].match].options}
    IN IF hits = {} THEN 0 ELSE CHOOSE i \in hits : \A j \in hits : j <= i
Parse(i, o) ==
    IF o \in DataOf(matches[i]).flags THEN Exit /\ UNCHANGED <<data, matches>>
    ELSE /\ matches' = [matches EXCEPT ![i].got = @ \cup {[option |-> o, meant |-> Meant(o)]},
                                       ![i].own = IF matches[i].clone THEN [@ EXCEPT !.flags = @ \cup {o}] ELSE @]
         /\ data' = IF matches[i].clone THEN data ELSE [data EXCEPT ![matches[i].match].flags = @ \cup {o}]
         /\ pc' = "reading"
ParseTarget(o) ==
    /\ UNCHANGED matches
    /\ IF o \in data[target].flags THEN Exit /\ UNCHANGED data
       ELSE data' = [data EXCEPT ![target].flags = @ \cup {o}] /\ pc' = "reading"

command_default(o) ==
    LET g == Group(o)
        i == IF g = NULL THEN 0 ELSE Receiver(g)
    IN IF g # NULL /\ TargetReceives(g) THEN ParseTarget(o) /\ UNCHANGED find
       ELSE IF i # 0 THEN Parse(i, o) /\ UNCHANGED find
       ELSE /\ UNCHANGED <<data, matches>>
            /\ IF line.proto = NULL THEN Exit /\ UNCHANGED find
               ELSE Find("match", line.proto, FALSE, "should")

AllOptions == UNION {Desc[s].options : s \in Structs}
Option ==
    /\ \/ Reading /\ \E o \in AllOptions :
             line' = [line EXCEPT !.words = @ + 1, !.option = o] /\ command_default(o)
       \/ pc = "again" /\ command_default(line.option) /\ UNCHANGED line
    /\ UNCHANGED <<fixed, loaded, lists, option_offset, opts, target, lost, calls>>
-----------------------------------------------------------------------------
(* The end of a line.                                                      *)

\* The name after -j is a chain of the table: the extension is not used; or there was
\* no -j; then the rule has the standard target.
EndOfWords ==
    /\ pc = "reading"
    /\ \/ target # NULL /\ pc' = "ended" /\ UNCHANGED <<data, target, find>>
       \/ line.chain /\ Exit /\ UNCHANGED <<data, target, find>>   \* nor is it a chain
       \/ /\ target \notin {s \in Structs : Desc[s].name = "standard"}
          /\ data' = IF target = NULL THEN data ELSE [data EXCEPT ![target].m = "freed"]
          /\ target' = NULL
          /\ Find("target", "standard", TRUE, "standard")
    /\ UNCHANGED <<fixed, loaded, lists, option_offset, opts, matches, line, lost, calls>>

\* mutant: what is freed is not forgotten
Freed_kept(d) == [d EXCEPT !.m = "freed"]
\* xtables_rule_matches_free, for a structure that was used
Freed(d) == [d EXCEPT !.m = "null"]

\* The rule is made of the data (generate_entry), the target's data freed, the call to
\* libiptc done, and the matches' data freed with their clones and the merged options.
Finish ==
    /\ pc = "ended"
    /\ LET used == {matches[i].match : i \in DOMAIN matches}
       IN data' = [s \in Structs |->
                     IF s = target THEN [data[s] EXCEPT !.m = "freed"]
                     ELSE IF s \in used THEN Freed(data[s]) ELSE data[s]]
    /\ matches' = <<>> /\ target' = NULL /\ opts' = <<>> /\ line' = [NoLine EXCEPT !.words = line.words]
    /\ pc' = "idle"
    /\ UNCHANGED <<fixed, loaded, lists, option_offset, find, lost, calls>>

Search == Scan \/ Register \/ Load
Resume == command_match \/ command_jump \/ should_load_proto \/ load_proto \/ standard_target
Step == Search \/ Resume \/ Match \/ Jump \/ Proto \/ Option \/ EndOfWords \/ Finish
Next == Begin \/ Step

\* A line that was begun is read on; nobody has to send another.
Spec == Init /\ [][Next]_vars /\ WF_vars(Step)
-----------------------------------------------------------------------------
(* Properties.                                                             *)

\* Structures whose registration is still to come.
Waiting ==
    UNION {ToSet(Files[f]) : f \in DOMAIN Files \ loaded}
    \cup UNION {On(next, pending[k]) : k \in Kinds}
    \cup ({find.calls[i].me : i \in DOMAIN find.calls} \ {NULL})
KindOf == [n \in Names |-> CHOOSE k \in Kinds : n \in NamesOf(k)]
R == INSTANCE Revisions WITH
       waiting <- Waiting,
       serving <- [n \in Names |-> FirstNamed(registered[KindOf[n]], n)]

\* The pending lists, the searches within searches and the changes to the registered
\* lists amount to choosing, one structure after the other, the better one the kernel
\* knows: Revisions, for which that choice is proved to be the best of all.
ImplementsRevisions == R!Spec

\* What a match has seen (mflags, by which an option is refused the second time) are
\* the options of this line that were given to it and no other's: not those of an
\* earlier line, nor of another use of the same match on this line.  Between two lines
\* no structure has data, nothing is allocated that cannot be reached, and no merged
\* options remain.
OwnData ==
    /\ \A i \in DOMAIN matches :
          /\ DataOf(matches[i]).m = "live"
          /\ DataOf(matches[i]).flags = {g.option : g \in matches[i].got}
    /\ pc = "idle" =>
          /\ lost = 0
          /\ \A s \in Structs : data[s].m # "live" /\ (Desc[s].kind = "match" => data[s].m = "null")

\* An option goes to the match it was written for: of those named so far that have such
\* an option, the one named last.  The exception: a match used again is not merged to
\* the options of getopt again, so that an option it shares with another match named
\* in between goes to that one.
Shadowed(i, g) ==
    /\ matches[g.meant].clone /\ i < g.meant
    /\ \E j \in 1 .. i - 1 : matches[j].match = matches[g.meant].match
OptionsDispatched ==
    \A i \in DOMAIN matches : \A g \in matches[i].got : g.meant = i \/ Shadowed(i, g)

\* "in case do_command4 gets called a second time" (iptables.c:1310): every line comes
\* to an end, be it that of the program.
LineEnds == pc = "reading" ~> pc \in {"idle", "exit"}
=============================================================================
