----------------------------- MODULE RuleTables -----------------------------
(***************************************************************************)
(* The daemon's own copy of the rule tables: ruletables/operate_tables.c.  *)
(*                                                                         *)
(* info[] (lines 23-44) holds one circular list and one length counter for *)
(* each of twelve built-in chains.  The last entry of a list is the chain's*)
(* policy; the entries before it are its rules, kept by descending         *)
(* priority.  do_command applies one request ("handle") to the lists; the  *)
(* one command that changes nothing here, ALLIN, walks the lists while it  *)
(* talks to the controller and is modelled with the service (Service.tla). *)
(*                                                                         *)
(* An entry's tablename and actionType always equal those of the list it   *)
(* is in (do_insert and do_append copy the request they were matched with) *)
(* and are left out of the entry.  The thirteen address, mask, port and    *)
(* protocol fields are one value, the head.                                *)
(***************************************************************************)
EXTENDS Integers, Sequences, SequencesExt

CONSTANTS
    Heads,      \* match headers (struct basic_header)
    NoHead,     \* the all-zero header of a policy entry
    Priorities, \* values of the uint8_t priority that occur
    Requests,   \* the requests that may arrive
    MaxRules    \* bound: rules in all lists together

Lists ==
    ({"filter"} \X {"INPUT", "OUTPUT", "FORWARD"})
      \cup ({"nat"} \X {"PREROUTING", "INPUT", "OUTPUT", "POSTROUTING"})
      \cup ({"mangle"} \X {"PREROUTING", "INPUT", "OUTPUT", "FORWARD", "POSTROUTING"})

MAX_PRIORITY == 100

ActionDesc == {"DESC_NONE", "ACCEPT", "DROP", "QUEUE", "RETURN"}
ActionType == {"TYPE_NONE", "PREROUTING", "INPUT", "OUTPUT", "FORWARD", "POSTROUTING"}
TableName  == {"NAME_NONE", "filter", "nat", "mangle"}

\* command_list, and any value outside the enumeration, which the default
\* branch of do_command answers
Command == {"SET_POLICY", "APPEND", "ALTER", "DELETE", "CLEAN", "ALLIN", "OTHER"}

Ruletable == [head : Heads, priority : Priorities, actionDesc : ActionDesc]

Entry == [head : Heads, priority : Priorities \cup {MAX_PRIORITY}, actionDesc : ActionDesc]

Handle == [index : Int, command : Command, tablename : TableName,
           actionType : ActionType, table : Ruletable]

ASSUME HeadsAssumption == NoHead \in Heads
ASSUME PrioritiesAssumption == Priorities \subseteq 0 .. 255
ASSUME RequestsAssumption == Requests \subseteq Handle
ASSUME MaxRulesAssumption == MaxRules \in Nat

VARIABLES
    list,     \* list[l]: the entries of list l, first to last
    length,   \* length[l]: info[].length
    mem,      \* "ok", or "wild" after a write or a free outside the entries
    out       \* what the last do_command left: its return value, the index in
              \* the handle (do_insert sets it), whether it raised an alert

vars == <<list, length, mem, out>>

-----------------------------------------------------------------------------
(* The start: init_ruletables.                                             *)

PolicyEntry(desc) == [head |-> NoHead, priority |-> MAX_PRIORITY, actionDesc |-> desc]

NoResult == [ret |-> 1, index |-> 0, alert |-> FALSE]

init_ruletables ==
    /\ list   = [l \in Lists |-> <<PolicyEntry("ACCEPT")>>]
    /\ length = [l \in Lists |-> 1]
    /\ mem    = "ok"
    /\ out    = NoResult

-----------------------------------------------------------------------------
(* Results of a request, and the helpers the operations share.             *)

ListOf(h) == <<h.tablename, h.actionType>>

Found(h) == ListOf(h) \in Lists

Refuse(h) ==
    /\ out' = [ret |-> 0, index |-> h.index, alert |-> TRUE]
    /\ UNCHANGED <<list, length, mem>>

Done(index) == out' = [ret |-> 1, index |-> index, alert |-> FALSE]

\* The rules of all lists, their policies not counted.
RuleCount == MapThenSumSet(LAMBDA l : Len(list[l]) - 1, Lists)

\* list_add_tail(t, p): the new entry goes in front of the entry at position k
AddBefore(l, k, e) ==
    /\ RuleCount < MaxRules
    /\ list'   = [list EXCEPT ![l] = InsertAt(@, k, e)]
    /\ length' = [length EXCEPT ![l] = @ + 1]

\* mutant: the counter is not decremented
Unlink_uncounted(l, k) ==
    /\ list' = [list EXCEPT ![l] = RemoveAt(@, k)]
    /\ UNCHANGED length

\* list_del and free of the entry at position k
Unlink(l, k) ==
    /\ list'   = [list EXCEPT ![l] = RemoveAt(@, k)]
    /\ length' = [length EXCEPT ![l] = @ - 1]

\* info[i].head->prev
PolicyPos(l) == Len(list[l])

\* The walk "for (j = 0; j < index; j++, p = p->next)" from the list head round
\* the circular list: where it stops, 0 being the list head itself.  A negative
\* index does not enter the loop.
WalkTo(l, index) == IF index <= 0 THEN 0 ELSE index % (Len(list[l]) + 1)

\* mutants: the policy entry counted as a rule; no upper bound test
TooBig_policy(l, index) == length[l] < index
TooBig_never(l, index) == FALSE

TooBig(l, index) == length[l] - 1 < index

-----------------------------------------------------------------------------
(* The operations.                                                         *)

do_set_policy(h) ==
    /\ h.command = "SET_POLICY"
    /\ \/ /\ ~Found(h) \/ h.table.actionDesc = "DESC_NONE"
          /\ Refuse(h)
       \/ /\ Found(h)
          /\ h.table.actionDesc # "DESC_NONE"
          /\ LET l == ListOf(h)
                 k == PolicyPos(l)
             IN list' = [list EXCEPT ![l] = ReplaceAt(@, k,
                            [@[k] EXCEPT !.actionDesc = h.table.actionDesc,
                                         !.priority = MAX_PRIORITY])]
          /\ Done(h.index)
          /\ UNCHANGED <<length, mem>>

\* mutant: the comparison the wrong way round
WalkStops_reversed(l, priority, k) ==
    /\ k \in 1 .. Len(list[l]) + 1
    /\ \A i \in 1 .. k - 1 : ~(priority < list[l][i].priority)
    /\ k <= Len(list[l]) => priority < list[l][k].priority

\* list_for_each_entry stops at position k: the first entry the new priority
\* exceeds, or one past the end (back at the list head) when there is none.
WalkStops(l, priority, k) ==
    /\ k \in 1 .. Len(list[l]) + 1
    /\ \A i \in 1 .. k - 1 : ~(priority > list[l][i].priority)
    /\ k <= Len(list[l]) => priority > list[l][k].priority

\* mutant: list_add_tail to the list head, behind the policy
InsertPos_behind(l, k) == k

\* Where do_insert links the entry: in front of the entry it stopped at, or in
\* front of the policy when the walk came back to the head.
InsertPos(l, k) == IF k = Len(list[l]) + 1 THEN PolicyPos(l) ELSE k

\* mutant: j counted from zero
InsertIndex_zero(l, k) == k - 1

\* The counter j that becomes h->index: the entries visited, the one stopped at
\* included.
InsertIndex(l, k) == IF k = Len(list[l]) + 1 THEN Len(list[l]) ELSE k

do_insert(h) ==
    \/ /\ ~Found(h)
       /\ Refuse(h)
    \/ /\ Found(h)
       /\ LET l == ListOf(h)
          IN \E k \in 1 .. Len(list[l]) + 1 :
                /\ WalkStops(l, h.table.priority, k)
                /\ AddBefore(l, InsertPos(l, k), h.table)
                /\ Done(InsertIndex(l, k))
       /\ UNCHANGED mem

do_append(h) ==
    /\ h.command = "APPEND"
    /\ \/ /\ ~Found(h)
          /\ Refuse(h)
       \/ /\ Found(h)
          /\ h.table.priority = 0
          /\ h.index # 0
          /\ Refuse(h)
       \/ /\ Found(h)
          /\ h.table.priority = 0
          /\ h.index = 0
          /\ AddBefore(ListOf(h), PolicyPos(ListOf(h)), h.table)
          /\ Done(h.index)
          /\ UNCHANGED mem
       \/ /\ Found(h)
          /\ h.table.priority # 0
          /\ do_insert(h)

\* -F: every list of the table loses entries from the front until its length
\* counter is 1: a list s whose counter is n loses its first n-1 entries.
Emptied(s, n) == SubSeq(s, n, Len(s))

OfTable(h, l) == l[1] = h.tablename

free_all(h) ==
    /\ h.command = "CLEAN"
    /\ \/ /\ \A l \in Lists : ~OfTable(h, l)
          /\ Refuse(h)
       \/ /\ \E l \in Lists : OfTable(h, l)
          /\ list'   = [l \in Lists |-> IF OfTable(h, l) THEN Emptied(list[l], length[l])
                                                         ELSE list[l]]
          /\ length' = [l \in Lists |-> IF OfTable(h, l) THEN 1 ELSE length[l]]
          /\ Done(h.index)
          /\ UNCHANGED mem

\* mutant: the priority is copied as well
Altered_whole(e, t) == t

\* do_alter copies the head and the action, not the priority
Altered(e, t) == [e EXCEPT !.head = t.head, !.actionDesc = t.actionDesc]

do_alter(h) ==
    /\ h.command = "ALTER"
    /\ \/ /\ ~Found(h)
          /\ Refuse(h)
       \/ /\ Found(h)
          /\ TooBig(ListOf(h), h.index)
          /\ Refuse(h)
       \/ /\ Found(h)
          /\ ~TooBig(ListOf(h), h.index)
          /\ LET l == ListOf(h)
                 k == WalkTo(l, h.index)
             IN \/ /\ k # 0
                   /\ list' = [list EXCEPT ![l] = ReplaceAt(@, k, Altered(@[k], h.table))]
                   /\ UNCHANGED mem
                \/ /\ k = 0
                   /\ mem' = "wild"
                   /\ UNCHANGED list
          /\ Done(h.index)
          /\ UNCHANGED length

\* DELETE with index 0 removes the first of the first length-1 entries that is
\* bytewise the requested one (priority included).
Matches(l, t, k) == k <= length[l] - 1 /\ list[l][k] = t

FirstMatch(l, t, k) ==
    /\ Matches(l, t, k)
    /\ \A i \in 1 .. k - 1 : ~Matches(l, t, i)

do_delete(h) ==
    /\ h.command = "DELETE"
    /\ \/ /\ ~Found(h)
          /\ Refuse(h)
       \/ /\ Found(h)
          /\ h.index = 0
          /\ LET l == ListOf(h)
             IN \/ /\ \A k \in 1 .. Len(list[l]) : ~Matches(l, h.table, k)
                   /\ Refuse(h)
                \/ \E k \in 1 .. Len(list[l]) :
                   /\ FirstMatch(l, h.table, k)
                   /\ Unlink(l, k)
                   /\ Done(h.index)
                   /\ UNCHANGED mem
       \/ /\ Found(h)
          /\ h.index # 0
          /\ TooBig(ListOf(h), h.index)
          /\ Refuse(h)
       \/ /\ Found(h)
          /\ h.index # 0
          /\ ~TooBig(ListOf(h), h.index)
          /\ LET l == ListOf(h)
                 k == WalkTo(l, h.index)
             IN \/ /\ k # 0
                   /\ Unlink(l, k)
                   /\ UNCHANGED mem
                \/ /\ k = 0
                   /\ mem' = "wild"
                   /\ UNCHANGED <<list, length>>
          /\ Done(h.index)

unknown_command(h) ==
    /\ h.command = "OTHER"
    /\ Refuse(h)

do_command(h) ==
    /\ mem = "ok"
    /\ \/ do_set_policy(h)
       \/ do_append(h)
       \/ do_alter(h)
       \/ do_delete(h)
       \/ free_all(h)
       \/ unknown_command(h)

Next == \E h \in Requests : do_command(h)

Spec == init_ruletables /\ [][Next]_vars

-----------------------------------------------------------------------------
(* Properties.                                                             *)

\* Every variable keeps its type; no list is ever without its policy entry.
TypeOK ==
    /\ list \in [Lists -> Seq(Entry) \ {<<>>}]
    /\ length \in [Lists -> Int]
    /\ mem \in {"ok", "wild"}
    /\ out \in [ret : {0, 1}, index : Int, alert : BOOLEAN]

\* The counter that every bound check, the content search of do_delete and the
\* loop of free_all rely on is the true number of entries of the ring.
LengthExact == \A l \in Lists : length[l] = Len(list[l])

\* The entry at the tail of a list is the chain's policy: no insertion falls
\* behind it, no deletion or alteration reaches it.
PolicyAtTail ==
    \A l \in Lists : LET e == Last(list[l])
                     IN /\ e.head = NoHead
                        /\ e.priority = MAX_PRIORITY
                        /\ e.actionDesc # "DESC_NONE"

\* The rules of a chain stand by descending priority whatever the order of
\* insertions, alterations and deletions, although do_insert compares a new
\* rule with the policy entry too and do_append never compares at all.
RulesSorted ==
    \A l \in Lists : \A i, j \in 1 .. Len(list[l]) - 1 :
        i < j => list[l][i].priority >= list[l][j].priority

\* The index do_command leaves in the handle is the place the kernel is told to
\* use (-I chain index, or -A for index 0): it is where the mirror put the rule.
ReportedPlace ==
    [][\A l \in Lists :
         Len(list'[l]) > Len(list[l]) =>
           LET k == IF out'.index = 0 THEN Len(list[l]) ELSE out'.index
           IN list'[l] = InsertAt(list[l], k, list'[l][k])]_vars

\* A request writes or frees memory that is no entry only when its index is
\* below one: the upper bound tests of do_alter and do_delete never let the walk
\* come round to the list head.
StrayOnlyBelowOne == [][mem' # mem => out'.index < 1]_vars

\* The mirror implements the chains-with-policies specification: each request
\* it accepts is one abstract change, each refusal none.
Abstract == INSTANCE PolicyChains WITH
    Chains   <- Lists,
    Policies <- ActionDesc \ {"DESC_NONE"},
    Rules    <- {h.table : h \in Requests},
    Groups   <- {{l \in Lists : l[1] = t} : t \in TableName},
    policy   <- [l \in Lists |-> Last(list[l]).actionDesc],
    rules    <- [l \in Lists |-> Front(list[l])]

ImplementsChains == Abstract!Spec
=============================================================================
