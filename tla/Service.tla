------------------------------ MODULE Service -------------------------------
(***************************************************************************)
(* The rule-table daemon: ruletables/conn.c composed with the mirror of    *)
(* operate_tables.c (RuleTables.tla), the conversion of a request to an    *)
(* iptables command line (ToArgv.tla), the reading of that line            *)
(* (DoCommand4.tla) and the kernel's tables.                               *)
(*                                                                         *)
(* Two threads serve requests, without a lock: "controller" takes them     *)
(* from the controller, changes the mirror and then the kernel; "iptables" *)
(* takes reports of commands that the iptables tool has already done and   *)
(* changes the mirror only.  A thread serves one connection at a time.     *)
(*                                                                         *)
(* Here do_command is one step; ListRace.tla splits it into the stores it  *)
(* does.  A connection either delivers a whole request or is not made.     *)
(***************************************************************************)
EXTENDS RuleTables, ToArgv

CONSTANTS
    ControllerRequests,   \* what the controller may send
    ToolRequests,         \* what the iptables tool may do and report
    NoRequest             \* the NULL handle of a thread between connections

ASSUME ServiceRequestsAssumption ==
    ControllerRequests \subseteq Requests /\ ToolRequests \subseteq Requests

\* The tool knows no priorities: what it appends it reports with the lowest.
ASSUME ToolRequestsAssumption ==
    \A h \in ToolRequests : h.command = "APPEND" => h.table.priority = 0

Threads == {"controller", "iptables"}

VARIABLES
    kernel,    \* kernel[l]: the policy and the rules of a built-in chain
    pc,        \* pc[t]: "accept", "message" (a request was read), "kernel"
               \* (the mirror is changed, the kernel is next), or the message to
               \* the controller that is next: "alert", "echo", "all_in"
    hd,        \* hd[t]: the request being served
    unixq,     \* reports of the tool that wait on the Unix socket
    up,        \* the controller accepts connections
    running,   \* the process exists
    drift      \* something happened after which mirror and kernel may differ:
               \* recorded, never read

svars == <<list, length, mem, out, kernel, pc, hd, unixq, up, running, drift>>
mirror == <<list, length, mem, out>>

\* What do_command4 reads for each request, with any index the mirror may leave in
\* it, and the match the kernel holds for each header.
LineOf == [h \in {[r EXCEPT !.index = i] : r \in Requests, i \in 0 .. MaxRules + 1} \cup Requests
             |-> do_command4(to_argv(h))]

MatchOf == [h \in Heads |-> HeadMatch(h)]

-----------------------------------------------------------------------------
(* The kernel's tables, as the libiptc calls of do_command4 change them.   *)

EmptyKernel == [l \in Lists |-> [policy |-> "ACCEPT", rules |-> <<>>]]

\* The rule a command line specifies, and the one a mirror entry stands for.
RuleOf(line) == [match |-> line.match, target |-> line.jumpto]

ImageOf(e) == [match  |-> MatchOf[e.head],
               target |-> IF e.actionDesc = "DESC_NONE" THEN None ELSE e.actionDesc]

\* delete_entry: the first rule equal to the specified one
FirstSame(s, r, k) == s[k] = r /\ \A i \in 1 .. k - 1 : s[i] # r

\* The rule sequences chain s may become under command c; none if it fails.
ChainResults(c, s, line) ==
    CASE c = "APPEND"  -> {Append(s, RuleOf(line))}
      [] c = "INSERT"  -> IF line.rulenum > Len(s) + 1 THEN {}
                          ELSE {InsertAt(s, line.rulenum, RuleOf(line))}
      [] c = "REPLACE" -> IF line.rulenum > Len(s) THEN {}
                          ELSE {ReplaceAt(s, line.rulenum, RuleOf(line))}
      [] c = "DELETE_NUM" -> IF line.rulenum > Len(s) THEN {} ELSE {RemoveAt(s, line.rulenum)}
      [] c = "DELETE"  -> {RemoveAt(s, k) : k \in {j \in 1 .. Len(s) : FirstSame(s, RuleOf(line), j)}}
      [] OTHER -> {}

\* TC_SET_POLICY takes no other verdict
PolicyAllowed(p) == p \in {"ACCEPT", "DROP"}

\* The states the kernel may reach from k by an accepted command line.
KernelResults(k, line) ==
    LET c == CHOOSE x \in line.command : TRUE
        l == <<line.table, line.chain>>
    IN CASE c = "FLUSH" ->
              {[x \in Lists |-> IF x[1] = line.table THEN [k[x] EXCEPT !.rules = <<>>] ELSE k[x]]}
         [] c = "SET_POLICY" ->
              IF l \notin Lists \/ ~PolicyAllowed(line.policy) THEN {}
              ELSE {[k EXCEPT ![l].policy = line.policy]}
         [] OTHER ->
              IF l \notin Lists THEN {}
              ELSE {[k EXCEPT ![l].rules = s] : s \in ChainResults(c, k[l].rules, line)}

-----------------------------------------------------------------------------
(* Reading requests.                                                       *)

KernelRuleCount == MapThenSumSet(LAMBDA l : Len(kernel[l].rules), Lists)

\* Requests for one more rule that a thread serves or that wait on the Unix socket.
Adding ==
    Cardinality({t \in Threads : hd[t] # NoRequest /\ hd[t].command = "APPEND"})
    + Cardinality({k \in DOMAIN unixq : unixq[k].command = "APPEND"})

\* Bound: such a request comes only while there is room for it and for those.
WithRoom(S) ==
    LET room == RuleCount + Adding < MaxRules /\ KernelRuleCount + Adding < MaxRules
    IN {h \in S : h.command = "APPEND" => room}

Goto(t, where) == pc' = [pc EXCEPT ![t] = where]

\* free(handle), close(connfd) and back to accept
Close(t) ==
    /\ Goto(t, "accept")
    /\ hd' = [hd EXCEPT ![t] = NoRequest]

\* exit() in any thread ends the process
Exit ==
    /\ running' = FALSE
    /\ pc' = [t \in Threads |-> "accept"]
    /\ hd' = [t \in Threads |-> NoRequest]
    /\ unixq' = <<>>

\* do_com_controller: accept, the recv loop
do_com_controller ==
    /\ running
    /\ pc["controller"] = "accept"
    /\ \E h \in WithRoom(ControllerRequests) :
          /\ hd' = [hd EXCEPT !["controller"] = h]
          /\ Goto("controller", "message")
    /\ UNCHANGED <<mirror, kernel, unixq, up, running, drift>>

\* do_com_iptables: accept, the recv loop
do_com_iptables ==
    /\ running
    /\ pc["iptables"] = "accept"
    /\ unixq # <<>>
    /\ hd' = [hd EXCEPT !["iptables"] = Head(unixq)]
    /\ unixq' = Tail(unixq)
    /\ Goto("iptables", "message")
    /\ UNCHANGED <<mirror, kernel, up, running, drift>>

-----------------------------------------------------------------------------
(* Serving them.                                                           *)

TcpOrUdp(h) == h.table.head.proto \in {"TCP", "UDP"}

PortsSet(h) == h.table.head.spts # <<0, 0>> \/ h.table.head.dpts # <<0, 0>>

ReportPending == unixq # <<>> \/ pc["iptables"] = "message"

\* DELETE by content takes the entry equal in every field, the kernel the first
\* rule with the same match and target, which may stand for another entry.
Twin(h) ==
    /\ h.command = "DELETE" /\ h.index = 0 /\ Found(h)
    /\ \E j, k \in 1 .. Len(list[ListOf(h)]) - 1 :
          /\ list[ListOf(h)][j] = h.table
          /\ list[ListOf(h)][k] # h.table
          /\ ImageOf(list[ListOf(h)][k]) = ImageOf(h.table)

\* The part of do_command that answers ALLIN: it sends every entry and returns 0.
WantsAll(h) == h.command = "ALLIN"

\* do_message_from_controller
do_message_from_controller ==
    LET h == hd["controller"]
    IN /\ running
       /\ pc["controller"] = "message"
       /\ UNCHANGED <<kernel, unixq, up, running>>
       /\ \/ /\ ~TcpOrUdp(h)
             /\ \/ PortsSet(h) /\ Goto("controller", "alert") /\ UNCHANGED hd
                \/ ~PortsSet(h) /\ Close("controller")
             /\ UNCHANGED <<mirror, drift>>
          \/ /\ TcpOrUdp(h)
             /\ WantsAll(h)
             /\ Goto("controller", "all_in")
             /\ UNCHANGED <<mirror, hd, drift>>
          \/ /\ TcpOrUdp(h)
             /\ do_command(h)
             /\ hd' = [hd EXCEPT !["controller"].index = out'.index]
             /\ Goto("controller", IF out'.ret = 1 THEN "kernel" ELSE "alert")
             /\ drift' = (drift \/ (out'.ret = 1 /\ (ReportPending \/ Twin(h))))

\* do_message_from_iptables: the command is mirrored, then echoed
do_message_from_iptables ==
    LET h == hd["iptables"]
    IN /\ running
       /\ pc["iptables"] = "message"
       /\ UNCHANGED <<kernel, unixq, up, running>>
       /\ \/ /\ WantsAll(h)
             /\ Goto("iptables", "all_in")
             /\ UNCHANGED <<mirror, hd, drift>>
          \/ /\ do_command(h)
             /\ hd' = [hd EXCEPT !["iptables"].index = out'.index]
             /\ Goto("iptables", IF out'.ret = 1 THEN "echo" ELSE "alert")
             /\ drift' = (drift \/ out'.ret = 0 \/ Twin(h))

\* mutant: the thread waits for a controller that is down
send_message_retry(t) ==
    /\ running
    /\ pc[t] \in {"alert", "echo", "all_in"}
    /\ up /\ Close(t) /\ UNCHANGED <<running, unixq>>
    /\ UNCHANGED <<mirror, kernel, up, drift>>

\* alert_to_controller, send_to_controller, all_in: connect fails and the process
\* exits, or the bytes are sent.
send_message(t) ==
    /\ running
    /\ pc[t] \in {"alert", "echo", "all_in"}
    /\ \/ up /\ Close(t) /\ UNCHANGED <<running, unixq>>
       \/ ~up /\ Exit
    /\ UNCHANGED <<mirror, kernel, up, drift>>

\* send_to_kernel.  A line do_command4 rejects ends the process; otherwise the
\* call and its commit take effect or fail, and after EAGAIN the process exits.
send_to_kernel ==
    LET line == LineOf[hd["controller"]]
    IN /\ running
       /\ pc["controller"] = "kernel"
       /\ UNCHANGED <<mirror, up>>
       /\ \/ /\ line.exit
             /\ Exit
             /\ UNCHANGED <<kernel, drift>>
          \/ /\ ~line.exit
             /\ kernel' \in KernelResults(kernel, line)
             /\ Close("controller")
             /\ UNCHANGED <<unixq, running, drift>>
          \/ /\ ~line.exit
             /\ drift' = TRUE
             /\ \/ Goto("controller", "alert") /\ UNCHANGED <<hd, unixq, running>>
                \/ Exit
             /\ UNCHANGED kernel

-----------------------------------------------------------------------------
(* What surrounds the daemon.                                              *)

\* The iptables tool: its command takes effect in the kernel and it reports it.
\* A report finds nobody while the daemon does not run.
Tool ==
    /\ Len(unixq) = 0
    /\ \E h \in WithRoom(ToolRequests) :
          LET line == LineOf[h]
          IN /\ ~line.exit
             /\ kernel' \in KernelResults(kernel, line)
             /\ unixq' = IF running THEN Append(unixq, h) ELSE unixq
    /\ drift' = (drift \/ (running /\ pc["controller"] = "kernel"))
    /\ UNCHANGED <<mirror, pc, hd, up, running>>

ControllerUp   == ~up /\ up' = TRUE /\ UNCHANGED <<mirror, kernel, pc, hd, unixq, running, drift>>
ControllerDown == up /\ up' = FALSE /\ UNCHANGED <<mirror, kernel, pc, hd, unixq, running, drift>>

\* A stray write or free ends the process at some later moment.
Crash ==
    /\ running /\ mem = "wild"
    /\ Exit
    /\ UNCHANGED <<mirror, kernel, up, drift>>

\* main: init_ruletables, ipt_server.  The tables start from nothing; those of the
\* kernel are not read.
Restart ==
    /\ ~running
    /\ running' = TRUE
    /\ list'   = [l \in Lists |-> <<PolicyEntry("ACCEPT")>>]
    /\ length' = [l \in Lists |-> 1]
    /\ mem'    = "ok"
    /\ out'    = NoResult
    /\ drift'  = (kernel # EmptyKernel)
    /\ UNCHANGED <<kernel, pc, hd, unixq, up>>

ServiceInit ==
    /\ init_ruletables
    /\ kernel = EmptyKernel
    /\ pc = [t \in Threads |-> "accept"]
    /\ hd = [t \in Threads |-> NoRequest]
    /\ unixq = <<>>
    /\ up = TRUE
    /\ running = TRUE
    /\ drift = FALSE

ServiceNext ==
    \/ do_com_controller \/ do_message_from_controller \/ send_to_kernel
    \/ do_com_iptables \/ do_message_from_iptables
    \/ \E t \in Threads : send_message(t)
    \/ Tool \/ ControllerUp \/ ControllerDown \/ Crash \/ Restart

\* Each thread goes on when it can, but that the controller need not send anything; nothing
\* else has to happen.
Fairness ==
    /\ WF_svars(do_message_from_controller \/ send_to_kernel \/ send_message("controller"))
    /\ WF_svars(do_com_iptables \/ do_message_from_iptables \/ send_message("iptables"))
    /\ WF_svars(Crash)

ServiceSpec == ServiceInit /\ [][ServiceNext]_svars /\ Fairness

-----------------------------------------------------------------------------
(* Properties.                                                             *)

\* What the kernel holds if it holds what the mirror holds.
MirrorImage ==
    [l \in Lists |->
        [policy |-> Last(list[l]).actionDesc,
         rules  |-> [i \in 1 .. Len(list[l]) - 1 |-> ImageOf(list[l][i])]]]

Quiet == running /\ mem = "ok" /\ unixq = <<>> /\ \A t \in Threads : pc[t] = "accept"

\* Between requests the mirror is the kernel's table - the same policies, the same
\* rules in the same places - unless one of five things happened: a commit was
\* refused, a report was refused, the two threads overlapped, a rule was deleted
\* by content while another had the same image, or the daemon started over tables
\* that were not empty.
MirrorIsKernel == Quiet /\ ~drift => kernel = MirrorImage

\* While they agree, a command the mirror accepted is one the kernel can do: its
\* rule number exists there, the rule it deletes by content is there, its policy
\* is one a built-in chain may have.
KernelCanFollow ==
    pc["controller"] = "kernel" /\ mem = "ok" /\ ~drift =>
        LET line == LineOf[hd["controller"]]
        IN line.exit \/ KernelResults(kernel, line) # {}

\* No request keeps a thread for ever: the thread returns to accept, or the process
\* ends.
Served == \A t \in Threads : pc[t] # "accept" ~> pc[t] = "accept" \/ ~running

\* A report the tool has queued is read while the process lives.
ReportsRead == unixq # <<>> ~> unixq = <<>>
=============================================================================
