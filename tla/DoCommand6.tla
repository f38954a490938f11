----------------------------- MODULE DoCommand6 -----------------------------
(***************************************************************************)
(* The command line of ip6tables as do_command6 reads it                   *)
(* (ruletables/ip6tables.c 1288-1941): a twin of do_command4.  It has no   *)
(* -f, is not refused with -6 but with -4, and drops packets in the nat    *)
(* table.  The lock on the tables, which only this one takes, is in Commit.*)
(***************************************************************************)
EXTENDS DoCommand4

\* optflags: OPT_NUMERIC .. OPT_COUNTERS
OptionFlags6 == OptionFlags \ {"f"}

commands_v_options6 == [c \in DOMAIN commands_v_options |-> commands_v_options[c] \cap OptionFlags6]

\* getopt returns option o; -f is not in its string (line 1334).
TakeOption6(p, o) ==
    CASE o \in {"-f", "-4"} -> Fail(p)
      [] o = "-6"           -> Completed(p, o)
      [] OTHER              -> TakeOption(p, o)

\* One word of the command line.
Read6(p, w) ==
    LET q == NoWord(p)
    IN IF ~p.exit /\ ~IsValue(p, w) /\ ~q.exit /\ w.kind = "opt" THEN TakeOption6(q, w.text)
       ELSE Read(p, w)

\* The end of the line: the tests of lines 1693-1767, and those of a rule.
Finish6(p) ==
    LET q == WithAddresses(6, LastWord(p))
    IN IF \/ q.exit
          \/ q.command = {}
          \/ q.invert
          \/ BadAddresses(q)
          \/ ~generic_opt_check(q, commands_v_options6)
          \/ q.chain \in LongNames
          \/ q.table \notin Tables
          \/ BadRule(q)
       THEN Fail(q)
       ELSE q
=============================================================================
