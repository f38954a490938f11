------------------------------ MODULE ConnMatches ------------------------------
(***************************************************************************)
(* The match on the state of a connection, conntrack (revisions 0 to 3),   *)
(* and its alias state.                                                    *)
(***************************************************************************)
EXTENDS Xtoptions, SequencesExt

InvOf(type) == [Entry(type) EXCEPT !.flags = {"INVERT"}]
\* An address is written with its mask unless that is all ones.
Masked(a) == IF a[2] = AllOnes THEN <<a[1]>> ELSE <<a[1], Cidr(a[2])>>
------------------------------------------------------------------------------
(***************************************************************************)
(* conntrack.  A state or status is any beginning of a name of the table,  *)
(* the first that fits.  Revision 1 keeps the states in eight bits, where  *)
(* UNTRACKED, the ninth, is lost.                                          *)
(***************************************************************************)
StateNames ==
  ("N" :> "NEW") @@
  [s \in {"INVALID", "NEW", "ESTABLISHED", "RELATED", "UNTRACKED", "SNAT", "DNAT"} |-> s]
StatusNames == {"NONE", "EXPECTED", "SEEN_REPLY", "ASSURED", "CONFIRMED"}
Addresses == {"ctorigsrc", "ctorigdst", "ctreplsrc", "ctrepldst"}
Ports == {"ctorigsrcport", "ctorigdstport", "ctreplsrcport", "ctrepldstport"}

conntrack_mt_opts_v0 ==
  [a \in Addresses |-> InvOf("HOST")] @@
  [ctstate |-> InvOf("CUSTOM"), ctproto |-> InvOf("PROTOCOL"), ctstatus |-> InvOf("CUSTOM"),
   ctexpire |-> InvOf("UINT32RC")]
PortsAndDir(port) == [p \in Ports |-> port] @@ [ctdir |-> Entry("CUSTOM")]
conntrack2_mt_opts ==
  [a \in Addresses |-> InvOf("HOSTMASK")] @@ conntrack_mt_opts_v0 @@
  PortsAndDir([InvOf("PORTRC") EXCEPT !.flags = {"INVERT", "NBO"}])
conntrack3_mt_opts ==
  [a \in Addresses |-> InvOf("HOSTMASK")] @@ conntrack_mt_opts_v0 @@ PortsAndDir(InvOf("PORTRC"))

conntrack_init ==
  [match_flags |-> {}, invert_flags |-> {}, state_mask |-> {}, status_mask |-> {}, l4proto |-> 0,
   addr |-> [a \in Addresses |-> <<0, 0>>], port |-> [p \in Ports |-> <<0, 0>>], expires |-> <<0, 0>>]

Matching(c, flag) ==
  [c EXCEPT !.info.match_flags = @ \cup {flag},
            !.info.invert_flags = IF c.invert THEN @ \cup {flag} ELSE @]
conntrack_ps_states(c) ==
  IF c.arg[1] = {} \/ ~c.arg[1] \subseteq DOMAIN StateNames THEN Refused(c)
  ELSE [c EXCEPT !.info.state_mask = @ \cup {StateNames[s] : s \in c.arg[1]}]
conntrack_ps_statuses(c) ==
  IF c.arg[1] = {} \/ ~c.arg[1] \subseteq StatusNames THEN Refused(c)
  ELSE [c EXCEPT !.info.status_mask = @ \cup (c.arg[1] \ {"NONE"})]
CtExpires(c) ==
  [c EXCEPT !.info.expires = <<c.val[1], IF c.nvals >= 2 THEN c.val[2] ELSE c.val[1]>>]
\* XT_INV_PROTO is the bit of an inverted --ctstatus.
NeverMatches(c) == c.val[1] = 0 /\ "ctstatus" \in c.info.invert_flags

\* Revision 0: --ctstate does not set its flag and no mask is kept.
conntrack_parse(c) ==
  CASE c.id = "ctstate" ->
         LET d == conntrack_ps_states(c)
         IN IF c.invert THEN [d EXCEPT !.info.invert_flags = @ \cup {"ctstate"}] ELSE d
    [] c.id = "ctproto" -> Need(Matching([c EXCEPT !.info.l4proto = c.val[1]], c.id), ~NeverMatches(c))
    [] c.id \in Addresses -> Matching([c EXCEPT !.info.addr[c.id] = <<c.val[1], 0>>], c.id)
    [] c.id = "ctstatus" -> Matching(conntrack_ps_statuses(c), c.id)
    [] c.id = "ctexpire" -> Matching(CtExpires(c), c.id)
conntrack_mt_parse(c) ==
  CASE c.id = "ctstate" -> Matching(conntrack_ps_states(c), c.id)
    [] c.id = "ctproto" -> Need(Matching([c EXCEPT !.info.l4proto = c.val[1]], c.id), ~NeverMatches(c))
    [] c.id \in Addresses -> Matching([c EXCEPT !.info.addr[c.id] = <<c.val[1], c.val[2]>>], c.id)
    [] c.id = "ctstatus" -> Matching(conntrack_ps_statuses(c), c.id)
    [] c.id = "ctexpire" -> Matching(CtExpires(c), c.id)
    [] c.id \in Ports -> Matching([c EXCEPT !.info.port[c.id] = c.val], c.id)
    [] c.id = "ctdir" ->
         Need([c EXCEPT !.info.match_flags = @ \cup {"ctdir"},
                        !.info.invert_flags = IF c.arg[1] = "REPLY" THEN @ \cup {"ctdir"} ELSE @ \ {"ctdir"}],
              c.arg[1] \in {"ORIGINAL", "REPLY"})
\* Revisions 1 and 2 have one port.
OnePort(c) == Need(c, \A p \in Ports : c.info.port[p][1] = c.info.port[p][2])
EightBits(states) == states \ {"UNTRACKED"}
conntrack1_mt_parse(c) ==
  LET up == OnePort(conntrack_mt_parse(c)) IN [up EXCEPT !.info.state_mask = EightBits(@)]
conntrack2_mt_parse(c) == OnePort(conntrack_mt_parse(c))
conntrack_mt_check(xflags) == xflags # {}

print_state(states) == <<states>>
print_status(status) == <<IF status = {} THEN {"NONE"} ELSE status>>
ntohs(port) == htons(port)
\* A range that ends at 0 is written as one port.
conntrack_dump_ports(range, v3) ==
  IF ~v3 THEN <<ntohs(range[1])>> ELSE IF range[2] = 0 THEN <<range[1]>> ELSE Range2(range)
\* In revision 0, and in print, an address is followed by its mask, which is 0.
matchinfo_print(i) ==
  LET Given(id, arg) == Put(id \in i.match_flags, id \in i.invert_flags, id, arg)
  IN Given("ctstate", print_state(i.state_mask)) \o Given("ctproto", <<i.l4proto>>) \o
     FlattenSeq([x \in 1 .. 4 |-> LET id == <<"ctorigsrc", "ctorigdst", "ctreplsrc", "ctrepldst">>[x]
                                  IN Given(id, <<i.addr[id][1], Cidr(i.addr[id][2])>>)]) \o
     Given("ctstatus", print_status(i.status_mask)) \o Given("ctexpire", Range2(i.expires))
conntrack_dump(i, v3) ==
  LET Given(id, arg) == Put(id \in i.match_flags, id \in i.invert_flags, id, arg)
  IN Put("ctstate" \in i.match_flags, "ctstate" \in i.invert_flags,
         IF "alias" \in i.match_flags THEN "state" ELSE "ctstate", print_state(i.state_mask)) \o
     Given("ctproto", <<i.l4proto>>) \o
     FlattenSeq([x \in 1 .. 4 |-> LET id == <<"ctorigsrc", "ctorigdst", "ctreplsrc", "ctrepldst">>[x]
                                  IN Given(id, Masked(i.addr[id]))]) \o
     FlattenSeq([x \in 1 .. 4 |->
                   LET id == <<"ctorigsrcport", "ctorigdstport", "ctreplsrcport", "ctrepldstport">>[x]
                   IN Given(id, conntrack_dump_ports(i.port[id], v3))]) \o
     Given("ctstatus", print_status(i.status_mask)) \o Given("ctexpire", Range2(i.expires)) \o
     Put("ctdir" \in i.match_flags, FALSE, "ctdir",
         <<IF "ctdir" \in i.invert_flags THEN "REPLY" ELSE "ORIGINAL">>)
conntrack_save(i) == matchinfo_print(i)
conntrack2_mt_save(i) == conntrack_dump(i, FALSE)
conntrack3_mt_save(i) == conntrack_dump(i, TRUE)

\* state is an alias of conntrack from revision 1 on and a match of its own
\* before, where `!' complements the mask (of 32 bits: OtherBits are the rest).
OtherBits == "other"
PlainStates == {"INVALID", "NEW", "ESTABLISHED", "RELATED", "UNTRACKED"}
state_opts == [state |-> [Entry("CUSTOM") EXCEPT !.flags = {"MAND", "INVERT"}]]
state_init == [state_mask |-> {}]
state_parse_states(c) ==
  {StateNames[s] : s \in c.arg[1] \cap DOMAIN StateNames}
GoodStates(c) ==
  c.arg[1] # {} /\ c.arg[1] \subseteq DOMAIN StateNames /\ state_parse_states(c) \subseteq PlainStates
state_parse(c) ==
  LET mask == state_parse_states(c)
  IN Need([c EXCEPT !.info.state_mask = IF c.invert THEN (PlainStates \cup {OtherBits}) \ mask ELSE mask],
          GoodStates(c))
state_ct23_parse(c) ==
  Need([c EXCEPT !.info.match_flags = {"ctstate", "alias"}, !.info.state_mask = state_parse_states(c),
                 !.info.invert_flags = IF c.invert THEN @ \cup {"ctstate"} ELSE @], GoodStates(c))
state_ct1_parse(c) ==
  LET d == state_ct23_parse(c) IN [d EXCEPT !.info.state_mask = EightBits(@)]
state_save(i) == Put(TRUE, FALSE, "state", <<i.state_mask \ {OtherBits}>>)
=============================================================================
