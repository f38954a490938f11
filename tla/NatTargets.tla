------------------------------ MODULE NatTargets ------------------------------
(***************************************************************************)
(* The targets that rewrite addresses and ports: SNAT, DNAT, MASQUERADE,   *)
(* REDIRECT and NETMAP for IPv4 and IPv6 (a name ending in 6), SNPT and    *)
(* DNPT, and SAME.  A range of addresses or ports is a pair; an argument   *)
(* "addr-addr:port-port" is <<addresses, ports>>, each part one number,    *)
(* two, or absent (<<>>).                                                  *)
(***************************************************************************)
EXTENDS HostMatches

Flag(c, f) == [c EXCEPT !.info.flags = @ \cup {f}]
Ends(s) == <<s[1], s[Len(s)]>>
Word(id) == Put(TRUE, FALSE, id, <<>>)
WordIf(cond, id) == Put(cond, FALSE, id, <<>>)
PortOk(proto) == proto \in {"tcp", "udp", "sctp", "dccp", "icmp"}
NatRange == [flags |-> {}, ips |-> <<0, 0>>, ports |-> <<0, 0>>]
ValidPorts(ports, low) ==
  (\A x \in DOMAIN ports : ports[x] \in low .. UINT16_MAX) /\ Ends(ports)[1] <= Ends(ports)[2]
------------------------------------------------------------------------------
(***************************************************************************)
(* SNAT and DNAT.  The IPv4 targets append the range to a list that the    *)
(* kernel limits to one; an option that sets a flag writes to the first    *)
(* range whether it is there or not.  The IPv6 targets have one range and  *)
(* add each argument to it.                                                *)
(***************************************************************************)
nat_opts(to) ==
  (to :> [Entry("CUSTOM") EXCEPT !.flags = {"MAND", "MULTI"}]) @@
  [random |-> Entry("NONE"), persistent |-> Entry("NONE")]
SNAT_opts == nat_opts("to_source")
DNAT_opts == nat_opts("to_destination")
SNAT6_opts == nat_opts("to_source")
DNAT6_opts == nat_opts("to_destination")
nat_init == [rangesize |-> 0, flags |-> {}, ips |-> <<0, 0>>, ports |-> <<0, 0>>]
nat6_init == NatRange

\* parse_to: what an argument adds to a range
parse_to(range, arg) ==
  [range EXCEPT !.flags = @ \cup (IF arg[1] # <<>> THEN {"MAP_IPS"} ELSE {})
                            \cup (IF arg[2] # <<>> THEN {"PROTO_SPECIFIED"} ELSE {}),
                !.ips = IF arg[1] # <<>> THEN Ends(arg[1]) ELSE @,
                !.ports = IF arg[2] # <<>> THEN Ends(arg[2]) ELSE @]
parse_to_ok(arg, proto) ==
  /\ arg # << <<>>, <<>> >>
  /\ arg[2] # <<>> => PortOk(proto) /\ ValidPorts(arg[2], 1)
append_range(info, range) ==
  [rangesize |-> info.rangesize + 1, flags |-> range.flags, ips |-> range.ips, ports |-> range.ports]

nat_parse(c) ==
  CASE c.id = "random" -> c
    [] c.id = "persistent" -> Flag(c, "PERSISTENT")
    [] OTHER -> Need([c EXCEPT !.info = append_range(@, parse_to(NatRange, c.arg))],
                     c.info.rangesize = 0 /\ parse_to_ok(c.arg, c.proto))
SNAT_parse(c) == nat_parse(c)
DNAT_parse(c) == nat_parse(c)
\* A range started anew, as the IPv4 targets do.
nat6_parse_anew(c) ==
  CASE c.id = "random" -> c
    [] c.id = "persistent" -> Flag(c, "PERSISTENT")
    [] OTHER -> Need([c EXCEPT !.info = parse_to(NatRange, c.arg)], parse_to_ok(c.arg, c.proto))
nat6_parse(c) ==
  CASE c.id = "random" -> c
    [] c.id = "persistent" -> Flag(c, "PERSISTENT")
    [] OTHER -> Need([c EXCEPT !.info = parse_to(@, c.arg)], parse_to_ok(c.arg, c.proto))
SNAT6_parse(c) == nat6_parse(c)
DNAT6_parse(c) == nat6_parse(c)

nat_fcheck(c, to) == IF {to, "random"} \subseteq c.xflags THEN Flag(c, "PROTO_RANDOM") ELSE c
SNAT_fcheck(c) == nat_fcheck(c, "to_source")
DNAT_fcheck(c) == nat_fcheck(c, "to_destination")
SNAT6_fcheck(c) == nat_fcheck(c, "to_source")
DNAT6_fcheck(c) == nat_fcheck(c, "to_destination")

print_range(r) ==
  <<IF "MAP_IPS" \in r.flags THEN Range2(r.ips) ELSE <<>>,
    IF "PROTO_SPECIFIED" \in r.flags THEN Range2(r.ports) ELSE <<>> >>
nat_save(r, to) ==
  Put(TRUE, FALSE, to, print_range(r)) \o WordIf("PROTO_RANDOM" \in r.flags, "random") \o
  WordIf("PERSISTENT" \in r.flags, "persistent")
SNAT_save(i) == IF i.rangesize = 0 THEN <<>> ELSE nat_save(i, "to_source")
DNAT_save(i) == IF i.rangesize = 0 THEN <<>> ELSE nat_save(i, "to_destination")
SNAT6_save(i) == nat_save(i, "to_source")
DNAT6_save(i) == nat_save(i, "to_destination")
SNAT_print(i) == Listed(SNAT_save(i))
DNAT_print(i) == Listed(DNAT_save(i))
SNAT6_print(i) == Listed(SNAT6_save(i))
DNAT6_print(i) == Listed(DNAT6_save(i))
------------------------------------------------------------------------------
(***************************************************************************)
(* MASQUERADE and REDIRECT.  REDIRECT keeps --random only beside           *)
(* --to-ports, in whichever order they come.                               *)
(***************************************************************************)
ports_opts == [to_ports |-> Entry("CUSTOM"), random |-> Entry("NONE")]
MASQUERADE_opts == ports_opts
REDIRECT_opts == ports_opts
MASQUERADE6_opts == ports_opts
REDIRECT6_opts == ports_opts

parse_ports(c) ==
  Need([c EXCEPT !.info.flags = @ \cup {"PROTO_SPECIFIED"}, !.info.ports = Ends(c.arg)],
       PortOk(c.proto) /\ ValidPorts(c.arg, 0))
MASQUERADE_parse(c) == IF c.id = "to_ports" THEN parse_ports(c) ELSE Flag(c, "PROTO_RANDOM")
MASQUERADE6_parse(c) == MASQUERADE_parse(c)
REDIRECT_parse(c) ==
  LET d == IF c.id = "to_ports" THEN parse_ports(c) ELSE c
  IN IF {"to_ports", "random"} \subseteq c.xflags THEN Flag(d, "PROTO_RANDOM") ELSE d
REDIRECT6_parse(c) == REDIRECT_parse(c)

MASQUERADE_save(i) ==
  Put("PROTO_SPECIFIED" \in i.flags, FALSE, "to_ports", Range2(i.ports)) \o
  WordIf("PROTO_RANDOM" \in i.flags, "random")
MASQUERADE6_save(i) == MASQUERADE_save(i)
REDIRECT_save(i) == IF "PROTO_SPECIFIED" \in i.flags THEN MASQUERADE_save(i) ELSE <<>>
REDIRECT6_save(i) == REDIRECT_save(i)
MASQUERADE_print(i) == Listed(MASQUERADE_save(i))
MASQUERADE6_print(i) == Listed(MASQUERADE_save(i))
REDIRECT_print(i) == Listed(REDIRECT_save(i))
REDIRECT6_print(i) == Listed(REDIRECT_save(i))
------------------------------------------------------------------------------
(***************************************************************************)
(* NETMAP keeps a network as its first and last address.  A mask that is   *)
(* no prefix takes the parser's unchecked length 255 (xtopt_parse_plenmask *)
(* then keeps all ones).                                                   *)
(***************************************************************************)
NETMAP_opts == [to |-> [Entry("HOSTMASK") EXCEPT !.flags = {"MAND"}]]
NETMAP6_opts == NETMAP_opts
NETMAP_init == [flags |-> {}, ips |-> <<0, 0>>]
NETMAP_parse(c) ==
  LET hosts == AllOnes - c.val[2]
      min == c.val[1] - (c.val[1] % (hosts + 1))
  IN Flag([c EXCEPT !.info.ips = <<min, min + hosts>>], "MAP_IPS")
NETMAP6_parse(c) == NETMAP_parse(c)
netmask2bits(mask) == Cidr(mask)
NETMAP_save(i) == Put(TRUE, FALSE, "to", <<i.ips[1], netmask2bits(AllOnes - (i.ips[2] - i.ips[1]))>>)
NETMAP6_save(i) == NETMAP_save(i)
NETMAP_print(i) == Listed(NETMAP_save(i))
NETMAP6_print(i) == Listed(NETMAP_save(i))
------------------------------------------------------------------------------
(***************************************************************************)
(* SNPT and DNPT write no space before their first option: it ends the     *)
(* word of the target's name.                                              *)
(***************************************************************************)
npt_opts == [o \in {"src_pfx", "dst_pfx"} |-> [Entry("HOSTMASK") EXCEPT !.flags = {"MAND"}]]
SNPT_opts == npt_opts
DNPT_opts == npt_opts
npt_init == [src_pfx |-> <<0, 0>>, dst_pfx |-> <<0, 0>>]
SNPT_parse(c) == [c EXCEPT !.info[c.id] = <<c.val[1], c.val[3]>>]
DNPT_parse(c) == SNPT_parse(c)
GluedTarget == "SNPT--"
SNPT_save(i) ==
  LET line == Put(i.src_pfx # <<0, 0>>, FALSE, "src_pfx", i.src_pfx) \o
              Put(i.dst_pfx # <<0, 0>>, FALSE, "dst_pfx", i.dst_pfx)
  IN IF line = <<>> THEN line ELSE <<[line[1] EXCEPT !.id = GluedTarget \o @]>> \o Tail(line)
DNPT_save(i) == SNPT_save(i)
SNPT_print(i) == {<<"src_pfx", FALSE>>, <<"dst_pfx", FALSE>>}
DNPT_print(i) == SNPT_print(i)
------------------------------------------------------------------------------
(***************************************************************************)
(* SAME: --random marks the ranges there are, and the final check marks    *)
(* those given after it.  The ends of a range are compared as they lie in  *)
(* memory, in network order, on a machine whose first byte is the low one. *)
(***************************************************************************)
IPT_SAME_MAX_RANGE == 2              \* 10 in the code
SAME_opts ==
  [to |-> [Entry("CUSTOM") EXCEPT !.flags = {"MAND"}], nodst |-> Entry("NONE"), random |-> Entry("NONE")]
InMemory(addr) == (addr % 4) * 4 + addr \div 4
SAME_init == [range |-> <<>>, flags |-> {}]
Randomised(c) ==
  [c EXCEPT !.info.range = [x \in DOMAIN @ |-> [@[x] EXCEPT !.flags = {"PROTO_RANDOM"}]]]
SAME_parse(c) ==
  CASE c.id = "to" ->
         Need([c EXCEPT !.info.range = Append(@, [ips |-> Ends(c.arg), flags |-> {}])],
              Len(c.info.range) < IPT_SAME_MAX_RANGE /\ InMemory(Ends(c.arg)[1]) <= InMemory(Ends(c.arg)[2]))
    [] c.id = "nodst" -> Flag(c, "NODST")
    [] c.id = "random" -> Randomised(c)
SAME_fcheck(c) == IF {"to", "random"} \subseteq c.xflags THEN Randomised(c) ELSE c
SAME_save(i) ==
  [x \in DOMAIN i.range |-> [id |-> "to", invert |-> FALSE, arg |-> Range2(i.range[x].ips)]] \o
  WordIf("NODST" \in i.flags, "nodst") \o
  WordIf(\E x \in DOMAIN i.range : i.range[x].flags # {}, "random")
SAME_print(i) == Listed(SAME_save(i))
=============================================================================
