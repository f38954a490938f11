------------------------------ MODULE MCOptions ------------------------------
(***************************************************************************)
(* What is typed: for an option whose argument the guided parser reads,    *)
(* the arguments of its type, with the ends of the range, empty components *)
(* and values one too large; for the others, the arguments listed here.    *)
(***************************************************************************)
EXTENDS OptionLine

Lengths == {<<2>>, <<0>>, <<AddressBits>>, <<AddressBits + 1>>, <<UINT8_MAX>>, <<PlenMask(1)>>, <<AllOnes + 1>>,
            <<PlenMask(1), "full">>, <<6, "full">>}
ArgsOfType(e) ==
  LET top == IF e.max # 0 THEN e.max ELSE xtopt_max_by_type(e.type)
      less == IF top < 7 THEN top - 1 ELSE 7
  IN CASE e.type \in {"UINT8", "UINT16", "UINT32", "UINT64"} ->
            {<<e.min>>, <<less>>, <<top>>} \cup (IF top < UINT32_MAX THEN {<<top + 1>>} ELSE {})
       [] e.type \in {"UINT8RC", "UINT16RC", "UINT32RC", "UINT64RC"} ->
            {<<7>>, <<Empty, 9>>, <<5, Empty>>, <<5, 9>>, <<Empty, Empty>>, <<0>>}
       [] e.type = "PORTRC" -> {<<7>>, <<Empty, 9>>, <<5, Empty>>, <<5, 9>>, <<Empty, Empty>>, <<9, 5>>}
       [] e.type = "PORT" -> {<<7>>, <<0>>}
       [] e.type = "DOUBLE" -> {<<0>>, <<5>>, <<8>>}
       [] e.type = "STRING" -> {<<"ab">>, <<"abc">>, <<"abcdefgh">>}
       [] e.type = "TOSMASK" -> {<<NamedTos>>, <<3>>, <<3, 63>>, <<0, 255>>}
       [] e.type = "MARKMASK32" -> {<<3>>, <<3, 15>>, <<0, UINT32_MAX>>, <<0>>}
       [] e.type = "SYSLOGLEVEL" -> {<<4>>, <<8>>, <<0, "error">>}
       [] e.type = "PROTOCOL" -> {<<6>>, <<0>>}
       [] e.type = "HOST" -> {<<5>>}
       [] e.type = "HOSTMASK" -> {<<5>>, <<5, 2>>, <<5, AddressBits + 1>>, <<5, PlenMask(2), "full">>, <<5, 6, "full">>,
                                   <<AllOnes + 1>>}
       [] e.type \in {"PLENMASK", "PLEN"} -> Lengths
       [] e.type = "ETHERMAC" -> {<<"m1">>, <<"m2">>}
       [] e.type = "NONE" -> {<<>>}
       [] OTHER -> {}

PortArgs == {<<7>>, <<5, 9>>, <<9, 5>>, <<Empty, Empty>>, <<Empty, 9>>}
MultiportArgs == {<< <<7>> >>, << <<5, 9>> >>, << <<5>>, <<7, 9>> >>, << <<5>>, <<6>>, <<7>> >>, << <<5, 6>>, <<7, 9>> >>, << <<9, 5>> >> }
IcmpArgs == {<<"any", 255, 0, 255>>, <<"echo", 8, 0, 255>>, <<"", 3>>, <<"", 3, 1>>, <<"", 255, 1>>, <<"net", 3, 0, 0>>, <<"", 256>>}
OptsArgs == {<< <<1>> >>, << <<1, 4>>, <<5>> >>, << <<1, 255>> >>, << <<0, 4>> >>, << <<1>>, <<2>>, <<3>> >>}
Patterns == {<<1>>, <<0, 1>>, <<1, 1, 1>>, <<1, 1, 1, 1>>, <<>>}
TypeArgs == {<<{"UNI"}>>, <<{"UNICAST", "BROADCAST"}>>, <<{"X"}>>, <<{"U"}>>}

PacketRates == {<<5, "sec">>, <<4838, "min">>, <<1, "day">>, <<0, "sec">>}
ByteRates == {<<512, "b">>, <<15, "b">>, <<2, "kb">>, <<1000, "b">>, <<0, "b">>}
ModeArgs == {<<{"srcip"}>>, <<{"srcip", "dstport"}>>, <<{"x"}>>}
Ct ==
  [ctstate |-> {<<{"NEW"}>>, <<{"N", "UNTRACKED"}>>, <<{"X"}>>, <<{}>>, <<{"UNTRACKED"}>>},
   ctstatus |-> {<<{"ASSURED", "EXPECTED"}>>, <<{"NONE"}>>, <<{"X"}>>}, ctproto |-> {<<6>>, <<0>>},
   ctdir |-> {<<"ORIGINAL">>, <<"REPLY">>, <<"X">>},
   ctorigdstport |-> {<<7>>, <<5, 9>>, <<9, 0>>, <<Empty, 9>>}, ctorigsrcport |-> {<<7>>},
   ctreplsrcport |-> {<<7>>}, ctrepldstport |-> {<<7>>},
   ctorigdst |-> {<<5>>}, ctreplsrc |-> {<<5>>}, ctrepldst |-> {<<5>>}]
StateArg == [state |-> {<<{"NEW"}>>, <<{"N", "UNTRACKED"}>>, <<{"X"}>>, <<{}>>, <<{"SNAT"}>>, <<PlainStates>>}]
OwnerV0 == [uid_owner |-> {<<7>>, <<UINT32_MAX>>}, gid_owner |-> {<<7>>}]
IpRange == [o \in {"src_range", "dst_range"} |-> {<<7>>, <<5, 9>>, <<9, 5>>, <<5, AllOnes + 1>>}]
U32Test == [location |-> <<0, "&", 15>>, value |-> << <<1>>, <<5, 9>> >>]
SetNames == {<<"s1", <<"src">> >>, <<"s2", <<"src", "dst">> >>, <<"s1", <<"src", "dst", "src">> >>,
             <<"s1", <<"src", "dst", "src", "dst">> >>, <<"s3", <<"src">> >>}
SetArgs == [match_set |-> SetNames, set |-> {<<"s1", <<"src">> >>}]
           @@ [o \in {"packets_eq", "packets_lt", "packets_gt", "bytes_eq", "bytes_lt", "bytes_gt"} |-> {<<7>>}]
NatArgs == {<< <<5>>, <<>> >>, << <<5, 9>>, <<7>> >>, << <<>>, <<7, 8>> >>, << <<5>>, <<8, 7>> >>, << <<>>, <<0>> >>,
            << <<9, 5>>, <<>> >>, << <<>>, <<>> >>}
ToPorts == [to_ports |-> {<<7>>, <<7, 9>>, <<9, 7>>, <<0>>}]
Events == [ctevents |-> {<<{"new", "mark"}>>, <<{"x"}>>, <<{}>>}, expevents |-> {<<{"new"}>>, <<{"mark"}>>}]
Balance == [queue_balance |-> {<<5, 9>>, <<7>>, <<9, 5>>, <<0, 65535>>, <<Empty, 9>>, <<5, Empty>>}]
HmarkArgs ==
  [hmark_tuple |-> {<<"src", "dst">>, <<"ct">>, <<"s">>, <<"sport", "dport">>, <<"spi">>, <<"x">>, <<>>, <<"proto", "">>},
   sport |-> {<<7>>}, dport |-> {<<7>>}, sport_mask |-> {<<3>>}, dport_mask |-> {<<3>>}, spi |-> {<<70000>>},
   spi_mask |-> {<<70000>>}, mod |-> {<<7>>, <<0>>}, rnd |-> {<<7>>}, offset |-> {<<7>>}, proto_mask |-> {<<3>>},
   src_mask |-> {<<2>>, <<6, "full">>}, dst_mask |-> {<<2>>}]

Special ==
  [tcp |-> [sport |-> PortArgs, dport |-> PortArgs, tcp_option |-> {<<0>>, <<1>>, <<7>>, <<256>>},
            tcp_flags |-> {<<{"SYN", "ACK"}, {"SYN"}>>, <<{"ALL"}, {"NONE"}>>, <<{"X"}, {"SYN"}>>, <<{"NONE"}, {"NONE"}>>}],
   dccp |-> [dccp_types |-> {<<{"ACK", "DATA"}>>, <<{"X"}>>, <<{"INVALID"}>>}],
   sctp |-> [sport |-> PortArgs, dport |-> PortArgs,
             chunk_types |-> {<<"any", {<<"DATA", {"U", "b"}>>}>>, <<"only", {<<"ALL", {}>>}>>,
                              <<"all", {<<"NONE", {}>>}>>, <<"any", {<<"SACK", {}>>, <<"ABORT", {"T"}>>}>>,
                              <<"any", {<<"ASCONF", {}>>}>>, <<"none", {<<"DATA", {}>>}>>,
                              <<"any", {<<"SHUTDOWN_COMPLETE", {"t"}>>}>>}],
   multiport |-> [x \in AnyOf |-> MultiportArgs], multiport_v1 |-> [x \in AnyOf |-> MultiportArgs],
   icmp |-> [icmp_type |-> IcmpArgs], icmp6 |-> [icmpv6_type |-> IcmpArgs],
   hbh |-> [hbh_opts |-> OptsArgs], dst |-> [dst_opts |-> OptsArgs],
   rt |-> [rt_0_addrs |-> {<<1>>, <<1, 2>>, <<1, 2, 3>>}],
   mh |-> [mh_type |-> {<<7>>, <<5, 9>>, <<9, 5>>, <<Empty, Empty>>, <<0, 255>>}],
   ipv6header |-> [header |-> {<<{"hop", "dst"}>>, <<{"protocol"}>>, <<{"x"}>>, <<{}>>}],
   pkttype |-> [pkt_type |-> {<<"unicast">>, <<"bcast">>, <<"host">>, <<"x">>}],
   string |-> [string |-> Patterns, hex_string |-> Patterns],
   string_v0 |-> [string |-> Patterns, hex_string |-> Patterns],
   addrtype |-> [src_type |-> TypeArgs, dst_type |-> TypeArgs],
   addrtype_v0 |-> [src_type |-> TypeArgs, dst_type |-> TypeArgs],
   limit |-> [limit |-> {<<4838, "min">>, <<80, "sec">>, <<3, "hour">>, <<0, "sec">>, <<10001, "sec">>, <<1, "day">>}],
   hashlimit_v0 |-> [hashlimit |-> PacketRates, hashlimit_mode |-> ModeArgs, hashlimit_name |-> {<<"foo">>, <<"">>}],
   hashlimit |-> [hashlimit_upto |-> PacketRates \cup ByteRates, hashlimit_above |-> {<<5, "sec">>, <<512, "b">>},
                  hashlimit_burst |-> {<<3>>, <<10001>>, <<1536, "b">>, <<2, "kb">>}, hashlimit_mode |-> ModeArgs,
                  hashlimit_name |-> {<<"foo">>}, hashlimit_srcmask |-> Lengths,
                  hashlimit_dstmask |-> {<<2>>}, hashlimit_htable_gcinterval |-> {<<9>>},
                  hashlimit_htable_expire |-> {<<9>>}, hashlimit_htable_max |-> {<<9>>},
                  hashlimit_htable_size |-> {<<9>>}],
   hashlimit6 |-> [hashlimit_upto |-> {<<5, "sec">>}, hashlimit_name |-> {<<"foo">>}, hashlimit_srcmask |-> Lengths] @@
                  [id \in DOMAIN hashlimit_mt_opts |-> {}],
   connbytes |-> [connbytes |-> {<<7>>, <<5, 9>>, <<9, 5>>, <<5, 5>>, <<Empty, 9>>, <<Empty, 0>>, <<0>>},
                  connbytes_dir |-> {<<"reply">>, <<"x">>}, connbytes_mode |-> {<<"bytes">>, <<"x">>}],
   statistic |-> [mode |-> {<<"random">>, <<"nth">>, <<"x">>}],
   conntrack_v0 |-> Ct, conntrack_v1 |-> Ct, conntrack_v2 |-> Ct, conntrack |-> Ct,
   state_v0 |-> StateArg, state_v1 |-> StateArg, state |-> StateArg,
   policy |-> [dir |-> {<<"in">>, <<"x">>}, pol |-> {<<"none">>, <<"ipsec">>}, mode |-> {<<"tunnel">>, <<"transport">>},
               proto |-> {<<50>>, <<6>>}, tunnel_src |-> {<<5>>, <<5, 2>>}, tunnel_dst |-> {<<5>>},
               spi |-> {<<7>>}, reqid |-> {<<7>>}],
   time |-> [o \in {"datestart", "datestop"} |-> {<<0>>, <<5>>, <<9>>, <<NoDate>>}] @@
            [o \in {"timestart", "timestop"} |-> {<<0>>, <<60>>, <<86400>>, <<XT_TIME_MAX_DAYTIME>>}] @@
            [weekdays |-> {<<{1, 5}>>, <<{1, 9}>>, <<{0}>>, <<1 .. 7>>}, monthdays |-> {<<{5, 9}>>, <<{0, 5}>>, <<{32}>>, <<1 .. 31>>}],
   owner_v0 |-> OwnerV0, owner6_v0 |-> OwnerV0,
   owner |-> [uid_owner |-> {<<7>>, <<5, 9>>, <<9, 5>>, <<UINT32_MAX>>}, gid_owner |-> {<<7>>, <<5, 9>>}],
   iprange_v0 |-> IpRange, iprange |-> IpRange,
   cluster |-> [cluster_total_nodes |-> {<<3>>, <<8>>, <<9>>}, cluster_local_node |-> {<<1>>, <<3>>, <<4>>, <<5>>, <<0>>},
                cluster_local_nodemask |-> {<<5>>, <<8>>, <<9>>}, cluster_hash_seed |-> {<<7>>}],
   u32 |-> [u32 |-> {<<U32Test>>, <<U32Test, [location |-> <<0>>, value |-> << <<1>> >>]>>, <<>>,
                     <<[location |-> <<0, "@", 4>>, value |-> << <<1>> >>]>>,
                     <<[location |-> <<0>>, value |-> << <<5, 5>>, <<9, 5>> >>]>>}],
   devgroup |-> [o \in {"src_group", "dst_group"} |-> {<<7>>, <<7, 15>>, <<7, UINT32_MAX>>}],
   realm |-> [realm |-> {<<7>>, <<7, 15>>, <<0, UINT32_MAX>>}],
   ipvs |-> [vproto |-> {<<"tcp", 0>>, <<"tcp", 77>>}, vdir |-> {<<"ORIGINAL">>, <<"REPLY">>, <<"X">>},
             vmethod |-> {<<"GATE">>, <<"X">>}],
   bpf |-> [bytecode |-> {<<1, <<"i1">> >>, <<2, <<"i1", "i2">> >>, <<1, <<"i1", "i2">> >>, <<0, <<>> >>, <<3, <<"i", "i", "i">> >>}],
   connlabel |-> [label |-> {<<"red">>, <<"blue">>}],
   set_v0 |-> SetArgs, set_v1 |-> SetArgs, set_v2 |-> SetArgs, set_v3 |-> SetArgs,
   SNAT |-> [to_source |-> NatArgs], SNAT6 |-> [to_source |-> NatArgs],
   DNAT |-> [to_destination |-> NatArgs], DNAT6 |-> [to_destination |-> NatArgs],
   MASQUERADE |-> ToPorts, MASQUERADE6 |-> ToPorts, REDIRECT |-> ToPorts, REDIRECT6 |-> ToPorts,
   SAME |-> [to |-> {<<5>>, <<5, 9>>, <<9, 5>>, <<4, 5>>, <<3, 4>>}],
   REJECT |-> [reject_with |-> {<<"icmp-net-unreachable">>, <<"host-unreach">>, <<"tcp-reset">>, <<"tcp">>, <<"icmp-host">>, <<"x">>, <<"">>}],
   REJECT6 |-> [reject_with |-> {<<"no-route">>, <<"icmp6-a">>, <<"tcp-reset">>, <<"addr-unreach">>, <<"x">>}],
   CT_v0 |-> Events, CT |-> Events,
   NFQUEUE_v1 |-> Balance, NFQUEUE_v2 |-> Balance, NFQUEUE |-> Balance, NFQUEUE_v0 |-> Balance,
   DSCP |-> [set_dscp_class |-> {<<"EF">>, <<"BE">>, <<"AF11">>, <<"CS1x">>, <<"ZZ">>}],
   HMARK |-> HmarkArgs,
   HMARK6 |-> [id \in DOMAIN HMARK_opts \ {"hmark_tuple", "mod", "rnd", "spi_mask", "spi", "sport"} |-> {}] @@
              [hmark_tuple |-> {<<"spi">>, <<"src">>}, spi_mask |-> {<<70000>>}, sport |-> {<<7>>}, spi |-> {<<70000>>}],
   TCPOPTSTRIP |-> [strip_options |-> {<<5>>, <<9, 5>>, <<5, 5>>, <<>>, <<1>>, <<256>>}],
   CLASSIFY |-> [set_class |-> {<<1, 2>>, <<1>>, <<65537, 2>>}],
   AUDIT |-> [type |-> {<<"accept">>, <<"x">>}],
   LED |-> [led_delay |-> {<<0>>, <<7>>, <<0, "inf">>}, led_trigger_id |-> {<<"ab">>, <<"abcde">>}],
   CLUSTERIP |-> [hashmode |-> {<<"sourceip-sourceport">>, <<"x">>}, clustermac |-> {<<"m1">>, <<"m2">>},
                  local_node |-> {<<2>>, <<17>>}, total_nodes |-> {<<2>>}, hash_init |-> {<<0>>, <<7>>}]]

TypedValue ==
  [ext \in DOMAIN Options |->
     [id \in DOMAIN Options[ext] |->
        IF ext \in DOMAIN Special /\ id \in DOMAIN Special[ext] THEN Special[ext][id]
        ELSE ArgsOfType(Options[ext][id])]]
ProtocolsValue ==
  [ext \in DOMAIN Options |->
     IF ext \in {"multiport", "multiport_v1", "SNAT", "DNAT6", "MASQUERADE"} THEN {"tcp", "any"} ELSE {"tcp"}]

\* Two options of most extensions; more where fewer are never accepted.
MaxOptionsValue ==
  [ext \in DOMAIN Options |->
     CASE ext = "CLUSTERIP" -> 6 [] ext \in {"policy", "HMARK6"} -> 4
       [] ext \in {"HMARK", "NFQUEUE", "hashlimit_v0", "hashlimit", "hashlimit6", "connbytes", "statistic", "cluster"} -> 3 [] OTHER -> 2]
=============================================================================
