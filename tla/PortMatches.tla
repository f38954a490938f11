------------------------------ MODULE PortMatches ------------------------------
(***************************************************************************)
(* The matches on ports: tcp, udp, dccp, sctp, multiport (both revisions). *)
(* Each has a table, the data a fresh rule starts with, what its parse     *)
(* function does with an option, and what save and print write.  tcp and   *)
(* sctp have parsers of their own and no table entry's type is used.       *)
(* An option with several names goes by the one that save writes.          *)
(***************************************************************************)
EXTENDS Xtoptions, SequencesExt

FullRange == <<0, UINT16_MAX>>
PortEntry(field) == [Entry("PORTRC") EXCEPT !.flags = {"INVERT"}, !.put = field]

\* print_ports, the same in tcp, udp, dccp and sctp
print_ports(id, ports, invert) == Show(ports # FullRange \/ invert, invert, id)

\* tcp and sctp read port[:port] themselves and refuse a range that ends
\* before it begins.
parse_tcp_ports(c, field) ==
  LET ports == xtopt_parse_mport(Entry("PORTRC"), c.arg)
  IN IF ~ports.ok \/ ports.val[1] > ports.val[2] THEN Refused(c)
     ELSE [c EXCEPT !.info[field] = ports.val]
parse_sctp_ports(c, field) == parse_tcp_ports(c, field)
\* "Only one ... allowed"
OnceOnly(c, flag) ==
  IF flag \in c.xflags THEN Refused(c) ELSE [c EXCEPT !.xflags = @ \cup {flag}]
------------------------------------------------------------------------------
tcp_flag_names == {"FIN", "SYN", "RST", "PSH", "ACK", "URG"}
tcp_opts ==
  [sport |-> Entry("CUSTOM"), dport |-> Entry("CUSTOM"), syn |-> Entry("NONE"),
   tcp_flags |-> Entry("CUSTOM"), tcp_option |-> Entry("UINT8")]

tcp_init == [spts |-> FullRange, dpts |-> FullRange, option |-> 0,
             flg_mask |-> {}, flg_cmp |-> {}, invflags |-> {}]

\* The names of a flag list, where ALL and NONE stand for sets.
parse_tcp_flag(names) ==
  (names \cap tcp_flag_names) \cup (IF "ALL" \in names THEN tcp_flag_names ELSE {})
parse_tcp_flags(c, mask, cmp) ==
  IF ~(mask \cup cmp) \subseteq tcp_flag_names \cup {"ALL", "NONE"} THEN Refused(c)
  ELSE Inverted([c EXCEPT !.info.flg_mask = parse_tcp_flag(mask),
                          !.info.flg_cmp = parse_tcp_flag(cmp)], "FLAGS")
parse_tcp_option(c) ==
  IF c.arg[1] \in 1 .. UINT8_MAX THEN [c EXCEPT !.info.option = c.arg[1]] ELSE Refused(c)

tcp_parse(c) ==
  CASE c.id = "sport" -> Inverted(parse_tcp_ports(OnceOnly(c, "SRC_PORTS"), "spts"), "SRCPT")
    [] c.id = "dport" -> Inverted(parse_tcp_ports(OnceOnly(c, "DST_PORTS"), "dpts"), "DSTPT")
    [] c.id = "syn" ->
         parse_tcp_flags(OnceOnly(c, "FLAGS"), {"SYN", "RST", "ACK", "FIN"}, {"SYN"})
    [] c.id = "tcp_flags" -> parse_tcp_flags(OnceOnly(c, "FLAGS"), c.arg[1], c.arg[2])
    [] c.id = "tcp_option" -> Inverted(parse_tcp_option(OnceOnly(c, "OPTION")), "OPTION")

\* The inversion of the one port saved with the other.
SavePorts_src(i, inv) ==
  Put(i.spts # FullRange, inv.src \in i.invflags, "sport", Range2(i.spts)) \o
  Put(i.dpts # FullRange, inv.src \in i.invflags, "dport", Range2(i.dpts))
SavePorts(i, inv) ==
  Put(i.spts # FullRange, inv.src \in i.invflags, "sport", Range2(i.spts)) \o
  Put(i.dpts # FullRange, inv.dst \in i.invflags, "dport", Range2(i.dpts))
print_tcpf(flags) == IF flags = {} THEN {"NONE"} ELSE flags
tcp_save(i) ==
  SavePorts(i, [src |-> "SRCPT", dst |-> "DSTPT"]) \o
  Put(i.option # 0 \/ "OPTION" \in i.invflags, "OPTION" \in i.invflags,
      "tcp_option", <<i.option>>) \o
  Put(i.flg_mask # {} \/ "FLAGS" \in i.invflags, "FLAGS" \in i.invflags,
      "tcp_flags", <<print_tcpf(i.flg_mask), print_tcpf(i.flg_cmp)>>)
\* An inverted empty mask taken for no option.
tcp_print_mask(i) ==
  print_ports("sport", i.spts, "SRCPT" \in i.invflags) \cup
  print_ports("dport", i.dpts, "DSTPT" \in i.invflags) \cup
  Show(i.option # 0 \/ "OPTION" \in i.invflags, "OPTION" \in i.invflags, "tcp_option") \cup
  Show(i.flg_mask # {}, "FLAGS" \in i.invflags, "tcp_flags")
tcp_print(i) ==
  print_ports("sport", i.spts, "SRCPT" \in i.invflags) \cup
  print_ports("dport", i.dpts, "DSTPT" \in i.invflags) \cup
  Show(i.option # 0 \/ "OPTION" \in i.invflags, "OPTION" \in i.invflags, "tcp_option") \cup
  Show(i.flg_mask # {} \/ "FLAGS" \in i.invflags, "FLAGS" \in i.invflags, "tcp_flags")
------------------------------------------------------------------------------
udp_opts == [sport |-> PortEntry("spts"), dport |-> PortEntry("dpts")]
udp_init == [spts |-> FullRange, dpts |-> FullRange, invflags |-> {}]
\* The ! of a port that was already stored is not looked at.
udp_parse_plain(c) == c
udp_parse(c) == Inverted(c, IF c.id = "sport" THEN "SRCPT" ELSE "DSTPT")
udp_save(i) == SavePorts(i, [src |-> "SRCPT", dst |-> "DSTPT"])
udp_print(i) ==
  print_ports("sport", i.spts, "SRCPT" \in i.invflags) \cup
  print_ports("dport", i.dpts, "DSTPT" \in i.invflags)
------------------------------------------------------------------------------
dccp_pkt_types == {"REQUEST", "RESPONSE", "DATA", "ACK", "DATAACK", "CLOSEREQ",
                   "CLOSE", "RESET", "SYNC", "SYNCACK", "INVALID"}
dccp_opts ==
  [sport |-> PortEntry("spts"), dport |-> PortEntry("dpts"),
   dccp_types |-> [Entry("CUSTOM") EXCEPT !.flags = {"INVERT"}],
   dccp_option |-> [Entry("UINT8") EXCEPT !.flags = {"INVERT"}, !.put = "option",
                                          !.min = 1, !.max = UINT8_MAX]]
dccp_init == [spts |-> <<0, 0>>, dpts |-> <<0, 0>>, flags |-> {}, invflags |-> {},
              typemask |-> {}, option |-> 0]
dccp_parse(c) ==
  CASE c.id # "dccp_types" -> Flagged(c, c.id)
    [] c.arg[1] \subseteq dccp_pkt_types ->
         Flagged([c EXCEPT !.info.typemask = c.arg[1]], c.id)
    [] OTHER -> Refused(c)
dccp_save(i) ==
  LET Given(id, arg) == Put(id \in i.flags, id \in i.invflags, id, arg)
  IN Given("sport", Range2(i.spts)) \o Given("dport", Range2(i.dpts)) \o
     Given("dccp_types", <<i.typemask>>) \o Given("dccp_option", <<i.option>>)
dccp_print(i) ==
  LET inv(id) == id \in i.invflags
  IN (IF "sport" \in i.flags THEN print_ports("sport", i.spts, inv("sport")) ELSE {}) \cup
     (IF "dport" \in i.flags THEN print_ports("dport", i.dpts, inv("dport")) ELSE {}) \cup
     Show("dccp_types" \in i.flags, inv("dccp_types"), "dccp_types") \cup
     Show("dccp_option" \in i.flags /\ (i.option # 0 \/ inv("dccp_option")),
          inv("dccp_option"), "dccp_option")
------------------------------------------------------------------------------
(***************************************************************************)
(* sctp: --chunk-types takes two words, how to match and a list of chunk   *)
(* names with flags; the argument here is <<how, {<<name, flags>>}>>.  A   *)
(* flag in lower case must be clear.  DATA has four flags and two chunks   *)
(* have one; the table's indices are the chunk numbers only up to 14.      *)
(***************************************************************************)
ChunkNumber == [DATA |-> 0, SACK |-> 3, ABORT |-> 6, SHUTDOWN_COMPLETE |-> 14, ASCONF |-> 193]
ChunkIndex == [ChunkNumber EXCEPT !.ASCONF = 15]
ValidFlags == [DATA |-> {"U", "B", "E"}, SACK |-> {}, ABORT |-> {"T"},
               SHUTDOWN_COMPLETE |-> {"T"}, ASCONF |-> {}]
ChunkNames == DOMAIN ChunkNumber
Lower == [U |-> "u", B |-> "b", E |-> "e", T |-> "t"]
AllChunks == 0 .. 255
sctp_opts == [sport |-> Entry("CUSTOM"), dport |-> Entry("CUSTOM"), chunk_types |-> Entry("CUSTOM")]
\* flag_info maps a chunk's index to the flags looked at and those that must be set
sctp_init == [spts |-> <<0, 0>>, dpts |-> <<0, 0>>, flags |-> {}, invflags |-> {},
              chunk_match_type |-> "", chunkmap |-> {}, flag_info |-> {}]

ValidChunk(ch) ==
  /\ ch[1] \in ChunkNames
  /\ ch[2] \subseteq ValidFlags[ch[1]] \cup {Lower[f] : f \in ValidFlags[ch[1]]}
\* (index, flags looked at, flags that must be set)
save_chunk_flag_info(ch) ==
  <<ChunkIndex[ch[1]],
    {f \in ValidFlags[ch[1]] : f \in ch[2] \/ Lower[f] \in ch[2]}, ValidFlags[ch[1]] \cap ch[2]>>
parse_sctp_chunks(c, how, chunks) ==
  LET plain == chunks \in {{<<"ALL", {}>>}, {<<"NONE", {}>>}}
      flagged == {ch \in chunks : ch[2] # {}}
  IN IF how \notin {"any", "all", "only"} \/ (~plain /\ \E ch \in chunks : ~ValidChunk(ch))
     THEN Refused(c)
     ELSE [c EXCEPT !.info.chunk_match_type = how,
                    !.info.chunkmap = IF plain THEN (IF <<"ALL", {}>> \in chunks THEN AllChunks ELSE {})
                                      ELSE {ChunkNumber[ch[1]] : ch \in chunks},
                    !.info.flag_info = IF plain THEN {} ELSE {save_chunk_flag_info(ch) : ch \in flagged}]
sctp_parse(c) ==
  LET d == OnceOnly(c, c.id)
  IN Flagged(CASE c.id = "sport" -> parse_sctp_ports(d, "spts")
               [] c.id = "dport" -> parse_sctp_ports(d, "dpts")
               [] c.id = "chunk_types" -> parse_sctp_chunks(d, c.arg[1], c.arg[2]), c.id)

\* print_chunk finds the entry of a number and prints the name at that number
\* as an index: past the table's end for ASCONF (an undefined read, "?").
print_chunk(n) ==
  IF n \in {ChunkIndex[x] : x \in ChunkNames \ {"ASCONF"}}
  THEN CHOOSE x \in ChunkNames : ChunkIndex[x] = n ELSE "?"
print_chunk_flags(i, n) ==
  UNION {f[3] \cup {Lower[x] : x \in f[2] \ f[3]} : f \in {g \in i.flag_info : g[1] = n}}
print_chunks(i) ==
  CASE i.chunkmap = {} -> {<<"NONE", {}>>}
    [] i.chunkmap = AllChunks -> {<<"ALL", {}>>}
    [] OTHER -> {<<print_chunk(n), print_chunk_flags(i, n)>> : n \in i.chunkmap}
sctp_save(i) ==
  LET Given(id, arg) == Put(id \in i.flags, id \in i.invflags, id, arg)
  IN Given("sport", Range2(i.spts)) \o Given("dport", Range2(i.dpts)) \o
     Given("chunk_types", <<i.chunk_match_type, print_chunks(i)>>)
sctp_print(i) ==
  (IF "sport" \in i.flags THEN print_ports("sport", i.spts, "sport" \in i.invflags) ELSE {}) \cup
  (IF "dport" \in i.flags THEN print_ports("dport", i.dpts, "dport" \in i.invflags) ELSE {}) \cup
  Show("chunk_types" \in i.flags, "chunk_types" \in i.invflags, "chunk_types")
------------------------------------------------------------------------------
(***************************************************************************)
(* multiport: the list of ports is an argument whose components are <<p>>  *)
(* or <<p, q>> (a range, which fills two places of the table).             *)
(***************************************************************************)
XT_MULTI_PORTS == 3                 \* 15 in the code: the bound on the table
AnyOf == {"sports", "dports", "ports"}
multiport_opts ==
  [id \in AnyOf |-> [Entry("CUSTOM") EXCEPT !.flags = {"INVERT"}, !.excl = AnyOf]]
multiport_init == [flags |-> "", ports |-> <<>>, pflags |-> <<>>, invert |-> FALSE]
proto_to_name == {"tcp", "udp", "udplite", "sctp", "dccp"}
check_proto(c) == c.proto \in proto_to_name

parse_multi_ports(c) ==
  IF \E r \in ToSet(c.arg) : Len(r) > 1 \/ r[1] > UINT16_MAX THEN Refused(c)
  ELSE IF Len(c.arg) > XT_MULTI_PORTS THEN Refused(c)
  ELSE [c EXCEPT !.info.ports = FlattenSeq(c.arg), !.info.flags = c.id,
                 !.info.pflags = [x \in DOMAIN c.arg |-> 0]]
multiport_parse(c) ==
  IF ~check_proto(c) \/ c.invert THEN Refused(c) ELSE parse_multi_ports(c)
parse_multi_ports_v1(c) ==
  LET places == FlattenSeq(c.arg)
      marks == FlattenSeq([x \in DOMAIN c.arg |-> IF Len(c.arg[x]) = 2 THEN <<1, 0>> ELSE <<0>>])
  IN IF \/ \E r \in ToSet(c.arg) : Len(r) = 2 /\ r[1] >= r[2]
        \/ \E p \in ToSet(places) : p > UINT16_MAX
        \/ Len(places) > XT_MULTI_PORTS THEN Refused(c)
     ELSE [c EXCEPT !.info.ports = places, !.info.pflags = marks, !.info.flags = c.id]
multiport_parse_v1(c) ==
  LET d == parse_multi_ports_v1(c)
  IN IF ~check_proto(c) THEN Refused(c) ELSE [d EXCEPT !.info.invert = @ \/ c.invert]
multiport_check(xflags) == xflags # {}

\* the places back to ports and ranges
Unflatten(i) ==
  LET starts == SelectSeq([x \in DOMAIN i.ports |-> x], LAMBDA x : x = 1 \/ i.pflags[x - 1] = 0)
  IN [k \in DOMAIN starts |->
        IF i.pflags[starts[k]] = 1 THEN <<i.ports[starts[k]], i.ports[starts[k] + 1]>>
        ELSE <<i.ports[starts[k]]>>]
multiport_save(i) == Put(TRUE, FALSE, i.flags, [x \in DOMAIN i.ports |-> <<i.ports[x]>>])
multiport_save_v1(i) == Put(TRUE, i.invert, i.flags, Unflatten(i))
multiport_print(i) == Listed(multiport_save(i))
multiport_print_v1(i) == Listed(multiport_save_v1(i))
=============================================================================
