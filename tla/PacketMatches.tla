------------------------------ MODULE PacketMatches ------------------------------
(***************************************************************************)
(* The matches on a packet's own fields: icmp, icmp6, esp, the two ah, and *)
(* the IPv6 headers (frag, hbh, dst, rt, mh, ipv6header), length, mac and  *)
(* the like.  As in PortMatches, each has a table (X_opts), the data of a  *)
(* fresh rule (X_init), what its parse function does after the guided      *)
(* parser (X_parse), and what save and print write (X_save, X_print).      *)
(***************************************************************************)
EXTENDS Xtoptions, SequencesExt

Invertible(type) == [Entry(type) EXCEPT !.flags = {"INVERT"}]
InvertiblePut(type, field) == [Entry(type) EXCEPT !.flags = {"INVERT"}, !.put = field]

\* print_spis, print_ids, print_nums and print_types of the modules below
ShownRange(id, range, full, invert) == Show(range # full \/ invert, invert, id)
FullRange32 == <<0, UINT32_MAX>>
\* if (cb->nvals == 1) range[1] = range[0]
OneIsBoth(c, field) ==
  IF c.nvals = 1 THEN [c EXCEPT !.info[field] = <<c.info[field][1], c.info[field][1]>>] ELSE c
------------------------------------------------------------------------------
\* An icmp type is <<"name", type, code, code>> for a name of the table or
\* <<"", type>> or <<"", type, code>>: a name may have one code or all.
icmp_opts == [icmp_type |-> [Entry("CUSTOM") EXCEPT !.flags = {"MAND", "INVERT"}]]
icmp_init == [type |-> 255, code |-> <<0, 255>>, invflags |-> {}]
parse_icmp(c) ==
  IF \E x \in DOMAIN c.arg \ {1} : c.arg[x] > UINT8_MAX THEN Refused(c)
  ELSE [c EXCEPT !.info.type = c.arg[2],
                 !.info.code = IF Len(c.arg) = 4 THEN <<c.arg[3], c.arg[4]>>
                               ELSE IF Len(c.arg) = 3 THEN <<c.arg[3], c.arg[3]>>
                               ELSE <<0, 255>>]
icmp_parse(c) == Inverted(parse_icmp(c), "INV")
SaveIcmp(id, i) ==
  Put(TRUE, "INV" \in i.invflags, id,
      IF i.code = <<0, 255>> THEN <<"", i.type>> ELSE <<"", i.type, i.code[1]>>)
\* special hack for 'any' case: the code of a type 255 is not written
icmp_save(i) ==
  IF i.type = 255 THEN Put(TRUE, "INV" \in i.invflags, "icmp_type", <<"any", 255, 0, 255>>)
  ELSE SaveIcmp("icmp_type", i)
icmp_print(i) == {<<"icmp_type", "INV" \in i.invflags>>}

icmp6_opts == [icmpv6_type |-> icmp_opts.icmp_type]
icmp6_init == [type |-> 0, code |-> <<0, 255>>, invflags |-> {}]
parse_icmpv6(c) == parse_icmp(c)
icmp6_parse(c) == Inverted(parse_icmpv6(c), "INV")
icmp6_save(i) == SaveIcmp("icmpv6_type", i)
icmp6_print(i) == {<<"icmpv6_type", "INV" \in i.invflags>>}
------------------------------------------------------------------------------
esp_opts == [espspi |-> InvertiblePut("UINT32RC", "spis")]
esp_init == [spis |-> <<0, 0>>, invflags |-> {}]
esp_parse(c) == Inverted(OneIsBoth(c, "spis"), "SPI")
esp_save(i) == Put(i.spis # FullRange32, "SPI" \in i.invflags, "espspi", Range2(i.spis))
esp_print(i) == ShownRange("espspi", i.spis, FullRange32, "SPI" \in i.invflags)

ah_opts == [ahspi |-> InvertiblePut("UINT32RC", "spis")]
ah_parse(c) == Inverted(OneIsBoth(c, "spis"), "SPI")
ah_save(i) == Put(i.spis # FullRange32, "SPI" \in i.invflags, "ahspi", Range2(i.spis))
ah_print(i) == ShownRange("ahspi", i.spis, FullRange32, "SPI" \in i.invflags)

ah6_opts == [ahspi |-> InvertiblePut("UINT32RC", "spis"),
             ahlen |-> InvertiblePut("UINT32", "hdrlen"), ahres |-> Entry("NONE")]
ah6_init == [spis |-> <<0, 0>>, hdrlen |-> 0, hdrres |-> 0, invflags |-> {}]
ah6_parse(c) ==
  CASE c.id = "ahspi" -> Inverted(OneIsBoth(c, "spis"), "SPI")
    [] c.id = "ahlen" -> Inverted(c, "LEN")
    [] c.id = "ahres" -> [c EXCEPT !.info.hdrres = 1]
ah6_save(i) ==
  ah_save(i) \o
  Put(i.hdrlen # 0 \/ "LEN" \in i.invflags, "LEN" \in i.invflags, "ahlen", <<i.hdrlen>>) \o
  Put(i.hdrres # 0, FALSE, "ahres", <<>>)
ah6_print(i) ==
  ah_print(i) \cup
  Show(i.hdrlen # 0 \/ "LEN" \in i.invflags, "LEN" \in i.invflags, "ahlen") \cup
  Show(i.hdrres # 0, FALSE, "ahres")
------------------------------------------------------------------------------
frag_opts ==
  [fragid |-> InvertiblePut("UINT32RC", "ids"), fraglen |-> InvertiblePut("UINT32", "hdrlen"),
   fragres |-> Entry("NONE"), fragfirst |-> Entry("NONE"),
   fragmore |-> [Entry("NONE") EXCEPT !.excl = {"fraglast"}],
   fraglast |-> [Entry("NONE") EXCEPT !.excl = {"fragmore"}]]
frag_init == [ids |-> FullRange32, hdrlen |-> 0, flags |-> {}, invflags |-> {}]
frag_parse(c) ==
  IF c.id = "fragid" THEN Flagged(OneIsBoth(c, "ids"), "fragid") ELSE Flagged(c, c.id)
frag_save(i) ==
  Put(i.ids # FullRange32, "fragid" \in i.invflags, "fragid", Range2(i.ids)) \o
  Put("fraglen" \in i.flags, "fraglen" \in i.invflags, "fraglen", <<i.hdrlen>>) \o
  Put("fragres" \in i.flags, FALSE, "fragres", <<>>) \o
  Put("fragfirst" \in i.flags, FALSE, "fragfirst", <<>>) \o
  Put("fragmore" \in i.flags, FALSE, "fragmore", <<>>) \o
  Put("fraglast" \in i.flags, FALSE, "fraglast", <<>>)
frag_print(i) ==
  ShownRange("fragid", i.ids, FullRange32, "fragid" \in i.invflags) \cup
  Show("fraglen" \in i.flags, "fraglen" \in i.invflags, "fraglen") \cup
  {<<f, FALSE>> : f \in i.flags \cap {"fragres", "fragfirst", "fragmore", "fraglast"}}
------------------------------------------------------------------------------
(***************************************************************************)
(* hbh and dst: a list of option types with or without a length, <<type>>  *)
(* or <<type, length>>, each reduced to eight bits.  A length of 255 is    *)
(* how no length is kept.                                                  *)
(***************************************************************************)
IP6T_OPTS_OPTSNR == 3                \* 16 in the code: the bound on the list
parse_options(c, list) ==
  LET Code(o) == <<o[1] % 256, IF Len(o) = 2 THEN o[2] % 256 ELSE 255>>
  IN IF \/ Len(list) > IP6T_OPTS_OPTSNR
        \/ Len(list) = IP6T_OPTS_OPTSNR /\ Len(list[Len(list)]) = 2
        \/ \E o \in ToSet(list) : Len(o) = 2 /\ o[1] % 256 = 0
     THEN Refused(c)
     ELSE [c EXCEPT !.info.opts = [x \in DOMAIN list |-> Code(list[x])]]
print_options(opts) ==
  [x \in DOMAIN opts |-> IF opts[x][2] = 255 THEN <<opts[x][1]>> ELSE opts[x]]

hbh_opts == [hbh_len |-> InvertiblePut("UINT32", "hdrlen"), hbh_opts |-> Entry("CUSTOM")]
hbh_init == [hdrlen |-> 0, opts |-> <<>>, flags |-> {}, invflags |-> {}]
hbh_parse(c) ==
  IF c.id = "hbh_len" THEN Flagged(c, "LEN")
  ELSE parse_options([c EXCEPT !.info.flags = @ \cup {"OPTS"}], c.arg)
SaveHeaderOptions(i, len, opts) ==
  Put("LEN" \in i.flags, "LEN" \in i.invflags, len, <<i.hdrlen>>) \o
  Put("OPTS" \in i.flags, FALSE, opts, print_options(i.opts))
hbh_save(i) == SaveHeaderOptions(i, "hbh_len", "hbh_opts")
hbh_print(i) ==
  Show("LEN" \in i.flags, "LEN" \in i.invflags, "hbh_len") \cup
  Show("OPTS" \in i.flags, FALSE, "hbh_opts")

dst_opts == [dst_len |-> InvertiblePut("UINT32", "hdrlen"), dst_opts |-> Entry("CUSTOM")]
\* The `!' of --dst-len is accepted and not looked at.
dst_parse(c) ==
  IF c.id = "dst_len" THEN [c EXCEPT !.info.flags = @ \cup {"LEN"}]
  ELSE parse_options([c EXCEPT !.info.flags = @ \cup {"OPTS"}], c.arg)
dst_save(i) == SaveHeaderOptions(i, "dst_len", "dst_opts")
dst_print(i) ==
  Show("LEN" \in i.flags, "LEN" \in i.invflags, "dst_len") \cup
  Show("OPTS" \in i.flags, FALSE, "dst_opts")
------------------------------------------------------------------------------
IP6T_RT_HOPS == 2                    \* 16 in the code: the bound on the list
rt_opts ==
  [rt_type |-> InvertiblePut("UINT32", "rt_type"), rt_len |-> InvertiblePut("UINT32", "hdrlen"),
   rt_segsleft |-> InvertiblePut("UINT32RC", "segsleft"), rt_0_res |-> Entry("NONE"),
   rt_0_addrs |-> Entry("CUSTOM"), rt_0_not_strict |-> Entry("NONE")]
rt_init == [rt_type |-> 0, segsleft |-> <<0, 0>>, hdrlen |-> 0, addrs |-> <<>>,
            flags |-> {}, invflags |-> {}]
parse_addresses(c) ==
  IF Len(c.arg) > IP6T_RT_HOPS THEN Refused(c) ELSE [c EXCEPT !.info.addrs = c.arg]
TypeZero(c) == "rt_type" \in c.xflags /\ c.info.rt_type = 0 /\ "rt_type" \notin c.info.invflags
rt_parse(c) ==
  CASE c.id = "rt_segsleft" -> Flagged(OneIsBoth(c, "segsleft"), c.id)
    [] c.id = "rt_0_res" -> IF TypeZero(c) THEN Flagged(c, c.id) ELSE Refused(c)
    [] c.id = "rt_0_addrs" -> IF TypeZero(c) THEN Flagged(parse_addresses(c), c.id) ELSE Refused(c)
    [] c.id = "rt_0_not_strict" ->
         IF "rt_0_addrs" \in c.xflags THEN Flagged(c, c.id) ELSE Refused(c)
    [] OTHER -> Flagged(c, c.id)
rt_save(i) ==
  LET Given(id, arg) == Put(id \in i.flags, id \in i.invflags, id, arg)
  IN Given("rt_type", <<i.rt_type>>) \o
     Put(i.segsleft # FullRange32, "rt_segsleft" \in i.invflags, "rt_segsleft", Range2(i.segsleft)) \o
     Given("rt_len", <<i.hdrlen>>) \o Given("rt_0_res", <<>>) \o
     Given("rt_0_addrs", i.addrs) \o Given("rt_0_not_strict", <<>>)
rt_print(i) ==
  {<<f, f \in i.invflags>> : f \in i.flags \ {"rt_segsleft"}} \cup
  ShownRange("rt_segsleft", i.segsleft, FullRange32, "rt_segsleft" \in i.invflags)
------------------------------------------------------------------------------
mh_opts == [mh_type |-> Invertible("CUSTOM")]
mh_init == [types |-> <<0, 255>>, invflags |-> {}]
\* a name of the table stands for its number
parse_mh_types(c) ==
  LET types == xtopt_parse_mint(Entry("UINT8RC"), c.arg)
  IN IF ~types.ok THEN Refused(c)
     ELSE IF types.nvals = 1 THEN [c EXCEPT !.info.types = <<types.val[1], types.val[1]>>]
     ELSE IF types.val[1] > types.val[2] THEN Refused(c)
     ELSE [c EXCEPT !.info.types = types.val]
mh_parse(c) == Inverted(parse_mh_types(c), "TYPE")
mh_save(i) == Put(i.types # <<0, 255>>, "TYPE" \in i.invflags, "mh_type", Range2(i.types))
mh_print(i) == ShownRange("mh_type", i.types, <<0, 255>>, "TYPE" \in i.invflags)
------------------------------------------------------------------------------
\* ipv6header: long, short and numeric names of the eight kinds of header.
chain_protos == [hop |-> "hop_by_hop", hop_by_hop |-> "hop_by_hop", dst |-> "dst",
                 route |-> "route", frag |-> "frag", auth |-> "auth", esp |-> "esp",
                 none |-> "none", prot |-> "protocol", protocol |-> "protocol"]
ipv6header_opts ==
  [header |-> [Entry("CUSTOM") EXCEPT !.flags = {"MAND", "INVERT"}], soft |-> Entry("NONE")]
ipv6header_init == [matchflags |-> {}, invflags |-> FALSE, modeflag |-> FALSE]
parse_header(names) == {chain_protos[n] : n \in names}
ipv6header_parse(c) ==
  IF c.id = "soft" THEN [c EXCEPT !.info.modeflag = TRUE]
  ELSE IF c.arg[1] = {} \/ ~c.arg[1] \subseteq DOMAIN chain_protos THEN Refused(c)
  ELSE [c EXCEPT !.info.matchflags = parse_header(c.arg[1]), !.info.invflags = @ \/ c.invert]
print_header(flags) == IF flags = {} THEN {"NONE"} ELSE flags
ipv6header_save(i) ==
  Put(TRUE, i.invflags, "header", <<print_header(i.matchflags)>>) \o
  Put(i.modeflag, FALSE, "soft", <<>>)
ipv6header_print(i) ==
  Show(i.matchflags # {} \/ i.invflags, i.invflags, "header") \cup Show(i.modeflag, FALSE, "soft")
------------------------------------------------------------------------------
length_opts == [length |-> [Entry("UINT16RC") EXCEPT !.flags = {"MAND", "INVERT"}]]
length_init == [min |-> 0, max |-> 0, invert |-> FALSE]
length_parse(c) ==
  [c EXCEPT !.info.min = c.val[1],
            !.info.max = IF c.nvals >= 2 THEN c.val[2] ELSE c.val[1],
            !.info.invert = @ \/ c.invert]
length_save(i) == Put(TRUE, i.invert, "length", Range2(<<i.min, i.max>>))
length_print(i) == {<<"length", i.invert>>}
=============================================================================
