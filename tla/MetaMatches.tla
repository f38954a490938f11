------------------------------ MODULE MetaMatches ------------------------------
(***************************************************************************)
(* The small matches on where a packet comes from and what marks it has:   *)
(* mac, pkttype, cpu, helper, quota, comment, socket, mark, connmark, ecn, *)
(* tos, string, addrtype.  Where two revisions differ both are here (_v0). *)
(***************************************************************************)
EXTENDS Xtoptions, SequencesExt

MandatoryInv(type) == [Entry(type) EXCEPT !.flags = {"MAND", "INVERT"}]
MandatoryPut(type, field) == [MandatoryInv(type) EXCEPT !.put = field]
\* if (cb->invert) info->invert = true
InvertField(c) == [c EXCEPT !.info.invert = @ \/ c.invert]
------------------------------------------------------------------------------
mac_opts == [mac_source |-> MandatoryPut("ETHERMAC", "srcaddr")]
mac_init == [srcaddr |-> "", invert |-> FALSE]
mac_save(i) == Put(TRUE, i.invert, "mac_source", <<i.srcaddr>>)
mac_print(i) == {<<"mac_source", i.invert>>}

\* a type has a printed name and an alias
supported_types == [unicast |-> 0, broadcast |-> 1, multicast |-> 2, bcast |-> 1, mcast |-> 2, host |-> 0]
pkttype_opts == [pkt_type |-> MandatoryInv("CUSTOM")]
pkttype_init == [pkttype |-> 0, invert |-> FALSE]
pkttype_parse(c) ==
  IF c.arg[1] \notin DOMAIN supported_types THEN Refused(c)
  ELSE InvertField([c EXCEPT !.info.pkttype = supported_types[c.arg[1]]])
print_pkttype(t) == CASE t = 0 -> "unicast" [] t = 1 -> "broadcast" [] t = 2 -> "multicast"
pkttype_save(i) == Put(TRUE, i.invert, "pkt_type", <<print_pkttype(i.pkttype)>>)
pkttype_print(i) == {<<"pkt_type", i.invert>>}

cpu_opts == [cpu |-> MandatoryPut("UINT32", "cpu")]
cpu_init == [cpu |-> 0, invert |-> FALSE]
cpu_save(i) == Put(TRUE, i.invert, "cpu", <<i.cpu>>)
cpu_print(i) == {<<"cpu", i.invert>>}

\* 30 characters in the code: the size of the field is scaled to 4
helper_opts == [helper |-> [MandatoryPut("STRING", "name") EXCEPT !.size = 4]]
helper_init == [name |-> "", invert |-> FALSE]
helper_save(i) == Put(TRUE, i.invert, "helper", <<i.name>>)
helper_print(i) == {<<"helper", i.invert>>}

\* the '!' is printed without a space before it: it ends the word "quota" of
\* "-m quota" and is no word of its own
Glued == "quota!"
quota_opts == [quota |-> MandatoryPut("UINT64", "quota")]
quota_init == [quota |-> 0, flags |-> {}, invflags |-> {}]
quota_parse(c) == IF c.invert THEN [c EXCEPT !.info.flags = {"INVERT"}] ELSE c
quota_save(i) == Put(TRUE, "INVERT" \in i.flags, IF "INVERT" \in i.flags THEN Glued ELSE "quota", <<i.quota>>)
quota_print(i) == {<<"quota", FALSE>>}

\* XT_MAX_COMMENT_LEN is 256 in the code
comment_opts == [comment |-> [Entry("STRING") EXCEPT !.flags = {"MAND"}, !.put = "comment", !.size = 4]]
comment_init == [comment |-> ""]
comment_save(i) == Put(TRUE, FALSE, "comment", <<i.comment>>)
comment_print(i) == {<<"comment", FALSE>>}

socket_mt_opts == [transparent |-> Entry("NONE")]
socket_mt_init == [flags |-> {}]
socket_mt_parse(c) == [c EXCEPT !.info.flags = @ \cup {"TRANSPARENT"}]
socket_mt_save(i) == Put("TRANSPARENT" \in i.flags, FALSE, "transparent", <<>>)
socket_mt_print(i) == Listed(socket_mt_save(i))
------------------------------------------------------------------------------
\* mark and connmark, the same in both revisions and in both matches
mark_mt_opts == [mark |-> MandatoryInv("MARKMASK32")]
mark_mt_init == [mark |-> 0, mask |-> 0, invert |-> FALSE]
mark_mt_parse(c) == InvertField([c EXCEPT !.info.mark = c.val[1], !.info.mask = c.val[2]])
mark_mt_save(i) == Put(TRUE, i.invert, "mark", Mark(i.mark, i.mask))
mark_mt_print(i) == {<<"mark", i.invert>>}
connmark_mt_parse(c) == mark_mt_parse(c)
connmark_mt_save(i) == Put(TRUE, i.invert, "mark", Mark(i.mark, i.mask))
connmark_mt_print(i) == {<<"mark", i.invert>>}
------------------------------------------------------------------------------
ecn_opts ==
  [ecn_tcp_cwr |-> [Entry("NONE") EXCEPT !.flags = {"INVERT"}],
   ecn_tcp_ece |-> [Entry("NONE") EXCEPT !.flags = {"INVERT"}],
   ecn_ip_ect |-> [Entry("UINT8") EXCEPT !.flags = {"INVERT"}, !.max = 3]]
ecn_init == [operation |-> {}, invert |-> {}, ip_ect |-> 0]
ecn_parse(c) ==
  [c EXCEPT !.info.operation = @ \cup {c.id},
            !.info.invert = @ \cup (IF c.invert THEN {c.id} ELSE {}),
            !.info.ip_ect = IF c.id = "ecn_ip_ect" THEN c.val[1] ELSE @]
ecn_check(xflags) == xflags # {}
ecn_save(i) ==
  LET Given(id, arg) == Put(id \in i.operation, id \in i.invert, id, arg)
  IN Given("ecn_tcp_ece", <<>>) \o Given("ecn_tcp_cwr", <<>>) \o Given("ecn_ip_ect", <<i.ip_ect>>)
ecn_print(i) == {<<o, o \in i.invert>> : o \in i.operation}
------------------------------------------------------------------------------
\* A symbolic name has the mask 255 in revision 0 and 63 in revision 1.
tos_mt_opts_v0 == [tos |-> [MandatoryInv("TOSMASK") EXCEPT !.max = 255]]
tos_mt_opts == [tos |-> [MandatoryInv("TOSMASK") EXCEPT !.max = 63]]
tos_mt_init == [tos_value |-> 0, tos_mask |-> 0, invert |-> FALSE]
tos_mt_parse_v0(c) ==
  IF c.val[2] # 255 THEN Refused(c) ELSE InvertField([c EXCEPT !.info.tos_value = c.val[1]])
tos_mt_parse(c) ==
  InvertField([c EXCEPT !.info.tos_value = c.val[1], !.info.tos_mask = c.val[2]])
tos_mt_save_v0(i) == Put(TRUE, i.invert, "tos", <<i.tos_value>>)
tos_mt_save(i) == Put(TRUE, i.invert, "tos", <<i.tos_value, i.tos_mask>>)
tos_mt_print(i) == {<<"tos", i.invert>>}
------------------------------------------------------------------------------
(***************************************************************************)
(* string: a pattern is a sequence of bytes; NonPrinting is a byte that    *)
(* makes save write the pattern in hex.                                    *)
(***************************************************************************)
XT_STRING_MAX_PATTERN_SIZE == 3      \* 128 in the code
NonPrinting == 0
string_opts ==
  [from |-> [Entry("UINT16") EXCEPT !.put = "from_offset"],
   to |-> [Entry("UINT16") EXCEPT !.put = "to_offset"],
   algo |-> [Entry("STRING") EXCEPT !.flags = {"MAND"}, !.put = "algo", !.size = 16],
   icase |-> Entry("NONE"),
   string |-> [Entry("CUSTOM") EXCEPT !.flags = {"INVERT"}, !.excl = {"hex_string"}],
   hex_string |-> [Entry("CUSTOM") EXCEPT !.flags = {"INVERT"}, !.excl = {"string"}]]
string_init == [from_offset |-> 0, to_offset |-> UINT16_MAX, algo |-> "", pattern |-> <<>>, flags |-> {}]
parse_string(c) ==
  IF Len(c.arg) <= XT_STRING_MAX_PATTERN_SIZE THEN [c EXCEPT !.info.pattern = c.arg] ELSE Refused(c)
\* The length is compared before it counts the byte just stored: a pattern one
\* byte too long passes, its last byte in the place of the length, which is
\* then written over it.
parse_hex_string(c) ==
  LET len == Len(c.arg)
  IN IF len = 0 \/ len > XT_STRING_MAX_PATTERN_SIZE + 1 THEN Refused(c)
     ELSE [c EXCEPT !.info.pattern =
             [x \in DOMAIN c.arg |-> IF x > XT_STRING_MAX_PATTERN_SIZE THEN NonPrinting ELSE c.arg[x]]]
InvertedPattern(c) == IF c.invert THEN [c EXCEPT !.info.flags = @ \cup {"INVERT"}] ELSE c
string_parse(c, revision) ==
  CASE c.id = "string" -> InvertedPattern(parse_string(c))
    [] c.id = "hex_string" -> InvertedPattern(parse_hex_string(c))
    [] c.id = "icase" -> IF revision = 0 THEN Refused(c)
                         ELSE [c EXCEPT !.info.flags = @ \cup {"IGNORECASE"}]
    [] OTHER -> c
string_check(xflags) == xflags \cap {"string", "hex_string"} # {}
is_hex_string(pattern) == NonPrinting \in ToSet(pattern)
string_save(i) ==
  Put(TRUE, "INVERT" \in i.flags, IF is_hex_string(i.pattern) THEN "hex_string" ELSE "string", i.pattern) \o
  Put(TRUE, FALSE, "algo", <<i.algo>>) \o
  Put(i.from_offset # 0, FALSE, "from", <<i.from_offset>>) \o
  Put(i.to_offset # 0, FALSE, "to", <<i.to_offset>>) \o
  Put("IGNORECASE" \in i.flags, FALSE, "icase", <<>>)
string_print(i) == Listed(string_save(i))
------------------------------------------------------------------------------
\* addrtype: a name is any beginning of a type's name; the first that fits is taken
rtn_names == [UNICAST |-> "UNICAST", UNI |-> "UNICAST", MULTICAST |-> "MULTICAST",
              U |-> "UNSPEC", UNSPEC |-> "UNSPEC", BROADCAST |-> "BROADCAST"]
addrtype_opts_v0 == [src_type |-> [Entry("CUSTOM") EXCEPT !.flags = {"INVERT"}],
                     dst_type |-> [Entry("CUSTOM") EXCEPT !.flags = {"INVERT"}]]
addrtype_opts_v1 ==
  [src_type |-> addrtype_opts_v0.src_type, dst_type |-> addrtype_opts_v0.dst_type,
   limit_iface_in |-> [Entry("NONE") EXCEPT !.excl = {"limit_iface_out"}],
   limit_iface_out |-> [Entry("NONE") EXCEPT !.excl = {"limit_iface_in"}]]
addrtype_init == [source |-> {}, dest |-> {}, flags |-> {}, invflags |-> {}]
parse_types(c, field) ==
  IF c.arg[1] = {} \/ ~c.arg[1] \subseteq DOMAIN rtn_names THEN Refused(c)
  ELSE [c EXCEPT !.info[field] = @ \cup {rtn_names[n] : n \in c.arg[1]}]
addrtype_parse_v0(c) ==
  CASE c.id = "src_type" -> Inverted(parse_types(c, "source"), "src_type")
    [] c.id = "dst_type" -> Inverted(parse_types(c, "dest"), "dst_type")
addrtype_parse_v1(c) ==
  IF c.id \in DOMAIN addrtype_opts_v0 THEN addrtype_parse_v0(c)
  ELSE [c EXCEPT !.info.flags = @ \cup {c.id}]
addrtype_check(xflags) == xflags \cap {"src_type", "dst_type"} # {}
addrtype_save_v0(i) ==
  Put(i.source # {}, "src_type" \in i.invflags, "src_type", <<i.source>>) \o
  Put(i.dest # {}, "dst_type" \in i.invflags, "dst_type", <<i.dest>>)
addrtype_save_v1(i) ==
  addrtype_save_v0(i) \o
  Put("limit_iface_in" \in i.flags, FALSE, "limit_iface_in", <<>>) \o
  Put("limit_iface_out" \in i.flags, FALSE, "limit_iface_out", <<>>)
addrtype_print(i) == Listed(addrtype_save_v1(i))
=============================================================================
