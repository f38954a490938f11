------------------------------ MODULE MarkTargets ------------------------------
(***************************************************************************)
(* The targets HMARK, TCPMSS, TCPOPTSTRIP, CONNSECMARK, SECMARK, CLASSIFY, *)
(* AUDIT, CHECKSUM, IDLETIMER, LED, TEE and CLUSTERIP.                     *)
(***************************************************************************)
EXTENDS PacketTargets

(***************************************************************************)
(* HMARK.  The two ports and the SPI share memory: the SPI is the port of  *)
(* the source followed by the port of the destination.  hmark_parse sets   *)
(* the flags of the options that a word of the tuple stands for.           *)
(***************************************************************************)
PortWidth == 2 ^ 16
Halves(n) == <<n \div PortWidth, n % PortWidth>>
Whole(halves) == halves[1] * PortWidth + halves[2]
SpiAllOnes == Halves(UINT32_MAX)        \* with UINT32_MAX scaled
HMARK_opts ==
  [hmark_tuple |-> Entry("CUSTOM"),
   src_mask |-> Stores("PLENMASK", "src_mask"), dst_mask |-> Stores("PLENMASK", "dst_mask"),
   sport_mask |-> Entry("UINT16"), dport_mask |-> Entry("UINT16"), spi_mask |-> Entry("UINT32"),
   sport |-> Entry("UINT16"), dport |-> Entry("UINT16"), spi |-> Entry("UINT32"),
   proto_mask |-> Stores("UINT16", "proto_mask"), rnd |-> Stores("UINT32", "rnd"),
   mod |-> [Stores("UINT32", "mod") EXCEPT !.min = 1, !.flags = {"MAND"}],
   offset |-> Stores("UINT32", "offset")]
HMARK_init ==
  [flags |-> {}, src_mask |-> 0, dst_mask |-> 0, port_mask |-> <<0, 0>>, port_set |-> <<0, 0>>,
   proto_mask |-> 0, rnd |-> 0, mod |-> 0, offset |-> 0]

\* each word of a tuple: the option whose flag it sets, and the masks it fills
hmark_words ==
  <<<<"ct", "ct">>, <<"src", "src_mask">>, <<"dst", "dst_mask">>, <<"sport", "sport_mask">>,
    <<"dport", "dport_mask">>, <<"proto", "proto_mask">>, <<"spi", "spi_mask">>>>
hmark_parse(c, word) ==
  LET rows == {x \in DOMAIN hmark_words : Abbreviates(word, hmark_words[x][1])}
      id == hmark_words[ffs(rows)][2]
      info == Flag(c, id).info
      d == [c EXCEPT !.xflags = @ \cup {id}]
      Filled ==
        CASE id = "ct" -> info
          [] id \in {"src_mask", "dst_mask"} -> [info EXCEPT ![id] = AllOnes]
          [] id = "proto_mask" -> [info EXCEPT ![id] = UINT16_MAX]
          [] id = "sport_mask" -> [info EXCEPT !.port_mask[1] = UINT16_MAX]
          [] id = "dport_mask" -> [info EXCEPT !.port_mask[2] = UINT16_MAX]
          [] id = "spi_mask" -> [info EXCEPT !.port_mask = SpiAllOnes]
  IN IF ~c.ok \/ word = "" \/ rows = {} THEN Refused(c) ELSE [d EXCEPT !.info = Filled]
hmark_parse_type(c) == IF c.arg = <<>> THEN Refused(c) ELSE FoldLeft(hmark_parse, c, c.arg)

HMARK_parse(c) ==
  LET v == c.val[1]
      info == Flag(c, c.id).info
      Set(i) == [c EXCEPT !.info = i]
  IN CASE c.id = "hmark_tuple" -> hmark_parse_type(c)
       [] c.id = "spi" -> Set([info EXCEPT !.port_set = Halves(v)])
       [] c.id = "sport" -> Set([info EXCEPT !.port_set[1] = v])
       [] c.id = "dport" -> Set([info EXCEPT !.port_set[2] = v])
       [] c.id = "spi_mask" -> Set([info EXCEPT !.port_mask = Halves(v)])
       [] c.id = "sport_mask" -> Set([info EXCEPT !.port_mask[1] = v])
       [] c.id = "dport_mask" -> Set([info EXCEPT !.port_mask[2] = v])
       [] OTHER -> Set(info)
HMARK_check(c) ==
  LET Given(ids) == ids \cap c.xflags # {}
  IN Need(c, /\ {"mod", "rnd"} \subseteq c.xflags
             /\ ~(Given({"spi_mask"}) /\ Given({"sport_mask", "dport_mask"}))
             /\ Given({"src_mask", "dst_mask", "spi_mask", "sport_mask", "dport_mask", "proto_mask",
                       "sport", "dport", "spi", "ct"}))
HMARK_save(i) ==
  LET One(id, v) == Put(id \in i.flags, FALSE, id, <<v>>)
  IN One("sport_mask", i.port_mask[1]) \o One("dport_mask", i.port_mask[2]) \o
     One("spi_mask", Whole(i.port_mask)) \o One("sport", i.port_set[1]) \o
     One("dport", i.port_set[2]) \o One("spi", Whole(i.port_set)) \o
     One("proto_mask", i.proto_mask) \o One("rnd", i.rnd) \o One("mod", i.mod) \o
     One("offset", i.offset) \o Put("ct" \in i.flags, FALSE, "hmark_tuple", <<"ct">>)
HMARK_ip4_save(i) ==
  Put("src_mask" \in i.flags, FALSE, "src_mask", <<Cidr(i.src_mask)>>) \o
  Put("dst_mask" \in i.flags, FALSE, "dst_mask", <<Cidr(i.dst_mask)>>) \o HMARK_save(i)
HMARK_ip6_save(i) == HMARK_ip4_save(i)
HMARK_print(i) == Listed(HMARK_ip4_save(i))
HMARK_ip6_print(i) == HMARK_print(i)
------------------------------------------------------------------------------
(* TCPMSS: the greatest number stands for clamping. *)
XT_TCPMSS_CLAMP_PMTU == 65535
TCPMSS4_opts ==
  [set_mss |-> [Stores("UINT16", "mss") EXCEPT !.max = UINT16_MAX - 20],
   clamp_mss_to_pmtu |-> Entry("NONE")]
TCPMSS6_opts == [TCPMSS4_opts EXCEPT !.set_mss.max = UINT16_MAX - 40]
TCPMSS_init == [mss |-> 0]
TCPMSS_parse(c) == IF c.id = "set_mss" THEN c ELSE SetField(c, "mss", XT_TCPMSS_CLAMP_PMTU)
TCPMSS_check(c) == Nothing(c)
TCPMSS_save(i) ==
  IF i.mss = XT_TCPMSS_CLAMP_PMTU THEN Word("clamp_mss_to_pmtu") ELSE Put(TRUE, FALSE, "set_mss", <<i.mss>>)
TCPMSS_print(i) == Listed(TCPMSS_save(i))

(* TCPOPTSTRIP: the option is always saved, without a word after it when   *)
(* no TCP option was given.                                                *)
tcpoptstrip_tg_opts == [strip_options |-> Entry("CUSTOM")]
tcpoptstrip_init == [strip_bmap |-> {}]
parse_list(c, option) ==
  Need([c EXCEPT !.info.strip_bmap = @ \cup {option}],
       c.ok /\ option \in 2 .. UINT8_MAX /\ option \notin c.info.strip_bmap)
tcpoptstrip_tg_parse(c) == IF c.arg = <<>> THEN Refused(c) ELSE FoldLeft(parse_list, c, c.arg)
tcpoptstrip_print_list(i) == SetToSortSeq(i.strip_bmap, <)
tcpoptstrip_tg_save(i) == Put(TRUE, FALSE, "strip_options", tcpoptstrip_print_list(i))
tcpoptstrip_tg_print(i) == Listed(tcpoptstrip_tg_save(i))
------------------------------------------------------------------------------
(* Marks for security modules, the scheduler, the auditor; checksums.      *)
CONNSECMARK_opts ==
  [save |-> [Entry("NONE") EXCEPT !.excl = {"restore"}], restore |-> [Entry("NONE") EXCEPT !.excl = {"save"}]]
CONNSECMARK_init == [mode |-> ""]
CONNSECMARK_parse(c) == SetField(c, "mode", c.id)
CONNSECMARK_check(c) == Nothing(c)
CONNSECMARK_save(i) == Word(i.mode)
CONNSECMARK_print(i) == Listed(CONNSECMARK_save(i))

SECMARK_opts == [selctx |-> [Stores("STRING", "secctx") EXCEPT !.flags = {"MAND"}]]
SECMARK_init == [secctx |-> "", mode |-> ""]
SECMARK_parse(c) == SetField(c, "mode", "selctx")
SECMARK_save(i) == Put(TRUE, FALSE, i.mode, <<i.secctx>>)
SECMARK_print(i) == Listed(SECMARK_save(i))

\* "major:minor"; a part longer than 16 bits loses its high ones
CLASSIFY_opts == [set_class |-> [Entry("CUSTOM") EXCEPT !.flags = {"MAND"}]]
CLASSIFY_init == [priority |-> <<0, 0>>]
CLASSIFY_string_to_priority(arg) == [x \in {1, 2} |-> arg[x] % PortWidth]
CLASSIFY_parse(c) ==
  IF Len(c.arg) # 2 THEN Refused(c) ELSE SetField(c, "priority", CLASSIFY_string_to_priority(c.arg))
CLASSIFY_save(i) == Put(TRUE, FALSE, "set_class", i.priority)
CLASSIFY_print(i) == Listed(CLASSIFY_save(i))

audit_opts == [type |-> [Entry("CUSTOM") EXCEPT !.flags = {"MAND"}]]
audit_init == [type |-> ""]
audit_parse(c) == Need(SetField(c, "type", c.arg[1]), c.arg[1] \in {"accept", "drop", "reject"})
audit_save(i) == Put(TRUE, FALSE, "type", <<i.type>>)
audit_print(i) == Listed(audit_save(i))

CHECKSUM_opts == [checksum_fill |-> [Entry("NONE") EXCEPT !.flags = {"MAND"}]]
CHECKSUM_init == [operation |-> {}]
CHECKSUM_parse(c) == SetField(c, "operation", {"FILL"})
CHECKSUM_save(i) == WordIf("FILL" \in i.operation, "checksum_fill")
CHECKSUM_print(i) == Listed(CHECKSUM_save(i))
------------------------------------------------------------------------------
idletimer_tg_opts ==
  [timeout |-> [Stores("UINT32", "timeout") EXCEPT !.flags = {"MAND"}],
   label |-> [Stores("STRING", "label") EXCEPT !.flags = {"MAND"}, !.size = 4]]  \* 28 characters
idletimer_init == [timeout |-> 0, label |-> ""]
idletimer_tg_save(i) == Put(TRUE, FALSE, "timeout", <<i.timeout>>) \o Put(TRUE, FALSE, "label", <<i.label>>)
idletimer_tg_print(i) == Listed(idletimer_tg_save(i))

(***************************************************************************)
(* LED: the delay is unsigned, so the endless one, all ones, is saved by   *)
(* the branch for a positive delay, as the signed number -1, which the     *)
(* option does not read.                                                   *)
(***************************************************************************)
Endless == UINT32_MAX
MinusOne == -1
LED_opts ==
  [led_trigger_id |-> [Entry("STRING") EXCEPT !.flags = {"MAND"}, !.max = 4],     \* 16 characters
   led_delay |-> Entry("CUSTOM"), led_always_blink |-> Entry("NONE")]
LED_init == [id |-> "", delay |-> 0, always_blink |-> 0]
LED_parse(c) ==
  CASE c.id = "led_trigger_id" -> SetField(c, "id", c.arg[1])
    [] c.id = "led_delay" -> IF c.arg = <<0, "inf">> THEN SetField(c, "delay", Endless)
                             ELSE Need(SetField(c, "delay", c.arg[1]), c.arg[1] >= 0)
    [] c.id = "led_always_blink" -> SetField(c, "always_blink", 1)
LED_save(i) ==
  Put(TRUE, FALSE, "led_trigger_id", <<i.id>>) \o
  Put(i.delay > 0, FALSE, "led_delay", <<IF i.delay = Endless THEN MinusOne ELSE i.delay>>) \o
  WordIf(i.always_blink = 1, "led_always_blink")
LED_print(i) == Listed(LED_save(i)) \cup {<<"led_delay", FALSE>>}

tee_tg_opts ==
  [gateway |-> [Stores("HOST", "gw") EXCEPT !.flags = {"MAND"}],
   oif |-> [Stores("STRING", "oif") EXCEPT !.size = 4]]                           \* 16 characters
tee_init == [gw |-> 0, oif |-> ""]
tee_tg_save(i) == Put(TRUE, FALSE, "gateway", <<i.gw>>) \o PutIf(i, "oif", "", "oif")
tee_tg6_save(i) == tee_tg_save(i)
tee_tg_print(i) == Listed(tee_tg_save(i))
tee_tg6_print(i) == Listed(tee_tg_save(i))
------------------------------------------------------------------------------
(***************************************************************************)
(* CLUSTERIP: all of the options but the hash's seed, or none.  The other  *)
(* options' ".also = O_NEW" names no option: O_NEW is 0.                   *)
(***************************************************************************)
CLUSTERIP_MAX_NODES == 16
CLUSTERIP_opts ==
  [new |-> Entry("NONE"), hashmode |-> Entry("CUSTOM"), clustermac |-> Stores("ETHERMAC", "clustermac"),
   total_nodes |-> [Stores("UINT16", "total_nodes") EXCEPT !.max = CLUSTERIP_MAX_NODES],
   local_node |-> [Stores("UINT16", "local_node") EXCEPT !.max = CLUSTERIP_MAX_NODES],
   hash_init |-> Stores("UINT32", "hash_init")]
CLUSTERIP_init ==
  [flags |-> {}, hashmode |-> "sourceip", clustermac |-> "", total_nodes |-> 0, local_node |-> 0,
   num_local_nodes |-> 0, hash_init |-> 0]
Multicast == {"m1"}                  \* of the addresses that can be typed
CLUSTERIP_parse(c) ==
  CASE c.id = "new" -> Flag(c, "NEW")
    [] c.id = "hashmode" ->
         Need(SetField(c, "hashmode", c.arg[1]),
              c.arg[1] \in {"sourceip", "sourceip-sourceport", "sourceip-sourceport-destport"})
    [] c.id = "clustermac" -> Need(c, c.arg[1] \in Multicast)
    [] c.id = "local_node" -> SetField(c, "num_local_nodes", 1)
    [] OTHER -> c
CLUSTERIP_check(c) ==
  Need(c, c.xflags = {} \/ {"new", "hashmode", "clustermac", "total_nodes", "local_node"} \subseteq c.xflags)
hashmode2str(mode) == mode
CLUSTERIP_save(i) ==
  LET One(id) == Put(TRUE, FALSE, id, <<i[id]>>)
  IN IF "NEW" \notin i.flags THEN <<>>
     ELSE Word("new") \o One("hashmode") \o One("clustermac") \o One("total_nodes") \o
          One("local_node") \o One("hash_init")
CLUSTERIP_print(i) == Listed(CLUSTERIP_save(i)) \ {<<"new", FALSE>>}
=============================================================================
