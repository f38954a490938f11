----------------------------- MODULE PacketTargets -----------------------------
(***************************************************************************)
(* The targets that mark, log, queue or change a packet without            *)
(* translating its addresses.                                              *)
(***************************************************************************)
EXTENDS NatTargets

Stores(type, field) == [Entry(type) EXCEPT !.put = field]
SetField(c, f, v) == [c EXCEPT !.info[f] = v]
PutIf(i, f, default, id) == Put(i[f] # default, FALSE, id, <<i[f]>>)
Nothing(c) == Need(c, c.xflags # {})
------------------------------------------------------------------------------
(* LOG, for both families: the level's default, 4, is not saved. *)
LOG_DEFAULT_LEVEL == 4
LogFlags == <<"log_tcp_sequence", "log_tcp_options", "log_ip_options", "log_uid", "log_macdecode">>
LOG_opts ==
  [log_level |-> Stores("SYSLOGLEVEL", "level"),
   log_prefix |-> [Stores("STRING", "prefix") EXCEPT !.min = 1, !.size = 4],   \* 30 characters
   log_tcp_sequence |-> Entry("NONE"), log_tcp_options |-> Entry("NONE"),
   log_ip_options |-> Entry("NONE"), log_uid |-> Entry("NONE"), log_macdecode |-> Entry("NONE")]
LOG_init == [level |-> LOG_DEFAULT_LEVEL, prefix |-> "", flags |-> {}]
LOG_parse(c) == IF c.id \in ToSet(LogFlags) THEN Flag(c, c.id) ELSE c
LOG_save(i) ==
  PutIf(i, "prefix", "", "log_prefix") \o PutIf(i, "level", LOG_DEFAULT_LEVEL, "log_level") \o
  FlattenSeq([x \in DOMAIN LogFlags |-> WordIf(LogFlags[x] \in i.flags, LogFlags[x])])
LOG_print(i) == Listed(LOG_save(i)) \cup {<<"log_level", FALSE>>}
LOG6_opts == LOG_opts
LOG6_init == LOG_init
LOG6_parse(c) == LOG_parse(c)
LOG6_save(i) == LOG_save(i)
LOG6_print(i) == LOG_print(i)

(* ULOG keeps its group as a bit, NFLOG as a number. *)
ULOG_opts ==
  [ulog_nlgroup |-> [Entry("UINT8") EXCEPT !.min = 1, !.max = 32],
   ulog_prefix |-> [Stores("STRING", "prefix") EXCEPT !.min = 1, !.size = 4],
   ulog_cprange |-> Entry("UINT64"),
   ulog_qthreshold |-> [Entry("UINT64") EXCEPT !.min = 1, !.max = 50]]
ULOG_init == [nl_group |-> {1}, prefix |-> "", copy_range |-> 0, qthreshold |-> 1]
ULOG_parse(c) ==
  CASE c.id = "ulog_nlgroup" -> SetField(c, "nl_group", {c.val[1]})
    [] c.id = "ulog_cprange" -> SetField(c, "copy_range", c.val[1])
    [] c.id = "ulog_qthreshold" -> SetField(c, "qthreshold", c.val[1])
    [] OTHER -> c
ffs(bits) == CHOOSE b \in bits : \A other \in bits : b <= other
ULOG_save(i) ==
  PutIf(i, "prefix", "", "ulog_prefix") \o
  Put(i.nl_group # {1}, FALSE, "ulog_nlgroup", <<ffs(i.nl_group)>>) \o
  PutIf(i, "copy_range", 0, "ulog_cprange") \o PutIf(i, "qthreshold", 1, "ulog_qthreshold")
ULOG_print(i) ==
  Listed(ULOG_save(i)) \cup {<<"ulog_cprange", FALSE>>, <<"ulog_nlgroup", FALSE>>, <<"ulog_qthreshold", FALSE>>}

NFLOG_opts ==
  [nflog_group |-> Stores("UINT16", "group"),
   nflog_prefix |-> [Stores("STRING", "prefix") EXCEPT !.min = 1, !.size = 4],
   nflog_range |-> Stores("UINT32", "len"), nflog_threshold |-> Stores("UINT16", "threshold")]
NFLOG_init == [group |-> 0, prefix |-> "", len |-> 0, threshold |-> 0]
nflog_print(i) ==
  PutIf(i, "prefix", "", "nflog_prefix") \o PutIf(i, "group", 0, "nflog_group") \o
  PutIf(i, "len", 0, "nflog_range") \o PutIf(i, "threshold", 0, "nflog_threshold")
NFLOG_save(i) == nflog_print(i)
NFLOG_print(i) == Listed(nflog_print(i))
------------------------------------------------------------------------------
(***************************************************************************)
(* REJECT: the argument is a prefix of a name or of its alias; the first   *)
(* row it fits is taken, and the row's name is saved.                      *)
(***************************************************************************)
reject_table ==
  <<<<"icmp-net-unreachable", "net-unreach">>, <<"icmp-host-unreachable", "host-unreach">>,
    <<"icmp-proto-unreachable", "proto-unreach">>, <<"icmp-port-unreachable", "port-unreach">>,
    <<"icmp-net-prohibited", "net-prohib">>, <<"icmp-host-prohibited", "host-prohib">>,
    <<"tcp-reset", "tcp-rst">>, <<"icmp-admin-prohibited", "admin-prohib">>>>
reject_table6 ==
  <<<<"icmp6-no-route", "no-route">>, <<"icmp6-adm-prohibited", "adm-prohibited">>,
    <<"icmp6-addr-unreachable", "addr-unreach">>,
    <<"icmp6-port-unreachable", "port-unreach">>, <<"tcp-reset", "tcp-reset">>>>
REJECT_opts == [reject_with |-> Entry("CUSTOM")]
REJECT6_opts == REJECT_opts
REJECT_init == [with |-> 4]
REJECT6_init == [with |-> 4]
Abbreviates(arg, name) == Len(arg) <= Len(name) /\ SubSeq(name, 1, Len(arg)) = arg
Fitting(table, arg) == {x \in DOMAIN table : \E y \in DOMAIN table[x] : Abbreviates(arg, table[x][y])}
FirstFit(table, c) ==
  LET rows == Fitting(table, c.arg[1])
  IN IF rows = {} THEN Refused(c) ELSE SetField(c, "with", ffs(rows))
REJECT_parse(c) == FirstFit(reject_table, c)
REJECT6_parse(c) == FirstFit(reject_table6, c)
REJECT_save(i) == Put(TRUE, FALSE, "reject_with", <<reject_table[i.with][1]>>)
REJECT6_save(i) == Put(TRUE, FALSE, "reject_with", <<reject_table6[i.with][1]>>)
REJECT_print(i) == Listed(REJECT_save(i))
REJECT6_print(i) == Listed(REJECT6_save(i))
------------------------------------------------------------------------------
(***************************************************************************)
(* CT.  Revision 1 adds --timeout; in revision 2 the target also goes by   *)
(* the name NOTRACK, with no options.                                      *)
(***************************************************************************)
ct_opts ==
  [notrack |-> Entry("NONE"), helper |-> Stores("STRING", "helper"), ctevents |-> Entry("CUSTOM"),
   expevents |-> Entry("CUSTOM"), zone |-> Stores("UINT16", "zone")]
ct_opts_v1 == [timeout |-> Stores("STRING", "timeout")] @@ ct_opts
ct_init == [flags |-> {}, helper |-> "", ctevents |-> {}, expevents |-> {}, zone |-> 0]
ct_init_v1 == [timeout |-> ""] @@ ct_init
ct_event_tbl ==
  {"new", "related", "destroy", "reply", "assured", "protoinfo", "helper", "mark", "natseqinfo", "secmark"}
exp_event_tbl == {"new"}
ct_parse_events(c, tbl) == Need(SetField(c, c.id, c.arg[1]), c.arg[1] \subseteq tbl)
ct_parse(c) ==
  CASE c.id = "notrack" -> Flag(c, "NOTRACK")
    [] c.id = "ctevents" -> ct_parse_events(c, ct_event_tbl)
    [] c.id = "expevents" -> ct_parse_events(c, exp_event_tbl)
    [] OTHER -> c
ct_parse_v1(c) == ct_parse(c)
ct_save(i) ==
  WordIf("NOTRACK" \in i.flags, "notrack") \o PutIf(i, "helper", "", "helper") \o
  PutIf(i, "ctevents", {}, "ctevents") \o PutIf(i, "expevents", {}, "expevents") \o
  PutIf(i, "zone", 0, "zone")
ct_save_v1(i) ==
  IF "NOTRACK_ALIAS" \in i.flags THEN <<>>
  ELSE PutIf(i, "timeout", "", "timeout") \o ct_save(i)
ct_print(i) == Listed(ct_save(i))
ct_print_v1(i) == Listed(ct_save_v1(i))
notrack_ct0_tg_init == [ct_init EXCEPT !.flags = {"NOTRACK"}]
notrack_ct1_tg_init == [ct_init_v1 EXCEPT !.flags = {"NOTRACK"}]
notrack_ct2_tg_init == [ct_init_v1 EXCEPT !.flags = {"NOTRACK", "NOTRACK_ALIAS"}]
------------------------------------------------------------------------------
(***************************************************************************)
(* NFQUEUE: all revisions have one option table; each parse function calls *)
(* the one of the revision before it.                                      *)
(***************************************************************************)
NFQUEUE_opts ==
  [queue_num |-> [Stores("UINT16", "queuenum") EXCEPT !.excl = {"queue_balance"}],
   queue_balance |-> [Entry("UINT16RC") EXCEPT !.excl = {"queue_num"}],
   queue_bypass |-> Entry("NONE"),
   queue_cpu_fanout |-> [Entry("NONE") EXCEPT !.also = {"queue_balance"}]]
NFQUEUE_init == [queuenum |-> 0]
NFQUEUE_init_v1 == [queuenum |-> 0, queues_total |-> 1]
NFQUEUE_init_v2 == [queuenum |-> 0, queues_total |-> 1, flags |-> {}]
NFQUEUE_parse(c) == Need(c, c.id # "queue_balance")
NFQUEUE_parse_v1(c) ==
  IF c.id # "queue_balance" THEN c
  ELSE IF c.nvals # 2 \/ c.val[1] >= c.val[2] THEN Refused(c)
  ELSE [c EXCEPT !.info.queuenum = c.val[1],
                 !.info.queues_total = (c.val[2] - c.val[1] + 1) % 2 ^ 16]
\* info->bypass = 1: in revision 3 the field is the flags'
NFQUEUE_parse_v2(c) ==
  LET d == NFQUEUE_parse_v1(c) IN IF c.id = "queue_bypass" THEN SetField(d, "flags", {"bypass"}) ELSE d
NFQUEUE_parse_v3(c) ==
  LET d == NFQUEUE_parse_v2(c) IN IF c.id = "queue_cpu_fanout" THEN Flag(d, "CPU_FANOUT") ELSE d
NFQUEUE_save(i) == Put(TRUE, FALSE, "queue_num", <<i.queuenum>>)
NFQUEUE_save_v1(i) ==
  IF i.queues_total > 1
  THEN Put(TRUE, FALSE, "queue_balance", <<i.queuenum, i.queuenum + i.queues_total - 1>>)
  ELSE NFQUEUE_save(i)
NFQUEUE_save_v2(i) == NFQUEUE_save_v1(i) \o WordIf("bypass" \in i.flags, "queue_bypass")
NFQUEUE_save_v3(i) == NFQUEUE_save_v2(i) \o WordIf("CPU_FANOUT" \in i.flags, "queue_cpu_fanout")
NFQUEUE_print(i) == Listed(NFQUEUE_save(i))
NFQUEUE_print_v1(i) == Listed(NFQUEUE_save_v1(i))
NFQUEUE_print_v2(i) == Listed(NFQUEUE_save_v2(i))
NFQUEUE_print_v3(i) == Listed(NFQUEUE_save_v3(i))
------------------------------------------------------------------------------
(* TTL and HL: one of three changes, all stored in one field. *)
hop_opts(p) ==
  LET all == {p \o "_set", p \o "_dec", p \o "_inc"}
  IN [o \in all |-> [Stores("UINT8", "value") EXCEPT !.excl = all,
                                                    !.min = IF o = p \o "_set" THEN 0 ELSE 1]]
TTL_opts == hop_opts("ttl")
HL_opts == hop_opts("hl")
TTL_init == [mode |-> "ttl_set", value |-> 0]
HL_init == [mode |-> "hl_set", value |-> 0]
TTL_parse(c) == SetField(c, "mode", c.id)
HL_parse(c) == SetField(c, "mode", c.id)
TTL_check(c) == Nothing(c)
HL_check(c) == Nothing(c)
TTL_save(i) == Put(TRUE, FALSE, i.mode, <<i.value>>)
HL_save(i) == TTL_save(i)
TTL_print(i) == Listed(TTL_save(i))
HL_print(i) == Listed(TTL_save(i))
------------------------------------------------------------------------------
(***************************************************************************)
(* ECN: --ecn-tcp-remove assigns the operations, the others add to them.   *)
(***************************************************************************)
Bounded(type, max) == [Entry(type) EXCEPT !.max = max]
ECN_opts ==
  [ecn_tcp_remove |-> [Entry("NONE") EXCEPT !.excl = {"ecn_tcp_cwr", "ecn_tcp_ece"}],
   ecn_tcp_cwr |-> [Bounded("UINT8", 1) EXCEPT !.excl = {"ecn_tcp_remove"}],
   ecn_tcp_ece |-> [Bounded("UINT8", 1) EXCEPT !.excl = {"ecn_tcp_remove"}],
   ecn_ip_ect |-> Bounded("UINT8", 3)]
ECN_init == [flags |-> {}, ecn_tcp_cwr |-> 0, ecn_tcp_ece |-> 0, ecn_ip_ect |-> 0]
TcpBits == {"ecn_tcp_ece", "ecn_tcp_cwr"}
ECN_parse(c) ==
  IF c.id = "ecn_tcp_remove"
  THEN [c EXCEPT !.info.flags = TcpBits, !.info.ecn_tcp_cwr = 0, !.info.ecn_tcp_ece = 0]
  ELSE Flag(SetField(c, c.id, c.val[1]), c.id)
ECN_check(c) == Nothing(c)
ECN_save(i) ==
  IF i.flags = TcpBits /\ i.ecn_tcp_ece = 0 /\ i.ecn_tcp_cwr = 0 THEN Word("ecn_tcp_remove")
  ELSE LET Bit(id) == Put(id \in i.flags, FALSE, id, <<i[id]>>)
       IN Bit("ecn_tcp_ece") \o Bit("ecn_tcp_cwr") \o Bit("ecn_ip_ect")
ECN_print(i) == Listed(ECN_save(i))
------------------------------------------------------------------------------
(* DSCP: a class is a number by another name; a class's name may be longer *)
(* than the name it is found under.                                        *)
ds_classes == <<<<"CS0", 0>>, <<"CS1", 8>>, <<"BE", 0>>, <<"AF11", 10>>, <<"AF12", 12>>, <<"EF", 46>>>>
class_to_dscp(name) == {ds_classes[x][2] : x \in {y \in DOMAIN ds_classes : Abbreviates(ds_classes[y][1], name)}}
DSCP_opts ==
  [set_dscp |-> [Bounded("UINT8", 63) EXCEPT !.put = "dscp", !.excl = {"set_dscp_class"}],
   set_dscp_class |-> [Entry("CUSTOM") EXCEPT !.excl = {"set_dscp"}]]
DSCP_init == [dscp |-> 0]
DSCP_parse(c) ==
  IF c.id = "set_dscp" THEN c
  ELSE IF class_to_dscp(c.arg[1]) = {} THEN Refused(c)
  ELSE SetField(c, "dscp", ffs(class_to_dscp(c.arg[1])))
DSCP_check(c) == Nothing(c)
DSCP_save(i) == Put(TRUE, FALSE, "set_dscp", <<i.dscp>>)
DSCP_print(i) == Listed(DSCP_save(i))
------------------------------------------------------------------------------
(* TPROXY always saves all it has. *)
tproxy_tg0_opts ==
  [on_port |-> [Stores("PORT", "lport") EXCEPT !.flags = {"MAND", "NBO"}], on_ip |-> Entry("HOST"),
   tproxy_mark |-> Entry("MARKMASK32")]
tproxy_tg1_opts == [tproxy_tg0_opts EXCEPT !.on_ip.put = "laddr"]
tproxy_init == [lport |-> 0, laddr |-> 0, mark_value |-> 0, mark_mask |-> 0]
tproxy_tg1_parse(c) ==
  IF c.id = "tproxy_mark" THEN [c EXCEPT !.info.mark_value = c.val[1], !.info.mark_mask = c.val[2]] ELSE c
tproxy_tg0_parse(c) == IF c.id = "on_ip" THEN SetField(c, "laddr", c.val[1]) ELSE tproxy_tg1_parse(c)
tproxy_tg_save(i) ==
  Put(TRUE, FALSE, "on_port", <<htons(i.lport)>>) \o Put(TRUE, FALSE, "on_ip", <<i.laddr>>) \o
  Put(TRUE, FALSE, "tproxy_mark", <<i.mark_value, i.mark_mask>>)
tproxy_tg_save4(i) == tproxy_tg_save(i)
tproxy_tg_save6(i) == tproxy_tg_save(i)
tproxy_tg_print(i) == Listed(tproxy_tg_save(i))
tproxy_tg_print4(i) == Listed(tproxy_tg_save(i))
tproxy_tg_print6(i) == Listed(tproxy_tg_save(i))
=============================================================================
